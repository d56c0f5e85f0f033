---------------------------- MODULE MCTowerGate ----------------------------
(***************************************************************************)
(* An instance of TowerGate: m2 depends on m1, the tower may review both,  *)
(* one reviewer is assigned to m2.  Of the files outside the scopes m1     *)
(* moves f2 into its own; m2 changes f1, and then moves f2, or puts f1 back. *)
(***************************************************************************)
EXTENDS TowerGate

CONSTANTS m1, m2, tower, reviewer, f1, f2

MCDeps == [m \in Missions |-> IF m = m2 THEN {m1} ELSE {}]
MCAssigned == [r \in Reviewers |-> IF r = tower THEN Missions ELSE {m2}]
MCKinds == {k \in [Missions -> {"build", "survey"}] : k[m2] = "build"}
MCSurveyFirst == {[m \in Missions |-> IF m = m2 THEN "build" ELSE "survey"]}
MCEdited == {<<m2, 1, f1>>, <<m2, 2, f1>>}
MCEditedOnce == {<<m2, 1, f1>>}
MCMoved == {<<m1, 1, f2>>, <<m1, 2, f2>>, <<m2, 2, f2>>}
=============================================================================
