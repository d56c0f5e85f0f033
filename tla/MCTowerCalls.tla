---------------------------- MODULE MCTowerCalls ---------------------------
(* The long calls of a tower, its waits and its CI runs, side by side: the *)
(* two share no variable here, so each behaviour moves only one of them,   *)
(* the part chosen at the start, and the run checks both as two runs would.*)
EXTENDS Naturals

CONSTANTS None, MaxWrites, MaxCommits, Trees, MaxRuns, Missions, Deps

ASSUME RunsAssumption == MaxRuns \in Nat
(* The deps of a mission are missions of the plan: it is checked when the  *)
(* plan is made (store.ts:1488).                                           *)
ASSUME DepsAssumption == Deps \in [Missions -> SUBSET Missions]

VARIABLES
  part,
  status, record, tip, mail, stamp, reopened, wait,
  asked, stage, on, commit, behind, green, chain, pruned, head, tree, result

(* Of three missions, the last depends on the two others.                  *)
MCDeps == <<{}, {}, {1, 2}>>

Wt == INSTANCE TowerWait
Ci == INSTANCE TowerCi WITH tip <- head, record <- result

waitVars == <<status, record, tip, mail, stamp, reopened, wait>>
ciVars == <<asked, stage, on, commit, behind, green, chain, pruned, head, tree, result>>
vars == <<part, waitVars, ciVars>>

Init == part \in {"wait", "ci"} /\ Wt!Init /\ Ci!Init

Next ==
  /\ part' = part
  /\ \/ part = "wait" /\ Wt!Next /\ UNCHANGED ciVars
     \/ part = "ci" /\ Ci!Next /\ UNCHANGED waitVars

Spec == Init /\ [][Next]_vars /\ Wt!Fairness /\ Ci!Fairness

(* TowerWait's and TowerCi's properties.                                   *)
AnswersAreTrue == Wt!AnswersAreTrue
OneCommandAtATime == Ci!OneCommandAtATime
CallsSettle == Wt!WaitersHear /\ Ci!EveryRunSettles
=============================================================================
