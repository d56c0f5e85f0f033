---------------------------- MODULE MCTowerCamp ----------------------------
(* The merge gate, the missions and the crew of a tower, side by side:     *)
(* they share no variable here, so each behaviour moves only one of them,  *)
(* the part chosen at the start, and the run checks the three as three     *)
(* runs would.                                                             *)
EXTENDS MCTowerGate, TLC

CONSTANTS
  MaxMissions, Batches, Stems, Paths,      (* TowerPlan; all paths there are *)
  Names, Slug, Agents, Children            (* TowerCrew                    *)

ASSUME MissionsAssumption ==
  /\ MaxMissions \in Nat
  /\ Stems \subseteq Paths
  /\ Batches \subseteq Seq([stem : Paths, kind : {"build", "survey"}, deps : SUBSET (1..MaxMissions)])
ASSUME RosterAssumption ==
  None \notin [agent : Agents \cup {None}, verified : BOOLEAN, checked : BOOLEAN]

VARIABLES
  part,
  booted, missions, tree, spawn, down, reopened, lost,
  manned, roster, mirror, open, behind

(* Three missions at most: a first one on src; then one on a part of src,  *)
(* which must wait for it or for its new scope, and a survey of the whole  *)
(* that needs both.                                                        *)
Job(s, k, d) == [stem |-> s, kind |-> k, deps |-> d]
MCBatches ==
  { <<Job(<<"src">>, "build", {})>>,
    <<Job(<<"src", "web">>, "build", {1}), Job(<<"src">>, "survey", {1, 2})>> }
MCStems == {<<"docs">>}
MCPaths == {<<"src">>, <<"src", "web">>, <<"docs">>}

Pl == INSTANCE TowerPlan WITH Careful <- TRUE

(* Two names that have one slug, and a third one.                          *)
MCSlug == ("Reviewer A" :> 1) @@ ("reviewer-a" :> 1) @@ ("worker" :> 2)
MCNames == DOMAIN MCSlug

Cr == INSTANCE TowerCrew WITH booted <- manned, call <- open

planVars == <<booted, missions, tree, spawn, down, reopened, lost>>
crewVars == <<manned, roster, mirror, open, behind>>
campVars == <<part, vars, planVars, crewVars>>

CampInit ==
  /\ part \in {"gate", "plan", "crew"}
  /\ Init /\ Pl!Init /\ Cr!Init
  /\ part # "gate" => kind \in MCSurveyFirst /\ ~ciOn

CampNext ==
  /\ part' = part
  /\ \/ part = "gate" /\ Next /\ UNCHANGED <<planVars, crewVars>>
     \/ part = "plan" /\ Pl!Next /\ UNCHANGED <<vars, crewVars>>
     \/ part = "crew" /\ Cr!Next /\ UNCHANGED <<vars, planVars>>

CampSpec == CampInit /\ [][CampNext]_campVars

(* TowerPlan's and TowerCrew's properties.                                 *)
PlanIsSound == Pl!NoSharedScope /\ Pl!TeardownIsSafe
CrewIsSound == Cr!NamesDistinct /\ Cr!MirrorIsCurrent /\ Cr!VerifiedIsChild
=============================================================================
