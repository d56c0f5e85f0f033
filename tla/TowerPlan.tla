----------------------------- MODULE TowerPlan -----------------------------
(***************************************************************************)
(* modules/tower/store.ts and tools.ts: the missions of a tower from boot  *)
(* to teardown.  The tower plans missions with scopes and dependencies,    *)
(* spawns a worktree for each, workers edit and commit, merges mark them   *)
(* merged, and a teardown removes the worktrees before it clears the       *)
(* namespace.  The server may be killed between any two awaits.            *)
(*                                                                         *)
(* Every board write is one step; teardown and spawn are chains of awaits. *)
(* A scope is one path stem, a row of segments.  The merge gate is         *)
(* TowerGate's, of which only the dependencies appear here; the roster and *)
(* the guard mirror are TowerCrew's, the CI runs TowerCi's, the waits      *)
(* TowerWait's.                                                            *)
(*                                                                         *)
(* Careful: the tower plans and spawns nothing while it tears down.        *)
(*                                                                         *)
(* A definition X_Y is X as a plausible bug would have it.                 *)
(***************************************************************************)
EXTENDS Naturals, SequencesExt

CONSTANTS
  Batches,        (* the plan calls: rows of [stem, kind, deps]            *)
  Stems,          (* the stems the tower may give a mission later          *)
  Careful,
  MaxMissions     (* bound                                                 *)

Ids == 1..MaxMissions

VARIABLES
  booted,     (* the state document is on the board                        *)
  missions,   (* the mission documents, in plan order                      *)
  tree,       (* a slot's worktree: none, clean, links (no more than links *)
              (* in its root are uncommitted), or dirty                    *)
  spawn,      (* the spawn in flight: its mission and how far it is        *)
  down,       (* the teardown in flight                                    *)
  reopened,   (* a merged mission has been taken up again                  *)
  lost        (* a worktree with uncommitted work was removed without      *)
              (* force                                                     *)

vars == <<booted, missions, tree, spawn, down, reopened, lost>>

NoSpawn == [at |-> "idle", m |-> 0]
NoTeardown == [at |-> "idle", m |-> 0, n |-> 0, force |-> FALSE, kept |-> FALSE]

Init ==
  /\ booted = FALSE /\ missions = <<>>
  /\ tree = [m \in Ids |-> "none"]
  /\ spawn = NoSpawn /\ down = NoTeardown
  /\ reopened = FALSE /\ lost = FALSE

Known == DOMAIN missions
Merged(m) == m \in Known /\ missions[m].status = "merged"

(* ---------------------------------------------------------------------- *)
(* Boot and plan                                                           *)

Boot ==
  /\ ~booted /\ booted' = TRUE
  /\ UNCHANGED <<missions, tree, spawn, down, reopened, lost>>

(* assertScopesDisjoint: surveys reserve nothing, a stem covers what is    *)
(* under it.                                                               *)
Overlap(j, k) ==
  /\ j.kind = "build" /\ k.kind = "build"
  /\ IsPrefix(j.stem, k.stem) \/ IsPrefix(k.stem, j.stem)

(* Of the missions js those at these places.                               *)
ScopesDisjoint(js, places) == \A i, k \in places : i # k => ~Overlap(js[i], js[k])

Reserves_Started(j) == j.status = "active"
(* Merged missions are history, all others keep their scope.               *)
Reserves(j) == j.status # "merged"
Reserving == {i \in Known : Reserves(missions[i])}

Doc(j) == [stem |-> j.stem, kind |-> j.kind, deps |-> j.deps, status |-> "planned"]

Free == ~Careful \/ down.at = "idle"

Plan(batch) ==
  LET all == missions \o [i \in DOMAIN batch |-> Doc(batch[i])] IN
  /\ booted /\ Free
  /\ Len(all) <= MaxMissions
  /\ \A i \in DOMAIN batch : batch[i].deps \subseteq DOMAIN all
  /\ ScopesDisjoint(all, Reserving \cup (DOMAIN all \ Known))
  /\ missions' = all
  /\ UNCHANGED <<booted, tree, spawn, down, reopened, lost>>

(* ---------------------------------------------------------------------- *)
(* updateMission and saveMissionStatus                                     *)

SetStatus(m, s) ==
  /\ m \in Known /\ missions[m].status # s
  /\ missions' = [missions EXCEPT ![m].status = s]

(* The owner or the tower moves a mission; nothing guards the transition.  *)
Patch(m) ==
  /\ \E s \in {"active", "merged"} : SetStatus(m, s)
  /\ reopened' = (reopened \/ Merged(m))
  /\ UNCHANGED <<booted, tree, spawn, down, lost>>

(* The tower replaces a scope: it joins the others that are not merged.    *)
Rescope(m, stem) ==
  /\ m \in Known /\ stem # missions[m].stem
  /\ missions' = [missions EXCEPT ![m].stem = stem]
  /\ ScopesDisjoint(missions', Reserving \cup {m})
  /\ UNCHANGED <<booted, tree, spawn, down, reopened, lost>>

DepsMerged(m) == \A d \in missions[m].deps : Merged(d)

Merge(m) ==
  /\ m \in Known /\ DepsMerged(m) /\ SetStatus(m, "merged")
  /\ UNCHANGED <<booted, tree, spawn, down, reopened, lost>>

(* ---------------------------------------------------------------------- *)
(* moa_tower_spawn of a worker: worktree, then mission                     *)

(* Whatever the mission's status is: a merged one is taken up again.       *)
AskSpawn(m) ==
  /\ booted /\ Free /\ m \in Known /\ spawn.at = "idle"
  /\ spawn' = [at |-> "tree", m |-> m]
  /\ UNCHANGED <<booted, missions, tree, down, reopened, lost>>

(* addWorktree: a worktree that is there already will do; any other        *)
(* failure ends the spawn.                                                 *)
AddWorktree ==
  /\ spawn.at = "tree"
  /\ \/ /\ tree' = [tree EXCEPT ![spawn.m] = IF @ = "none" THEN "clean" ELSE @]
        /\ spawn' = [spawn EXCEPT !.at = "activate"]
     \/ tree' = tree /\ spawn' = NoSpawn
  /\ UNCHANGED <<booted, missions, down, reopened, lost>>

Activate ==
  /\ spawn.at = "activate" /\ spawn' = NoSpawn
  /\ IF spawn.m \in Known
     THEN /\ missions' = [missions EXCEPT ![spawn.m].status = "active"]
          /\ reopened' = (reopened \/ Merged(spawn.m))
     ELSE UNCHANGED <<missions, reopened>>
  /\ UNCHANGED <<booted, tree, down, lost>>

(* ---------------------------------------------------------------------- *)
(* The workers                                                             *)

Edit(m) ==
  /\ \/ tree[m] = "clean" /\ tree' = [tree EXCEPT ![m] = "links"]
     \/ tree[m] \in {"clean", "links"} /\ tree' = [tree EXCEPT ![m] = "dirty"]
  /\ UNCHANGED <<booted, missions, spawn, down, reopened, lost>>

Uncommitted(m) == tree[m] \in {"links", "dirty"}

Commit(m) ==
  /\ Uncommitted(m) /\ tree' = [tree EXCEPT ![m] = "clean"]
  /\ UNCHANGED <<booted, missions, spawn, down, reopened, lost>>

(* ---------------------------------------------------------------------- *)
(* Teardown                                                                *)

StartTeardown(force) ==
  /\ booted /\ down.at = "idle" /\ (Careful => spawn.at = "idle")
  /\ down' = [at |-> "look", m |-> 1, n |-> Len(missions), force |-> force, kept |-> FALSE]
  /\ UNCHANGED <<booted, missions, tree, spawn, reopened, lost>>

NextTree(kept) == [down EXCEPT !.at = "look", !.m = @ + 1, !.kept = @ \/ kept]

(* One mission: is there a worktree, is it dirty?  A `git status' that      *)
(* fails says no.                                                          *)
Look ==
  /\ down.at = "look" /\ down.m <= down.n
  /\ \/ tree[down.m] = "none" /\ down' = NextTree(FALSE)
     \/ Uncommitted(down.m) /\ ~down.force /\ down' = NextTree(TRUE)
     \/ tree[down.m] # "none" /\ down' = [down EXCEPT !.at = "unlink"]
  /\ UNCHANGED <<booted, missions, tree, spawn, reopened, lost>>

(* unlinkRootLinks: the links in the root go, forced or not, committed or  *)
(* not (git then misses those that are); one may resist.                   *)
UnlinkRoot ==
  LET m == down.m IN
  /\ down.at = "unlink" /\ down' = [down EXCEPT !.at = "remove"]
  /\ \/ UNCHANGED tree
     \/ tree[m] = "links" /\ tree' = [tree EXCEPT ![m] = "clean"]
     \/ tree[m] \in {"clean", "links"} /\ tree' = [tree EXCEPT ![m] = "dirty"]
  /\ UNCHANGED <<booted, missions, spawn, reopened, lost>>

RemoveForced_Always == TRUE
(* The flag worktreeRemove gives to git, which refuses a dirty tree else.  *)
RemoveForced == down.force

(* git may refuse; a removal that cannot be logged counts as refused.      *)
RemoveTree ==
  LET m == down.m IN
  /\ down.at = "remove"
  /\ \/ /\ ~Uncommitted(m) \/ RemoveForced
        /\ tree' = [tree EXCEPT ![m] = "none"]
        /\ lost' = (lost \/ (Uncommitted(m) /\ ~down.force))
        /\ \E unlogged \in BOOLEAN : down' = NextTree(unlogged)
     \/ down' = NextTree(TRUE) /\ UNCHANGED <<tree, lost>>
  /\ UNCHANGED <<booted, missions, spawn, reopened>>

ClearsAfter_Any(kept) == TRUE
(* The namespace goes only if every worktree has gone.                     *)
ClearsAfter(kept) == ~kept

EndTeardown ==
  /\ down.at = "look" /\ down.m > down.n
  /\ down' = IF ClearsAfter(down.kept) THEN [down EXCEPT !.at = "clear"] ELSE NoTeardown
  /\ UNCHANGED <<booted, missions, tree, spawn, reopened, lost>>

Clear ==
  /\ down.at = "clear" /\ down' = NoTeardown
  /\ booted' = FALSE /\ missions' = <<>> /\ reopened' = FALSE
  /\ UNCHANGED <<tree, spawn, lost>>

Crash ==
  /\ spawn # NoSpawn \/ down # NoTeardown
  /\ spawn' = NoSpawn /\ down' = NoTeardown
  /\ UNCHANGED <<booted, missions, tree, reopened, lost>>

(* ---------------------------------------------------------------------- *)

TowerStep ==
  \/ Boot \/ (\E b \in Batches : Plan(b)) \/ AddWorktree \/ Activate
  \/ (\E f \in BOOLEAN : StartTeardown(f)) \/ Look \/ UnlinkRoot
  \/ RemoveTree \/ EndTeardown \/ Clear \/ Crash

MissionStep(m) ==
  \/ Patch(m) \/ Merge(m) \/ AskSpawn(m) \/ Edit(m) \/ Commit(m)
  \/ \E s \in Stems : Rescope(m, s)

Next ==
  \/ TowerStep
  \/ \E m \in Ids : MissionStep(m)

Spec == Init /\ [][Next]_vars

(* ---------------------------------------------------------------------- *)
(* Properties                                                              *)

(* plan and updateMission: no two build missions that are under way share  *)
(* a path, as long as nobody takes a merged mission up again.              *)
NoSharedScope ==
  ~reopened => ScopesDisjoint(missions, Reserving)

(* teardown: whatever the look at a worktree has said, and whenever it is  *)
(* edited, none that holds uncommitted work is removed without force; a    *)
(* link in its root that is not committed may be gone by then, for         *)
(* unlinkRootLinks asks nobody.  A namespace that is cleared leaves no     *)
(* worktree behind.                                                        *)
TeardownIsSafe ==
  /\ ~lost
  /\ ~booted => \A m \in Ids : tree[m] = "none"
=============================================================================
