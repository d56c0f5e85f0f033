------------------------------ MODULE TowerCi ------------------------------
(***************************************************************************)
(* modules/tower/store.ts: the CI runs of the missions' worktrees.         *)
(* moa_tower_ci answers as soon as the run is chained; the command starts  *)
(* when the run before it on the same worktree has settled.  The chain is  *)
(* a map that holds, for each worktree, the promise of the last run: a new *)
(* run reads it, chains itself behind it and takes its place, and a run    *)
(* that settles removes the entry if it is still its own.  TowerGate takes *)
(* all this to be one queue.                                               *)
(*                                                                         *)
(* The runs are numbered in the order in which the tool is called.  The    *)
(* continuations of a settled promise (the run behind it, the removal of   *)
(* its entry) are taken in any order.                                      *)
(*                                                                         *)
(* A definition X_Y is X as a plausible bug would have it.                 *)
(***************************************************************************)
EXTENDS Naturals

CONSTANTS
  Trees,                  (* the worktrees, each with its mission's branch *)
  None,
  MaxRuns, MaxCommits     (* bounds                                        *)

Runs == 1..MaxRuns

VARIABLES
  asked,      (* how many runs have been asked for                         *)
  stage,      (* of a run: idle; asked, or dirty and refused; queued,      *)
              (* running, hung if its output is held, exited; settled, or  *)
              (* failed if its record is lost                              *)
  on, commit, (* the run's worktree; the tip it captured                   *)
  behind,     (* the run whose promise it is chained on, 0 if none         *)
  green,      (* the command's exit code was 0                             *)
  chain,      (* ciRunChains: a worktree's last run, 0 if no entry         *)
  pruned,     (* the runs whose removal has been taken                     *)
  tip,        (* git: the tip of the worktree's branch                     *)
  tree,       (* clean, edited by the worker, or littered by a command     *)
  record      (* the ci/<branch> record                                    *)

run == <<stage, on, commit, behind, green>>
vars == <<asked, run, chain, pruned, tip, tree, record>>

Init ==
  /\ asked = 0
  /\ stage = [r \in Runs |-> "idle"] /\ on = [r \in Runs |-> None]
  /\ commit = [r \in Runs |-> 0] /\ behind = [r \in Runs |-> 0]
  /\ green = [r \in Runs |-> FALSE]
  /\ chain = [t \in Trees |-> 0] /\ pruned = {}
  /\ tip = [t \in Trees |-> 0] /\ tree = [t \in Trees |-> "clean"]
  /\ record = [t \in Trees |-> None]

(* ---------------------------------------------------------------------- *)
(* The worker in its worktree                                              *)

Edit(t) ==
  /\ tree[t] = "clean" /\ tip[t] < MaxCommits
  /\ tree' = [tree EXCEPT ![t] = "edited"]
  /\ UNCHANGED <<asked, run, chain, pruned, tip, record>>

Commit(t) ==
  /\ tree[t] = "edited"
  /\ tree' = [tree EXCEPT ![t] = "clean"] /\ tip' = [tip EXCEPT ![t] = @ + 1]
  /\ UNCHANGED <<asked, run, chain, pruned, record>>

(* ---------------------------------------------------------------------- *)
(* Asking for a run                                                        *)

(* cleanCiArtifacts reverts what the commands are known to leave behind.   *)
Cleaned(t) == IF tree[t] = "littered" THEN "clean" ELSE tree[t]

(* startCi and runCi up to the dirty check, of which the answer is kept:   *)
(* the litter goes, even under a command that is running there.            *)
Ask(t) ==
  LET r == asked + 1 IN
  /\ asked < MaxRuns /\ asked' = r
  /\ tree' = [tree EXCEPT ![t] = Cleaned(t)]
  /\ stage' = [stage EXCEPT ![r] = IF tree'[t] = "clean" THEN "asked" ELSE "dirty"]
  /\ on' = [on EXCEPT ![r] = t]
  /\ UNCHANGED <<commit, behind, green, chain, pruned, tip, record>>

(* The dirty record is written past the chain, at once.                    *)
Refuse(r) ==
  LET t == on[r] IN
  /\ stage[r] = "dirty"
  /\ stage' = [stage EXCEPT ![r] = "refused"]
  /\ commit' = [commit EXCEPT ![r] = tip[t]]
  /\ record' = [record EXCEPT ![t] = [run |-> r, commit |-> tip[t], ok |-> FALSE]]
  /\ UNCHANGED <<asked, on, behind, green, chain, pruned, tip, tree>>

(* chainCiRun, in the turn that has read the tip.                          *)
Chain(r) ==
  LET t == on[r] IN
  /\ stage[r] = "asked"
  /\ stage' = [stage EXCEPT ![r] = "queued"]
  /\ commit' = [commit EXCEPT ![r] = tip[t]]
  /\ behind' = [behind EXCEPT ![r] = chain[t]]
  /\ chain' = [chain EXCEPT ![t] = r]
  /\ UNCHANGED <<asked, on, green, pruned, tip, tree, record>>

(* ---------------------------------------------------------------------- *)
(* A run                                                                   *)

Settled(r) == r # 0 => stage[r] \in {"settled", "failed"}

Ready_NotSwallowed(r) == stage[r] = "queued" /\ (behind[r] # 0 => stage[behind[r]] = "settled")
(* The tail swallows a failure, so a failed run lets the next one start.   *)
Ready(r) == stage[r] = "queued" /\ Settled(behind[r])

Start(r) ==
  /\ Ready(r)
  /\ stage' = [stage EXCEPT ![r] = "running"]
  /\ UNCHANGED <<asked, on, commit, behind, green, chain, pruned, tip, tree, record>>

Litter(r) ==
  /\ stage[r] \in {"running", "hung"} /\ tree[on[r]] = "clean"
  /\ tree' = [tree EXCEPT ![on[r]] = "littered"]
  /\ UNCHANGED <<asked, run, chain, pruned, tip, record>>

(* spawnCiCommand: ten minutes after the start the shell is killed, and    *)
(* nothing else.  "close" comes only when nobody holds the output any      *)
(* more, which a process that the command has started may do for ever.     *)
Hang(r) ==
  /\ stage[r] = "running"
  /\ stage' = [stage EXCEPT ![r] = "hung"]
  /\ UNCHANGED <<asked, on, commit, behind, green, chain, pruned, tip, tree, record>>

(* "close", or "error" when the command cannot be spawned; its log is      *)
(* written or not.                                                         *)
Exit(r) ==
  /\ stage[r] \in {"running", "hung"}
  /\ stage' = [stage EXCEPT ![r] = "exited"]
  /\ \E ok \in BOOLEAN : green' = [green EXCEPT ![r] = ok]
  /\ tree' = [tree EXCEPT ![on[r]] = Cleaned(on[r])]
  /\ UNCHANGED <<asked, on, commit, behind, chain, pruned, tip, record>>

(* persistCiRecord: the only step of a run that may throw.                 *)
Persist(r) ==
  LET t == on[r] IN
  /\ stage[r] = "exited"
  /\ \/ /\ stage' = [stage EXCEPT ![r] = "settled"]
        /\ record' = [record EXCEPT ![t] = [run |-> r, commit |-> commit[r], ok |-> green[r]]]
     \/ stage' = [stage EXCEPT ![r] = "failed"] /\ UNCHANGED record
  /\ UNCHANGED <<asked, on, commit, behind, green, chain, pruned, tip, tree>>

Owns_Anyone(r) == TRUE
Owns(r) == chain[on[r]] = r

Prune(r) ==
  /\ Settled(r) /\ r \notin pruned
  /\ pruned' = pruned \cup {r}
  /\ chain' = [chain EXCEPT ![on[r]] = IF Owns(r) THEN 0 ELSE @]
  /\ UNCHANGED <<asked, run, tip, tree, record>>

(* ---------------------------------------------------------------------- *)

RunStep(r) == Refuse(r) \/ Chain(r) \/ Start(r) \/ Litter(r) \/ Hang(r) \/ Exit(r) \/ Persist(r)
              \/ Prune(r)

Next ==
  \/ \E t \in Trees : Edit(t) \/ Commit(t) \/ Ask(t)
  \/ \E r \in Runs : RunStep(r)

Spec == Init /\ [][Next]_vars

(* Promises settle.  Commands end or are killed, and so does the run then  *)
(* unless a process holds its output: that one, workers and callers owe    *)
(* nothing.                                                                *)
Ends(r) == stage[r] = "running" /\ Exit(r)
Fairness == \A r \in Runs : WF_vars(Refuse(r) \/ Chain(r) \/ Start(r) \/ Ends(r) \/ Persist(r))

FairSpec == Spec /\ Fairness

(* ---------------------------------------------------------------------- *)
(* Properties                                                              *)

Busy(r) == stage[r] \in {"running", "hung", "exited"}

(* chainCiRun: however calls, commands and removals interleave, two runs   *)
(* never have their commands in one worktree at a time.                    *)
OneCommandAtATime ==
  \A r, s \in Runs : r # s /\ Busy(r) /\ Busy(s) => on[r] # on[s]

(* A run that was chained gets its turn and settles, whatever happened to  *)
(* the runs before it: unless the output of one of them, or its own, is    *)
(* held for ever, which no timeout ends (store.ts:323).                    *)
EveryRunSettles ==
  \A r \in Runs : stage[r] = "queued" ~>
    Settled(r) \/ \E s \in Runs : [](stage[s] = "hung" /\ on[s] = on[r])
=============================================================================
