----------------------------- MODULE AppendLock -----------------------------
(***************************************************************************)
(* core/store/append-lock.ts: the advisory lock file `<file>.lock` that    *)
(* every append to a shared JSONL or sidecar takes.  A process that runs   *)
(* withAppendLock loops over open('wx'), stat, unlink and sleep; processes *)
(* are killed at any point, and the lock file's age is judged by its mtime *)
(* (30 s), so a lock that outlives that horizon may be broken by a waiter. *)
(*                                                                         *)
(* A definition X_Y is X as a plausible bug would have it.                 *)
(***************************************************************************)
EXTENDS Naturals, FiniteSets

CONSTANTS
  Procs,        (* processes (one withAppendLock at a time each)           *)
  Nobody,       (* the lock file does not exist                            *)
  MaxCrashes,   (* bound: processes killed                                 *)
  MaxErrors,    (* bound: file-system errors other than EEXIST and ENOENT  *)
  Stalling      (* processes that may stay in fn longer than staleMs       *)

ASSUME NobodyAssumption == Nobody \notin Procs
ASSUME BoundsAssumption == MaxCrashes \in Nat /\ MaxErrors \in Nat

VARIABLES
  pc,           (* where each process is in withAppendLock                 *)
  lock,         (* who created the lock file that exists, or Nobody        *)
  stale,        (* the lock file's mtime is older than staleMs             *)
  reclaimed,    (* the `reclaimed` flag of each acquisition                *)
  late,         (* the deadline of the acquisition has passed              *)
  aged,         (* history: some lock file got older than staleMs          *)
  crashes, errors

vars == <<pc, lock, stale, reclaimed, late, aged, crashes, errors>>

Acquiring == {"open", "stat", "reclaim", "retry"}
Holding == {"fn", "release"}       (* between a won open and the unlink    *)

Init ==
  /\ pc = [p \in Procs |-> "idle"]
  /\ lock = Nobody /\ stale = FALSE /\ aged = FALSE
  /\ reclaimed = [p \in Procs |-> FALSE]
  /\ late = [p \in Procs |-> FALSE]
  /\ crashes = 0 /\ errors = 0

Goto(p, from, to) == pc[p] = from /\ pc' = [pc EXCEPT ![p] = to]

Begin(p) ==
  /\ Goto(p, "idle", "open")
  /\ reclaimed' = [reclaimed EXCEPT ![p] = FALSE]
  /\ late' = [late EXCEPT ![p] = FALSE]
  /\ UNCHANGED <<lock, stale, aged, crashes, errors>>

(* open(lockFile, 'wx') creates the file or fails with EEXIST.             *)
OpenWins_NotExclusive(p) ==
  /\ Goto(p, "open", "fn")
  /\ lock' = p /\ stale' = FALSE
  /\ UNCHANGED <<reclaimed, late, aged, crashes, errors>>
OpenWins(p) ==
  /\ Goto(p, "open", "fn")
  /\ lock = Nobody
  /\ lock' = p /\ stale' = FALSE
  /\ UNCHANGED <<reclaimed, late, aged, crashes, errors>>

(* After EEXIST an acquisition that already reclaimed skips the stat.      *)
OpenExists(p) ==
  /\ Goto(p, "open", IF reclaimed[p] THEN "retry" ELSE "stat")
  /\ lock # Nobody
  /\ UNCHANGED <<lock, stale, reclaimed, late, aged, crashes, errors>>

(* isStaleLock: a missing file is not stale.                               *)
LooksStale_Never == FALSE
LooksStale == lock # Nobody /\ stale

Stat(p) ==
  /\ Goto(p, "stat", IF LooksStale THEN "reclaim" ELSE "retry")
  /\ reclaimed' = [reclaimed EXCEPT ![p] = LooksStale]
  /\ UNCHANGED <<lock, stale, late, aged, crashes, errors>>

(* removeLockFile unlinks whatever lock file is there by now.              *)
Unlink == lock' = Nobody /\ stale' = FALSE

Reclaim(p) ==
  /\ Goto(p, "reclaim", "open")
  /\ Unlink
  /\ UNCHANGED <<reclaimed, late, aged, crashes, errors>>

(* The deadline check, then a pause of retryIntervalMs.                    *)
Retry(p) ==
  /\ Goto(p, "retry", "open")
  /\ ~ late[p]
  /\ UNCHANGED <<lock, stale, reclaimed, late, aged, crashes, errors>>

GiveUp_Releases(p) ==
  /\ Goto(p, "retry", "idle")
  /\ late[p]
  /\ Unlink
  /\ UNCHANGED <<reclaimed, late, aged, crashes, errors>>
GiveUp_Never(p) ==
  /\ Goto(p, "retry", "open")
  /\ late[p]
  /\ UNCHANGED <<lock, stale, reclaimed, late, aged, crashes, errors>>
GiveUp(p) ==
  /\ Goto(p, "retry", "idle")
  /\ late[p]
  /\ UNCHANGED <<lock, stale, reclaimed, late, aged, crashes, errors>>

Deadline(p) ==
  /\ pc[p] \in Acquiring /\ ~ late[p]
  /\ late' = [late EXCEPT ![p] = TRUE]
  /\ UNCHANGED <<pc, lock, stale, reclaimed, aged, crashes, errors>>

(* fn settles, with a value or an error, and the handle is closed.         *)
Finish_NoFinally(p) ==
  /\ Goto(p, "fn", "rejected")
  /\ UNCHANGED <<lock, stale, reclaimed, late, aged, crashes, errors>>
Finish(p) ==
  /\ Goto(p, "fn", "release")
  /\ UNCHANGED <<lock, stale, reclaimed, late, aged, crashes, errors>>

Release(p) ==
  /\ Goto(p, "release", "idle")
  /\ Unlink
  /\ UNCHANGED <<reclaimed, late, aged, crashes, errors>>

(* open, stat or unlink rejects with another error code: the call rejects, *)
(* and after fn the lock file stays behind.                                *)
IoError(p) ==
  /\ errors < MaxErrors
  /\ pc[p] \in {"open", "stat", "reclaim", "release"}
  /\ pc' = [pc EXCEPT ![p] = "idle"]
  /\ errors' = errors + 1
  /\ UNCHANGED <<lock, stale, reclaimed, late, aged, crashes>>

Crash(p) ==
  /\ crashes < MaxCrashes
  /\ pc[p] # "dead"
  /\ pc' = [pc EXCEPT ![p] = "dead"]
  /\ crashes' = crashes + 1
  /\ UNCHANGED <<lock, stale, reclaimed, late, aged, errors>>

(* The lock file grows older than staleMs: its creator is gone, or is one  *)
(* that may keep it that long.                                             *)
Orphaned == lock # Nobody /\ pc[lock] \notin Holding

Age ==
  /\ Orphaned \/ lock \in Stalling
  /\ ~ stale
  /\ stale' = TRUE /\ aged' = TRUE
  /\ UNCHANGED <<pc, lock, reclaimed, late, crashes, errors>>

Step(p) ==
  \/ OpenWins(p) \/ OpenExists(p) \/ Stat(p) \/ Reclaim(p)
  \/ Retry(p) \/ GiveUp(p) \/ Finish(p) \/ Release(p)

Next ==
  \/ \E p \in Procs :
       Begin(p) \/ Step(p) \/ Deadline(p) \/ IoError(p) \/ Crash(p)
  \/ Age

Spec == Init /\ [][Next]_vars

(* The loop runs, deadlines pass, orphaned locks grow old, and live        *)
(* processes have something to append every now and then.                  *)
FairSpec ==
  /\ Spec
  /\ \A p \in Procs : WF_vars(Begin(p)) /\ WF_vars(Step(p)) /\ WF_vars(Deadline(p))
  /\ WF_vars(Orphaned /\ Age)

(* ---------------------------------------------------------------------- *)
(* Properties                                                              *)

TypeOK ==
  /\ pc \in [Procs -> {"idle", "dead"} \cup Acquiring \cup Holding]
  /\ lock \in Procs \cup {Nobody}
  /\ stale \in BOOLEAN /\ aged \in BOOLEAN
  /\ reclaimed \in [Procs -> BOOLEAN]
  /\ late \in [Procs -> BOOLEAN]
  /\ crashes \in 0..MaxCrashes /\ errors \in 0..MaxErrors

(* Two processes are inside fn at once only after some lock file was       *)
(* broken for its age: append-lock.ts:78 promises "the exclusive append    *)
(* lock" without that proviso.                                             *)
Exclusive == \A p, q \in Procs : pc[p] \in Holding /\ pc[q] \in Holding => p = q
MutualExclusion == ~ aged => Exclusive

(* The file a releasing process unlinks is the one it created: nobody's    *)
(* lock is removed by a release, a timeout, a crash or an I/O error.       *)
OwnTheFile == \A p \in Procs : pc[p] \in Holding => lock = p
HoldersOwnTheFile == ~ aged => OwnTheFile

(* Every acquisition settles: the process gets into fn, gives up with      *)
(* AppendLockTimeoutError, fails or dies; nobody spins forever behind a    *)
(* dead holder (append-lock.ts:12-17).                                     *)
AcquisitionSettles ==
  \A p \in Procs : pc[p] \in Acquiring ~> pc[p] \notin Acquiring

(* "A single stale lock cannot wedge writers forever" (append-lock.ts:17): *)
(* a lock left behind by a dead or failed process is broken again and      *)
(* again, as long as some process is alive to need it.                     *)
NotWedged ==
  [](Orphaned => <>(~ Orphaned \/ \A p \in Procs : pc[p] = "dead"))
=============================================================================
