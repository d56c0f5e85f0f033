----------------------------- MODULE BoardStore -----------------------------
(***************************************************************************)
(* core/store/board.ts: one persistent scope of the shared board.  Every   *)
(* moamcp process folds the same append-only JSONL file into a cache of    *)
(* its own: an operation first refolds when the file's size changed, then  *)
(* stamps its records and appends them one by one under the append lock.   *)
(* In one process the operations of a scope run one after the other; those *)
(* of other processes come in between fold and append.                     *)
(*                                                                         *)
(* A timestamp is a natural number, 0 is no timestamp.  A value is known   *)
(* by the process and the timestamp that wrote it.                         *)
(*                                                                         *)
(* A definition X_Y is X as a plausible bug would have it.                 *)
(***************************************************************************)
EXTENDS Integers, Sequences, FiniteSets

CONSTANTS
  Procs,        (* moamcp processes that share one home directory          *)
  Keys,
  Nobody,       (* the writer of no entry                                  *)
  Kinds,        (* the operations a run exercises                          *)
  MaxNow,       (* bound: milliseconds that pass                           *)
  MaxCommits,   (* bound: write, delete and mutate calls                   *)
  MaxFails,     (* bound: appends that reject (lock timeout, I/O)          *)
  MaxCrashes    (* bound: processes killed and started again               *)

ASSUME NobodyAssumption == Nobody \notin Procs
ASSUME KeysAssumption == IsFiniteSet(Keys)
ASSUME BoundsAssumption ==
  {MaxNow, MaxCommits, MaxFails, MaxCrashes} \subseteq Nat /\ MaxNow # 0

VARIABLES
  file,         (* the records of <scope>.jsonl                            *)
  mem,          (* ScopeState.entries and .versions of each process        *)
  loaded,       (* ScopeState.loaded                                       *)
  size,         (* ScopeState.fileBytes, in records                        *)
  lastEpoch,    (* the timestamp generator of each process                 *)
  op,           (* the operation at the head of the scope's queue          *)
  waiters,      (* ScopeState.waiters of all processes                     *)
  now,          (* Date.now()                                              *)
  failed,       (* history: records that stayed in memory without reaching *)
                (* the file                                                *)
  commits, fails, crashes

bounds == <<commits, fails, crashes>>
vars == <<file, mem, loaded, size, lastEpoch, op, waiters, now, failed, bounds>>

Absent == [ts |-> 0, by |-> Nobody]
EmptyMem == [entries |-> [k \in Keys |-> Absent], versions |-> [k \in Keys |-> 0]]
NoOp == [kind |-> "none", pending |-> <<>>, before |-> EmptyMem]

Init ==
  /\ file = <<>>
  /\ mem = [p \in Procs |-> EmptyMem]
  /\ loaded = [p \in Procs |-> FALSE]
  /\ size = [p \in Procs |-> 0]
  /\ lastEpoch = [p \in Procs |-> 0]
  /\ op = [p \in Procs |-> NoOp]
  /\ waiters = {} /\ now = 1 /\ failed = {}
  /\ commits = 0 /\ fails = 0 /\ crashes = 0

(* ---------------------------------------------------------------------- *)
(* Folding                                                                 *)

Stamp(r) == [ts |-> r.ts, by |-> r.by]
EntryOf_BadDate(r) == IF r.live THEN Stamp(r) ELSE [Absent EXCEPT !.ts = -1]
EntryOf(r) == IF r.live THEN Stamp(r) ELSE Absent

(* applyRecord: a record loses only against a newer version of its key.    *)
Beats(r, v) == r.ts >= v

Apply_DeleteNotVersioned(m, r) ==
  IF Beats(r, m.versions[r.key])
  THEN [entries  |-> [m.entries EXCEPT ![r.key] = EntryOf(r)],
        versions |-> IF r.live THEN [m.versions EXCEPT ![r.key] = r.ts]
                     ELSE m.versions]
  ELSE m
Apply(m, r) ==
  IF Beats(r, m.versions[r.key])
  THEN [entries  |-> [m.entries EXCEPT ![r.key] = EntryOf(r)],
        versions |-> [m.versions EXCEPT ![r.key] = r.ts]]
  ELSE m

(* The record of k the fold of a log ends with: of the newest ones the     *)
(* last.  0 when there is none.                                            *)
Hits(log, k) == {i \in DOMAIN log : log[i].key = k}
Latest_FileOrder(log, k) ==
  IF Hits(log, k) = {} THEN 0
  ELSE CHOOSE i \in Hits(log, k) : \A j \in Hits(log, k) : j <= i
Latest(log, k) ==
  IF Hits(log, k) = {} THEN 0
  ELSE CHOOSE i \in Hits(log, k) : \A j \in Hits(log, k) :
         log[j].ts < log[i].ts \/ (log[j].ts = log[i].ts /\ j <= i)

FoldOf(log) ==
  [entries  |-> [k \in Keys |-> LET i == Latest(log, k)
                                IN IF i = 0 THEN Absent ELSE EntryOf(log[i])],
   versions |-> [k \in Keys |-> LET i == Latest(log, k)
                                IN IF i = 0 THEN 0 ELSE log[i].ts]]

(* readPersistentSnapshot: the file has the size that was folded last.     *)
Unchanged(p) == loaded[p] /\ size[p] = Len(file)

Refreshed(p) == IF Unchanged(p) THEN mem[p] ELSE FoldOf(file)

(* Folding a record moves the timestamp generator past it.                 *)
Learned_Nothing(p) == lastEpoch[p]
Learned(p) ==
  IF Unchanged(p) THEN lastEpoch[p]
  ELSE LET seen == {lastEpoch[p]} \cup {file[i].ts : i \in DOMAIN file}
       IN CHOOSE t \in seen : \A s \in seen : s <= t

(* wakeWaiters: who of p waits for an entry of k as new as t.              *)
Woken(p, k, t) == {w \in waiters : w.proc = p /\ w.key = k /\ t > w.since}

(* wakeRefreshedWaiters: entries that the refold brought or changed wake   *)
(* their waiters, except in the very first fold.                           *)
Changed_OnlyNew(p, k) ==
  /\ mem[p].entries[k] = Absent
  /\ Refreshed(p).entries[k] # Absent
Changed(p, k) ==
  /\ Refreshed(p).entries[k] # Absent
  /\ Refreshed(p).entries[k].ts # mem[p].entries[k].ts

FoldWakes(p) ==
  IF loaded[p]
  THEN UNION {Woken(p, k, Refreshed(p).entries[k].ts) :
                k \in {l \in Keys : Changed(p, l)}}
  ELSE {}

(* What every operation does first, with the cache and the generator it    *)
(* leaves behind.                                                          *)
Fold(p) ==
  /\ op[p] = NoOp
  /\ loaded' = [loaded EXCEPT ![p] = TRUE]
  /\ size' = [size EXCEPT ![p] = Len(file)]

(* nextTs                                                                  *)
NextTs(p) == IF now > Learned(p) THEN now ELSE Learned(p) + 1

(* ---------------------------------------------------------------------- *)
(* Operations                                                              *)

(* History only: `saw` is how much of the file the writer had read, `base` *)
(* the value it found, `whole` the number of records it commits.           *)
RecordAt(p, k, isLive, n) ==
  [key |-> k, ts |-> NextTs(p), by |-> p, live |-> isLive,
   saw |-> Len(file), base |-> Refreshed(p).entries[k], whole |-> n]

Commit(p, kind, records, view) ==
  /\ kind \in Kinds /\ commits < MaxCommits
  /\ Fold(p)
  /\ lastEpoch' = [lastEpoch EXCEPT ![p] = NextTs(p)]
  /\ mem' = [mem EXCEPT ![p] = view]
  /\ op' = [op EXCEPT ![p] = [kind |-> kind, pending |-> records,
                              before |-> Refreshed(p)]]
  /\ waiters' = waiters \ FoldWakes(p)
  /\ commits' = commits + 1
  /\ UNCHANGED <<file, now, failed, fails, crashes>>

(* write and delete apply their record before they append it.              *)
Write(p, k) ==
  LET r == RecordAt(p, k, TRUE, 1)
  IN Commit(p, "write", <<r>>, Apply(Refreshed(p), r))

Delete(p, k) ==
  LET r == RecordAt(p, k, FALSE, 1)
  IN Commit(p, "delete", <<r>>, Apply(Refreshed(p), r))

(* A mutator puts and drops entries of the map it is handed; each change   *)
(* becomes a record.                                                       *)
Mutated(p, puts, drops) ==
  [Refreshed(p) EXCEPT !.entries =
     [k \in Keys |-> IF k \in puts THEN [ts |-> NextTs(p), by |-> p]
                     ELSE IF k \in drops THEN Absent
                     ELSE Refreshed(p).entries[k]]]

(* The records of a set of keys, in an order the map's history decides.    *)
InSomeOrder(ks) ==
  {s \in [1..Cardinality(ks) -> ks] : \A k \in ks : \E i \in DOMAIN s : s[i] = k}

Mutate(p, puts, drops) ==
  /\ puts \cap drops = {}
  /\ \A k \in drops : Refreshed(p).entries[k] # Absent
  /\ \E order \in InSomeOrder(puts \cup drops) :
       Commit(p, "mutate",
              [i \in DOMAIN order |->
                 RecordAt(p, order[i], order[i] \in puts, Len(order))],
              Mutated(p, puts, drops))

(* read, readNamespace and list change nothing beyond the fold.            *)
Read(p) ==
  /\ "read" \in Kinds
  /\ Fold(p)
  /\ lastEpoch' = [lastEpoch EXCEPT ![p] = Learned(p)]
  /\ mem' = [mem EXCEPT ![p] = Refreshed(p)]
  /\ waiters' = waiters \ FoldWakes(p)
  /\ UNCHANGED <<file, op, now, failed, bounds>>

(* wait without `since`, or since the entry just read: it parks when there *)
(* is nothing newer, and remembers what the caller had seen.               *)
Wait(p, k, s, known) ==
  /\ "wait" \in Kinds
  /\ Fold(p)
  /\ lastEpoch' = [lastEpoch EXCEPT ![p] = Learned(p)]
  /\ mem' = [mem EXCEPT ![p] = Refreshed(p)]
  /\ LET e == Refreshed(p).entries[k] IN
       waiters' = (waiters \ FoldWakes(p)) \cup
         (IF e # Absent /\ e.ts > s THEN {}
          ELSE {[proc |-> p, key |-> k, since |-> s, seen |-> known]})
  /\ UNCHANGED <<file, op, now, failed, bounds>>

WaitForValue(p, k) == Wait(p, k, -1, Absent)
WaitForUpdate(p, k) ==
  /\ mem[p].entries[k] # Absent
  /\ Wait(p, k, mem[p].entries[k].ts, mem[p].entries[k])

(* pollPersistent: with a waiter parked the file is folded every 250 ms.   *)
Poll(p) ==
  /\ \E w \in waiters : w.proc = p
  /\ Fold(p)
  /\ lastEpoch' = [lastEpoch EXCEPT ![p] = Learned(p)]
  /\ mem' = [mem EXCEPT ![p] = Refreshed(p)]
  /\ waiters' = waiters \ FoldWakes(p)
  /\ UNCHANGED <<file, op, now, failed, bounds>>

TimeOut(w) ==
  /\ w \in waiters
  /\ waiters' = waiters \ {w}
  /\ UNCHANGED <<file, mem, loaded, size, lastEpoch, op, now, failed, bounds>>

(* ---------------------------------------------------------------------- *)
(* Appending                                                               *)

Pending(p) == op[p].pending # <<>>

(* The operation goes on with its next record, or is over.                 *)
Advance(p) ==
  op' = [op EXCEPT ![p] = IF Len(op[p].pending) = 1 THEN NoOp
                          ELSE [op[p] EXCEPT !.pending = Tail(op[p].pending)]]

(* persist appends under the lock; mutate applies each record afterwards.  *)
PersistNext(p) ==
  /\ Pending(p)
  /\ LET r == Head(op[p].pending)
         m == IF op[p].kind = "mutate" THEN Apply(mem[p], r) ELSE mem[p]
     IN /\ file' = Append(file, r)
        /\ mem' = [mem EXCEPT ![p] = m]
        /\ waiters' = IF r.live /\ m.entries[r.key].ts = r.ts
                      THEN waiters \ Woken(p, r.key, r.ts)
                      ELSE waiters
  /\ Advance(p)
  /\ UNCHANGED <<loaded, size, lastEpoch, now, failed, bounds>>

(* The append rejects and so does the call: mutate puts its map back, the  *)
(* others leave their record in the cache.                                 *)
Fail_KeepsMutation(p) ==
  /\ Pending(p) /\ fails < MaxFails
  /\ failed' = IF op[p].kind = "mutate" THEN failed
               ELSE failed \cup {Head(op[p].pending)}
  /\ op' = [op EXCEPT ![p] = NoOp]
  /\ fails' = fails + 1
  /\ UNCHANGED <<file, mem, loaded, size, lastEpoch, waiters, now, commits, crashes>>
Fail(p) ==
  /\ Pending(p) /\ fails < MaxFails
  /\ IF op[p].kind = "mutate"
     THEN /\ mem' = [mem EXCEPT ![p] = op[p].before]
          /\ UNCHANGED failed
     ELSE /\ failed' = failed \cup {Head(op[p].pending)}
          /\ UNCHANGED mem
  /\ op' = [op EXCEPT ![p] = NoOp]
  /\ fails' = fails + 1
  /\ UNCHANGED <<file, loaded, size, lastEpoch, waiters, now, commits, crashes>>

(* A mutator that changes nothing appends nothing.                         *)
NothingToDo(p) ==
  /\ op[p].kind = "mutate" /\ ~ Pending(p)
  /\ op' = [op EXCEPT ![p] = NoOp]
  /\ UNCHANGED <<file, mem, loaded, size, lastEpoch, waiters, now, failed, bounds>>

(* The process is killed, with whatever it was appending, and replaced.    *)
Crash(p) ==
  /\ crashes < MaxCrashes
  /\ mem' = [mem EXCEPT ![p] = EmptyMem]
  /\ loaded' = [loaded EXCEPT ![p] = FALSE]
  /\ size' = [size EXCEPT ![p] = 0]
  /\ lastEpoch' = [lastEpoch EXCEPT ![p] = 0]
  /\ op' = [op EXCEPT ![p] = NoOp]
  /\ waiters' = {w \in waiters : w.proc # p}
  /\ crashes' = crashes + 1
  /\ UNCHANGED <<file, now, failed, commits, fails>>

Tick ==
  /\ now < MaxNow
  /\ now' = now + 1
  /\ UNCHANGED <<file, mem, loaded, size, lastEpoch, op, waiters, failed, bounds>>

Finish(p) == PersistNext(p) \/ NothingToDo(p)

Next ==
  \/ \E p \in Procs :
       \/ \E k \in Keys : Write(p, k) \/ Delete(p, k)
                          \/ WaitForValue(p, k) \/ WaitForUpdate(p, k)
       \/ \E puts, drops \in SUBSET Keys : Mutate(p, puts, drops)
       \/ Read(p) \/ Poll(p) \/ PersistNext(p) \/ NothingToDo(p) \/ Fail(p) \/ Crash(p)
  \/ \E w \in waiters : TimeOut(w)
  \/ Tick

Spec == Init /\ [][Next]_vars

(* The lock is granted or refused in the end; the poll timer queues its    *)
(* fold behind the calls already queued, so it gets its turn.              *)
FairSpec ==
  Spec /\ \A p \in Procs : WF_vars(Finish(p)) /\ SF_vars(Poll(p))
(* ---------------------------------------------------------------------- *)
(* Properties                                                              *)

Stamps == [ts : Nat, by : Procs \cup {Nobody}]
Mems == [entries : [Keys -> Stamps], versions : [Keys -> Nat]]
Records == [key : Keys, ts : Nat, by : Procs, live : BOOLEAN,
            saw : Nat, base : Stamps, whole : Nat]

TypeOK ==
  /\ file \in Seq(Records)
  /\ mem \in [Procs -> Mems]
  /\ loaded \in [Procs -> BOOLEAN]
  /\ size \in [Procs -> Nat] /\ lastEpoch \in [Procs -> Nat]
  /\ op \in [Procs -> [kind : {"none", "write", "delete", "mutate"},
                       pending : Seq(Records), before : Mems]]
  /\ waiters \subseteq [proc : Procs, key : Keys, since : Nat \cup {-1}, seen : Stamps]
  /\ now \in 1..MaxNow /\ failed \subseteq Records
  /\ commits \in 0..MaxCommits /\ fails \in 0..MaxFails /\ crashes \in 0..MaxCrashes

(* A record is newer than every record its writer could have read, across  *)
(* processes, restarts, bursts within one millisecond and slow clocks: a   *)
(* write that answers another one beats it (nextTs, applyRecord).          *)
CausalOrder ==
  \A i \in DOMAIN file : \A j \in 1..file[i].saw : file[j].ts < file[i].ts

(* When the size check skips the refold, the cache it keeps is the fold of *)
(* the file, except where an append of the process itself has failed.      *)
SkippedFoldIsCurrent ==
  \A p \in Procs : op[p] = NoOp /\ Unchanged(p) =>
    \A k \in Keys :
      \/ \E r \in failed : r.by = p /\ r.key = k /\ r.ts = mem[p].versions[k]
      \/ /\ mem[p].entries[k] = FoldOf(file).entries[k]
         /\ mem[p].versions[k] = FoldOf(file).versions[k]

(* Applying its own records one by one leads a process to the view that a  *)
(* process folding the whole file gets.                                    *)
OwnAppendsAgree ==
  \A p \in Procs :
    /\ fails = 0 /\ loaded[p] /\ op[p] = NoOp
    /\ \A i \in size[p] + 1 .. Len(file) : file[i].by = p
    => mem[p] = FoldOf(file)

(* What a process reads is never older than the order of writes allows.    *)
FoldsAreCurrent == CausalOrder /\ SkippedFoldIsCurrent /\ OwnAppendsAgree

(* A process that has not failed to append never goes back to an older     *)
(* version of a key, whatever order the records reach the file in.         *)
ViewsAdvance ==
  [][fails' = 0 =>
       \A p \in Procs : loaded[p] /\ loaded'[p] =>
         \A k \in Keys : mem[p].versions[k] <= mem'[p].versions[k]]_vars

(* No waiter stays parked while the file holds a value of its key newer    *)
(* than the one it waits to see replaced.                                  *)
Served(p, k, s) ==
  ~ \E w \in waiters :
      /\ w.proc = p /\ w.key = k /\ w.since = s
      /\ FoldOf(file).entries[k] # Absent
      /\ FoldOf(file).entries[k].ts > s
WaitersServed ==
  \A p \in Procs, k \in Keys, s \in -1 .. MaxNow + MaxCommits : []<>Served(p, k, s)

(* "Atomically inspect and mutate one scope" (board.ts:493): a mutation    *)
(* replaces the value its callback was shown.                              *)
MutationsReplaceWhatTheySaw ==
  \A i \in DOMAIN file :
    file[i].base = FoldOf(SubSeq(file, 1, i - 1)).entries[file[i].key]

(* "Atomically [...] mutate one scope" (board.ts:493): the file ends up    *)
(* with all records of a mutation or with none.                            *)
MutationsAllOrNothing ==
  \A i \in DOMAIN file :
    \/ Pending(file[i].by)
    \/ Cardinality({j \in DOMAIN file : Stamp(file[j]) = Stamp(file[i])}) = file[i].whole

(* A caller that waits since the entry it saw is not left parked behind    *)
(* another entry: same-millisecond writes order (board.ts:1547).           *)
NoUpdateHidden ==
  \A w \in waiters :
    /\ w.since >= 0 /\ op[w.proc] = NoOp
    /\ mem[w.proc].entries[w.key] # Absent
    => mem[w.proc].entries[w.key] = w.seen

(* What a read returns is in the file.                                     *)
NoPhantom ==
  \A p \in Procs, k \in Keys :
    op[p] = NoOp /\ mem[p].entries[k] # Absent
    => \E i \in DOMAIN file : file[i].key = k /\ Stamp(file[i]) = mem[p].entries[k]
=============================================================================
