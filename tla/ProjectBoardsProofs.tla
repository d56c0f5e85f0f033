------------------------ MODULE ProjectBoardsProofs ------------------------
(***************************************************************************)
(* Proofs about the adoption of a workspace by projects, for any projects, *)
(* processes and number of concurrent requests, and about the handoffs and *)
(* tips that live on those boards, for any number of links between them.   *)
(***************************************************************************)
EXTENDS MCProjectBoards, FiniteSetTheorems, TLAPS

(* Which requests are at which step, and which of them name a project.     *)
Roles ==
  \A c \in Calls :
    /\ pc[c] \in {"fold", "append"} => job[c].op \in {"write", "direct"}
    /\ pc[c] \in {"create", "copy"} \cup Inside => job[c].op = "migrate"
    /\ pc[c] = "drop" => job[c].op \in {"detach", "release", "archive"}
    /\ pc[c] \in {"copy", "tombstone", "shelve"} \cup Inside => job[c].at \in Projects
    /\ pc[c] = "tombstone" => job[c].op = "archive"
    /\ job[c].op \in {"direct", "archive"} => job[c].at \in Projects

TypeInv == TypeOK /\ Roles

(* The values that the job of a request can take.                          *)
LEMMA RequestType ==
  ASSUME NEW op \in {"none", "write", "direct", "migrate", "detach", "release", "archive"},
         NEW at \in Projects \cup {None}, NEW rec \in Nat, NEW had \in Projects \cup {None}
  PROVE  /\ Request(op, at, rec, had) \in Job
         /\ Request(op, at, rec, had).op = op
         /\ Request(op, at, rec, had).at = at
<1> DEFINE calm == rec # 0
           r == [op |-> op, at |-> at, rec |-> rec, calm |-> calm, had |-> had,
                 copied |-> {}, was |-> {}, stamp |-> 0]
<1>1. calm \in BOOLEAN
  OBVIOUS
<1>2. Request(op, at, rec, had) = r
  BY Zenon DEF Request
<1>3. r \in Job /\ r.op = op /\ r.at = at
  <2> HIDE DEF calm
  <2>. QED
    BY <1>1 DEF Job
<1> HIDE DEF r
<1>. QED
  BY <1>2, <1>3

(* The job of a request that is idle.                                      *)
LEMMA NoJobType == NoJob \in Job /\ NoJob.op = "none" /\ NoJob.at = None
BY RequestType DEF NoJob

(* The types hold at the start.                                            *)
LEMMA TypeInit == Init => TypeInv
<1> SUFFICES ASSUME Init PROVE TypeInv
  OBVIOUS
<1>1. ViewType
  BY DEF Init, ViewType, Fold, Blank
<1>2. FileType
  BY DEF Init, FileType
<1>3. CallType
  BY NoJobType DEF Init, CallType, PcType
<1>4. PromiseType
  BY DEF Init, PromiseType
<1>5. Locked
  BY SetsAssumption DEF Init, Locked, Inside
<1>6. Roles
  BY NoJobType DEF Init, Roles, Inside
<1>. QED
  BY <1>1, <1>2, <1>3, <1>4, <1>5, <1>6 DEF TypeInv, TypeOK

(* A refresh or a registry record keeps the views' types.                  *)
LEMMA CommitType ==
  ASSUME ViewType, NEW c \in Calls, NEW new \in Fold, Commit(c, new)
  PROVE  ViewType'
BY SetsAssumption DEF ViewType, Commit

(* What a log folds to.                                                    *)
LEMMA FoldTypes ==
  ASSUME ViewType
  PROVE  /\ reg \in Fold /\ Unaliased \in Fold
         /\ Resolve(reg) \in Projects \cup {None}
         /\ \A q \in Projects : /\ [reg EXCEPT !.alias = q] \in Fold
                                /\ [reg EXCEPT !.known = @ \cup {q}] \in Fold
                                /\ [reg EXCEPT !.archived = @ \cup {q}] \in Fold
BY DEF ViewType, Fold, Unaliased, Resolve

(* What a process knows once it has folded.                                *)
LEMMA SeenType ==
  ASSUME ViewType, NEW p \in Procs
  PROVE  Seen(p) \subseteq Projects \cup {None}
BY DEF ViewType, Fold, Seen, Resolve

(* A request begins.                                                       *)
LEMMA AskType ==
  ASSUME PromiseType, NEW q \in Projects \cup {None}, NEW there \in Projects \cup {None},
         NEW current \in BOOLEAN
  PROVE  /\ Ask(q, there, current) \in Job
         /\ Ask(q, there, current).op = IF q = None THEN "write" ELSE "direct"
         /\ Ask(q, there, current).at = there
         /\ Ask(q, there, current).calm = current
<1>1. PICK op \in {"write", "direct"} : op = IF q = None THEN "write" ELSE "direct"
  OBVIOUS
<1>2. PICK n \in Nat : n = writes + 1
  BY DEF PromiseType
<1>3. PICK r : r = Request(op, there, n, None)
  OBVIOUS
<1>4. r \in Job /\ r.op = op /\ r.at = there
  <2>1. op \in {"none", "write", "direct", "migrate", "detach", "release", "archive"} /\ None \in Projects \cup {None}
    BY <1>1
  <2>2. /\ Request(op, there, n, None) \in Job /\ Request(op, there, n, None).op = op
        /\ Request(op, there, n, None).at = there
    BY <2>1, RequestType
  <2>. QED
    BY <1>3, <2>2
<1>5. Ask(q, there, current) = [r EXCEPT !.calm = current]
  BY <1>1, <1>2, <1>3 DEF Ask
<1>6. /\ [r EXCEPT !.calm = current] \in Job /\ [r EXCEPT !.calm = current].op = op
      /\ [r EXCEPT !.calm = current].at = there /\ [r EXCEPT !.calm = current].calm = current
  BY <1>4 DEF Job
<1>. QED
  BY <1>1, <1>5, <1>6

(* The job that a request for a record begins with.                        *)
LEMMA AskIs ==
  ASSUME TypeInv, NEW c \in Calls, NEW q \in Projects \cup {None}, Write(c, q)
  PROVE  \E there \in Projects \cup {None}, current \in BOOLEAN, step \in {"fold", "append"} :
           /\ job' = [job EXCEPT ![c] = Ask(q, there, current)]
           /\ pc' = [pc EXCEPT ![c] = step]
           /\ q # None => there = q
           /\ step = "append" =>
                there \in Scoped(q, Seen(Home[c])) /\ current = fresh[Home[c]]
<1>1. Home[c] \in Procs /\ fresh[Home[c]] \in BOOLEAN
  BY SetsAssumption DEF TypeInv, TypeOK, ViewType
<1>2. CASE Waits(Home[c])
  <2>1. job' = [job EXCEPT ![c] = Ask(q, q, TRUE)] /\ pc' = [pc EXCEPT ![c] = "fold"]
    BY <1>2 DEF Write, Goto
  <2>. QED
    BY <2>1
<1>3. CASE ~Waits(Home[c])
  <2>1. PICK there \in Scoped(q, Seen(Home[c])) : job' = [job EXCEPT ![c] = Ask(q, there, fresh[Home[c]])]
    BY <1>3 DEF Write
  <2>2. pc' = [pc EXCEPT ![c] = "append"]
    BY <1>3 DEF Write, Goto
  <2>3. there \in Projects \cup {None} /\ (q # None => there = q)
    BY <1>1, <2>1, SeenType DEF Scoped, TypeInv, TypeOK
  <2>. QED
    BY <1>1, <2>1, <2>2, <2>3
<1>. QED
  BY <1>2, <1>3

(* A projection that could not be read keeps the views' types.             *)
LEMMA MisreadType ==
  ASSUME ViewType, NEW p \in Procs, Misread(p)
  PROVE  ViewType' /\ UNCHANGED <<reg, fresh>>
<1>1. PICK view \in {proj[p], Blank} : proj' = [proj EXCEPT ![p] = view]
  BY DEF Misread
<1>2. view \in Fold
  BY <1>1 DEF ViewType, Blank, Fold
<1>3. UNCHANGED <<reg, fresh, sized>>
  BY DEF Misread
<1>. QED
  BY <1>1, <1>2, <1>3 DEF ViewType

(* A refresh that may fail changes only the views and the faults.          *)
LEMMA BestEffortType ==
  ASSUME TypeInv, NEW c \in Calls, BestEffort(c)
  PROVE  ViewType' /\ faults' \in Nat /\ UNCHANGED reg
<1> USE SetsAssumption DEF TypeInv, TypeOK
<1>1. CASE Refresh(c) /\ UNCHANGED faults
  BY <1>1, CommitType, FoldTypes DEF Refresh, Commit, PromiseType
<1>2. CASE Fails("fold") /\ Misread(Home[c])
  BY <1>2, MisreadType DEF Fails, PromiseType
<1>. QED
  BY <1>1, <1>2 DEF BestEffort

(* The write of a record.                                                  *)
LEMMA WriterType ==
  ASSUME TypeInv, NEW c \in Calls, Writer(c)
  PROVE  TypeInv'
<1> USE SetsAssumption DEF TypeInv, TypeOK
<1>1. ASSUME NEW q \in Projects \cup {None}, Write(c, q)
      PROVE  TypeInv'
  <2>1. Home[c] \in Procs
    OBVIOUS
  <2>2. PICK there \in Projects \cup {None}, current \in BOOLEAN, step \in {"fold", "append"} :
          /\ job' = [job EXCEPT ![c] = Ask(q, there, current)]
          /\ pc' = [pc EXCEPT ![c] = step]
          /\ q # None => there = q
    BY <1>1, AskIs
  <2>3. ViewType'
    BY <1>1, <2>1 DEF Write, ViewType
  <2>4. FileType' /\ PromiseType'
    BY <1>1 DEF Write, FileType, PromiseType, files, promises
  <2>5. CallType'
    BY <2>2, AskType DEF CallType, PcType
  <2>6. Locked'
    <3>1. pc[c] \notin Inside /\ UNCHANGED lock
      BY <1>1 DEF Write, Inside, files
    <3>. QED
      BY <2>2, <3>1 DEF Locked, Inside, CallType, PcType
  <2>7. Roles'
    BY <2>2, AskType DEF Roles, Inside, CallType, PcType
  <2>. QED
    BY <2>3, <2>4, <2>5, <2>6, <2>7
<1>2. ASSUME FoldRegistry(c)
      PROVE  TypeInv'
  <2> DEFINE there == Target(c, proj'[Home[c]])
             calm == job[c].calm /\ fresh'[Home[c]]
  <2>1. BestEffort(c) /\ ViewType' /\ faults' \in Nat
    BY <1>2, BestEffortType DEF FoldRegistry
  <2>2. there \in Projects \cup {None} /\ (job[c].op = "direct" => there = job[c].at)
    BY <2>1 DEF Target, CallType, Job, Resolve, ViewType, Fold
  <2>3. calm \in BOOLEAN /\ job[c] \in Job
    BY <2>1 DEF CallType, Job
  <2>4. FileType' /\ PromiseType'
    BY <1>2, <2>1 DEF FoldRegistry, FileType, PromiseType, files, promises
  <2>5. job' = [job EXCEPT ![c] = [job[c] EXCEPT !.at = there, !.calm = calm]] /\ pc[c] = "fold"
    BY <1>2 DEF FoldRegistry, CallType
  <2>6. pc' = [pc EXCEPT ![c] = "append"] /\ UNCHANGED lock
    BY <1>2 DEF FoldRegistry, Goto, files
  <2> HIDE DEF there, calm
  <2>7. /\ [job[c] EXCEPT !.at = there, !.calm = calm] \in Job
        /\ [job[c] EXCEPT !.at = there, !.calm = calm].at = there
        /\ [job[c] EXCEPT !.at = there, !.calm = calm].op = job[c].op
    BY <2>2, <2>3 DEF Job
  <2>8. CallType'
    BY <2>5, <2>6, <2>7 DEF CallType, PcType
  <2>9. Locked'
    BY <2>5, <2>6 DEF Locked, Inside, CallType, PcType
  <2>10. Roles'
    BY <2>2, <2>5, <2>6, <2>7 DEF Roles, Inside, CallType, PcType
  <2>. QED
    BY <2>1, <2>4, <2>8, <2>9, <2>10
<1>3. ASSUME AppendRecord(c)
      PROVE  TypeInv'
  <2>1. ViewType' /\ faults' \in Nat
    BY <1>3, BestEffortType DEF AppendRecord
  <2>2. job[c].rec \in Nat /\ job[c].at \in Projects \cup {None}
    BY DEF CallType, Job
  <2>3. FileType' /\ PromiseType'
    BY <1>3, <2>1, <2>2 DEF AppendRecord, FileType, PromiseType
  <2>4. CallType'
    BY <1>3, NoJobType DEF AppendRecord, Return, Goto, CallType, PcType
  <2>5. Locked'
    BY <1>3 DEF AppendRecord, Return, Goto, Locked, Inside, CallType, PcType
  <2>6. Roles'
    BY <1>3, NoJobType DEF AppendRecord, Return, Goto, Roles, Inside, CallType, PcType
  <2>. QED
    BY <2>1, <2>3, <2>4, <2>5, <2>6
<1>. QED
  BY <1>1, <1>2, <1>3 DEF Writer

(* What a write that waited for the registry goes on with.                 *)
LEMMA FoldIs ==
  ASSUME TypeInv, NEW c \in Calls, FoldRegistry(c)
  PROVE  /\ pc[c] = "fold" /\ pc' = [pc EXCEPT ![c] = "append"]
         /\ job' = [job EXCEPT ![c] = job'[c]]
         /\ job'[c].op = job[c].op
         /\ job'[c].at = Target(c, proj'[Home[c]])
         /\ job'[c].calm => job[c].calm /\ fresh'[Home[c]]
<1> DEFINE there == Target(c, proj'[Home[c]])
           calm == job[c].calm /\ fresh'[Home[c]]
<1>1. /\ job' = [job EXCEPT ![c] = [job[c] EXCEPT !.at = there, !.calm = calm]]
      /\ pc[c] = "fold" /\ pc' = [pc EXCEPT ![c] = "append"]
  BY DEF FoldRegistry, Goto, TypeInv, TypeOK, CallType
<1>2. job \in [Calls -> Job] /\ job[c] \in Job
  BY DEF TypeInv, TypeOK, CallType
<1> HIDE DEF there, calm
<1>3. /\ [job[c] EXCEPT !.at = there, !.calm = calm].op = job[c].op
      /\ [job[c] EXCEPT !.at = there, !.calm = calm].at = there
      /\ [job[c] EXCEPT !.at = there, !.calm = calm].calm = calm
  BY <1>2 DEF Job
<1>4. job'[c].op = job[c].op /\ job'[c].at = there /\ job'[c].calm = calm /\ job' = [job EXCEPT ![c] = job'[c]]
  BY <1>1, <1>2, <1>3
<1>. QED
  BY <1>1, <1>4 DEF there, calm

(* Another request that looks at the registry keeps the types.             *)
LEMMA LookType ==
  ASSUME TypeInv, NEW p \in Procs, Look(p)
  PROVE  TypeInv'
<1> USE DEF TypeInv, TypeOK
<1>1. ViewType' /\ faults' \in Nat
  <2>1. CASE /\ proj' = [proj EXCEPT ![p] = reg] /\ fresh' = [fresh EXCEPT ![p] = TRUE]
             /\ UNCHANGED <<reg, sized, faults>>
    BY <2>1 DEF ViewType, PromiseType
  <2>2. CASE Fails("fold") /\ Misread(p)
    BY <2>2, MisreadType DEF Fails, PromiseType
  <2>. QED
    BY <2>1, <2>2 DEF Look
<1>2. UNCHANGED <<files, pc, job, promises, writes, clock, admin, crashes>>
  BY DEF Look
<1>3. FileType' /\ CallType' /\ PromiseType' /\ Locked' /\ Roles'
  BY <1>1, <1>2 DEF files, promises, FileType, CallType, PromiseType, Locked, Roles
<1>. QED
  BY <1>1, <1>3

(* The steps of an adoption.                                               *)
LEMMA AdmitType ==
  ASSUME TypeInv, NEW c \in Calls,
         NEW op \in {"migrate", "detach", "release", "archive"}, NEW q \in Projects \cup {None},
         op = "archive" => q \in Projects,
         NEW step \in {"create", "copy", "drop", "release", "tombstone"},
         step \in {"create", "copy"} => op = "migrate",
         step = "drop" => op \in {"detach", "release", "archive"},
         step = "tombstone" => op = "archive", step = "copy" => q \in Projects,
         Admit(c, op, q), Goto(c, step)
  PROVE  TypeInv'
<1> USE SetsAssumption DEF TypeInv, TypeOK
<1>1. job' = [job EXCEPT ![c] = Request(op, q, 0, reg.alias)] /\ pc[c] = "idle"
  BY DEF Admit
<1>2. /\ Request(op, q, 0, reg.alias) \in Job
      /\ Request(op, q, 0, reg.alias).op = op
      /\ Request(op, q, 0, reg.alias).at = q
  <2>1. reg.alias \in Projects \cup {None} /\ 0 \in Nat
    BY DEF ViewType, Fold
  <2>. QED
    BY <2>1, RequestType
<1>3. ViewType'
  BY CommitType, FoldTypes DEF Admit, Refresh
<1>4. FileType' /\ PromiseType'
  BY DEF Admit, FileType, PromiseType, files, promises
<1>5. CallType'
  BY <1>1, <1>2 DEF Goto, CallType, PcType
<1>6. Locked'
  BY <1>1 DEF Admit, Goto, Locked, Inside, CallType, PcType, files
<1>7. Roles'
  BY <1>1, <1>2 DEF Goto, Roles, Inside, CallType, PcType
<1>. QED
  BY <1>3, <1>4, <1>5, <1>6, <1>7

(* What the end of a migration does to types, locks and roles.             *)
LEMMA LeaveType ==
  ASSUME TypeInv, NEW c \in Calls, pc[c] \in Inside,
         Unlock(job[c].at), Return(c)
  PROVE  Locked' /\ Roles' /\ CallType'
<1> USE SetsAssumption DEF TypeInv, TypeOK
<1>1. job[c].at \in Projects /\ lock[job[c].at] = c
  BY DEF Roles, Locked
<1>2. CallType'
  BY NoJobType DEF Return, Goto, CallType, PcType
<1>3. Locked'
  <2>1. \A q \in Projects, d \in Calls :
          d # c => (lock'[q] = d <=> lock[q] = d)
    BY <1>1 DEF Unlock, FileType
  <2>2. \A q \in Projects : lock'[q] # c
    BY <1>1 DEF Unlock, FileType, Locked
  <2>3. \A d \in Calls : d # c => pc'[d] = pc[d] /\ job'[d] = job[d]
    BY DEF Return, Goto, CallType, PcType
  <2>4. pc'[c] = "idle"
    BY DEF Return, Goto, CallType, PcType
  <2>. QED
    BY <2>1, <2>2, <2>3, <2>4 DEF Locked, Inside
<1>4. Roles'
  BY NoJobType DEF Return, Goto, Roles, Inside, CallType, PcType
<1>. QED
  BY <1>2, <1>3, <1>4

(* What a failed copy leaves on the boards.                                *)
LEMMA RollbackType ==
  ASSUME TypeInv, NEW c \in Calls, pc[c] \in Inside, Rollback(c)
  PROVE  brd' \in [Projects -> SUBSET Nat]
BY DEF TypeInv, TypeOK, Rollback, FileType, CallType, Job, Roles

(* A failed migration keeps the types.                                     *)
LEMMA UnwindType ==
  ASSUME TypeInv, NEW c \in Calls, pc[c] \in Inside, Unwind(c)
  PROVE  /\ ViewType' /\ Locked' /\ Roles' /\ CallType'
         /\ brd' \in [Projects -> SUBSET Nat] /\ lock' \in [Projects -> Calls \cup {None}]
<1>1. ViewType'
  <2>1. CASE UNCHANGED views
    BY <2>1 DEF views, TypeInv, TypeOK, ViewType
  <2>2. CASE Commit(c, Unaliased)
    BY <2>2, CommitType, FoldTypes DEF TypeInv, TypeOK
  <2>. QED
    BY <2>1, <2>2 DEF Unwind
<1>2. lock' \in [Projects -> Calls \cup {None}]
  BY DEF Unwind, Unlock, TypeInv, TypeOK, FileType
<1>. QED
  BY <1>1, <1>2, LeaveType, RollbackType DEF Unwind

(* The steps of a migration keep the types.                                *)
LEMMA MigrationType ==
  ASSUME TypeInv, NEW c \in Calls, Migration(c)
  PROVE  TypeInv'
<1> USE SetsAssumption DEF TypeInv, TypeOK
<1>1. ASSUME NEW q \in Projects \cup {None}, Migrate(c, q)
      PROVE  TypeInv'
  <2>1. CASE q = None /\ Goto(c, "create")
    BY <1>1, <2>1, AdmitType DEF Migrate
  <2>2. CASE q \in Live(reg) /\ Goto(c, "copy")
    <3>1. q \in Projects
      BY <2>2 DEF Live, ViewType, Fold
    <3>. QED
      BY <1>1, <2>2, <3>1, AdmitType DEF Migrate
  <2>. QED
    BY <1>1, <2>1, <2>2 DEF Migrate
<1>2. ASSUME Create(c)
      PROVE  TypeInv'
  <2>1. PICK q \in Projects : /\ Commit(c, [reg EXCEPT !.known = @ \cup {q}])
                             /\ job' = [job EXCEPT ![c].at = q]
    BY <1>2 DEF Create
  <2>2. pc[c] = "create" /\ pc' = [pc EXCEPT ![c] = "copy"] /\ job[c] \in Job
    BY <1>2 DEF Create, Goto, CallType
  <2>3. ViewType'
    BY <2>1, CommitType, FoldTypes
  <2>4. FileType' /\ PromiseType'
    BY <1>2 DEF Create, FileType, PromiseType, files, promises, counters
  <2>5. CallType'
    BY <2>1, <2>2 DEF CallType, PcType, Job
  <2>6. Locked'
    BY <1>2, <2>1, <2>2 DEF Create, Locked, Inside, CallType, PcType, files
  <2>7. Roles'
    BY <2>1, <2>2 DEF Roles, Inside, CallType, PcType, Job
  <2>. QED
    BY <2>3, <2>4, <2>5, <2>6, <2>7
<1>3. ASSUME Copy(c)
      PROVE  TypeInv'
  <2> DEFINE q == job[c].at
  <2>1. q \in Projects /\ pc[c] = "copy" /\ lock[q] = None /\ job[c] \in Job
    BY <1>3 DEF Copy, Roles, CallType
  <2>2. ViewType' /\ PromiseType'
    BY <1>3 DEF Copy, Fails, ViewType, PromiseType, views, promises
  <2>3. CASE /\ lock' = [lock EXCEPT ![q] = c]
             /\ brd' = [brd EXCEPT ![q] = @ \cup ws]
             /\ job' = [job EXCEPT ![c].was = brd[q], ![c].copied = ws]
             /\ Goto(c, "alias")
    <3>1. FileType'
      BY <1>3, <2>1, <2>3 DEF Copy, FileType
    <3>2. job' = [job EXCEPT ![c] = [job[c] EXCEPT !.was = brd[q], !.copied = ws]]
      BY <2>3 DEF CallType
    <3>3. CallType'
      <4>1. brd[q] \in SUBSET Nat /\ ws \in SUBSET Nat
        BY <2>1 DEF FileType
      <4>2. [job[c] EXCEPT !.was = brd[q], !.copied = ws] \in Job
        BY <2>1, <4>1 DEF Job
      <4>. QED
        BY <2>3, <3>2, <4>2 DEF CallType, PcType, Goto
    <3>4. job'[c].at = q /\ job'[c].op = job[c].op
      BY <2>1, <3>2 DEF CallType, Job
    <3>5. Locked'
      BY <2>1, <2>3, <3>2, <3>4 DEF Goto, Locked, Inside, CallType, PcType, FileType
    <3>6. Roles'
      BY <2>1, <2>3, <3>2, <3>4 DEF Goto, Roles, Inside, CallType, PcType
    <3>. QED
      BY <2>2, <3>1, <3>3, <3>5, <3>6
  <2>4. CASE Return(c) /\ UNCHANGED <<lock, brd>>
    <3>1. FileType'
      BY <1>3, <2>4 DEF Copy, FileType
    <3>2. CallType'
      BY <2>4, NoJobType DEF CallType, PcType, Return, Goto
    <3>3. Locked' /\ Roles'
      BY <2>1, <2>4, NoJobType DEF Return, Goto, Locked, Roles, Inside, CallType, PcType
    <3>. QED
      BY <2>2, <3>1, <3>2, <3>3
  <2>. QED
    BY <1>3, <2>3, <2>4 DEF Copy
<1>4. ASSUME Adopt(c)
      PROVE  TypeInv'
  <2> DEFINE q == job[c].at
  <2>1. q \in Projects /\ pc[c] = "alias" /\ pc[c] \in Inside
    BY <1>4 DEF Adopt, Roles, Inside
  <2>2. PromiseType'
    BY <1>4 DEF Adopt, Fails, PromiseType, CallType, Job
  <2>3. CASE /\ Commit(c, [reg EXCEPT !.alias = q])
             /\ Goto(c, "meta")
             /\ UNCHANGED <<lock, brd, job>>
    <3>1. ViewType'
      BY <2>1, <2>3, CommitType, FoldTypes
    <3>2. FileType' /\ CallType' /\ Locked' /\ Roles'
      BY <1>4, <2>1, <2>3 DEF Adopt, Goto, FileType, CallType, PcType, Locked, Roles, Inside
    <3>. QED
      BY <2>2, <3>1, <3>2
  <2>4. CASE /\ Refresh(c) \/ UNCHANGED views
             /\ Rollback(c) /\ Unlock(q) /\ Return(c)
    <3>1. ViewType'
      BY <2>4, CommitType, FoldTypes DEF Refresh, views, ViewType
    <3>2. FileType'
      BY <1>4, <2>1, <2>4, RollbackType DEF Adopt, Unlock, FileType
    <3>. QED
      BY <2>1, <2>2, <2>4, <3>1, <3>2, LeaveType
  <2>. QED
    BY <1>4, <2>3, <2>4 DEF Adopt
<1>5. ASSUME Meta(c)
      PROVE  TypeInv'
  <2>1. PromiseType'
    BY <1>5 DEF Meta, Fails, PromiseType, promises
  <2>2. CASE Goto(c, "rename") /\ UNCHANGED <<views, lock, brd, job>>
    BY <1>5, <2>1, <2>2
    DEF Meta, Goto, views, ViewType, FileType, CallType, PcType, Locked, Roles, Inside
  <2>3. CASE Unwind(c)
    <3>1. pc[c] \in Inside
      BY <1>5 DEF Meta, Inside
    <3>. QED
      BY <1>5, <2>1, <2>3, <3>1, UnwindType DEF Meta, FileType
  <2>. QED
    BY <1>5, <2>2, <2>3 DEF Meta
<1>6. ASSUME Rename(c)
      PROVE  TypeInv'
  <2>1. PromiseType' /\ pc[c] = "rename" /\ pc[c] \in Inside
    BY <1>6 DEF Rename, Fails, PromiseType, promises, Inside
  <2>2. mig' \in SUBSET [at : Nat, recs : SUBSET Nat] /\ ws' \in SUBSET Nat
    BY <1>6 DEF Rename, FileType, PromiseType
  <2>3. CASE /\ Goto(c, "rotate") /\ job' = [job EXCEPT ![c].stamp = clock + 1]
             /\ UNCHANGED <<views, lock, brd>>
    <3>1. FileType' /\ ViewType'
      BY <1>6, <2>2, <2>3 DEF Rename, FileType, ViewType, views
    <3>2. job' = [job EXCEPT ![c] = [job[c] EXCEPT !.stamp = clock + 1]] /\ job[c] \in Job
      BY <2>3 DEF CallType
    <3>3. /\ job'[c] \in Job /\ job'[c].at = job[c].at /\ job'[c].op = job[c].op
          /\ CallType'
      BY <2>3, <3>2 DEF Goto, CallType, PcType, Job, PromiseType
    <3>4. Locked' /\ Roles'
      BY <2>1, <2>3, <3>2, <3>3 DEF Goto, CallType, PcType, Locked, Roles, Inside
    <3>. QED
      BY <2>1, <3>1, <3>3, <3>4
  <2>4. CASE Unwind(c)
    BY <1>6, <2>1, <2>2, <2>4, UnwindType DEF Rename, FileType
  <2>. QED
    BY <1>6, <2>3, <2>4 DEF Rename
<1>7. ASSUME Rotate(c)
      PROVE  TypeInv'
  <2>1. PromiseType' /\ pc[c] \in Inside
    BY <1>7 DEF Rotate, Fails, PromiseType, promises, Inside
  <2>2. mig' \subseteq mig
    BY <1>7 DEF Rotate, Kept
  <2>3. CASE Unlock(job[c].at) /\ Return(c) /\ UNCHANGED <<views, brd>>
    <3>1. FileType' /\ ViewType'
      BY <1>7, <2>2, <2>3 DEF Rotate, Unlock, FileType, ViewType, views
    <3>. QED
      BY <2>1, <2>3, <3>1, LeaveType
  <2>4. CASE Unwind(c)
    BY <1>7, <2>1, <2>2, <2>4, UnwindType DEF Rotate, FileType
  <2>. QED
    BY <1>7, <2>3, <2>4 DEF Rotate
<1>. QED
  BY <1>1, <1>2, <1>3, <1>4, <1>5, <1>6, <1>7 DEF Migration

(* A step back disturbs the writes in flight and nothing else.             *)
LEMMA DisturbedType ==
  ASSUME CallType
  PROVE  /\ Disturbed \in [Calls -> Job]
         /\ \A d \in Calls : Disturbed[d].at = job[d].at /\ Disturbed[d].op = job[d].op
<1>1. \A d \in Calls : /\ [job[d] EXCEPT !.calm = FALSE] \in Job
                       /\ [job[d] EXCEPT !.calm = FALSE].at = job[d].at
                       /\ [job[d] EXCEPT !.calm = FALSE].op = job[d].op
  BY DEF CallType, Job
<1>. QED
  BY <1>1 DEF Disturbed

(* A request that holds no lock and returns.                               *)
LEMMA ReturnType ==
  ASSUME TypeInv, NEW c \in Calls, pc[c] \notin Inside, Return(c), UNCHANGED lock
  PROVE  CallType' /\ Locked' /\ Roles'
BY NoJobType DEF TypeInv, TypeOK, Return, Goto, CallType, PcType, Locked, Roles, Inside

(* The steps of a separation keep the types.                               *)
LEMMA SeparationType ==
  ASSUME TypeInv, NEW c \in Calls, Separation(c)
  PROVE  TypeInv'
<1> USE SetsAssumption DEF TypeInv, TypeOK
<1>1. ASSUME NEW q \in Projects, Detach(c, q) \/ Archive(c, q)
      PROVE  TypeInv'
  BY <1>1, AdmitType DEF Detach, Archive
<1>2. ASSUME Release(c)
      PROVE  TypeInv'
  <2>1. Goto(c, "release") \/ Goto(c, "drop")
    BY <1>2 DEF Release
  <2>. QED
    BY <1>2, <2>1, AdmitType DEF Release
<1>3. ASSUME Tombstone(c)
      PROVE  TypeInv'
  <2> DEFINE q == job[c].at
  <2>1. q \in Projects /\ pc[c] = "tombstone" /\ pc[c] \notin Inside
    BY <1>3 DEF Tombstone, Roles, Inside
  <2>2. FileType' /\ PromiseType'
    BY <1>3 DEF Tombstone, Disown, FileType, PromiseType, files, counters
  <2>3. CASE /\ Commit(c, [reg EXCEPT !.archived = @ \cup {q}])
             /\ Goto(c, IF Dropped(c) THEN "drop" ELSE "shelve")
             /\ job' = Disturbed \/ UNCHANGED job
    <3>1. ViewType'
      BY <2>1, <2>3, CommitType, FoldTypes
    <3>2. job' \in [Calls -> Job] /\ \A d \in Calls : job'[d].at = job[d].at /\ job'[d].op = job[d].op
      BY <2>3, DisturbedType DEF CallType
    <3>3. PICK step \in {"drop", "shelve"} : pc' = [pc EXCEPT ![c] = step]
      BY <2>3 DEF Goto
    <3>4. CallType'
      BY <3>2, <3>3 DEF CallType, PcType
    <3>5. Locked'
      BY <1>3, <2>1, <3>2, <3>3 DEF Tombstone, Locked, Inside, CallType, PcType, files
    <3>6. job[c].op \in {"detach", "release", "archive"}
      BY <2>1 DEF Roles
    <3>7. Roles'
      BY <2>1, <3>2, <3>3, <3>6 DEF Roles, Inside, CallType, PcType
    <3>. QED
      BY <2>2, <3>1, <3>4, <3>5, <3>7
  <2>4. CASE Refresh(c) /\ Return(c)
    <3>1. ViewType'
      BY <2>4, CommitType, FoldTypes DEF Refresh
    <3>. QED
      BY <1>3, <2>1, <2>2, <2>4, <3>1, ReturnType DEF Tombstone, files
  <2>. QED
    BY <1>3, <2>3, <2>4 DEF Tombstone
<1>4. ASSUME Drop(c)
      PROVE  TypeInv'
  <2>1. /\ pc[c] = "drop" /\ pc[c] \notin Inside /\ job[c].op \in {"detach", "release", "archive"}
        /\ job[c].op = "archive" => job[c].at \in Projects
    BY <1>4 DEF Drop, Roles, Inside
  <2>2. ViewType'
    BY <1>4, CommitType, FoldTypes DEF Drop
  <2>3. FileType' /\ PromiseType'
    BY <1>4 DEF Drop, Disown, FileType, PromiseType, files, counters
  <2>4. job' \in [Calls -> Job] /\ \A d \in Calls : job'[d].at = job[d].at /\ job'[d].op = job[d].op
    BY <1>4, DisturbedType DEF Drop
  <2>5. PICK step \in {"pick", "release", "shelve"} :
          pc' = [pc EXCEPT ![c] = step] /\ (step = "shelve" => job[c].op = "archive")
    <3>1. pc' = [pc EXCEPT ![c] = AfterDrop[job[c].op]]
      BY <1>4 DEF Drop, Goto
    <3>2. AfterDrop["detach"] = "pick" /\ AfterDrop["release"] = "release" /\ AfterDrop["archive"] = "shelve"
      BY DEF AfterDrop
    <3>. QED
      BY <2>1, <3>1, <3>2
  <2>6. CallType'
    BY <2>4, <2>5 DEF CallType, PcType
  <2>7. Locked'
    BY <1>4, <2>1, <2>4, <2>5 DEF Drop, Locked, Inside, CallType, PcType, files
  <2>8. Roles'
    BY <2>1, <2>4, <2>5 DEF Roles, Inside, CallType, PcType
  <2>. QED
    BY <2>2, <2>3, <2>6, <2>7, <2>8
<1>5. ASSUME ReleaseBoard(c)
      PROVE  TypeInv'
  <2>1. ViewType' /\ FileType' /\ PromiseType' /\ pc[c] \notin Inside
    BY <1>5 DEF ReleaseBoard, Disown, ViewType, FileType, PromiseType, views, counters, Inside
  <2>2. /\ job' \in [Calls -> Job] /\ job'[c] = NoJob
        /\ \A d \in Calls \ {c} : job'[d].at = job[d].at /\ job'[d].op = job[d].op
    BY <1>5, DisturbedType, NoJobType DEF ReleaseBoard
  <2>3. pc' = [pc EXCEPT ![c] = "idle"] /\ UNCHANGED lock
    BY <1>5 DEF ReleaseBoard, Goto
  <2>4. CallType'
    BY <2>2, <2>3 DEF CallType, PcType
  <2>5. Locked'
    BY <2>1, <2>2, <2>3 DEF Locked, Inside, CallType, PcType
  <2>6. Roles'
    BY <2>2, <2>3, NoJobType DEF Roles, Inside, CallType, PcType
  <2>. QED
    BY <2>1, <2>4, <2>5, <2>6
<1>6. ASSUME Pick(c)
      PROVE  TypeInv'
  <2>1. ViewType' /\ FileType' /\ PromiseType' /\ pc[c] = "pick" /\ pc[c] \notin Inside /\ UNCHANGED lock
    BY <1>6 DEF Pick, ViewType, FileType, PromiseType, views, files, promises, counters, Inside
  <2>2. CASE /\ \E a \in Newest : job' = [job EXCEPT ![c].stamp = a.at]
             /\ Goto(c, "restore")
    <3>1. PICK a \in Newest : job' = [job EXCEPT ![c].stamp = a.at]
      BY <2>2
    <3>2. a.at \in Nat
      BY <3>1 DEF Newest, FileType
    <3>3. job' = [job EXCEPT ![c] = [job[c] EXCEPT !.stamp = a.at]] /\ job[c] \in Job
      BY <3>1 DEF CallType
    <3>4. job'[c] \in Job /\ job'[c].at = job[c].at /\ job'[c].op = job[c].op /\ CallType'
      BY <2>2, <3>2, <3>3 DEF Goto, CallType, PcType, Job
    <3>5. Locked' /\ Roles'
      BY <2>1, <2>2, <3>3, <3>4 DEF Goto, CallType, PcType, Locked, Roles, Inside
    <3>. QED
      BY <2>1, <3>4, <3>5
  <2>3. CASE Return(c)
    BY <2>1, <2>3, ReturnType
  <2>. QED
    BY <1>6, <2>2, <2>3 DEF Pick
<1>7. ASSUME Restore(c)
      PROVE  TypeInv'
  <2>1. ws' \in SUBSET Nat /\ mig' \subseteq mig
    <3>1. \A a \in Kept(job[c].stamp) : a.recs \in SUBSET Nat
      BY DEF Kept, FileType
    <3>2. UNION {a.recs : a \in Kept(job[c].stamp)} \in SUBSET Nat
      BY <3>1
    <3>. QED
      BY <1>7, <3>2 DEF Restore, FileType
  <2>2. ViewType' /\ FileType' /\ PromiseType' /\ pc[c] \notin Inside
    BY <1>7, <2>1 DEF Restore, ViewType, FileType, PromiseType, views, promises, counters, Inside
  <2>. QED
    BY <1>7, <2>2, ReturnType DEF Restore
<1>8. ASSUME Shelve(c)
      PROVE  TypeInv'
  <2>1. job[c].at \in Projects
    BY <1>8 DEF Shelve, Roles
  <2>2. ViewType' /\ FileType' /\ PromiseType' /\ pc[c] \notin Inside
    BY <1>8, <2>1 DEF Shelve, ViewType, FileType, PromiseType, views, promises, counters, Inside
  <2>. QED
    BY <1>8, <2>2, ReturnType DEF Shelve
<1>9. ASSUME GiveUp(c)
      PROVE  TypeInv'
  <2>1. ViewType' /\ FileType' /\ pc[c] \notin Inside /\ UNCHANGED lock /\ Return(c)
    BY <1>9 DEF GiveUp, ViewType, FileType, views, files, Inside
  <2>2. Short(c) => job[c].at \in Projects
    BY DEF Short, Roles
  <2>3. PromiseType'
    BY <1>9, <2>2 DEF GiveUp, Fails, PromiseType
  <2>. QED
    BY <2>1, <2>3, ReturnType
<1>. QED
  BY <1>1, <1>2, <1>3, <1>4, <1>5, <1>6, <1>7, <1>8, <1>9 DEF Separation

(* A crash keeps the types.                                                *)
LEMMA CrashType ==
  ASSUME TypeInv, NEW p \in Procs, Crash(p)
  PROVE  TypeInv'
<1> USE SetsAssumption DEF TypeInv, TypeOK
<1> DEFINE gone == {c \in Calls : Home[c] = p}
<1>0. \A c \in Calls : Short(c) => job[c].at \in Projects
  BY DEF Short, Roles
<1>1. ViewType' /\ PromiseType'
  BY <1>0 DEF Crash, ViewType, Blank, Fold, PromiseType
<1>2. FileType'
  BY DEF Crash, FileType
<1>3. CallType'
  BY NoJobType DEF Crash, CallType, PcType
<1>4. Locked'
  BY DEF Crash, Locked, Inside, CallType, PcType, FileType
<1>5. Roles'
  BY NoJobType DEF Crash, Roles, Inside, CallType, PcType
<1>. QED
  BY <1>1, <1>2, <1>3, <1>4, <1>5

(* Every step keeps the types.                                             *)
LEMMA TypeStep == TypeInv /\ [Next]_vars => TypeInv'
<1> SUFFICES ASSUME TypeInv, [Next]_vars PROVE TypeInv'
  OBVIOUS
<1>1. CASE Next
  BY <1>1, WriterType, MigrationType, SeparationType, CrashType, LookType DEF Next
<1>2. CASE UNCHANGED vars
  BY <1>2 DEF vars, views, files, promises, counters, TypeInv, TypeOK, ViewType, FileType,
    CallType, PromiseType, Locked, Roles
<1>. QED
  BY <1>1, <1>2

(* The state keeps its types, and a project's file is locked by exactly    *)
(* the migration at work on it, through failures and crashes.              *)
THEOREM TypeCorrect == Spec => []TypeOK
<1>1. Init => TypeInv
  BY TypeInit
<1>2. TypeInv /\ [Next]_vars => TypeInv'
  BY TypeStep
<1>3. TypeInv => TypeOK
  BY DEF TypeInv
<1>. QED
  BY <1>1, <1>2, <1>3, PTL DEF Spec

(* ---------------------------------------------------------------------- *)
(* Nothing is lost                                                         *)

(* The records of a project that no migration under way can still take     *)
(* back: a rollback truncates to what was there before.                    *)
Undoable == {"alias", "meta", "rename"}
Solid(q) == IF lock[q] \in Calls /\ pc[lock[q]] \in Undoable THEN job[lock[q]].was ELSE brd[q]
Firm(r) == r \in shelf \/ \E q \in Projects : r \in Solid(q)

(* Every acknowledged record is in the workspace's board or firmly in a    *)
(* project; an archive of the workspace holds nothing that is not firmly   *)
(* in a project, so that pruning it loses nothing; and what a migration    *)
(* will rename away it has copied, or it was in a project before.          *)
Stored == \A r \in acked : r \in ws \/ Firm(r)
Spare == \A a \in mig : \A r \in a.recs : Firm(r)
Duplicated ==
  \A c \in Calls : pc[c] \in Undoable =>
    /\ job[c].was \subseteq brd[job[c].at]
    /\ job[c].copied \subseteq brd[job[c].at]
    /\ \A r \in ws : r \in job[c].copied \/ Firm(r)
Safe == Stored /\ Spare /\ Duplicated

(* Nobody writes to the workspace while it is being adopted.               *)
Peace ==
  "quiet" \in Discipline =>
    \A c, d \in Calls : ~(job[c].op = "migrate" /\ job[d].op = "write")

(* The holder of a project's file, seen from the file and from the holder. *)
LEMMA SolidHolder ==
  ASSUME TypeInv
  PROVE  /\ \A c \in Calls : pc[c] \in Undoable =>
              lock[job[c].at] = c /\ job[c].at \in Projects /\ Solid(job[c].at) = job[c].was
         /\ \A q \in Projects :
              (\A c \in Calls : pc[c] \in Undoable => job[c].at # q) => Solid(q) = brd[q]
BY DEF TypeInv, TypeOK, Locked, Roles, Inside, Undoable, Solid

(* A step that touches no file and no migration's notes.                   *)
LEMMA Untouched ==
  ASSUME Safe, UNCHANGED files, acked' = acked,
         \A d \in Calls : (pc'[d] \in Undoable) <=> (pc[d] \in Undoable),
         \A d \in Calls : pc[d] \in Undoable =>
           job'[d].at = job[d].at /\ job'[d].was = job[d].was /\ job'[d].copied = job[d].copied
  PROVE  Safe'
<1>1. \A q \in Projects : Solid(q)' = Solid(q)
  BY DEF Solid, files
<1>2. \A r : Firm(r) => Firm(r)'
  BY <1>1 DEF Firm, files
<1>3. Stored' /\ Spare'
  BY <1>2 DEF Safe, Stored, Spare, files
<1>4. Duplicated'
  BY <1>2 DEF Safe, Duplicated, files
<1>. QED
  BY <1>3, <1>4 DEF Safe

(* A migration that takes its copy back.                                   *)
LEMMA Undone ==
  ASSUME TypeInv, TypeInv', Safe, NEW c \in Calls, pc[c] \in Undoable,
         Rollback(c), Unlock(job[c].at), Return(c), UNCHANGED <<ws, mig, shelf, acked>>
  PROVE  Safe'
<1>0. PICK q \in Projects : q = job[c].at
  BY SolidHolder
<1>1. /\ lock[q] = c /\ Solid(q) = job[c].was
      /\ \A d \in Calls \ {c} : pc[d] \in Undoable => job[d].at # q
  BY <1>0, SolidHolder
<1>2. /\ \A d \in Calls \ {c} : pc'[d] = pc[d] /\ job'[d] = job[d]
      /\ pc'[c] \notin Undoable
  BY DEF Return, Goto, TypeInv, TypeOK, CallType, PcType, Undoable
<1>3. brd'[q] = job[c].was /\ \A o \in Projects \ {q} : brd'[o] = brd[o]
  BY <1>0 DEF Rollback, TypeInv, TypeOK, FileType
<1>4. lock'[q] = None /\ \A o \in Projects \ {q} : lock'[o] = lock[o]
  BY <1>0 DEF Unlock, TypeInv, TypeOK, FileType
<1>5. \A o \in Projects : Solid(o)' = Solid(o)
  <2>1. Solid(q)' = Solid(q)
    BY <1>1, <1>3, <1>4, SetsAssumption DEF Solid
  <2>2. ASSUME NEW o \in Projects \ {q}
        PROVE  Solid(o)' = Solid(o)
    <3>1. lock[o] # c
      BY <1>0, <2>2 DEF TypeInv, TypeOK, Locked
    <3>. QED
      BY <1>2, <1>3, <1>4, <3>1 DEF Solid
  <2>. QED
    BY <2>1, <2>2
<1>6. \A r : Firm(r) => Firm(r)'
  BY <1>5 DEF Firm
<1>7. Stored' /\ Spare'
  BY <1>6 DEF Safe, Stored, Spare
<1>8. Duplicated'
  <2> SUFFICES ASSUME NEW d \in Calls, pc'[d] \in Undoable
               PROVE  /\ job'[d].was \subseteq brd'[job'[d].at]
                      /\ job'[d].copied \subseteq brd'[job'[d].at]
                      /\ \A r \in ws' : r \in job'[d].copied \/ Firm(r)'
    BY DEF Duplicated
  <2>1. d # c /\ pc[d] \in Undoable /\ job'[d] = job[d] /\ job[d].at # q /\ job[d].at \in Projects
    BY <1>1, <1>2, SolidHolder
  <2>. QED
    BY <1>3, <1>6, <2>1 DEF Safe, Duplicated
<1>. QED
  BY <1>7, <1>8 DEF Safe

(* Records move or are added; no lock and no migration's notes change.     *)
LEMMA Moved ==
  ASSUME TypeInv, Safe, UNCHANGED lock,
         \A d \in Calls : (pc'[d] \in Undoable) <=> (pc[d] \in Undoable),
         \A d \in Calls : pc[d] \in Undoable =>
           job'[d].at = job[d].at /\ job'[d].was = job[d].was /\ job'[d].copied = job[d].copied,
         \A q \in Projects : brd'[q] = brd[q] \/ (lock[q] = None /\ brd[q] \subseteq brd'[q] \cup shelf'),
         shelf \subseteq shelf'
  PROVE  /\ \A r : Firm(r) => Firm(r)'
         /\ \A d \in Calls : pc'[d] \in Undoable =>
              /\ job'[d].was \subseteq brd'[job'[d].at]
              /\ job'[d].copied \subseteq brd'[job'[d].at]
<1>1. ASSUME NEW q \in Projects
      PROVE  Solid(q)' = Solid(q) \/ (Solid(q) = brd[q] /\ Solid(q)' = brd'[q] /\ lock[q] = None)
  BY SetsAssumption DEF Solid
<1>2. ASSUME NEW r, Firm(r)
      PROVE  Firm(r)'
  <2>1. CASE r \in shelf
    BY <2>1 DEF Firm
  <2>2. CASE \E q \in Projects : r \in Solid(q)
    <3>1. PICK q \in Projects : r \in Solid(q)
      BY <2>2
    <3>2. r \in Solid(q)' \/ r \in shelf'
      BY <1>1, <3>1
    <3>. QED
      BY <3>2 DEF Firm
  <2>. QED
    BY <1>2, <2>1, <2>2 DEF Firm
<1>3. ASSUME NEW d \in Calls, pc'[d] \in Undoable
      PROVE  /\ job'[d].was \subseteq brd'[job'[d].at]
             /\ job'[d].copied \subseteq brd'[job'[d].at]
  <2>1. PICK q \in Projects : q = job[d].at /\ lock[q] = d
    BY <1>3, SolidHolder
  <2>2. brd'[q] = brd[q]
    BY <2>1, SetsAssumption
  <2>. QED
    BY <1>3, <2>1, <2>2 DEF Safe, Duplicated
<1>. QED
  BY <1>2, <1>3

(* The steps of a writer keep what was acknowledged.                       *)
LEMMA WriterSafe ==
  ASSUME TypeInv, Safe, Peace, "quiet" \in Discipline, NEW c \in Calls, Writer(c)
  PROVE  Safe'
<1> USE DEF TypeInv, TypeOK
<1>1. ASSUME NEW q \in Projects \cup {None}, Write(c, q)
      PROVE  Safe'
  <2>1. /\ UNCHANGED <<files, acked>> /\ pc[c] = "idle"
        /\ \E step \in {"fold", "append"} : pc' = [pc EXCEPT ![c] = step]
        /\ \E j : job' = [job EXCEPT ![c] = j]
    BY <1>1 DEF Write, Goto, promises
  <2>. QED
    BY <2>1, Untouched DEF Undoable, CallType, PcType
<1>2. ASSUME FoldRegistry(c)
      PROVE  Safe'
  <2>1. /\ UNCHANGED <<files, acked>> /\ pc[c] = "fold" /\ pc' = [pc EXCEPT ![c] = "append"]
        /\ \E j : job' = [job EXCEPT ![c] = j]
    BY <1>2, FoldIs DEF FoldRegistry, promises
  <2>. QED
    BY <2>1, Untouched DEF Undoable, CallType, PcType
<1>3. ASSUME AppendRecord(c)
      PROVE  Safe'
  <2>1. /\ UNCHANGED <<lock, mig, shelf>> /\ pc[c] = "append" /\ pc' = [pc EXCEPT ![c] = "idle"]
        /\ job' = [job EXCEPT ![c] = NoJob]
        /\ acked' = acked \cup {job[c].rec}
        /\ job[c].at \in Projects \cup {None}
    BY <1>3 DEF AppendRecord, Return, Goto, CallType, Job
  <2>2. /\ \A d \in Calls : (pc'[d] \in Undoable) <=> (pc[d] \in Undoable)
        /\ \A d \in Calls : pc[d] \in Undoable => job'[d] = job[d]
    BY <2>1 DEF Undoable, CallType, PcType
  <2>3. \A q \in Projects : brd'[q] = brd[q] \/ (lock[q] = None /\ brd[q] \subseteq brd'[q])
    BY <1>3 DEF AppendRecord, FileType
  <2>4. /\ \A r : Firm(r) => Firm(r)'
        /\ \A d \in Calls : pc'[d] \in Undoable =>
             /\ job'[d].was \subseteq brd'[job'[d].at]
             /\ job'[d].copied \subseteq brd'[job'[d].at]
    BY <2>1, <2>2, <2>3, Moved
  <2>5. CASE job[c].at = None
    <3>1. ws' = ws \cup {job[c].rec}
      BY <1>3, <2>5 DEF AppendRecord
    <3>2. job[c].op = "write"
      BY <2>1, <2>5, SetsAssumption DEF Roles
    <3>3. \A d \in Calls : pc[d] \notin Undoable
      BY <3>2 DEF Peace, Roles, Inside, Undoable
    <3>. QED
      BY <2>1, <2>2, <2>4, <3>1, <3>3 DEF Safe, Stored, Spare, Duplicated
  <2>6. CASE job[c].at # None
    <3>1. PICK q \in Projects, r \in Nat : q = job[c].at /\ r = job[c].rec
      BY <2>1, <2>6 DEF CallType, Job
    <3>2. ws' = ws /\ lock[q] = None /\ r \in brd'[q] /\ acked' = acked \cup {r}
      BY <1>3, <2>6, <3>1 DEF AppendRecord, FileType
    <3>3. Solid(q)' = brd'[q]
      <4>1. lock'[q] \notin Calls
        BY <2>1, <3>2, SetsAssumption
      <4>. QED
        BY <4>1 DEF Solid
    <3>4. Firm(r)'
      BY <3>2, <3>3 DEF Firm
    <3>. QED
      BY <2>1, <2>2, <2>4, <3>2, <3>4 DEF Safe, Stored, Spare, Duplicated
  <2>. QED
    BY <2>5, <2>6
<1>. QED
  BY <1>1, <1>2, <1>3 DEF Writer

(* A request that is admitted keeps what was acknowledged.                 *)
LEMMA AdmitSafe ==
  ASSUME TypeInv, Safe, NEW c \in Calls, NEW op, NEW q,
         NEW step \in {"create", "copy", "drop", "release", "tombstone"},
         Admit(c, op, q), Goto(c, step)
  PROVE  Safe'
<1>1. /\ UNCHANGED <<files, acked>> /\ pc[c] = "idle" /\ pc' = [pc EXCEPT ![c] = step]
      /\ job' = [job EXCEPT ![c] = Request(op, q, 0, reg.alias)]
  BY DEF Admit, Goto, promises
<1>. QED
  BY <1>1, Untouched DEF Undoable, TypeInv, TypeOK, CallType, PcType

(* The copy is made under the lock and can still be taken back.            *)
LEMMA CopySafe ==
  ASSUME TypeInv, Safe, NEW c \in Calls, Copy(c)
  PROVE  Safe'
<1> USE DEF TypeInv, TypeOK
<1>1. PICK q \in Projects : q = job[c].at
  BY DEF Copy, Roles
<1>2. /\ pc[c] = "copy" /\ lock[q] = None /\ UNCHANGED <<ws, mig, shelf, acked>>
  BY <1>1 DEF Copy, promises
<1>3. CASE Return(c) /\ UNCHANGED <<lock, brd>>
  BY <1>2, <1>3, Untouched DEF Return, Goto, files, Undoable, CallType, PcType
<1>4. CASE /\ lock' = [lock EXCEPT ![q] = c]
           /\ brd' = [brd EXCEPT ![q] = @ \cup ws]
           /\ job' = [job EXCEPT ![c].was = brd[q], ![c].copied = ws]
           /\ Goto(c, "alias")
  <2>1. /\ pc' = [pc EXCEPT ![c] = "alias"] /\ job[c] \in Job
        /\ job' = [job EXCEPT ![c] = [job[c] EXCEPT !.was = brd[q], !.copied = ws]]
    BY <1>4 DEF Goto, CallType
  <2>2. /\ pc'[c] = "alias" /\ job'[c].at = q /\ job'[c].was = brd[q] /\ job'[c].copied = ws
        /\ \A d \in Calls \ {c} : pc'[d] = pc[d] /\ job'[d] = job[d]
    BY <1>1, <2>1 DEF CallType, PcType, Job
  <2>3. /\ lock'[q] = c /\ brd'[q] = brd[q] \cup ws
        /\ \A o \in Projects \ {q} : lock'[o] = lock[o] /\ brd'[o] = brd[o]
    BY <1>4 DEF FileType
  <2>4. \A o \in Projects : Solid(o)' = Solid(o)
    <3>1. Solid(q)' = Solid(q)
      <4>1. Solid(q) = brd[q]
        BY <1>2, SetsAssumption DEF Solid
      <4>2. Solid(q)' = job'[c].was
        BY <2>2, <2>3 DEF Solid, Undoable
      <4>. QED
        BY <2>2, <4>1, <4>2
    <3>2. ASSUME NEW o \in Projects \ {q}
          PROVE  Solid(o)' = Solid(o)
      <4>1. lock[o] # c
        BY <1>2 DEF Locked, Inside
      <4>. QED
        BY <2>2, <2>3, <4>1 DEF Solid
    <3>. QED
      BY <3>1, <3>2
  <2>5. \A r : Firm(r) => Firm(r)'
    BY <1>2, <2>4 DEF Firm
  <2>6. Stored' /\ Spare'
    BY <1>2, <2>5 DEF Safe, Stored, Spare
  <2>7. Duplicated'
    <3> SUFFICES ASSUME NEW d \in Calls, pc'[d] \in Undoable
                 PROVE  /\ job'[d].was \subseteq brd'[job'[d].at]
                        /\ job'[d].copied \subseteq brd'[job'[d].at]
                        /\ \A r \in ws' : r \in job'[d].copied \/ Firm(r)'
      BY DEF Duplicated
    <3>1. CASE d = c
      BY <1>2, <2>2, <2>3, <3>1
    <3>2. CASE d # c
      <4>1. pc[d] \in Undoable /\ job'[d] = job[d]
        BY <2>2, <3>2
      <4>2. job[d].at # q /\ job[d].at \in Projects
        BY <1>2, <4>1, SolidHolder, SetsAssumption
      <4>. QED
        BY <1>2, <2>3, <2>5, <4>1, <4>2 DEF Safe, Duplicated
    <3>. QED
      BY <3>1, <3>2
  <2>. QED
    BY <2>6, <2>7 DEF Safe
<1>. QED
  BY <1>1, <1>3, <1>4 DEF Copy

(* The rename: what it moves to the archive stays in the project.          *)
LEMMA RenameSafe ==
  ASSUME TypeInv, TypeInv', Safe, NEW c \in Calls, Rename(c)
  PROVE  Safe'
<1> USE DEF TypeInv, TypeOK
<1>1. pc[c] = "rename" /\ pc[c] \in Undoable /\ UNCHANGED <<shelf, acked>>
  BY DEF Rename, Undoable, promises
<1>2. CASE Unwind(c) /\ UNCHANGED <<ws, mig>>
  BY <1>1, <1>2, Undone DEF Unwind
<1>3. CASE /\ ws' = {} /\ Goto(c, "rotate") /\ UNCHANGED <<lock, brd>>
           /\ mig' = IF ws = {} THEN mig ELSE mig \cup {[at |-> clock + 1, recs |-> ws]}
           /\ job' = [job EXCEPT ![c].stamp = clock + 1]
  <2>1. PICK q \in Projects : q = job[c].at /\ lock[q] = c /\ Solid(q) = job[c].was
    BY <1>1, SolidHolder
  <2>2. /\ pc' = [pc EXCEPT ![c] = "rotate"]
        /\ \A d \in Calls \ {c} : pc'[d] = pc[d] /\ job'[d] = job[d]
        /\ pc'[c] \notin Undoable
    BY <1>3 DEF Goto, CallType, PcType, Undoable
  <2>3. Solid(q)' = brd[q]
    BY <1>3, <2>1, <2>2 DEF Solid
  <2>4. \A o \in Projects : Solid(o) \subseteq Solid(o)'
    <3>1. Solid(q) \subseteq Solid(q)'
      BY <1>1, <2>1, <2>3 DEF Safe, Duplicated
    <3>2. ASSUME NEW o \in Projects \ {q}
          PROVE  Solid(o)' = Solid(o)
      <4>1. lock[o] # c
        BY <2>1 DEF Locked
      <4>. QED
        BY <1>3, <2>2, <4>1 DEF Solid
    <3>. QED
      BY <3>1, <3>2
  <2>5. \A r : Firm(r) => Firm(r)'
    BY <1>1, <2>4 DEF Firm
  <2>6. \A r \in ws : Firm(r)'
    <3>1. \A r \in job[c].copied : r \in Solid(q)'
      BY <1>1, <2>1, <2>3 DEF Safe, Duplicated
    <3>. QED
      BY <1>1, <2>5, <3>1 DEF Safe, Duplicated, Firm
  <2>7. Stored'
    BY <1>1, <2>5, <2>6 DEF Safe, Stored
  <2>8. Spare'
    BY <1>3, <2>5, <2>6 DEF Safe, Spare
  <2>9. Duplicated'
    BY <1>3, <2>2 DEF Safe, Duplicated
  <2>. QED
    BY <2>7, <2>8, <2>9 DEF Safe
<1>. QED
  BY <1>2, <1>3 DEF Rename

(* The steps of a migration keep what was acknowledged.                    *)
LEMMA MigrationSafe ==
  ASSUME TypeInv, TypeInv', Safe, "rotate" \notin Faulty, NEW c \in Calls, Migration(c)
  PROVE  Safe'
<1> USE DEF TypeInv, TypeOK
<1>1. ASSUME NEW q \in Projects \cup {None}, Migrate(c, q)
      PROVE  Safe'
  BY <1>1, AdmitSafe DEF Migrate
<1>2. ASSUME Create(c)
      PROVE  Safe'
  <2>1. /\ UNCHANGED <<files, acked>> /\ pc[c] = "create" /\ pc' = [pc EXCEPT ![c] = "copy"]
        /\ \E q \in Projects : job' = [job EXCEPT ![c].at = q]
    BY <1>2 DEF Create, Goto, promises
  <2>. QED
    BY <2>1, Untouched DEF Undoable, CallType, PcType
<1>3. ASSUME Adopt(c)
      PROVE  Safe'
  <2>1. pc[c] = "alias" /\ pc[c] \in Undoable /\ UNCHANGED <<ws, mig, shelf, acked>>
    BY <1>3 DEF Adopt, Undoable
  <2>2. CASE Goto(c, "meta") /\ UNCHANGED <<lock, brd, job>>
    BY <2>1, <2>2, Untouched DEF Goto, files, Undoable, CallType, PcType
  <2>3. CASE Rollback(c) /\ Unlock(job[c].at) /\ Return(c)
    BY <2>1, <2>3, Undone
  <2>. QED
    BY <1>3, <2>2, <2>3 DEF Adopt
<1>4. ASSUME Meta(c)
      PROVE  Safe'
  <2>1. pc[c] = "meta" /\ pc[c] \in Undoable /\ UNCHANGED <<ws, mig, shelf, acked>>
    BY <1>4 DEF Meta, Undoable, promises
  <2>2. CASE Goto(c, "rename") /\ UNCHANGED <<lock, brd, job>>
    BY <2>1, <2>2, Untouched DEF Goto, files, Undoable, CallType, PcType
  <2>3. CASE Unwind(c)
    BY <2>1, <2>3, Undone DEF Unwind
  <2>. QED
    BY <1>4, <2>2, <2>3 DEF Meta
<1>5. ASSUME Rotate(c)
      PROVE  Safe'
  <2>1. /\ pc[c] = "rotate" /\ mig' \subseteq mig /\ Unlock(job[c].at) /\ Return(c)
        /\ UNCHANGED <<ws, brd, shelf, acked>>
    BY <1>5 DEF Rotate, Kept, Fails, promises
  <2>2. PICK q \in Projects : q = job[c].at /\ lock[q] = c
    BY <2>1 DEF Roles, Locked, Inside
  <2>3. /\ \A d \in Calls \ {c} : pc'[d] = pc[d] /\ job'[d] = job[d]
        /\ pc'[c] \notin Undoable /\ pc[c] \notin Undoable
        /\ lock'[q] = None /\ \A o \in Projects \ {q} : lock'[o] = lock[o]
    BY <2>1, <2>2 DEF Return, Goto, Unlock, CallType, PcType, FileType, Undoable
  <2>4. \A o \in Projects : Solid(o)' = Solid(o)
    <3>1. Solid(q) = brd[q] /\ Solid(q)' = brd'[q]
      BY <2>2, <2>3, SetsAssumption DEF Solid
    <3>2. ASSUME NEW o \in Projects \ {q}
          PROVE  Solid(o)' = Solid(o)
      <4>1. lock[o] # c
        BY <2>2 DEF Locked
      <4>. QED
        BY <2>1, <2>3, <4>1 DEF Solid
    <3>. QED
      BY <2>1, <3>1, <3>2
  <2>5. \A r : Firm(r) => Firm(r)'
    BY <2>1, <2>4 DEF Firm
  <2>. QED
    BY <2>1, <2>3, <2>5 DEF Safe, Stored, Spare, Duplicated
<1>. QED
  BY <1>1, <1>2, <1>3, <1>4, <1>5, CopySafe, RenameSafe DEF Migration

(* The steps of a separation keep what was acknowledged.                   *)
LEMMA SeparationSafe ==
  ASSUME TypeInv, Safe, NEW c \in Calls, Separation(c)
  PROVE  Safe'
<1> USE DEF TypeInv, TypeOK
<1>1. ASSUME NEW q \in Projects, Detach(c, q) \/ Archive(c, q)
      PROVE  Safe'
  BY <1>1, AdmitSafe DEF Detach, Archive
<1>2. ASSUME Release(c)
      PROVE  Safe'
  <2>1. Goto(c, "release") \/ Goto(c, "drop")
    BY <1>2 DEF Release
  <2>. QED
    BY <1>2, <2>1, AdmitSafe DEF Release
<1>3. ASSUME Tombstone(c) \/ Drop(c) \/ Pick(c)
      PROVE  Safe'
  <2>1. UNCHANGED <<files, acked>> /\ pc[c] \notin Undoable
    BY <1>3 DEF Tombstone, Drop, Pick, promises, Undoable
  <2>2. \E step \in {"idle", "drop", "shelve", "pick", "release", "restore"} : pc' = [pc EXCEPT ![c] = step]
    <3>1. Drop(c) => AfterDrop[job[c].op] \in {"shelve", "pick", "release"}
      BY DEF Drop, Roles, AfterDrop
    <3>. QED
      BY <1>3, <3>1 DEF Tombstone, Drop, Pick, Goto, Return
  <2>3. \A d \in Calls \ {c} :
          job'[d].at = job[d].at /\ job'[d].was = job[d].was /\ job'[d].copied = job[d].copied
    <3>1. CASE job' = Disturbed
      BY <3>1 DEF Disturbed, CallType, Job
    <3>2. CASE \E j : job' = [job EXCEPT ![c] = j]
      BY <3>2 DEF CallType
    <3>3. CASE UNCHANGED job
      BY <3>3
    <3>. QED
      BY <1>3, <3>1, <3>2, <3>3 DEF Tombstone, Drop, Pick, Return
  <2>. QED
    BY <2>1, <2>2, <2>3, Untouched DEF Undoable, CallType, PcType
<1>4. ASSUME ReleaseBoard(c)
      PROVE  Safe'
  <2>1. /\ ws' = {} /\ shelf' = shelf \cup ws /\ UNCHANGED <<lock, brd, mig, acked>>
        /\ pc[c] \notin Undoable /\ pc' = [pc EXCEPT ![c] = "idle"]
    BY <1>4 DEF ReleaseBoard, Goto, Undoable
  <2>2. \A d \in Calls \ {c} :
          job'[d].at = job[d].at /\ job'[d].was = job[d].was /\ job'[d].copied = job[d].copied
    BY <1>4 DEF ReleaseBoard, Disturbed, CallType, Job
  <2>3. /\ \A r : Firm(r) => Firm(r)'
        /\ \A d \in Calls : pc'[d] \in Undoable =>
             /\ job'[d].was \subseteq brd'[job'[d].at]
             /\ job'[d].copied \subseteq brd'[job'[d].at]
    BY <2>1, <2>2, Moved DEF Undoable, CallType, PcType
  <2>. QED
    BY <2>1, <2>3 DEF Safe, Stored, Spare, Duplicated, Firm
<1>5. ASSUME Restore(c)
      PROVE  Safe'
  <2>1. /\ UNCHANGED <<lock, brd, shelf, acked>> /\ mig' \subseteq mig
        /\ pc[c] \notin Undoable /\ pc' = [pc EXCEPT ![c] = "idle"]
        /\ \A d \in Calls \ {c} : job'[d] = job[d]
    BY <1>5 DEF Restore, Return, Goto, Undoable, promises, CallType
  <2>2. \A r \in ws' : r \in ws \/ Firm(r)
    BY <1>5 DEF Restore, Kept, Safe, Spare
  <2>3. ws \subseteq ws'
    BY <1>5 DEF Restore
  <2>4. /\ \A r : Firm(r) => Firm(r)'
        /\ \A d \in Calls : pc'[d] \in Undoable =>
             /\ job'[d].was \subseteq brd'[job'[d].at]
             /\ job'[d].copied \subseteq brd'[job'[d].at]
    BY <2>1, Moved DEF Undoable, CallType, PcType
  <2>5. Stored' /\ Spare'
    BY <2>1, <2>3, <2>4 DEF Safe, Stored, Spare
  <2>6. Duplicated'
    <3> SUFFICES ASSUME NEW d \in Calls, pc'[d] \in Undoable, NEW r \in ws'
                 PROVE  r \in job'[d].copied \/ Firm(r)'
      BY <2>4 DEF Duplicated
    <3>1. pc[d] \in Undoable /\ job'[d] = job[d]
      BY <2>1 DEF Undoable, CallType, PcType
    <3>. QED
      BY <2>2, <2>4, <3>1 DEF Safe, Duplicated
  <2>. QED
    BY <2>5, <2>6 DEF Safe
<1>6. ASSUME Shelve(c)
      PROVE  Safe'
  <2>1. PICK q \in Projects : q = job[c].at
    BY <1>6 DEF Shelve, Roles
  <2>2. /\ UNCHANGED <<lock, ws, mig, acked>> /\ lock[q] = None /\ shelf' = shelf \cup brd[q]
        /\ brd' = [brd EXCEPT ![q] = {}]
        /\ pc[c] \notin Undoable /\ pc' = [pc EXCEPT ![c] = "idle"]
        /\ \A d \in Calls \ {c} : job'[d] = job[d]
    BY <1>6, <2>1 DEF Shelve, Return, Goto, Undoable, promises, CallType
  <2>3. \A o \in Projects : brd'[o] = brd[o] \/ (lock[o] = None /\ brd[o] \subseteq brd'[o] \cup shelf')
    BY <2>2 DEF FileType
  <2>4. /\ \A r : Firm(r) => Firm(r)'
        /\ \A d \in Calls : pc'[d] \in Undoable =>
             /\ job'[d].was \subseteq brd'[job'[d].at]
             /\ job'[d].copied \subseteq brd'[job'[d].at]
    BY <2>2, <2>3, Moved DEF Undoable, CallType, PcType
  <2>. QED
    BY <2>2, <2>4 DEF Safe, Stored, Spare, Duplicated, Undoable, CallType, PcType
<1>7. ASSUME GiveUp(c)
      PROVE  Safe'
  BY <1>7, Untouched DEF GiveUp, Return, Goto, files, Undoable, CallType, PcType
<1>. QED
  BY <1>1, <1>2, <1>3, <1>4, <1>5, <1>6, <1>7 DEF Separation

(* A crash frees the locks of its migrations, whose copies then stay.      *)
LEMMA CrashSafe ==
  ASSUME TypeInv, Safe, NEW p \in Procs, Crash(p)
  PROVE  Safe'
<1> USE DEF TypeInv, TypeOK
<1> DEFINE gone == {c \in Calls : Home[c] = p}
<1>1. /\ UNCHANGED <<ws, brd, mig, shelf, acked>>
      /\ \A c \in Calls : c \in gone => pc'[c] \notin Undoable
      /\ \A c \in Calls : c \notin gone => pc'[c] = pc[c] /\ job'[c] = job[c]
      /\ \A q \in Projects : lock'[q] = IF lock[q] \in gone THEN None ELSE lock[q]
  BY DEF Crash, promises, Undoable
<1>2. \A q \in Projects : Solid(q) \subseteq Solid(q)'
  <2> SUFFICES ASSUME NEW q \in Projects PROVE Solid(q) \subseteq Solid(q)'
    OBVIOUS
  <2>1. CASE lock[q] \in gone
    <3>1. Solid(q)' = brd[q]
      BY <1>1, <2>1, SetsAssumption DEF Solid
    <3>2. lock[q] \in Calls /\ job[lock[q]].at = q
      BY <2>1 DEF Locked
    <3>. QED
      BY <3>1, <3>2 DEF Solid, Safe, Duplicated
  <2>2. CASE lock[q] \notin gone
    <3>1. lock'[q] = lock[q] /\ brd'[q] = brd[q]
      BY <1>1, <2>2
    <3>. QED
      BY <1>1, <2>2, <3>1 DEF Solid
  <2>. QED
    BY <2>1, <2>2
<1>3. \A r : Firm(r) => Firm(r)'
  BY <1>1, <1>2 DEF Firm
<1>. QED
  BY <1>1, <1>3 DEF Safe, Stored, Spare, Duplicated

(* Every step leaves an adoption and the writes to its workspace apart.    *)
LEMMA PeaceKept ==
  ASSUME TypeInv, Peace, "quiet" \in Discipline, [Next]_vars
  PROVE  Peace'
<1> USE DEF TypeInv, TypeOK
<1>1. ASSUME NEW c \in Calls, NEW q \in Projects \cup {None}, Write(c, q)
      PROVE  Peace'
  <2>1. PICK there \in Projects \cup {None}, current \in BOOLEAN :
          job' = [job EXCEPT ![c] = Ask(q, there, current)]
    BY <1>1, AskIs
  <2>2. Ask(q, there, current).op = IF q = None THEN "write" ELSE "direct"
    BY AskType
  <2>3. q = None => \A d \in Calls : job[d].op # "migrate"
    BY <1>1 DEF Write, Adopting
  <2>. QED
    BY <2>1, <2>2, <2>3 DEF Peace, CallType
<1>2. ASSUME NEW c \in Calls, NEW op \in {"migrate", "detach", "release", "archive"},
             NEW q \in Projects \cup {None}, Admit(c, op, q),
             op = "migrate" => \A d \in Calls : job[d].op # "write"
      PROVE  Peace'
  <2>1. job' = [job EXCEPT ![c] = Request(op, q, 0, reg.alias)]
    BY <1>2 DEF Admit
  <2>2. Request(op, q, 0, reg.alias).op = op
    BY Zenon DEF Request
  <2>. QED
    BY <1>2, <2>1, <2>2 DEF Peace, CallType
<1>3. ASSUME \A d \in Calls : job'[d].op = job[d].op \/ job'[d].op = "none"
      PROVE  Peace'
  BY <1>3 DEF Peace
<1>4. ASSUME NEW c \in Calls,
             \/ Return(c)
             \/ UNCHANGED job
             \/ job' = Disturbed
             \/ job' = [Disturbed EXCEPT ![c] = NoJob]
             \/ \E q : job' = [job EXCEPT ![c].at = q]
             \/ \E n : job' = [job EXCEPT ![c].stamp = n]
             \/ \E s, t : job' = [job EXCEPT ![c].was = s, ![c].copied = t]
      PROVE  Peace'
  <2>1. CASE Return(c)
    BY <1>3, <2>1, NoJobType DEF Return, CallType
  <2>2. CASE UNCHANGED job
    BY <1>3, <2>2
  <2>3. CASE job' = Disturbed
    BY <1>3, <2>3, DisturbedType
  <2>4. CASE job' = [Disturbed EXCEPT ![c] = NoJob]
    <3>1. \A d \in Calls : job'[d] = Disturbed[d] \/ job'[d] = NoJob
      BY <2>4, DisturbedType
    <3>. QED
      BY <1>3, <3>1, DisturbedType, NoJobType
  <2>5. ASSUME NEW q, job' = [job EXCEPT ![c].at = q]
        PROVE  Peace'
    BY <1>3, <2>5 DEF CallType, Job
  <2>6. ASSUME NEW n, job' = [job EXCEPT ![c].stamp = n]
        PROVE  Peace'
    BY <1>3, <2>6 DEF CallType, Job
  <2>7. ASSUME NEW s, NEW t, job' = [job EXCEPT ![c].was = s, ![c].copied = t]
        PROVE  Peace'
    <3>1. job' = [job EXCEPT ![c] = [job[c] EXCEPT !.was = s, !.copied = t]]
      BY <2>7 DEF CallType
    <3>2. [job[c] EXCEPT !.was = s, !.copied = t].op = job[c].op
      BY DEF CallType, Job
    <3>. QED
      BY <1>3, <3>1, <3>2 DEF CallType
  <2>. QED
    BY <1>4, <2>1, <2>2, <2>3, <2>4, <2>5, <2>6, <2>7
<1>5. ASSUME NEW c \in Calls, Writer(c)
      PROVE  Peace'
  <2>1. CASE FoldRegistry(c)
    <3>1. job' = [job EXCEPT ![c] = job'[c]] /\ job'[c].op = job[c].op
      BY <2>1, FoldIs
    <3>. QED
      BY <1>3, <3>1 DEF CallType
  <2>2. CASE AppendRecord(c)
    BY <1>4, <2>2 DEF AppendRecord
  <2>. QED
    BY <1>1, <1>5, <2>1, <2>2 DEF Writer
<1>6. ASSUME NEW c \in Calls, Migration(c)
      PROVE  Peace'
  <2>1. ASSUME NEW q \in Projects \cup {None}, Migrate(c, q)
        PROVE  Peace'
    BY <1>2, <2>1 DEF Migrate, Writing
  <2>2. CASE Create(c)
    <3>1. PICK q \in Projects \ reg.known : job' = [job EXCEPT ![c].at = q]
      BY <2>2 DEF Create
    <3>. QED
      BY <1>4, <3>1
  <2>5. CASE Copy(c)
    <3>1. CASE job' = [job EXCEPT ![c].was = brd[job[c].at], ![c].copied = ws]
      BY <1>4, <3>1
    <3>2. CASE Return(c)
      BY <1>4, <3>2
    <3>. QED
      BY <2>5, <3>1, <3>2 DEF Copy
  <2>3. CASE Adopt(c) \/ Meta(c)
    BY <1>4, <2>3 DEF Adopt, Meta, Unwind
  <2>4. CASE Rename(c) \/ Rotate(c)
    BY <1>4, <2>4 DEF Rename, Rotate, Unwind
  <2>. QED
    BY <1>6, <2>1, <2>2, <2>3, <2>4, <2>5 DEF Migration
<1>7. ASSUME NEW c \in Calls, Separation(c)
      PROVE  Peace'
  <2>1. ASSUME NEW q \in Projects, Detach(c, q) \/ Archive(c, q)
        PROVE  Peace'
    BY <1>2, <2>1 DEF Detach, Archive
  <2>2. CASE Release(c)
    BY <1>2, <2>2 DEF Release
  <2>3. CASE Tombstone(c) \/ Drop(c) \/ ReleaseBoard(c)
    BY <1>4, <2>3 DEF Tombstone, Drop, ReleaseBoard
  <2>4. CASE Pick(c) \/ Restore(c) \/ Shelve(c) \/ GiveUp(c)
    BY <1>4, <2>4 DEF Pick, Restore, Shelve, GiveUp
  <2>. QED
    BY <1>7, <2>1, <2>2, <2>3, <2>4 DEF Separation
<1>8. ASSUME NEW p \in Procs, Look(p) \/ Crash(p)
      PROVE  Peace'
  BY <1>3, <1>8, NoJobType DEF Look, Crash
<1>9. CASE UNCHANGED vars
  BY <1>9 DEF vars, Peace
<1>. QED
  BY <1>5, <1>6, <1>7, <1>8, <1>9 DEF Next

(* An acknowledged record is never lost, however often the workspace is    *)
(* adopted, detached, released or its project archived, by any number of   *)
(* processes at once, with crashes and with failures of any step but the   *)
(* rotation of the archives: provided that no client writes to a workspace *)
(* while it is being adopted.                                              *)
THEOREM AcknowledgedIsKept ==
  ASSUME "quiet" \in Discipline, "rotate" \notin Faulty
  PROVE  Spec => []NothingLost
<1> DEFINE Inv == TypeInv /\ Safe /\ Peace
<1>1. Init => Inv
  <2> SUFFICES ASSUME Init PROVE Inv
    OBVIOUS
  <2>1. Safe
    BY DEF Init, Safe, Stored, Spare, Duplicated, Undoable
  <2>2. Peace
    BY NoJobType DEF Init, Peace
  <2>. QED
    BY <2>1, <2>2, TypeInit
<1>2. Inv /\ [Next]_vars => Inv'
  <2> SUFFICES ASSUME Inv, [Next]_vars PROVE Inv'
    OBVIOUS
  <2>1. TypeInv'
    BY TypeStep
  <2>2. Peace'
    BY PeaceKept
  <2>3. Safe'
    <3>1. CASE Next
      <4>1. \A p \in Procs : Look(p) => UNCHANGED <<files, pc, job, acked>>
        BY DEF Look, promises
      <4>2. UNCHANGED <<files, pc, job, acked>> => Safe'
        BY Untouched
      <4>. QED
        BY <2>1, <3>1, <4>1, <4>2, WriterSafe, MigrationSafe, SeparationSafe, CrashSafe DEF Next
    <3>2. CASE UNCHANGED vars
      BY <3>2 DEF vars, files, promises, Safe, Stored, Spare, Duplicated, Firm, Solid
    <3>. QED
      BY <3>1, <3>2
  <2>. QED
    BY <2>1, <2>2, <2>3
<1>3. Inv => NothingLost
  <2> SUFFICES ASSUME Inv, NEW r \in acked
               PROVE  r \in ws \/ r \in shelf \/ \E q \in Projects : r \in brd[q]
    BY DEF NothingLost
  <2>1. \A q \in Projects : Solid(q) \subseteq brd[q]
    BY DEF TypeInv, TypeOK, Locked, Solid, Safe, Duplicated
  <2>. QED
    BY <2>1 DEF Safe, Stored, Firm
<1>. QED
  BY <1>1, <1>2, <1>3, PTL DEF Spec

(* ---------------------------------------------------------------------- *)
(* Boards stay reachable                                                   *)

(* One admin request at a time, at a step of its own.                      *)
Alone == \A c, d \in Calls : Administers(c) /\ Administers(d) => c = d
Steps ==
  \A c \in Calls :
    /\ pc[c] \in {"pick", "restore"} => job[c].op = "detach"
    /\ pc[c] = "release" => job[c].op = "release"
    /\ pc[c] = "shelve" => job[c].op = "archive"

(* A fold that is taken for current is.                                    *)
Current == \A p \in Procs : fresh[p] => proj[p] = reg

(* Only a project that was created is archived.                            *)
Registered == reg.archived \subseteq reg.known

(* A calm write is under way to the board a reader will look at.           *)
Resolved ==
  \A c \in Calls : job[c].op = "write" /\ pc[c] = "append" /\ job[c].calm => job[c].at = Resolve(reg)

(* Only the request that archives the project can leave it the alias: it   *)
(* is about to drop it, or it was cut short there.                         *)
Dropping(c) == pc[c] = "drop" /\ job[c].op = "archive" /\ job[c].at = reg.alias
Owned == reg.alias \in Live(reg) \cup cut \cup {None} \/ \E c \in Calls : Dropping(c)

(* How far an adoption is, and what can be undone from there.              *)
Migrating ==
  \A c \in Calls :
    /\ pc[c] \in {"create", "copy", "alias"} => Resolve(reg) = None
    /\ pc[c] \in {"copy", "alias"} => job[c].at \in Live(reg)
    /\ pc[c] = "alias" => job[c].copied = ws /\ ws \subseteq brd[job[c].at]
    /\ pc[c] \in {"meta", "rename"} => Resolve(reg) = job[c].at /\ owed \subseteq ws /\ snap = ws
    /\ pc[c] = "rotate" =>
         /\ Resolve(reg) = job[c].at /\ ws = {} /\ job[c].stamp = clock
         /\ snap \subseteq UNION {a.recs : a \in Kept(job[c].stamp)}

(* How far a separation is.                                                *)
Separating ==
  \A c \in Calls :
    /\ pc[c] \in {"release", "pick", "restore"} => Resolve(reg) = None
    /\ pc[c] = "tombstone" => reg.alias = job[c].had
    /\ pc[c] = "shelve" \/ (pc[c] = "drop" /\ job[c].op = "archive") => job[c].at \in reg.archived

Stamps == \A a \in mig : a.at <= clock

(* What BoardsReachable says of rest holds at every step.                  *)
Shown == owed \subseteq View
Backed == Resolve(reg) # None /\ ws \cap astray = {} => snap \subseteq Snapshot

Reach == Resolved /\ Owned /\ Migrating /\ Separating /\ Stamps /\ Shown /\ Backed
Order == Alone /\ Steps /\ Current /\ Peace /\ Registered

Disciplined ==
  {"quiet", "serial"} \subseteq Discipline /\ {"rotate", "unwind"} \cap Faulty = {}

(* A request that returns, and what a step of a request leaves of others.  *)
LEMMA Returned ==
  ASSUME TypeInv, NEW c \in Calls, Return(c)
  PROVE  /\ pc'[c] = "idle" /\ job'[c] = NoJob
         /\ \A d \in Calls \ {c} : pc'[d] = pc[d] /\ job'[d] = job[d]
BY DEF Return, Goto, TypeInv, TypeOK, CallType, PcType

Undisturbed(c) ==
  \A d \in Calls \ {c} :
    /\ pc'[d] = pc[d]
    /\ job'[d] = job[d] \/ job'[d] = [job[d] EXCEPT !.calm = FALSE]

Steady(c) == job'[c] = NoJob \/ job'[c].op = job[c].op \/ pc[c] = "idle"

(* A step of one request leaves the others undisturbed.                    *)
LEMMA Elsewhere ==
  ASSUME TypeInv, NEW c \in Calls, Writer(c) \/ Migration(c) \/ Separation(c)
  PROVE  Undisturbed(c) /\ Steady(c)
<1> USE DEF TypeInv, TypeOK
<1>1. ASSUME NEW step, pc' = [pc EXCEPT ![c] = step],
             \/ \E j : job' = [job EXCEPT ![c] = j] /\ (j = NoJob \/ j.op = job[c].op \/ pc[c] = "idle")
             \/ \E q : job' = [job EXCEPT ![c].at = q]
             \/ \E n : job' = [job EXCEPT ![c].stamp = n]
             \/ \E s, t : job' = [job EXCEPT ![c].was = s, ![c].copied = t]
             \/ UNCHANGED job
             \/ job' = Disturbed
             \/ job' = [Disturbed EXCEPT ![c] = NoJob]
      PROVE  Undisturbed(c) /\ Steady(c)
  <2>1. \A d \in Calls \ {c} : pc'[d] = pc[d]
    BY <1>1 DEF CallType, PcType
  <2>2. ASSUME NEW j, job' = [job EXCEPT ![c] = j], j = NoJob \/ j.op = job[c].op \/ pc[c] = "idle"
        PROVE  Undisturbed(c) /\ Steady(c)
    BY <2>1, <2>2 DEF CallType, Undisturbed, Steady
  <2>3. ASSUME NEW q, job' = [job EXCEPT ![c].at = q]
        PROVE  Undisturbed(c) /\ Steady(c)
    BY <2>1, <2>3 DEF CallType, Job, Undisturbed, Steady
  <2>4. ASSUME NEW n, job' = [job EXCEPT ![c].stamp = n]
        PROVE  Undisturbed(c) /\ Steady(c)
    BY <2>1, <2>4 DEF CallType, Job, Undisturbed, Steady
  <2>5. ASSUME NEW s, NEW t, job' = [job EXCEPT ![c].was = s, ![c].copied = t]
        PROVE  Undisturbed(c) /\ Steady(c)
    <3>1. job' = [job EXCEPT ![c] = [job[c] EXCEPT !.was = s, !.copied = t]]
      BY <2>5 DEF CallType
    <3>2. [job[c] EXCEPT !.was = s, !.copied = t].op = job[c].op
      BY DEF CallType, Job
    <3>. QED
      BY <2>2, <3>1, <3>2
  <2>6. CASE UNCHANGED job
    BY <2>1, <2>6 DEF Undisturbed, Steady
  <2>7. CASE job' = Disturbed
    BY <2>1, <2>7 DEF Disturbed, CallType, Job, Undisturbed, Steady
  <2>8. CASE job' = [Disturbed EXCEPT ![c] = NoJob]
    BY <2>1, <2>8 DEF Disturbed, CallType, Undisturbed, Steady
  <2>. QED
    BY <1>1, <2>2, <2>3, <2>4, <2>5, <2>6, <2>7, <2>8
<1>2. Return(c) => /\ pc' = [pc EXCEPT ![c] = "idle"]
                   /\ \E j : job' = [job EXCEPT ![c] = j] /\ (j = NoJob \/ j.op = job[c].op \/ pc[c] = "idle")
  BY DEF Return, Goto
<1>3. CASE Writer(c)
  <2>1. ASSUME NEW q \in Projects \cup {None}, Write(c, q)
        PROVE  Undisturbed(c) /\ Steady(c)
    <3>1. /\ \E j : job' = [job EXCEPT ![c] = j]
          /\ \E step : pc' = [pc EXCEPT ![c] = step]
      BY <2>1, AskIs
    <3>2. pc[c] = "idle"
      BY <2>1 DEF Write
    <3>. QED
      BY <1>1, <3>1, <3>2
  <2>2. CASE FoldRegistry(c)
    <3>1. /\ \E j : job' = [job EXCEPT ![c] = j] /\ (j = NoJob \/ j.op = job[c].op \/ pc[c] = "idle")
          /\ pc' = [pc EXCEPT ![c] = "append"]
      BY <2>2, FoldIs
    <3>. QED
      BY <1>1, <3>1
  <2>3. CASE AppendRecord(c)
    BY <1>1, <1>2, <2>3 DEF AppendRecord
  <2>. QED
    BY <1>3, <2>1, <2>2, <2>3 DEF Writer
<1>4. CASE (\E q \in Projects \cup {None} : Migrate(c, q)) \/ (\E q \in Projects : Detach(c, q) \/ Archive(c, q)) \/ Release(c)
  <2>1. /\ \E j : job' = [job EXCEPT ![c] = j] /\ (j = NoJob \/ j.op = job[c].op \/ pc[c] = "idle")
        /\ \E step : pc' = [pc EXCEPT ![c] = step]
    BY <1>4 DEF Migrate, Detach, Archive, Release, Admit, Goto
  <2>. QED
    BY <1>1, <2>1
<1>5. CASE Create(c)
  <2>1. (\E q : job' = [job EXCEPT ![c].at = q]) /\ pc' = [pc EXCEPT ![c] = "copy"]
    BY <1>5 DEF Create, Goto
  <2>. QED
    BY <1>1, <2>1
<1>6. CASE Copy(c)
  <2>1. CASE Return(c)
    BY <1>1, <1>2, <2>1
  <2>2. CASE /\ job' = [job EXCEPT ![c].was = brd[job[c].at], ![c].copied = ws]
             /\ pc' = [pc EXCEPT ![c] = "alias"]
    BY <1>1, <2>2
  <2>. QED
    BY <1>6, <2>1, <2>2 DEF Copy, Goto
<1>7. CASE Adopt(c) \/ Meta(c)
  <2>1. CASE UNCHANGED job /\ \E step : pc' = [pc EXCEPT ![c] = step]
    BY <1>1, <2>1
  <2>. QED
    BY <1>1, <1>2, <1>7, <2>1 DEF Adopt, Meta, Unwind, Goto
<1>8. CASE Rename(c) \/ Rotate(c)
  <2>1. CASE (\E n : job' = [job EXCEPT ![c].stamp = n]) /\ pc' = [pc EXCEPT ![c] = "rotate"]
    BY <1>1, <2>1
  <2>. QED
    BY <1>1, <1>2, <1>8, <2>1 DEF Rename, Rotate, Unwind, Goto
<1>9. CASE Tombstone(c) \/ Drop(c)
  <2>1. CASE (UNCHANGED job \/ job' = Disturbed) /\ \E step : pc' = [pc EXCEPT ![c] = step]
    BY <1>1, <2>1
  <2>. QED
    BY <1>1, <1>2, <1>9, <2>1 DEF Tombstone, Drop, Goto
<1>10. CASE ReleaseBoard(c)
  BY <1>1, <1>10 DEF ReleaseBoard, Goto
<1>11. CASE Pick(c)
  <2>1. CASE (\E n : job' = [job EXCEPT ![c].stamp = n]) /\ pc' = [pc EXCEPT ![c] = "restore"]
    BY <1>1, <2>1
  <2>. QED
    BY <1>1, <1>2, <1>11, <2>1 DEF Pick, Goto
<1>12. CASE Restore(c) \/ Shelve(c) \/ GiveUp(c)
  BY <1>1, <1>2, <1>12 DEF Restore, Shelve, GiveUp
<1>. QED
  BY <1>3, <1>4, <1>5, <1>6, <1>7, <1>8, <1>9, <1>10, <1>11, <1>12 DEF Migration, Separation

(* The steps an admin request can be at, and how little else there is.     *)
Ordinary == {"idle", "fold", "append"}

(* While the requests take turns one is at work.                           *)
LEMMA AloneAtWork ==
  ASSUME TypeInv, Alone, Steps, NEW c \in Calls, Administers(c)
  PROVE  /\ \A d \in Calls \ {c} : ~Administers(d) /\ pc[d] \in Ordinary
         /\ job[c].op = "migrate" /\ Peace /\ "quiet" \in Discipline =>
              \A d \in Calls : job[d].op # "write"
<1>1. ASSUME NEW d \in Calls \ {c}
      PROVE  ~Administers(d) /\ pc[d] \in Ordinary
  <2>1. ~Administers(d)
    BY <1>1 DEF Alone
  <2>. QED
    BY <2>1 DEF Administers, Steps, Ordinary, TypeInv, TypeOK, Roles, Inside, CallType, PcType
<1>. QED
  BY <1>1 DEF Peace

(* Between two requests nobody is at work.                                 *)
LEMMA NobodyAtWork ==
  ASSUME TypeInv, Steps, AtRest
  PROVE  \A d \in Calls : pc[d] \in Ordinary
BY DEF AtRest, Administers, Steps, Ordinary, TypeInv, TypeOK, Roles, Inside, CallType, PcType

(* One administrative request at a time, by every step.                    *)
LEMMA AloneKept ==
  ASSUME TypeInv, TypeInv', Alone, Steps, "serial" \in Discipline, [Next]_vars
  PROVE  Alone' /\ Steps'
<1> USE DEF TypeInv, TypeOK
<1>1. ASSUME NEW c \in Calls, Writer(c) \/ Migration(c) \/ Separation(c),
             Administers(c)' => Administers(c) \/ AtRest,
             /\ pc'[c] \in {"pick", "restore"} => job'[c].op = "detach"
             /\ pc'[c] = "release" => job'[c].op = "release"
             /\ pc'[c] = "shelve" => job'[c].op = "archive"
      PROVE  Alone' /\ Steps'
  <2>1. \A d \in Calls \ {c} : pc'[d] = pc[d] /\ job'[d].op = job[d].op
    BY <1>1, Elsewhere DEF Undisturbed, CallType, Job
  <2>2. Steps'
    BY <1>1, <2>1 DEF Steps
  <2>3. Alone'
    BY <1>1, <2>1 DEF Alone, Administers, AtRest
  <2>. QED
    BY <2>2, <2>3
<1>2. ASSUME NEW c \in Calls, pc[c] # "idle", Steady(c)
      PROVE  Administers(c)' => Administers(c)
  BY <1>2, NoJobType DEF Steady, Administers
<1>3. ASSUME NEW c \in Calls, Writer(c)
      PROVE  Alone' /\ Steps'
  <2>1. pc'[c] \in Ordinary
    BY <1>3 DEF Writer, Write, FoldRegistry, AppendRecord, Return, Goto, Ordinary, CallType, PcType
  <2>2. Administers(c)' => Administers(c)
    <3>1. CASE pc[c] # "idle"
      BY <1>2, <1>3, <3>1, Elsewhere
    <3>2. ASSUME NEW q \in Projects \cup {None}, Write(c, q)
          PROVE  ~Administers(c)'
      <4>1. PICK there \in Projects \cup {None}, current \in BOOLEAN :
              job' = [job EXCEPT ![c] = Ask(q, there, current)]
        BY <3>2, AskIs
      <4>2. job'[c].op \in {"write", "direct"}
        BY <4>1, AskType DEF CallType
      <4>. QED
        BY <4>2 DEF Administers
    <3>3. CASE FoldRegistry(c) \/ AppendRecord(c)
      BY <3>1, <3>3 DEF FoldRegistry, AppendRecord
    <3>. QED
      BY <1>3, <3>2, <3>3 DEF Writer
  <2>. QED
    BY <1>1, <1>3, <2>1, <2>2 DEF Ordinary
<1>4. ASSUME NEW c \in Calls,
             (\E q \in Projects \cup {None} : Migrate(c, q)) \/ (\E q \in Projects : Detach(c, q) \/ Archive(c, q)) \/ Release(c)
      PROVE  Alone' /\ Steps'
  <2>1. AtRest
    BY <1>4 DEF Migrate, Detach, Archive, Release, Admit
  <2>2. pc'[c] \in {"create", "copy", "drop", "tombstone"} \/ (Release(c) /\ pc'[c] = "release")
    BY <1>4 DEF Migrate, Detach, Archive, Release, Goto, CallType, PcType
  <2>3. Release(c) => job'[c].op = "release"
    <3>1. Request("release", None, 0, reg.alias).op = "release"
      BY Zenon DEF Request
    <3>. QED
      BY <3>1 DEF Release, Admit, CallType
  <2>. QED
    BY <1>1, <1>4, <2>1, <2>2, <2>3 DEF Migration, Separation
<1>5. ASSUME NEW c \in Calls, Create(c) \/ Copy(c) \/ Adopt(c) \/ Meta(c) \/ Rename(c) \/ Rotate(c)
      PROVE  Alone' /\ Steps'
  <2>1. pc[c] # "idle" /\ pc'[c] \notin {"pick", "restore", "release", "shelve"}
    BY <1>5 DEF Create, Copy, Adopt, Meta, Rename, Rotate, Unwind, Return, Goto, CallType, PcType
  <2>. QED
    BY <1>1, <1>2, <1>5, <2>1, Elsewhere DEF Migration
<1>6. ASSUME NEW c \in Calls,
             Tombstone(c) \/ Drop(c) \/ ReleaseBoard(c) \/ Pick(c) \/ Restore(c) \/ Shelve(c) \/ GiveUp(c)
      PROVE  Alone' /\ Steps'
  <2>1. pc[c] # "idle" /\ Steady(c) /\ (Writer(c) \/ Migration(c) \/ Separation(c))
    BY <1>6, Elsewhere DEF Tombstone, Drop, ReleaseBoard, Pick, Restore, Shelve, GiveUp, Separation
  <2>2. CASE pc'[c] = "idle"
    BY <1>1, <1>2, <2>1, <2>2
  <2>3. CASE pc'[c] # "idle" /\ Tombstone(c)
    <3>1. pc'[c] \in {"drop", "shelve"} /\ job[c].op = "archive"
      BY <2>3 DEF Tombstone, Goto, Return, Roles, CallType, PcType
    <3>2. job'[c].op = "archive"
      BY <2>3, DisturbedType, <3>1 DEF Tombstone, Return, Goto, CallType, PcType
    <3>. QED
      BY <1>1, <1>2, <2>1, <3>1, <3>2
  <2>4. CASE Drop(c)
    <3>1. pc'[c] = AfterDrop[job[c].op] /\ job'[c].op = job[c].op /\ job[c].op \in {"detach", "release", "archive"}
      BY <2>4, DisturbedType DEF Drop, Goto, Roles, CallType, PcType
    <3>2. AfterDrop["detach"] = "pick" /\ AfterDrop["release"] = "release" /\ AfterDrop["archive"] = "shelve"
      BY DEF AfterDrop
    <3>. QED
      BY <1>1, <1>2, <2>1, <3>1, <3>2
  <2>5. CASE pc'[c] # "idle" /\ Pick(c)
    <3>1. pc'[c] = "restore" /\ job[c].op = "detach"
      BY <2>5 DEF Pick, Goto, Return, Steps, CallType, PcType
    <3>2. job'[c].op = job[c].op
      BY <2>5, <3>1 DEF Pick, Return, Goto, CallType, PcType, Job
    <3>. QED
      BY <1>1, <1>2, <2>1, <3>1, <3>2
  <2>6. ReleaseBoard(c) \/ Restore(c) \/ Shelve(c) \/ GiveUp(c) => pc'[c] = "idle"
    BY DEF ReleaseBoard, Restore, Shelve, GiveUp, Return, Goto, CallType, PcType
  <2>. QED
    BY <1>6, <2>2, <2>3, <2>4, <2>5, <2>6
<1>7. ASSUME NEW p \in Procs, Look(p) \/ Crash(p)
      PROVE  Alone' /\ Steps'
  BY <1>7, NoJobType DEF Look, Crash, Alone, Steps, Administers
<1>8. CASE UNCHANGED vars
  BY <1>8 DEF vars, Alone, Steps, Administers
<1>. QED
  BY <1>3, <1>4, <1>5, <1>6, <1>7, <1>8 DEF Next, Migration, Separation

(* A fold that is taken for current is: whatever is appended to the        *)
(* registry makes the folds of the other processes stale.                  *)
LEMMA CurrentKept ==
  ASSUME TypeInv, Current, [Next]_vars
  PROVE  Current'
<1> USE DEF TypeInv, TypeOK
<1>1. ASSUME NEW c \in Calls, NEW new, Commit(c, new)
      PROVE  Current'
  BY <1>1, SetsAssumption DEF Commit, ViewType, Current
<1>2. ASSUME UNCHANGED <<reg, proj, fresh>>
      PROVE  Current'
  BY <1>2 DEF Current
<1>3. ASSUME NEW p \in Procs, Misread(p)
      PROVE  Current'
  <2>1. ~fresh[p] /\ UNCHANGED <<reg, fresh>> /\ \A o \in Procs \ {p} : proj'[o] = proj[o]
    BY <1>3 DEF Misread, ViewType
  <2>. QED
    BY <2>1 DEF Current
<1>4. ASSUME NEW c \in Calls, Writer(c)
      PROVE  Current'
  <2>1. BestEffort(c) => Current'
    BY <1>1, <1>3, SetsAssumption DEF BestEffort, Refresh
  <2>2. (\E q \in Projects \cup {None} : Write(c, q)) => UNCHANGED <<reg, proj, fresh>>
    BY DEF Write
  <2>. QED
    BY <1>2, <1>4, <2>1, <2>2 DEF Writer, FoldRegistry, AppendRecord
<1>5. ASSUME NEW c \in Calls, Migration(c)
      PROVE  Current'
  <2>1. (\E q \in Projects \cup {None} : Migrate(c, q)) \/ Create(c) => \E new : Commit(c, new)
    BY DEF Migrate, Admit, Create, Refresh
  <2>2. Copy(c) \/ Adopt(c) \/ Meta(c) \/ Rename(c) \/ Rotate(c) =>
          (\E new : Commit(c, new)) \/ UNCHANGED views
    BY DEF Copy, Adopt, Meta, Rename, Rotate, Unwind, Refresh
  <2>. QED
    BY <1>1, <1>2, <1>5, <2>1, <2>2 DEF Migration, views
<1>6. ASSUME NEW c \in Calls, Separation(c)
      PROVE  Current'
  <2>1. (\E q \in Projects : Detach(c, q) \/ Archive(c, q)) \/ Release(c) \/ Tombstone(c) \/ Drop(c)
          => \E new : Commit(c, new)
    BY DEF Detach, Archive, Release, Admit, Tombstone, Drop, Refresh
  <2>2. ReleaseBoard(c) \/ Pick(c) \/ Restore(c) \/ Shelve(c) \/ GiveUp(c) => UNCHANGED views
    BY DEF ReleaseBoard, Pick, Restore, Shelve, GiveUp
  <2>. QED
    BY <1>1, <1>2, <1>6, <2>1, <2>2 DEF Separation, views
<1>7. ASSUME NEW p \in Procs, Look(p)
      PROVE  Current'
  <2>1. CASE proj' = [proj EXCEPT ![p] = reg] /\ fresh' = [fresh EXCEPT ![p] = TRUE] /\ reg' = reg
    BY <2>1 DEF Current, ViewType
  <2>. QED
    BY <1>3, <1>7, <2>1 DEF Look
<1>8. ASSUME NEW p \in Procs, Crash(p)
      PROVE  Current'
  BY <1>8 DEF Crash, ViewType, Current
<1>9. CASE UNCHANGED vars
  BY <1>2, <1>9 DEF vars, views
<1>. QED
  BY <1>4, <1>5, <1>6, <1>7, <1>8, <1>9 DEF Next

(* A project is archived by a request that has just found it alive.        *)
LEMMA RegisteredKept ==
  ASSUME TypeInv, Registered, [Next]_vars
  PROVE  Registered'
<1> USE DEF TypeInv, TypeOK
<1>1. ASSUME NEW new \in Fold, reg' = new, new.archived \subseteq new.known
      PROVE  Registered'
  BY <1>1 DEF Registered
<1>2. reg' = reg => Registered'
  BY DEF Registered
<1>3. reg' = Unaliased => Registered'
  BY DEF Unaliased, Registered, ViewType, Fold
<1>4. ASSUME NEW c \in Calls, Writer(c)
      PROVE  reg' = reg
  BY <1>4, BestEffortType DEF Writer, Write, FoldRegistry, AppendRecord
<1>5. ASSUME NEW c \in Calls, Migration(c)
      PROVE  Registered'
  <2>1. ASSUME NEW q \in Projects, reg' = [reg EXCEPT !.known = @ \cup {q}]
        PROVE  Registered'
    BY <2>1 DEF Registered, ViewType, Fold
  <2>2. ASSUME NEW q, reg' = [reg EXCEPT !.alias = q]
        PROVE  Registered'
    BY <2>2 DEF Registered, ViewType, Fold
  <2>3. (\E q \in Projects \cup {None} : Migrate(c, q)) => reg' = reg
    BY DEF Migrate, Admit, Refresh, Commit
  <2>4. Create(c) => Registered'
    BY <2>1 DEF Create, Commit
  <2>5. Adopt(c) => Registered'
    BY <1>2, <2>2 DEF Adopt, Commit, Refresh, views
  <2>6. Copy(c) \/ Meta(c) \/ Rename(c) \/ Rotate(c) => reg' = reg \/ reg' = Unaliased
    BY DEF Copy, Meta, Rename, Rotate, Unwind, Commit, views
  <2>. QED
    BY <1>2, <1>3, <1>5, <2>3, <2>4, <2>5, <2>6 DEF Migration
<1>6. ASSUME NEW c \in Calls, Separation(c)
      PROVE  Registered'
  <2>1. (\E q \in Projects : Detach(c, q) \/ Archive(c, q)) \/ Release(c) => reg' = reg
    BY DEF Detach, Archive, Release, Admit, Refresh, Commit
  <2>2. ASSUME NEW q \in Live(reg), reg' = [reg EXCEPT !.archived = @ \cup {q}]
        PROVE  Registered'
    BY <2>2 DEF Registered, Live, ViewType, Fold
  <2>3. Tombstone(c) => Registered'
    BY <1>2, <2>2 DEF Tombstone, Refresh, Commit
  <2>4. Drop(c) => reg' = Unaliased
    BY DEF Drop, Commit
  <2>5. ReleaseBoard(c) \/ Pick(c) \/ Restore(c) \/ Shelve(c) \/ GiveUp(c) => reg' = reg
    BY DEF ReleaseBoard, Pick, Restore, Shelve, GiveUp, views
  <2>. QED
    BY <1>2, <1>3, <1>6, <2>1, <2>3, <2>4, <2>5 DEF Separation
<1>7. ASSUME NEW p \in Procs, Look(p) \/ Crash(p)
      PROVE  reg' = reg
  BY <1>7 DEF Look, Misread, Crash
<1>8. UNCHANGED vars => reg' = reg
  BY DEF vars, views
<1>. QED
  BY <1>2, <1>4, <1>5, <1>6, <1>7, <1>8 DEF Next

(* An undisturbed request keeps its step and its job.                      *)
LEMMA Beside ==
  ASSUME TypeInv, NEW c \in Calls, Undisturbed(c)
  PROVE  \A d \in Calls \ {c} :
           /\ pc'[d] = pc[d]
           /\ job'[d].op = job[d].op /\ job'[d].at = job[d].at /\ job'[d].had = job[d].had
           /\ job'[d].copied = job[d].copied /\ job'[d].stamp = job[d].stamp
           /\ job'[d].calm => job[d].calm
BY DEF Undisturbed, TypeInv, TypeOK, CallType, Job

(* A step that leaves the registry and the workspace's files alone.        *)
LEMMA Aside ==
  ASSUME TypeInv, Reach, NEW c \in Calls, Undisturbed(c), pc[c] \in Ordinary, pc'[c] \in Ordinary,
         UNCHANGED <<reg, ws, mig, snap, astray, cut, clock>>, owed' \subseteq owed,
         \A q \in Projects : brd[q] \subseteq brd'[q],
         job'[c].op = "write" /\ pc'[c] = "append" /\ job'[c].calm => job'[c].at = Resolve(reg)
  PROVE  Reach'
<1>1. \A d \in Calls : pc'[d] \notin Ordinary =>
        /\ pc[d] = pc'[d] /\ d # c
        /\ job'[d].op = job[d].op /\ job'[d].at = job[d].at /\ job'[d].had = job[d].had
        /\ job'[d].copied = job[d].copied /\ job'[d].stamp = job[d].stamp
  BY Beside
<1>2. Resolved'
  BY Beside DEF Reach, Resolved, Resolve
<1>3. Owned'
  <2>1. ASSUME NEW d \in Calls, Dropping(d)
        PROVE  Dropping(d)'
    <3>1. d # c
      BY <2>1 DEF Dropping, Ordinary
    <3>. QED
      BY <2>1, <3>1, Beside DEF Dropping
  <2>. QED
    BY <2>1 DEF Reach, Owned, Live
<1>4. Migrating'
  <2>1. ASSUME NEW d \in Calls
        PROVE  /\ pc'[d] \in {"create", "copy", "alias"} => Resolve(reg)' = None
               /\ pc'[d] \in {"copy", "alias"} => job'[d].at \in Live(reg)'
               /\ pc'[d] = "alias" => job'[d].copied = ws' /\ ws' \subseteq brd'[job'[d].at]
               /\ pc'[d] \in {"meta", "rename"} => Resolve(reg)' = job'[d].at /\ owed' \subseteq ws' /\ snap' = ws'
    <3>1. pc[d] = "alias" => job[d].at \in Projects
      BY DEF TypeInv, Roles, Inside
    <3>2. Resolve(reg)' = Resolve(reg) /\ Live(reg)' = Live(reg)
      BY DEF Resolve, Live
    <3>. QED
      BY <1>1, <3>1, <3>2 DEF Reach, Migrating, Ordinary
  <2>2. ASSUME NEW d \in Calls, pc'[d] = "rotate"
        PROVE  /\ Resolve(reg)' = job'[d].at /\ ws' = {} /\ job'[d].stamp = clock'
               /\ snap' \subseteq UNION {a.recs : a \in {b \in mig' : b.at = job'[d].stamp}}
    BY <1>1, <2>2 DEF Reach, Migrating, Kept, Ordinary, Resolve
  <2>. QED
    BY <2>1, <2>2 DEF Migrating, Kept
<1>5. Separating'
  BY <1>1 DEF Reach, Separating, Ordinary, Resolve
<1>6. Stamps'
  BY DEF Reach, Stamps
<1>7. Shown'
  <2>1. Resolve(reg) \in Projects \cup {None}
    BY FoldTypes DEF TypeInv, TypeOK
  <2>. QED
    BY <2>1 DEF Reach, Shown, View, Resolve
<1>8. Backed'
  BY DEF Reach, Backed, Snapshot, Newest, Resolve
<1>. QED
  BY <1>2, <1>3, <1>4, <1>5, <1>6, <1>7, <1>8 DEF Reach

(* The steps of a writer keep the boards reachable.                        *)
LEMMA WriterReach ==
  ASSUME TypeInv, Order, Reach, Disciplined, NEW c \in Calls, Writer(c)
  PROVE  Reach'
<1> USE SetsAssumption DEF TypeInv, TypeOK
<1>0. Undisturbed(c) /\ Home[c] \in Procs
  BY Elsewhere
<1>1. ASSUME NEW q \in Projects \cup {None}, Write(c, q)
      PROVE  Reach'
  <2>1. PICK there \in Projects \cup {None}, current \in BOOLEAN, step \in {"fold", "append"} :
          /\ job' = [job EXCEPT ![c] = Ask(q, there, current)]
          /\ pc' = [pc EXCEPT ![c] = step]
          /\ q # None => there = q
          /\ step = "append" =>
               there \in Scoped(q, Seen(Home[c])) /\ current = fresh[Home[c]]
    BY <1>1, AskIs
  <2>2. /\ UNCHANGED <<reg, ws, mig, snap, astray, cut, clock, owed, brd>>
        /\ pc[c] = "idle" /\ pc'[c] = step
    BY <1>1, <2>1 DEF Write, files, promises, CallType, PcType
  <2>3. /\ job'[c].op = IF q = None THEN "write" ELSE "direct"
        /\ job'[c].at = there /\ job'[c].calm = current
    BY <2>1, AskType DEF CallType
  <2>4. ASSUME job'[c].op = "write", pc'[c] = "append", job'[c].calm
        PROVE  job'[c].at = Resolve(reg)
    <3>0. step = "append" /\ q = None /\ current
      <4>1. step = "append" /\ q = None
        BY <2>2, <2>3, <2>4
      <4>2. current
        BY <2>3, <2>4, Zenon
      <4>. QED
        BY <4>1, <4>2
    <3>1. q = None /\ fresh[Home[c]] /\ there \in Seen(Home[c])
      <4>1. there \in Seen(Home[c])
        BY <2>1, <3>0 DEF Scoped
      <4>2. fresh[Home[c]]
        BY <2>1, <3>0, Zenon
      <4>. QED
        BY <3>0, <4>1, <4>2
    <3>2. Seen(Home[c]) = {Resolve(reg)}
      BY <1>0, <3>1 DEF Seen, Order, Current
    <3>. QED
      BY <2>3, <3>1, <3>2
  <2>. QED
    BY <1>0, <2>2, <2>4, Aside DEF Ordinary
<1>2. ASSUME FoldRegistry(c)
      PROVE  Reach'
  <2>1. /\ UNCHANGED <<reg, ws, mig, snap, astray, cut, clock, owed, brd>>
        /\ pc[c] = "fold" /\ pc'[c] = "append"
    <3>1. UNCHANGED reg
      BY <1>2, BestEffortType DEF FoldRegistry
    <3>2. UNCHANGED <<ws, mig, snap, astray, cut, clock, owed, brd>>
      BY <1>2 DEF FoldRegistry, files, promises
    <3>3. pc[c] = "fold" /\ pc'[c] = "append"
      BY <1>2 DEF FoldRegistry, Goto, CallType, PcType
    <3>. QED
      BY <3>1, <3>2, <3>3
  <2>2. ASSUME job'[c].op = "write", job'[c].calm
        PROVE  job'[c].at = Resolve(reg)
    <3>1. job[c].op = "write" /\ fresh'[Home[c]] /\ job'[c].at = Resolve(proj'[Home[c]])
      BY <1>2, <2>2, FoldIs DEF Target
    <3>2. CASE Refresh(c)
      BY <1>0, <3>1, <3>2 DEF Refresh, Commit, ViewType
    <3>3. CASE Misread(Home[c])
      BY <3>1, <3>3 DEF Misread
    <3>. QED
      BY <1>2, <3>2, <3>3 DEF FoldRegistry, BestEffort
  <2>. QED
    BY <1>0, <2>1, <2>2, Aside DEF Ordinary
<1>3. ASSUME AppendRecord(c)
      PROVE  Reach'
  <2>1. /\ UNCHANGED <<reg, lock, mig, shelf, snap, cut, clock>> /\ pc[c] = "append" /\ pc'[c] = "idle"
        /\ job[c].op \in {"write", "direct"} /\ job[c].at \in Projects \cup {None}
    BY <1>3, BestEffortType DEF AppendRecord, Return, Goto, Roles, CallType, PcType, Job
  <2>2. job'[c].op # "write"
    BY <1>3, Returned, NoJobType DEF AppendRecord
  <2>3. \A q \in Projects : brd[q] \subseteq brd'[q]
    BY <1>3 DEF AppendRecord, FileType
  <2>4. CASE ws' = ws /\ astray' = astray /\ owed' \subseteq owed
    BY <1>0, <2>1, <2>2, <2>3, <2>4, Aside DEF Ordinary
  <2>5. CASE job[c].op = "write"
    <3>1. \A d \in Calls : pc[d] \notin {"create", "copy"} \cup Inside
      BY <2>5 DEF Roles, Order, Peace, Disciplined
    <3>2. \A d \in Calls : pc'[d] \notin Ordinary =>
            /\ pc[d] = pc'[d] /\ pc'[d] \notin {"create", "copy"} \cup Inside
            /\ job'[d].op = job[d].op /\ job'[d].at = job[d].at /\ job'[d].had = job[d].had
      BY <1>0, <2>1, <3>1, Beside DEF Ordinary
    <3>3. Resolved'
      BY <1>0, <2>1, <2>2, Beside DEF Reach, Resolved, Resolve
    <3>4. Owned'
      <4>1. ASSUME NEW d \in Calls, Dropping(d)
            PROVE  Dropping(d)'
        <5>1. d # c
          BY <2>1, <4>1 DEF Dropping
        <5>. QED
          BY <1>0, <2>1, <4>1, <5>1, Beside DEF Dropping
      <4>. QED
        BY <2>1, <4>1 DEF Reach, Owned, Live
    <3>5. Migrating'
      BY <3>2 DEF Migrating, Inside, Ordinary
    <3>6. Separating'
      BY <2>1, <3>2 DEF Reach, Separating, Ordinary, Resolve
    <3>7. Stamps'
      BY <2>1 DEF Reach, Stamps
    <3>8. Shown' /\ Backed'
      <4>1. /\ owed' \subseteq IF job[c].calm THEN owed \cup {job[c].rec} ELSE owed
            /\ Resolve(reg)' = Resolve(reg)
        BY <1>3, <2>1 DEF AppendRecord, Resolve
      <4>2. job[c].calm => job[c].at = Resolve(reg)
        BY <2>1, <2>5 DEF Reach, Resolved
      <4>3. CASE job[c].at = None
        <5>1. ws' = ws \cup {job[c].rec} /\ brd' = brd
          BY <1>3, <4>3 DEF AppendRecord
        <5>2. Resolve(reg) # None => astray' = astray \cup {job[c].rec}
          BY <1>3, <4>3 DEF AppendRecord
        <5>3. Shown'
          BY <4>1, <4>2, <4>3, <5>1 DEF Reach, Shown, View
        <5>4. Backed'
          BY <4>1, <5>1, <5>2 DEF Backed
        <5>. QED
          BY <5>3, <5>4
      <4>4. CASE job[c].at # None
        <5>1. /\ ws' = ws /\ astray' = astray /\ job[c].at \in Projects
              /\ brd'[job[c].at] = brd[job[c].at] \cup {job[c].rec}
          BY <1>3, <2>1, <4>4 DEF AppendRecord, FileType
        <5>2. Resolve(reg) \in Projects \cup {None}
          BY FoldTypes
        <5>3. Shown'
          BY <2>3, <4>1, <4>2, <4>4, <5>1, <5>2 DEF Reach, Shown, View
        <5>4. Backed'
          BY <2>1, <4>1, <5>1 DEF Reach, Backed, Snapshot, Newest
        <5>. QED
          BY <5>3, <5>4
      <4>. QED
        BY <4>3, <4>4
    <3>. QED
      BY <3>3, <3>4, <3>5, <3>6, <3>7, <3>8 DEF Reach
  <2>6. CASE job[c].op = "direct"
    <3>1. job[c].at \in Projects
      BY <2>6 DEF Roles
    <3>. QED
      BY <1>3, <2>4, <2>6, <3>1 DEF AppendRecord
  <2>. QED
    BY <2>1, <2>5, <2>6
<1>. QED
  BY <1>1, <1>2, <1>3 DEF Writer

(* A workspace rests on a live project, or on one whose archiving was cut  *)
(* short, while no separation is under way.                                *)
LEMMA RestsOnLive ==
  ASSUME TypeInv, Reach, \A d \in Calls : pc[d] # "drop"
  PROVE  reg.alias \in Live(reg) \cup cut \cup {None}
BY DEF Reach, Owned, Dropping

(* A request that is admitted keeps the boards reachable.                  *)
LEMMA AdmitReach ==
  ASSUME TypeInv, Order, Reach, Disciplined, NEW c \in Calls, Undisturbed(c),
         NEW op \in {"migrate", "detach", "release", "archive"}, NEW q \in Projects \cup {None},
         NEW step \in {"create", "copy", "drop", "release", "tombstone"},
         step \in {"create", "copy", "release"} => Resolve(reg) = None,
         step = "copy" => q \in Live(reg),
         step = "drop" => op # "archive",
         Admit(c, op, q), Goto(c, step)
  PROVE  Reach'
<1> USE DEF TypeInv, TypeOK
<1>1. \A d \in Calls : pc[d] \in Ordinary
  BY NobodyAtWork DEF Admit, Disciplined, Order
<1>2. reg.alias \in Live(reg) \cup cut \cup {None}
  BY <1>1, RestsOnLive DEF Ordinary
<1>3. /\ UNCHANGED <<reg, ws, brd, mig, owed, snap, astray, cut, clock>> /\ pc'[c] = step
      /\ job' = [job EXCEPT ![c] = Request(op, q, 0, reg.alias)]
  BY DEF Admit, Refresh, Commit, Goto, files, promises, CallType, PcType
<1>4. job'[c].op = op /\ job'[c].at = q /\ job'[c].had = reg.alias
  <2>1. /\ Request(op, q, 0, reg.alias).op = op /\ Request(op, q, 0, reg.alias).at = q
        /\ Request(op, q, 0, reg.alias).had = reg.alias
    BY Zenon DEF Request
  <2>. QED
    BY <1>3, <2>1 DEF CallType
<1>5. \A d \in Calls \ {c} : pc'[d] \in Ordinary
  BY <1>1, Beside
<1>6. Resolved'
  BY <1>3, <1>4, Beside DEF Reach, Resolved, Resolve
<1>7. Owned'
  BY <1>2, <1>3 DEF Owned, Live
<1>8. Migrating'
  BY <1>3, <1>4, <1>5 DEF Migrating, Ordinary, Resolve, Live
<1>9. Separating'
  BY <1>3, <1>4, <1>5 DEF Separating, Ordinary, Resolve
<1>10. Stamps' /\ Shown' /\ Backed'
  BY <1>3 DEF Reach, Stamps, Shown, View, Backed, Snapshot, Newest, Resolve
<1>. QED
  BY <1>6, <1>7, <1>8, <1>9, <1>10 DEF Reach

(* The end of an admin request that leaves the workspace in good order.    *)
LEMMA LastStep ==
  ASSUME TypeInv, Order, NEW c \in Calls, Administers(c), Undisturbed(c), pc'[c] = "idle"
  PROVE  Migrating' /\ Separating'
<1>1. \A d \in Calls : pc'[d] \in Ordinary
  BY AloneAtWork, Beside DEF Order, Ordinary
<1>. QED
  BY <1>1 DEF Migrating, Separating, Ordinary

(* No writer is at work during a migration, and none begins.               *)
LEMMA NoWrites ==
  ASSUME TypeInv, Order, Disciplined, NEW c \in Calls, job[c].op = "migrate", Undisturbed(c), Steady(c),
         pc[c] # "idle"
  PROVE  Resolved'
<1>1. \A d \in Calls : job[d].op # "write"
  BY AloneAtWork DEF Order, Administers, Disciplined
<1>2. job'[c].op # "write"
  BY <1>1, NoJobType DEF Steady
<1>. QED
  BY <1>1, <1>2, Beside DEF Resolved

(* A migration that is undone keeps the boards reachable.                  *)
LEMMA UnwindReach ==
  ASSUME TypeInv, Order, Reach, Disciplined, NEW c \in Calls, job[c].op = "migrate", pc[c] \in {"meta", "rename"},
         Undisturbed(c), Steady(c), Unwind(c), UNCHANGED <<ws, mig, owed, snap, clock>>
  PROVE  Reach'
<1>1. reg' = Unaliased /\ reg'.alias = None
  BY DEF Unwind, Disciplined, Commit, Unaliased, TypeInv, TypeOK, ViewType, Fold
<1>2. Resolve(reg)' = None
  BY <1>1 DEF Resolve
<1>3. Resolved'
  BY NoWrites
<1>4. Owned'
  BY <1>1 DEF Owned
<1>5. Migrating' /\ Separating'
  BY LastStep, Returned DEF Unwind, Administers
<1>6. Stamps'
  BY DEF Reach, Stamps
<1>7. Shown' /\ Backed'
  BY <1>2 DEF Reach, Migrating, Shown, View, Backed
<1>. QED
  BY <1>3, <1>4, <1>5, <1>6, <1>7 DEF Reach

(* The steps of a migration keep the boards reachable.                     *)
LEMMA MigrationReach ==
  ASSUME TypeInv, TypeInv', Order, Reach, Disciplined, NEW c \in Calls, Migration(c)
  PROVE  Reach'
<1> USE SetsAssumption DEF TypeInv, TypeOK
<1>0. Undisturbed(c) /\ Steady(c)
  BY Elsewhere
<1>1. ASSUME NEW q \in Projects \cup {None}, Migrate(c, q)
      PROVE  Reach'
  BY <1>0, <1>1, AdmitReach DEF Migrate
<1>2. ASSUME pc[c] \in {"create", "copy"} \cup Inside
      PROVE  /\ job[c].op = "migrate" /\ Administers(c) /\ Resolved'
             /\ \A d \in Calls \ {c} : pc[d] \in Ordinary /\ pc'[d] \in Ordinary
             /\ reg.alias \in Live(reg) \cup cut \cup {None} /\ cut' = cut /\ astray' = astray
  <2>1. job[c].op = "migrate" /\ Administers(c)
    BY <1>2 DEF Roles, Administers
  <2>2. \A d \in Calls \ {c} : pc[d] \in Ordinary /\ pc'[d] \in Ordinary
    BY <1>0, <2>1, AloneAtWork, Beside DEF Order
  <2>3. Resolved'
    BY <1>0, <1>2, <2>1, NoWrites DEF Inside
  <2>4. \A d \in Calls : pc[d] # "drop"
    BY <1>2, <2>2 DEF Ordinary, Inside
  <2>5. cut' = cut /\ astray' = astray
    BY DEF Migration, Migrate, Admit, Create, Copy, Adopt, Meta, Rename, Rotate, promises
  <2>. QED
    BY <2>1, <2>2, <2>3, <2>4, <2>5, RestsOnLive
<1>3. ASSUME Create(c)
      PROVE  Reach'
  <2>1. PICK q \in Projects \ reg.known :
          reg' = [reg EXCEPT !.known = @ \cup {q}] /\ job' = [job EXCEPT ![c].at = q]
    BY <1>3 DEF Create, Commit
  <2>2. /\ pc[c] = "create" /\ pc'[c] = "copy" /\ UNCHANGED <<ws, brd, mig, owed, snap, clock>>
    BY <1>3 DEF Create, Goto, files, promises, counters, CallType, PcType
  <2>3. /\ reg'.alias = reg.alias /\ Live(reg) \subseteq Live(reg)'
        /\ Resolve(reg)' = Resolve(reg) /\ Resolve(reg) = None
        /\ job'[c].at \in Live(reg)'
    BY <2>1, <2>2 DEF Reach, Migrating, Live, Resolve, ViewType, Fold, Order, Registered, CallType, Job
  <2>4. Owned'
    BY <1>2, <2>2, <2>3 DEF Owned
  <2>5. Migrating' /\ Separating'
    BY <1>2, <2>2, <2>3 DEF Migrating, Separating, Ordinary
  <2>6. Stamps' /\ Shown' /\ Backed'
    BY <2>2, <2>3 DEF Reach, Stamps, Shown, View, Backed, Snapshot, Newest
  <2>. QED
    BY <1>2, <2>2, <2>4, <2>5, <2>6 DEF Reach
<1>4. ASSUME Copy(c)
      PROVE  Reach'
  <2>1. PICK q \in Projects : q = job[c].at
    BY <1>4 DEF Copy, Roles
  <2>2. /\ pc[c] = "copy" /\ UNCHANGED <<reg, ws, mig, owed, snap, clock>>
    BY <1>4, <2>1 DEF Copy, views, promises
  <2>3. Resolve(reg)' = Resolve(reg) /\ Resolve(reg) = None /\ q \in Live(reg) /\ Live(reg)' = Live(reg)
    BY <2>1, <2>2 DEF Reach, Migrating, Resolve, Live
  <2>4. Owned'
    BY <1>2, <2>2, <2>3 DEF Owned
  <2>5. Stamps' /\ Shown' /\ Backed'
    BY <2>2, <2>3 DEF Reach, Stamps, Shown, View, Backed
  <2>6. CASE Return(c)
    <3>1. Migrating' /\ Separating'
      BY <1>0, <1>2, <2>2, <2>6, LastStep, Returned
    <3>. QED
      BY <1>2, <2>2, <2>4, <2>5, <3>1 DEF Reach
  <2>7. CASE /\ brd' = [brd EXCEPT ![q] = @ \cup ws]
             /\ job' = [job EXCEPT ![c].was = brd[q], ![c].copied = ws]
             /\ Goto(c, "alias")
    <3>1. job' = [job EXCEPT ![c] = [job[c] EXCEPT !.was = brd[q], !.copied = ws]]
      BY <2>7 DEF CallType
    <3>2. pc'[c] = "alias" /\ job'[c].at = q /\ job'[c].copied = ws
      BY <2>1, <2>7, <3>1 DEF Goto, CallType, PcType, Job
    <3>3. ws' \subseteq brd'[q]
      BY <2>2, <2>7 DEF FileType
    <3>4. Migrating' /\ Separating'
      BY <1>2, <2>2, <2>3, <3>2, <3>3 DEF Migrating, Separating, Ordinary
    <3>. QED
      BY <1>2, <2>2, <2>4, <2>5, <3>4 DEF Reach
  <2>. QED
    BY <1>4, <2>1, <2>6, <2>7 DEF Copy
<1>5. ASSUME Adopt(c)
      PROVE  Reach'
  <2>1. PICK q \in Projects : q = job[c].at
    BY <1>5 DEF Adopt, Roles, Inside
  <2>2. /\ pc[c] = "alias" /\ UNCHANGED <<ws, mig, owed, clock>>
        /\ Resolve(reg) = None /\ q \in Live(reg) /\ job[c].copied = ws /\ ws \subseteq brd[q]
    BY <1>5, <2>1 DEF Adopt, Reach, Migrating
  <2>3. Stamps'
    BY <2>2 DEF Reach, Stamps
  <2>4. CASE Return(c) /\ (Refresh(c) \/ UNCHANGED views)
    <3>1. Migrating' /\ Separating'
      BY <1>0, <1>2, <2>2, <2>4, LastStep, Returned DEF Inside
    <3>2. reg' = reg /\ Resolve(reg)' = None
      BY <2>2, <2>4 DEF Refresh, Commit, views, Resolve
    <3>3. Owned' /\ Shown' /\ Backed'
      BY <1>2, <2>2, <3>2 DEF Reach, Owned, Live, Shown, View, Backed, Inside
    <3>. QED
      BY <1>2, <2>2, <2>3, <3>1, <3>3 DEF Reach, Inside
  <2>5. CASE /\ Adoptable(q) /\ Commit(c, [reg EXCEPT !.alias = q])
             /\ snap' = IF reg.alias = q THEN snap ELSE job[c].copied
             /\ Goto(c, "meta") /\ UNCHANGED <<brd, job>>
    <3>1. q \in Live(reg) /\ snap' = ws
      BY <2>2, <2>5 DEF Adoptable, Resolve, Live
    <3>2. reg'.alias = q /\ Live(reg)' = Live(reg) /\ Resolve(reg)' = q
      BY <2>5, <3>1 DEF Commit, Live, Resolve, ViewType, Fold
    <3>3. Owned'
      BY <3>1, <3>2 DEF Owned
    <3>4. pc'[c] = "meta" /\ job'[c].at = q
      BY <2>1, <2>5 DEF Goto, CallType, PcType
    <3>5. owed \subseteq ws
      BY <2>2 DEF Reach, Shown, View
    <3>6. Migrating' /\ Separating'
      BY <1>2, <2>2, <3>1, <3>2, <3>4, <3>5 DEF Migrating, Separating, Ordinary, Inside
    <3>7. Shown'
      BY <2>2, <2>5, <3>2, <3>5 DEF Shown, View
    <3>8. Backed'
      BY <2>2, <3>1 DEF Backed, Snapshot
    <3>. QED
      BY <1>2, <2>2, <2>3, <3>3, <3>6, <3>7, <3>8 DEF Reach, Inside
  <2>. QED
    BY <1>5, <2>1, <2>4, <2>5 DEF Adopt
<1>6. ASSUME Meta(c)
      PROVE  Reach'
  <2>1. pc[c] = "meta" /\ UNCHANGED <<ws, mig, owed, snap, clock>>
    BY <1>6 DEF Meta, promises
  <2>2. CASE Unwind(c)
    BY <1>0, <1>2, <2>1, <2>2, UnwindReach DEF Inside
  <2>3. CASE Goto(c, "rename") /\ UNCHANGED <<views, brd, job>>
    <3>1. /\ pc'[c] = "rename" /\ job'[c] = job[c] /\ UNCHANGED <<reg, brd>>
          /\ Resolve(reg)' = Resolve(reg) /\ astray' = astray
      BY <1>2, <2>1, <2>3 DEF Goto, views, CallType, PcType, Resolve, Inside
    <3>2. Migrating' /\ Separating'
      BY <1>2, <2>1, <3>1 DEF Reach, Migrating, Separating, Ordinary, Inside
    <3>3. Owned'
      BY <1>2, <2>1, <3>1 DEF Owned, Live, Inside
    <3>4. Stamps' /\ Shown' /\ Backed'
      BY <2>1, <3>1 DEF Reach, Stamps, Shown, View, Backed, Snapshot, Newest
    <3>. QED
      BY <1>2, <2>1, <3>2, <3>3, <3>4 DEF Reach, Inside
  <2>. QED
    BY <1>6, <2>2, <2>3 DEF Meta
<1>7. ASSUME Rename(c)
      PROVE  Reach'
  <2>1. PICK q \in Projects : q = job[c].at
    BY <1>7 DEF Rename, Roles, Inside
  <2>2. /\ pc[c] = "rename" /\ UNCHANGED <<owed, snap>>
        /\ Resolve(reg) = q /\ owed \subseteq ws /\ snap = ws
    BY <1>7, <2>1 DEF Rename, promises, Reach, Migrating
  <2>3. CASE Unwind(c) /\ UNCHANGED <<ws, mig, clock>>
    BY <1>0, <1>2, <2>2, <2>3, UnwindReach DEF Inside
  <2>4. CASE /\ ws' = {}
             /\ mig' = IF ws = {} THEN mig ELSE mig \cup {[at |-> clock + 1, recs |-> ws]}
             /\ clock' = clock + 1
             /\ Goto(c, "rotate") /\ job' = [job EXCEPT ![c].stamp = clock + 1]
             /\ UNCHANGED <<views, brd>>
    <3>1. /\ pc'[c] = "rotate" /\ job'[c].at = q /\ job'[c].stamp = clock' /\ UNCHANGED <<reg, brd>>
          /\ Resolve(reg)' = q
      BY <2>1, <2>2, <2>4 DEF Goto, views, CallType, PcType, Job, Resolve
    <3>2. Stamps'
      <4>1. \A a \in mig : a.at \in Nat /\ a.at <= clock
        BY DEF Reach, Stamps, FileType
      <4>. QED
        BY <2>4, <4>1 DEF Stamps, PromiseType
    <3>3. ws # {} => [at |-> clock', recs |-> ws] \in mig'
      BY <2>4
    <3>4. snap' \subseteq UNION {a.recs : a \in {b \in mig' : b.at = clock'}}
      BY <2>2, <3>3
    <3>5. Migrating' /\ Separating'
      BY <1>2, <2>2, <2>4, <3>1, <3>4 DEF Migrating, Separating, Kept, Ordinary, Inside
    <3>6. Owned' /\ Shown'
      BY <1>2, <2>1, <2>2, <3>1 DEF Reach, Owned, Live, Inside, Shown, View
    <3>7. Backed'
      <4>1. ws # {} => [at |-> clock', recs |-> ws] \in Newest'
        BY <3>2, <3>3 DEF Newest, Stamps
      <4>. QED
        BY <2>2, <2>4, <4>1 DEF Backed, Snapshot
    <3>. QED
      BY <1>2, <2>2, <3>2, <3>5, <3>6, <3>7 DEF Reach, Inside
  <2>. QED
    BY <1>7, <2>3, <2>4 DEF Rename
<1>8. ASSUME Rotate(c)
      PROVE  Reach'
  <2>1. /\ pc[c] = "rotate" /\ mig' = Kept(job[c].stamp) /\ Return(c)
        /\ UNCHANGED <<reg, ws, brd, owed, snap, clock>>
    BY <1>8 DEF Rotate, Fails, Disciplined, views, promises
  <2>2. Migrating' /\ Separating'
    BY <1>0, <1>2, <2>1, LastStep, Returned DEF Inside
  <2>3. Owned' /\ Shown'
    BY <1>2, <2>1 DEF Reach, Owned, Live, Inside, Shown, View, Resolve
  <2>4. Stamps'
    BY <2>1 DEF Reach, Stamps, Kept
  <2>5. Backed'
    <3>1. mig' = Newest'
      BY <2>1, <2>4 DEF Newest, Kept, Reach, Migrating, PromiseType
    <3>. QED
      BY <2>1, <3>1 DEF Backed, Snapshot, Reach, Migrating
  <2>. QED
    BY <1>2, <2>1, <2>2, <2>3, <2>4, <2>5 DEF Reach, Inside
<1>. QED
  BY <1>1, <1>3, <1>4, <1>5, <1>6, <1>7, <1>8 DEF Migration

(* The steps of a separation keep the boards reachable.                    *)
LEMMA SeparationReach ==
  ASSUME TypeInv, Order, Reach, Disciplined, NEW c \in Calls, Separation(c)
  PROVE  Reach'
<1> USE SetsAssumption DEF TypeInv, TypeOK
<1>0. Undisturbed(c) /\ Steady(c)
  BY Elsewhere
<1>1. ASSUME NEW q \in Projects, Detach(c, q) \/ Archive(c, q)
      PROVE  Reach'
  BY <1>0, <1>1, AdmitReach DEF Detach, Archive
<1>2. ASSUME Release(c)
      PROVE  Reach'
  <2>1. \/ Goto(c, "release") /\ Resolve(reg) = None
        \/ Goto(c, "drop")
    BY <1>2 DEF Release
  <2>. QED
    BY <1>0, <1>2, <2>1, AdmitReach DEF Release
<1>3. ASSUME pc[c] \in {"tombstone", "drop", "release", "pick", "restore", "shelve"}
      PROVE  /\ Administers(c) /\ job[c].op # "write"
             /\ \A d \in Calls \ {c} : pc[d] \in Ordinary /\ pc'[d] \in Ordinary
             /\ pc[c] # "drop" => reg.alias \in Live(reg) \cup cut \cup {None}
  <2>1. Administers(c) /\ job[c].op # "write"
    BY <1>3 DEF Roles, Order, Steps, Administers
  <2>2. \A d \in Calls \ {c} : pc[d] \in Ordinary /\ pc'[d] \in Ordinary
    BY <1>0, <2>1, AloneAtWork, Beside DEF Order
  <2>3. pc[c] # "drop" => \A d \in Calls : pc[d] # "drop"
    BY <2>2 DEF Ordinary
  <2>. QED
    BY <2>1, <2>2, <2>3, RestsOnLive
<1>4. ASSUME job' = Disturbed \/ job' = [Disturbed EXCEPT ![c] = NoJob], job[c].op # "write",
             Resolve(reg)' = None
      PROVE  Resolved'
  <2>1. \A d \in Calls \ {c} : job'[d].calm = FALSE
    BY <1>4 DEF Disturbed, CallType, Job
  <2>2. job'[c].op # "write"
    BY <1>4, DisturbedType, NoJobType
  <2>. QED
    BY <1>4, <2>1, <2>2 DEF Resolved
<1>5. ASSUME Resolve(reg)' = Resolve(reg), job[c].op # "write", pc[c] # "idle"
      PROVE  Resolved'
  <2>1. job'[c].op # "write"
    BY <1>0, <1>5, NoJobType DEF Steady
  <2>. QED
    BY <1>0, <1>5, <2>1, Beside DEF Reach, Resolved
<1>6. ASSUME Tombstone(c)
      PROVE  Reach'
  <2>1. PICK q \in Projects : q = job[c].at
    BY <1>6 DEF Tombstone, Roles
  <2>2. /\ pc[c] = "tombstone" /\ job[c].op = "archive" /\ reg.alias = job[c].had
        /\ UNCHANGED <<ws, brd, mig, snap, astray, cut, clock>>
    BY <1>6 DEF Tombstone, Roles, files, counters, Reach, Separating
  <2>3. Stamps'
    BY <2>2 DEF Reach, Stamps
  <2>4. CASE Refresh(c) /\ Return(c) /\ UNCHANGED owed
    <3>1. Migrating' /\ Separating'
      BY <1>0, <1>3, <2>2, <2>4, LastStep, Returned
    <3>2. UNCHANGED reg /\ Resolve(reg)' = Resolve(reg)
      BY <2>4 DEF Refresh, Commit, Resolve
    <3>3. Owned' /\ Shown' /\ Backed'
      BY <1>3, <2>2, <2>4, <3>2 DEF Reach, Owned, Live, Shown, View, Backed, Snapshot, Newest
    <3>. QED
      BY <1>3, <1>5, <2>2, <2>3, <3>1, <3>2, <3>3 DEF Reach
  <2>5. CASE /\ Commit(c, [reg EXCEPT !.archived = @ \cup {q}])
             /\ Goto(c, IF Dropped(c) THEN "drop" ELSE "shelve")
             /\ IF reg.alias = q THEN Disown /\ job' = Disturbed ELSE UNCHANGED <<owed, job>>
    <3>1. /\ reg'.alias = reg.alias /\ reg'.known = reg.known
          /\ reg'.archived = reg.archived \cup {q}
      BY <2>5 DEF Commit, ViewType, Fold
    <3>2. job'[c].at = q /\ job'[c].op = "archive"
      BY <2>1, <2>2, <2>5, DisturbedType
    <3>3. /\ reg.alias = q => pc'[c] = "drop"
          /\ reg.alias # q => pc'[c] = "shelve"
      BY <2>1, <2>2, <2>5 DEF Dropped, Goto, CallType, PcType
    <3>4. Migrating' /\ Separating'
      BY <1>3, <2>2, <3>1, <3>2, <3>3 DEF Migrating, Separating, Ordinary
    <3>5. CASE reg.alias = q
      <4>1. Resolve(reg)' = None
        BY <3>1, <3>5 DEF Resolve
      <4>2. Resolved'
        BY <1>4, <2>2, <2>5, <3>5, <4>1
      <4>3. Owned'
        BY <3>1, <3>2, <3>3, <3>5 DEF Owned, Dropping
      <4>4. Shown' /\ Backed'
        BY <2>5, <3>5, <4>1 DEF Disown, Shown, Backed
      <4>. QED
        BY <2>3, <3>4, <4>2, <4>3, <4>4 DEF Reach
    <3>6. CASE reg.alias # q
      <4>1. Resolve(reg)' = Resolve(reg)
        BY <3>1, <3>6 DEF Resolve
      <4>2. Resolved'
        BY <1>3, <1>5, <2>2, <4>1
      <4>3. Owned'
        BY <1>3, <2>2, <3>1, <3>6 DEF Owned, Live
      <4>4. Shown' /\ Backed'
        BY <2>2, <2>5, <3>6, <4>1 DEF Reach, Shown, View, Backed, Snapshot, Newest
      <4>. QED
        BY <2>3, <3>4, <4>2, <4>3, <4>4 DEF Reach
    <3>. QED
      BY <3>5, <3>6
  <2>. QED
    BY <1>6, <2>1, <2>4, <2>5 DEF Tombstone
<1>7. ASSUME Drop(c)
      PROVE  Reach'
  <2>1. /\ pc[c] = "drop" /\ job' = Disturbed /\ owed' = {}
        /\ UNCHANGED <<ws, brd, mig, snap, astray, cut, clock>>
    BY <1>7 DEF Drop, Disown, files, counters
  <2>2. reg' = Unaliased /\ reg'.alias = None /\ reg'.archived = reg.archived
    BY <1>7 DEF Drop, Commit, Unaliased, ViewType, Fold
  <2>3. Resolve(reg)' = None
    BY <2>2 DEF Resolve
  <2>4. job'[c].op = job[c].op /\ job'[c].at = job[c].at
    BY <2>1, DisturbedType
  <2>5. /\ pc'[c] \in {"pick", "release", "shelve"}
        /\ pc'[c] = "shelve" => job[c].op = "archive"
    <3>1. pc'[c] = AfterDrop[job[c].op] /\ job[c].op \in {"detach", "release", "archive"}
      BY <1>7, <2>1 DEF Drop, Goto, Roles, CallType, PcType
    <3>2. AfterDrop["detach"] = "pick" /\ AfterDrop["release"] = "release" /\ AfterDrop["archive"] = "shelve"
      BY DEF AfterDrop
    <3>. QED
      BY <3>1, <3>2
  <2>6. Migrating' /\ Separating'
    <3>1. pc'[c] = "shelve" => job'[c].at \in reg'.archived
      BY <2>1, <2>2, <2>4, <2>5 DEF Reach, Separating
    <3>. QED
      BY <1>3, <2>1, <2>3, <2>5, <3>1 DEF Migrating, Separating, Ordinary
  <2>7. Resolved'
    BY <1>3, <1>4, <2>1, <2>3
  <2>8. Owned' /\ Stamps' /\ Shown' /\ Backed'
    BY <2>1, <2>2, <2>3 DEF Reach, Owned, Stamps, Shown, Backed
  <2>. QED
    BY <2>6, <2>7, <2>8 DEF Reach
<1>8. ASSUME ReleaseBoard(c) \/ Pick(c) \/ Restore(c)
      PROVE  Reach'
  <2>1. /\ pc[c] \in {"release", "pick", "restore"} /\ reg' = reg /\ brd' = brd /\ snap' = snap /\ clock' = clock
        /\ mig' \subseteq mig /\ UNCHANGED <<astray, cut>>
    BY <1>8 DEF ReleaseBoard, Pick, Restore, views, files, promises, counters
  <2>2. Resolve(reg) = None /\ Resolve(reg)' = None
    BY <2>1 DEF Reach, Separating, Resolve
  <2>3. Migrating' /\ Separating'
    <3>1. CASE pc'[c] = "idle"
      BY <1>0, <1>3, <2>1, <3>1, LastStep
    <3>2. pc'[c] \in {"idle", "restore"}
      BY <1>8 DEF ReleaseBoard, Pick, Restore, Return, Goto, CallType, PcType
    <3>3. CASE pc'[c] = "restore"
      BY <1>3, <2>1, <2>2, <3>3 DEF Migrating, Separating, Ordinary
    <3>. QED
      BY <3>1, <3>2, <3>3
  <2>4. Resolved'
    BY <1>3, <1>5, <2>1, <2>2
  <2>5. Owned' /\ Stamps' /\ Backed'
    BY <1>3, <2>1, <2>2 DEF Reach, Owned, Live, Stamps, Backed
  <2>6. Shown'
    <3>1. owed' = {} \/ (owed' = owed /\ ws \subseteq ws')
      BY <1>8 DEF ReleaseBoard, Disown, Pick, Restore, files, promises
    <3>. QED
      BY <2>2, <3>1 DEF Reach, Shown, View
  <2>. QED
    BY <2>3, <2>4, <2>5, <2>6 DEF Reach
<1>9. ASSUME Shelve(c)
      PROVE  Reach'
  <2>1. PICK q \in Projects : q = job[c].at
    BY <1>9 DEF Shelve, Roles
  <2>2. /\ pc[c] = "shelve" /\ UNCHANGED <<reg, ws, mig, owed, snap, astray, cut, clock>>
        /\ brd' = [brd EXCEPT ![q] = {}] /\ Return(c)
    BY <1>9, <2>1 DEF Shelve, views, promises, counters
  <2>3. Resolve(reg)' = Resolve(reg) /\ q \in reg.archived /\ Resolve(reg) # q
    BY <2>1, <2>2 DEF Reach, Separating, Resolve
  <2>4. Migrating' /\ Separating'
    BY <1>0, <1>3, <2>2, LastStep, Returned
  <2>5. Resolved'
    BY <1>3, <1>5, <2>2, <2>3
  <2>6. Owned' /\ Stamps' /\ Backed'
    BY <1>3, <2>2, <2>3 DEF Reach, Owned, Live, Stamps, Backed, Snapshot, Newest
  <2>7. Shown'
    <3>1. Resolve(reg) # None => brd'[Resolve(reg)] = brd[Resolve(reg)]
      BY <2>2, <2>3, FoldTypes DEF FileType
    <3>. QED
      BY <2>2, <2>3, <3>1 DEF Reach, Shown, View
  <2>. QED
    BY <2>4, <2>5, <2>6, <2>7 DEF Reach
<1>10. ASSUME GiveUp(c)
      PROVE  Reach'
  <2>1. /\ pc[c] \in {"tombstone", "drop", "release", "pick", "restore", "shelve"} /\ Return(c)
        /\ UNCHANGED <<reg, ws, brd, mig, owed, snap, astray, clock>> /\ cut \subseteq cut'
        /\ Dropping(c) => reg.alias \in cut'
    BY <1>10 DEF GiveUp, views, files, Dropping, Short
  <2>2. Migrating' /\ Separating'
    BY <1>0, <1>3, <2>1, LastStep, Returned
  <2>3. Resolve(reg)' = Resolve(reg) /\ Live(reg)' = Live(reg)
    BY <2>1 DEF Resolve, Live
  <2>4. Resolved'
    BY <1>3, <1>5, <2>1, <2>3
  <2>5. Owned'
    <3>1. \A d \in Calls : Dropping(d) => d = c
      BY <1>3, <2>1 DEF Dropping, Ordinary
    <3>. QED
      BY <2>1, <2>3, <3>1 DEF Reach, Owned
  <2>6. Stamps' /\ Shown' /\ Backed'
    BY <2>1, <2>3 DEF Reach, Stamps, Shown, View, Backed, Snapshot, Newest
  <2>. QED
    BY <2>2, <2>4, <2>5, <2>6 DEF Reach
<1>. QED
  BY <1>1, <1>2, <1>6, <1>7, <1>8, <1>9, <1>10 DEF Separation

(* A crash keeps the boards reachable.                                     *)
LEMMA CrashReach ==
  ASSUME TypeInv, Reach, Disciplined, NEW p \in Procs, Crash(p)
  PROVE  Reach'
<1> USE DEF TypeInv, TypeOK
<1>1. /\ UNCHANGED <<reg, ws, brd, mig, owed, snap, astray, clock>> /\ cut \subseteq cut'
      /\ \A d \in Calls : (pc'[d] = "idle" /\ job'[d] = NoJob) \/ (pc'[d] = pc[d] /\ job'[d] = job[d])
      /\ \A d \in Calls : Dropping(d) => reg.alias \in cut' \/ (pc'[d] = pc[d] /\ job'[d] = job[d])
  BY DEF Crash, Dropping, Short
<1>2. Owned'
  BY <1>1 DEF Reach, Owned, Live, Dropping
<1>3. Resolved' /\ Separating'
  BY <1>1, NoJobType DEF Reach, Resolved, Separating, Resolve
<1>4. Migrating'
  BY <1>1 DEF Reach, Migrating, Kept, Resolve, Live
<1>5. Stamps' /\ Shown' /\ Backed'
  BY <1>1 DEF Reach, Stamps, Shown, View, Backed, Snapshot, Newest, Resolve
<1>. QED
  BY <1>2, <1>3, <1>4, <1>5 DEF Reach

(* No admin request, whatever fails or crashes in it, and however often    *)
(* the registry cannot be folded, leaves a workspace whose owed records a  *)
(* reader does not find, whose alias is an archived project (but for one   *)
(* whose archiving was cut short), or whose moved board a detach cannot    *)
(* bring back: provided that admin requests come one at a time, that       *)
(* nobody writes to a workspace while it is being adopted, and that        *)
(* neither the rotation of the archives nor an unwinding fails.  What is   *)
(* owed excludes a record whose write could not fold the registry, and     *)
(* one that went astray stands in the way of a restore: see                *)
(* BoardsReachable.                                                        *)
THEOREM BoardsStayReachable ==
  ASSUME {"quiet", "serial"} \subseteq Discipline,
         {"rotate", "unwind"} \cap Faulty = {}
  PROVE  Spec => []BoardsReachable
<1> DEFINE Inv == TypeInv /\ Order /\ Reach
<1>0. Disciplined
  BY DEF Disciplined
<1>1. Init => Inv
  <2> SUFFICES ASSUME Init PROVE Inv
    OBVIOUS
  <2>1. Order
    BY NoJobType DEF Init, Order, Alone, Steps, Current, Peace, Administers, Registered, Blank
  <2>2. reg.alias = None /\ Resolve(reg) = None
    BY DEF Init, Blank, Resolve
  <2>3. Reach
    BY <2>2 DEF Init, Reach, Resolved, Owned, Migrating, Separating, Stamps, Shown, Backed
  <2>. QED
    BY <2>1, <2>3, TypeInit
<1>2. Inv /\ [Next]_vars => Inv'
  <2> SUFFICES ASSUME Inv, [Next]_vars PROVE Inv'
    OBVIOUS
  <2>1. TypeInv'
    BY TypeStep
  <2>2. Order'
    BY <1>0, <2>1, AloneKept, CurrentKept, PeaceKept, RegisteredKept DEF Order, Disciplined
  <2>3. Reach'
    <3>1. CASE Next
      <4>1. ASSUME NEW p \in Procs, Look(p)
            PROVE  Reach'
        <5>1. UNCHANGED <<reg, files, pc, job, promises, clock>>
          BY <4>1 DEF Look, Misread
        <5>. QED
          BY <5>1 DEF files, promises, Reach, Resolved, Owned, Live, Dropping,
            Migrating, Separating, Stamps, Shown, View, Backed, Snapshot, Newest, Kept, Resolve
      <4>. QED
        BY <1>0, <2>1, <3>1, <4>1, WriterReach, MigrationReach, SeparationReach, CrashReach DEF Next
    <3>2. CASE UNCHANGED vars
      BY <3>2 DEF vars, views, files, promises, counters, Reach, Resolved, Owned, Live, Dropping,
        Migrating, Separating, Stamps, Shown, View, Backed, Snapshot, Newest, Kept, Resolve
    <3>. QED
      BY <3>1, <3>2
  <2>. QED
    BY <2>1, <2>2, <2>3
<1>3. Inv => BoardsReachable
  <2> SUFFICES ASSUME Inv PROVE BoardsReachable
    OBVIOUS
  <2>1. AtRest => reg.alias \in Live(reg) \cup cut \cup {None}
    BY DEF Reach, Owned, Dropping, AtRest, Administers
  <2>. QED
    BY <2>1 DEF BoardsReachable, Visible, AliasedToLive, Restorable, Reach, Shown, Backed
<1>. QED
  BY <1>1, <1>2, <1>3, PTL DEF Spec

(* ---------------------------------------------------------------------- *)
(* Handoffs and tips                                                       *)

Scopes == Workspaces \cup Projects \cup {Global}
Busy(c) == call[c] # Notes!Idle

NoteEntry ==
  [id : Nat, kind : {"handoff", "tip", "raw", "junk"},
   state : {"pending", "consumed", "archived", "captured", "none"},
   body : Nat, from : Scopes \cup {None}, ts : Nat]
NoteRequest ==
  [op : {"send", "move", "capture", "edit", "mark", "raw"}, at : Scopes, entry : NoteEntry,
   by : Workspaces \cup {None}, raced : BOOLEAN]
NoteChange ==
  [id : Nat, at : Scopes, op : {"move", "edit", "mark"},
   val : Nat \cup {"pending", "consumed", "archived", "captured", "none"}, ts : Nat, clean : BOOLEAN]
NoteCreation ==
  [id : Nat, kind : {"handoff", "tip", "raw", "junk"}, at : Scopes, by : Workspaces \cup {None},
   as : Scopes \cup {None}]

NoteTypes ==
  /\ alias \in [Workspaces -> Projects \cup {None}]
  /\ boards \in [Scopes -> SUBSET NoteEntry] /\ attic \in [Workspaces -> SUBSET NoteEntry]
  /\ call \in [Clients -> NoteRequest \cup {Notes!Idle}]
  /\ noted \in SUBSET NoteCreation /\ done \in SUBSET NoteChange
  /\ stamp \in Nat

(* All versions of all entries there are, written or about to be.          *)
Entries ==
  {e \in NoteEntry : \/ \E s \in Scopes : e \in boards[s]
                     \/ \E w \in Workspaces : e \in attic[w]
                     \/ \E c \in Clients : Busy(c) /\ e = call[c].entry}

(* What an entry says of itself.                                           *)
Sane(e) ==
  /\ e.id <= e.ts /\ e.ts <= stamp
  /\ e.kind = "handoff" => e.state \in {"pending", "consumed", "archived"} /\ e.from \in Scopes
  /\ e.kind # "handoff" => e.state # "pending"
  /\ e.kind = "tip" => e.state \in {"captured", "archived"}
  /\ e.state = "pending" => e.ts = e.id

(* Two versions of an entry agree on where it comes from, a stamp is the   *)
(* stamp of one version, and what is remembered agrees with the entries.   *)
Told ==
  /\ \A e \in Entries : Sane(e)
  /\ \A e, f \in Entries : e.ts = f.ts => e = f
  /\ \A e, f \in Entries : e.id = f.id => e.kind = f.kind /\ e.from = f.from
  /\ \A a \in noted : a.id <= stamp /\ \A e \in Entries : e.id = a.id => e.kind = a.kind /\ e.from = a.as
  /\ \A d \in done : d.id <= stamp /\ d.ts <= stamp /\ \A e \in Entries : e.id = d.id => (d.op = "move" <=> e.kind = "handoff")

(* A request creates an entry that nobody knows, or changes one.           *)
Creates(c) == call[c].op \in {"send", "capture", "raw"}
Asked ==
  \A c \in Clients : Busy(c) =>
    LET e == call[c].entry
    IN /\ call[c].op \in {"send", "move"} <=> e.kind = "handoff"
       /\ call[c].op \in {"edit", "mark"} => e.kind = "tip"
       /\ call[c].op = "edit" => e.body = e.ts
       /\ call[c].op = "move" => e.state # "pending"
       /\ Creates(c) => e.id = e.ts
       /\ ~Creates(c) => e.id < e.ts
       /\ Creates(c) =>
            /\ \A s \in Scopes : \A f \in boards[s] : f.id # e.id
            /\ \A w \in Workspaces : \A f \in attic[w] : f.id # e.id
            /\ \A d \in Clients \ {c} : Busy(d) => call[d].entry.id # e.id
            /\ \A d \in done : d.id # e.id

(* A handoff has one place, which no adoption moves.                       *)
Placed ==
  /\ \A w \in Workspaces : \A e \in boards[w] \cup attic[w] : e.kind # "handoff"
  /\ \A c \in Clients : Busy(c) /\ call[c].entry.kind = "handoff" => call[c].at \notin Workspaces
  /\ \A a \in noted : a.kind = "handoff" => a.at \notin Workspaces
  /\ \A s, t \in Scopes : \A e \in boards[s], f \in boards[t] :
       e.kind = "handoff" /\ e.id = f.id => s = t
  /\ \A c \in Clients, s \in Scopes : \A e \in boards[s] :
       Busy(c) /\ e.kind = "handoff" /\ call[c].entry.id = e.id => call[c].at = s
  /\ \A c, d \in Clients :
       Busy(c) /\ Busy(d) /\ call[c].entry.kind = "handoff" /\ call[c].entry.id = call[d].entry.id =>
         call[c].at = call[d].at

(* A board is a fold: one entry per key.                                   *)
Folded ==
  /\ \A s \in Scopes : \A e, f \in boards[s] : e.id = f.id => e = f
  /\ \A w \in Workspaces : \A e, f \in attic[w] : e.id = f.id => e = f

(* A handoff claimed alone is not pending anywhere and nobody is moving it.*)
Claimed ==
  \A d \in done : d.op = "move" /\ d.clean =>
    /\ \A s \in Scopes : \A e \in boards[s] : e.id = d.id => e.state # "pending"
    /\ \A c \in Clients : Busy(c) /\ call[c].op = "move" => call[c].entry.id # d.id

(* The file of an adopted workspace is gone, and with it all requests and  *)
(* memories of it.                                                         *)
Vacated ==
  \A w \in Workspaces : alias[w] # None =>
    /\ boards[w] = {}
    /\ \A d \in done : d.at # w
    /\ \A c \in Clients : Busy(c) => call[c].at # w

(* A request that nothing overtook knows the entry as it is.               *)
Knows ==
  \A c \in Clients : Busy(c) /\ call[c].op \in {"edit", "mark"} /\ ~call[c].raced =>
    \E e \in boards[call[c].at] :
      /\ e.id = call[c].entry.id /\ e.ts < call[c].entry.ts
      /\ call[c].op = "edit" => e.state = call[c].entry.state
      /\ call[c].op = "mark" => e.body = call[c].entry.body

(* A patch is still there, or was overridden.                              *)
Holds(d) == \E e \in boards[d.at] : e.id = d.id /\ d.val = IF d.op = "edit" THEN e.body ELSE e.state
Overridden(d) ==
  \E f \in done : f.id = d.id /\ f.at = d.at /\ (f.op = d.op \/ ~f.clean) /\ f.ts > d.ts
Patches ==
  \A d \in done : d.op # "move" =>
    /\ \E e \in boards[d.at] : e.id = d.id
    /\ d.clean => /\ Holds(d) \/ Overridden(d)
                  /\ \A c \in Clients : Busy(c) /\ call[c].at = d.at /\ call[c].entry.id = d.id =>
                       call[c].entry.ts > d.ts

Everything == UNION {boards[s] : s \in Scopes}
Finite ==
  /\ IsFiniteSet(Everything)
  /\ \A s \in Scopes : IsFiniteSet(boards[s])
  /\ \A w \in Workspaces : IsFiniteSet(attic[w])

NotesInv ==
  /\ NoteTypes /\ Told /\ Asked /\ Placed /\ Folded /\ Claimed /\ Vacated /\ Knows /\ Patches /\ Finite

(* The boards together grow by finitely many entries at a time.            *)
LEMMA FewMore ==
  ASSUME NEW extra, IsFiniteSet(extra), IsFiniteSet(Everything),
         \A s \in Scopes : boards'[s] \subseteq Everything \cup extra
  PROVE  IsFiniteSet(Everything')
<1>1. IsFiniteSet(Everything \cup extra)
  BY FS_Union
<1>2. Everything' \subseteq Everything \cup extra
  BY DEF Everything
<1>. QED
  BY <1>1, <1>2, FS_Subset

(* Where entries are, and of what kind they are.                           *)
LEMMA EntriesAre ==
  ASSUME NoteTypes
  PROVE  /\ Entries \subseteq NoteEntry
         /\ \A s \in Scopes : boards[s] \subseteq Entries /\ boards[s] \subseteq NoteEntry
         /\ \A w \in Workspaces : attic[w] \subseteq Entries /\ attic[w] \subseteq NoteEntry /\ w \in Scopes
         /\ \A c \in Clients : Busy(c) =>
              /\ call[c] \in NoteRequest /\ call[c].entry \in Entries /\ call[c].entry \in NoteEntry
              /\ call[c].at \in Scopes /\ call[c].op # "none"
         /\ \A e \in Entries : e.id \in Nat /\ e.ts \in Nat
<1>1. \A c \in Clients : Busy(c) =>
        call[c] \in NoteRequest /\ call[c].entry \in NoteEntry /\ call[c].at \in Scopes /\ call[c].op # "none"
  BY DEF NoteTypes, Busy, NoteRequest
<1>2. /\ \A s \in Scopes : boards[s] \subseteq NoteEntry
      /\ \A w \in Workspaces : attic[w] \subseteq NoteEntry /\ w \in Scopes
  BY DEF NoteTypes, Scopes
<1>3. Entries \subseteq NoteEntry
  BY <1>1, <1>2 DEF Entries
<1>4. \A e \in Entries : e.id \in Nat /\ e.ts \in Nat
  BY <1>3 DEF NoteEntry
<1>. QED
  BY <1>1, <1>2, <1>3, <1>4 DEF Entries

(* The entries that requests start with.                                   *)
Proper(op, s, e) ==
  /\ s \in Scopes /\ e \in NoteEntry /\ e.ts = stamp + 1
  /\ s \in Workspaces => alias[s] = None
  /\ \/ /\ op \in {"send", "capture", "raw"} /\ e.id = stamp + 1
        /\ op = "send" => e.kind = "handoff" /\ e.state = "pending" /\ e.from \in Scopes /\ s \notin Workspaces
        /\ op = "capture" => e.kind = "tip" /\ e.state = "captured"
        /\ op = "raw" => e.kind \in {"raw", "junk"} /\ e.state = "none"
     \/ /\ op \in {"move", "edit", "mark"}
        /\ \E g \in boards[s] :
             /\ e.id = g.id /\ e.kind = g.kind /\ e.from = g.from
             /\ op = "move" => g.kind = "handoff" /\ g.state = "pending" /\ e.state \in {"consumed", "archived"}
             /\ op \in {"edit", "mark"} => g.kind = "tip" /\ e.state \in {"captured", "archived"}
             /\ op = "edit" => e.body = stamp + 1 /\ e.state = g.state
             /\ op = "mark" => e.body = g.body

(* A request about handoffs or tips begins.                                *)
LEMMA NoteBegins ==
  ASSUME NotesInv, NEW c \in Clients, NEW op, NEW s, NEW e, NEW by \in Workspaces \cup {None},
         Proper(op, s, e), Notes!Begin(c, op, s, e, by)
  PROVE  NotesInv'
<1> DEFINE r == [op |-> op, at |-> s, entry |-> e, by |-> by, raced |-> FALSE]
<1> USE DEF NotesInv
<1>1. /\ call[c] = Notes!Idle /\ call' = [call EXCEPT ![c] = r] /\ stamp' = stamp + 1 /\ stamp \in Nat
      /\ UNCHANGED <<alias, boards, attic, noted, done>>
  BY DEF Notes!Begin, Notes!files, Notes!history, NoteTypes
<1>2. r \in NoteRequest
  BY DEF Proper, NoteRequest
<1>3. /\ r.op = op /\ r.at = s /\ r.entry = e /\ r.raced = FALSE /\ op # "none"
      /\ r # Notes!Idle
  BY DEF Proper, Notes!Idle
<1> HIDE DEF r
<1>4. /\ call'[c] = r /\ \A d \in Clients \ {c} : call'[d] = call[d]
      /\ ~Busy(c) /\ Busy(c)' /\ \A d \in Clients \ {c} : Busy(d)' = Busy(d)
  BY <1>1, <1>3 DEF NoteTypes, Busy
<1>5. NoteTypes'
  BY <1>1, <1>2 DEF NoteTypes
<1>6. Entries' \subseteq Entries \cup {e}
  <2>1. \A d \in Clients : Busy(d)' => call'[d].entry = e \/ (Busy(d) /\ call'[d].entry = call[d].entry)
    BY <1>3, <1>4
  <2>. QED
    BY <1>1, <2>1 DEF Entries
<1>7. /\ e.ts = stamp + 1 /\ e.id \in Nat /\ e.ts \in Nat /\ e.id <= e.ts /\ s \in Scopes
      /\ \A f \in Entries : f.id <= f.ts /\ f.ts <= stamp /\ f.id \in Nat /\ f.ts \in Nat
  <2>1. \A f \in Entries : f.id <= f.ts /\ f.ts <= stamp /\ f.id \in Nat /\ f.ts \in Nat
    BY EntriesAre DEF Told, Sane
  <2>2. e.ts = stamp + 1 /\ e.id \in Nat /\ s \in Scopes
    BY DEF Proper, NoteEntry
  <2>3. e.id <= e.ts
    BY <1>1, <2>1, <2>2, EntriesAre DEF Proper
  <2>. QED
    BY <1>1, <2>1, <2>2, <2>3
<1>8. Told'
  <2>1. ASSUME NEW f \in Entries'
        PROVE  Sane(f)'
    <3>1. CASE f \in Entries
      BY <1>1, <1>7, <3>1 DEF Told, Sane
    <3>2. CASE f = e
      <4>1. /\ e.kind = "handoff" => e.state \in {"pending", "consumed", "archived"} /\ e.from \in Scopes
            /\ e.kind # "handoff" => e.state # "pending"
            /\ e.kind = "tip" => e.state \in {"captured", "archived"}
            /\ e.state = "pending" => e.ts = e.id
        BY EntriesAre DEF Proper, Told, Sane
      <4>. QED
        BY <1>1, <1>7, <3>2, <4>1 DEF Sane
    <3>. QED
      BY <1>6, <3>1, <3>2
  <2>2. \A f, g \in Entries' : f.ts = g.ts => f = g
    BY <1>1, <1>6, <1>7 DEF Told
  <2>3. \A f \in Entries : e.id = f.id => e.kind = f.kind /\ e.from = f.from
    <3>1. CASE op \in {"send", "capture", "raw"}
      BY <1>1, <1>7, <3>1 DEF Proper
    <3>2. CASE op \in {"move", "edit", "mark"}
      BY <3>2, EntriesAre DEF Proper, Told
    <3>. QED
      BY <3>1, <3>2 DEF Proper
  <2>4. \A f, g \in Entries' : f.id = g.id => f.kind = g.kind /\ f.from = g.from
    BY <1>6, <2>3 DEF Told
  <2>5. \A a \in noted : a.id \in Nat /\ a.id <= stamp
    BY DEF NoteTypes, NoteCreation, Told
  <2>6. \A d \in done : d.id \in Nat /\ d.id <= stamp /\ d.ts \in Nat /\ d.ts <= stamp
    BY DEF NoteTypes, NoteChange, Told
  <2>7. (\A a \in noted : e.id = a.id => e.kind = a.kind /\ e.from = a.as)
        /\ \A d \in done : e.id = d.id => (d.op = "move" <=> e.kind = "handoff")
    <3>1. CASE op \in {"send", "capture", "raw"}
      BY <1>1, <2>5, <2>6, <3>1 DEF Proper
    <3>2. CASE op \in {"move", "edit", "mark"}
      BY <3>2, EntriesAre DEF Proper, Told
    <3>. QED
      BY <3>1, <3>2 DEF Proper
  <2>8. \A a \in noted : a.id <= stamp' /\ \A f \in Entries' : f.id = a.id => f.kind = a.kind /\ f.from = a.as
    BY <1>1, <1>6, <2>5, <2>7 DEF Told
  <2>9. \A d \in done : d.id <= stamp' /\ d.ts <= stamp' /\ \A f \in Entries' : f.id = d.id => (d.op = "move" <=> f.kind = "handoff")
    BY <1>1, <1>6, <2>6, <2>7 DEF Told
  <2>. QED
    BY <1>1, <2>1, <2>2, <2>4, <2>8, <2>9 DEF Told
<1>9. Asked'
  <2>1. ASSUME op \in {"send", "capture", "raw"}
        PROVE  /\ \A t \in Scopes : \A f \in boards[t] : f.id # e.id
               /\ \A w \in Workspaces : \A f \in attic[w] : f.id # e.id
               /\ \A d \in Clients : Busy(d) => call[d].entry.id # e.id
               /\ \A d \in done : d.id # e.id
    <3>1. e.id = stamp + 1 /\ \A f \in Entries : f.id # e.id
      BY <1>1, <1>7, <2>1 DEF Proper
    <3>2. \A d \in done : d.id # e.id
      BY <1>1, <3>1 DEF Told, NoteTypes, NoteChange
    <3>. QED
      BY <3>1, <3>2, EntriesAre
  <2>2. /\ op \in {"send", "move"} <=> e.kind = "handoff"
        /\ op \in {"edit", "mark"} => e.kind = "tip"
        /\ op = "edit" => e.body = e.ts
        /\ op = "move" => e.state # "pending"
        /\ op \in {"send", "capture", "raw"} => e.id = e.ts
    BY DEF Proper
  <2>3. op \notin {"send", "capture", "raw"} => e.id < e.ts
    BY <1>1, <1>7, EntriesAre DEF Proper
  <2>4. ASSUME NEW d \in Clients \ {c}, Busy(d), Creates(d)
        PROVE  e.id # call[d].entry.id
    <3>1. CASE op \in {"send", "capture", "raw"}
      BY <2>1, <2>4, <3>1
    <3>2. CASE op \in {"move", "edit", "mark"}
      BY <2>4, <3>2 DEF Proper, Asked
    <3>. QED
      BY <3>1, <3>2 DEF Proper
  <2>5. ASSUME NEW d \in Clients, Busy(d)'
        PROVE  LET g == call'[d].entry
               IN /\ call'[d].op \in {"send", "move"} <=> g.kind = "handoff"
                  /\ call'[d].op \in {"edit", "mark"} => g.kind = "tip"
                  /\ call'[d].op = "edit" => g.body = g.ts
                  /\ call'[d].op = "move" => g.state # "pending"
                  /\ call'[d].op \in {"send", "capture", "raw"} => g.id = g.ts
                  /\ call'[d].op \notin {"send", "capture", "raw"} => g.id < g.ts
                  /\ call'[d].op \in {"send", "capture", "raw"} =>
                       /\ \A t \in Scopes : \A f \in boards[t] : f.id # g.id
                       /\ \A w \in Workspaces : \A f \in attic[w] : f.id # g.id
                       /\ \A b \in Clients \ {d} : Busy(b)' => call'[b].entry.id # g.id
                       /\ \A b \in done : b.id # g.id
    <3>1. CASE d = c
      BY <1>3, <1>4, <2>1, <2>2, <2>3, <3>1
    <3>2. CASE d # c
      <4>1. Busy(d) /\ call'[d] = call[d]
        BY <1>4, <2>5, <3>2
      <4>2. Creates(d) => \A b \in Clients \ {d} : Busy(b)' => call'[b].entry.id # call[d].entry.id
        BY <1>3, <1>4, <2>4, <3>2, <4>1 DEF Asked
      <4>. QED
        BY <4>1, <4>2 DEF Asked, Creates
    <3>. QED
      BY <3>1, <3>2
  <2>. QED
    BY <1>1, <2>5 DEF Asked, Creates
<1>10. Placed'
  <2>1. e.kind = "handoff" =>
          /\ s \notin Workspaces
          /\ \A t \in Scopes : \A f \in boards[t] : f.id = e.id => s = t
          /\ \A d \in Clients \ {c} : Busy(d) /\ call[d].entry.id = e.id => call[d].at = s
    <3>1. CASE op \in {"send", "capture", "raw"}
      <4>1. e.kind = "handoff" => s \notin Workspaces
        BY <3>1 DEF Proper
      <4>2. \A f \in Entries : f.id # e.id
        BY <1>1, <1>7, <3>1 DEF Proper
      <4>. QED
        BY <4>1, <4>2, EntriesAre
    <3>2. CASE op \in {"move", "edit", "mark"}
      <4>1. PICK g \in boards[s] : e.id = g.id /\ e.kind = g.kind
        BY <3>2 DEF Proper
      <4>. QED
        BY <1>7, <4>1 DEF Placed
    <3>. QED
      BY <3>1, <3>2 DEF Proper
  <2>0. \A f \in Entries : f.id = e.id => f.kind = e.kind
    <3>1. e \in Entries'
      BY <1>1, <1>3, <1>4 DEF Proper, Entries
    <3>2. Entries \subseteq Entries'
      <4>1. \A d \in Clients : Busy(d) => Busy(d)' /\ call'[d] = call[d]
        BY <1>4
      <4>. QED
        BY <1>1, <4>1 DEF Entries
    <3>. QED
      BY <1>8, <3>1, <3>2 DEF Told
  <2>2. \A t \in Scopes : \A f \in boards[t] : f.id = e.id => f.kind = e.kind
    BY <2>0, EntriesAre
  <2>3. \A d \in Clients : Busy(d)' =>
          (d = c /\ call'[d].entry = e /\ call'[d].at = s) \/ (d # c /\ Busy(d) /\ call'[d] = call[d])
    BY <1>3, <1>4
  <2>4. \A d \in Clients : Busy(d) /\ call[d].entry.id = e.id => call[d].entry.kind = e.kind
    BY <2>0, EntriesAre
  <2>5. \A d \in Clients : Busy(d)' /\ call'[d].entry.kind = "handoff" => call'[d].at \notin Workspaces
    BY <2>1, <2>3 DEF Placed
  <2>6. \A d \in Clients, t \in Scopes : \A f \in boards[t] :
          Busy(d)' /\ f.kind = "handoff" /\ call'[d].entry.id = f.id => call'[d].at = t
    BY <2>1, <2>2, <2>3 DEF Placed
  <2>7. \A b, d \in Clients :
          Busy(b)' /\ Busy(d)' /\ call'[b].entry.kind = "handoff" /\ call'[b].entry.id = call'[d].entry.id =>
            call'[b].at = call'[d].at
    BY <2>1, <2>3, <2>4 DEF Placed
  <2>. QED
    BY <1>1, <2>5, <2>6, <2>7 DEF Placed
<1>11. Folded' /\ Finite'
  BY <1>1 DEF Folded, Finite, Everything
<1>12. Claimed'
  <2>1. ASSUME NEW d \in done, d.op = "move", d.clean, op = "move"
        PROVE  e.id # d.id
    BY <1>7, <2>1 DEF Proper, Claimed
  <2>. QED
    BY <1>1, <1>3, <1>4, <2>1 DEF Claimed
<1>13. Vacated'
  BY <1>1, <1>3, <1>4 DEF Vacated, Proper
<1>14. Knows'
  <2>1. ASSUME NEW d \in Clients, Busy(d)', call'[d].op \in {"edit", "mark"}, ~call'[d].raced
        PROVE  \E g \in boards[call'[d].at] :
                 /\ g.id = call'[d].entry.id /\ g.ts < call'[d].entry.ts
                 /\ call'[d].op = "edit" => g.state = call'[d].entry.state
                 /\ call'[d].op = "mark" => g.body = call'[d].entry.body
    <3>1. CASE d # c
      BY <1>4, <2>1, <3>1 DEF Knows
    <3>2. CASE d = c
      <4>1. op \in {"edit", "mark"}
        BY <1>3, <1>4, <2>1, <3>2
      <4>2. PICK g \in boards[s] : /\ e.id = g.id
                                   /\ op = "edit" => e.state = g.state
                                   /\ op = "mark" => e.body = g.body
        BY <4>1 DEF Proper
      <4>3. g.ts < e.ts
        BY <1>1, <1>7, EntriesAre
      <4>. QED
        BY <1>3, <1>4, <3>2, <4>2, <4>3
    <3>. QED
      BY <3>1, <3>2
  <2>. QED
    BY <1>1, <2>1 DEF Knows
<1>15. Patches'
  <2>1. \A d \in done : d.ts < e.ts
    BY <1>1, <1>7 DEF Told, NoteTypes, NoteChange
  <2>. QED
    BY <1>1, <1>3, <1>4, <2>1 DEF Patches, Holds, Overridden
<1>. QED
  BY <1>5, <1>8, <1>9, <1>10, <1>11, <1>12, <1>13, <1>14, <1>15

(* What was told stays true of logs that lose entries.                     *)
LEMMA StillTold ==
  ASSUME NoteTypes, Told, Entries' \subseteq Entries, stamp' = stamp,
         \A a \in noted' : a.id <= stamp /\ \A e \in Entries : e.id = a.id => e.kind = a.kind /\ e.from = a.as,
         \A d \in done' : d.id <= stamp /\ d.ts <= stamp /\
                          \A e \in Entries : e.id = d.id => (d.op = "move" <=> e.kind = "handoff")
  PROVE  Told'
<1>1. \A e \in Entries' : Sane(e)'
  BY DEF Told, Sane
<1>2. /\ \A e, f \in Entries' : e.ts = f.ts => e = f
      /\ \A e, f \in Entries' : e.id = f.id => e.kind = f.kind /\ e.from = f.from
  BY DEF Told
<1>. QED
  BY <1>1, <1>2 DEF Told

(* A request that fails leaves everything as it was.                       *)
LEMMA NoteRefused ==
  ASSUME NotesInv, NEW c \in Clients, Notes!Refused(c)
  PROVE  NotesInv'
<1> USE DEF NotesInv
<1>1. /\ UNCHANGED <<alias, boards, attic, noted, done, stamp>>
      /\ call' = [call EXCEPT ![c] = Notes!Idle]
  BY DEF Notes!Refused, Notes!files, Notes!history
<1>2. ~Busy(c)' /\ \A d \in Clients \ {c} : call'[d] = call[d] /\ Busy(d)' = Busy(d)
  BY <1>1 DEF NoteTypes, Busy
<1>3. NoteTypes'
  BY <1>1 DEF NoteTypes
<1>4. Told'
  <2>1. Entries' \subseteq Entries
    BY <1>1, <1>2 DEF Entries
  <2>. QED
    BY <1>1, <2>1, StillTold DEF Told
<1>5. Asked'
  BY <1>1, <1>2 DEF Asked, Creates
<1>6. Placed'
  BY <1>1, <1>2 DEF Placed
<1>7. Folded' /\ Finite'
  BY <1>1 DEF Folded, Finite, Everything
<1>8. Claimed' /\ Vacated'
  BY <1>1, <1>2 DEF Claimed, Vacated
<1>9. Knows'
  BY <1>1, <1>2 DEF Knows
<1>10. Patches'
  BY <1>1, <1>2 DEF Patches, Holds, Overridden
<1>. QED
  BY <1>3, <1>4, <1>5, <1>6, <1>7, <1>8, <1>9, <1>10

(* A record replaces the one of its key unless that is newer.              *)
LEMMA PutIs ==
  ASSUME NEW b \in SUBSET NoteEntry, NEW e \in NoteEntry
  PROVE  /\ Notes!Put(b, e) \in SUBSET NoteEntry
         /\ \A f \in Notes!Put(b, e) : f \in b \/ f = e
         /\ \A f \in b : f.id # e.id => f \in Notes!Put(b, e)
         /\ (\E g \in b : g.id = e.id /\ g.ts > e.ts) => Notes!Put(b, e) = b
         /\ (\A g \in b : g.id = e.id => g.ts <= e.ts) =>
              e \in Notes!Put(b, e) /\ \A f \in Notes!Put(b, e) : f.id = e.id => f = e
         /\ IsFiniteSet(b) => IsFiniteSet(Notes!Put(b, e))
<1>1. \A g \in b : g.ts \in Nat
  BY DEF NoteEntry
<1>2. e.ts \in Nat
  BY DEF NoteEntry
<1>3. IsFiniteSet(b) => IsFiniteSet(Notes!Put(b, e))
  <2>1. IsFiniteSet(b) => IsFiniteSet({f \in b : f.id # e.id})
    BY FS_Subset
  <2>2. IsFiniteSet({f \in b : f.id # e.id}) => IsFiniteSet({f \in b : f.id # e.id} \cup {e})
    BY FS_Singleton, FS_Union
  <2>. QED
    BY <2>1, <2>2 DEF Notes!Put
<1>. QED
  BY <1>1, <1>2, <1>3 DEF Notes!Put

(* The append of an entry.                                                 *)
LEMMA NoteAppends ==
  ASSUME NotesInv, NEW c \in Clients, Notes!Append(c)
  PROVE  NotesInv'
<1> USE DEF NotesInv
<1> DEFINE e == call[c].entry
           s == call[c].at
           new == Notes!Put(boards[s], e)
           ch == Notes!Change(c)
<1>1. /\ Busy(c) /\ e \in NoteEntry /\ e \in Entries /\ s \in Scopes /\ boards[s] \in SUBSET NoteEntry
      /\ e.id \in Nat /\ e.ts \in Nat /\ call[c] \in NoteRequest
  BY EntriesAre DEF Notes!Append, Busy
<1>2. /\ UNCHANGED <<alias, attic, stamp>>
      /\ boards' = [boards EXCEPT ![s] = new]
      /\ call' = [d \in Clients |->
                    IF d = c THEN Notes!Idle
                    ELSE IF d \in Notes!Rivals(c) THEN [call[d] EXCEPT !.raced = TRUE] ELSE call[d]]
  BY DEF Notes!Append
<1>3. /\ new \in SUBSET NoteEntry
      /\ \A f \in new : f \in boards[s] \/ f = e
      /\ \A f \in boards[s] : f.id # e.id => f \in new
      /\ (\E g \in boards[s] : g.id = e.id /\ g.ts > e.ts) => new = boards[s]
      /\ (\A g \in boards[s] : g.id = e.id => g.ts <= e.ts) =>
           e \in new /\ \A f \in new : f.id = e.id => f = e
      /\ IsFiniteSet(boards[s]) => IsFiniteSet(new)
  BY <1>1, PutIs
<1> HIDE DEF new
<1>4. boards'[s] = new /\ \A t \in Scopes \ {s} : boards'[t] = boards[t]
  BY <1>1, <1>2 DEF NoteTypes
<1>5. /\ ~Busy(c)'
      /\ \A d \in Clients \ {c} : Busy(d)' <=> Busy(d)
      /\ \A d \in Clients \ {c} : Busy(d) =>
           /\ call'[d] \in NoteRequest
           /\ call'[d].op = call[d].op /\ call'[d].at = call[d].at /\ call'[d].entry = call[d].entry
           /\ ~call'[d].raced => ~call[d].raced /\ ~(call[d].at = s /\ call[d].entry.id = e.id)
  <2>1. ~Busy(c)'
    BY <1>2 DEF Busy
  <2>2. ASSUME NEW d \in Clients \ {c}, ~Busy(d)
        PROVE  ~Busy(d)'
    BY <1>2, <2>2 DEF Busy, Notes!Rivals
  <2>3. ASSUME NEW d \in Clients \ {c}, Busy(d)
        PROVE  /\ Busy(d)' /\ call'[d] \in NoteRequest
               /\ call'[d].op = call[d].op /\ call'[d].at = call[d].at /\ call'[d].entry = call[d].entry
               /\ ~call'[d].raced => ~call[d].raced /\ ~(call[d].at = s /\ call[d].entry.id = e.id)
    <3>1. call[d] \in NoteRequest /\ call[d].op # "none"
      BY <2>3, EntriesAre
    <3>2. d \in Notes!Rivals(c) <=> call[d].at = s /\ call[d].entry.id = e.id
      BY <2>3 DEF Notes!Rivals, Busy
    <3>3. CASE d \in Notes!Rivals(c)
      <4>1. call'[d] = [call[d] EXCEPT !.raced = TRUE]
        BY <1>2, <3>3
      <4>2. /\ call'[d] \in NoteRequest /\ call'[d].raced
            /\ call'[d].op = call[d].op /\ call'[d].at = call[d].at /\ call'[d].entry = call[d].entry
        BY <3>1, <4>1 DEF NoteRequest
      <4>. QED
        BY <3>1, <4>2 DEF Busy, Notes!Idle
    <3>4. CASE d \notin Notes!Rivals(c)
      BY <1>2, <2>3, <3>1, <3>2, <3>4 DEF Busy
    <3>. QED
      BY <3>3, <3>4
  <2>. QED
    BY <2>1, <2>2, <2>3
<1>6. /\ ch.id = e.id /\ ch.at = s /\ ch.op = call[c].op /\ ch.ts = e.ts
      /\ ch.val = IF call[c].op = "edit" THEN e.body ELSE e.state
      /\ ch.clean <=> ~call[c].raced /\ Notes!Rivals(c) = {}
      /\ call[c].op \notin {"send", "capture", "raw"} => ch \in NoteChange
  <2>1. /\ ch.id = e.id /\ ch.at = s /\ ch.op = call[c].op /\ ch.ts = e.ts
        /\ ch.val = IF call[c].op = "edit" THEN e.body ELSE e.state
        /\ ch.clean = (~call[c].raced /\ Notes!Rivals(c) = {})
    BY DEF Notes!Change
  <2>2. call[c].op \notin {"send", "capture", "raw"} => ch \in NoteChange
    <3>1. call[c].op \notin {"send", "capture", "raw"} => call[c].op \in {"move", "edit", "mark"}
      BY <1>1 DEF NoteRequest
    <3>2. /\ e.body \in Nat /\ e.state \in {"pending", "consumed", "archived", "captured", "none"}
          /\ (~call[c].raced /\ Notes!Rivals(c) = {}) \in BOOLEAN
      BY <1>1 DEF NoteEntry
    <3>3. (IF call[c].op = "edit" THEN e.body ELSE e.state)
            \in Nat \cup {"pending", "consumed", "archived", "captured", "none"}
      BY <3>2
    <3>4. ch = [id |-> e.id, at |-> s, op |-> call[c].op,
                val |-> IF call[c].op = "edit" THEN e.body ELSE e.state,
                ts |-> e.ts, clean |-> ~call[c].raced /\ Notes!Rivals(c) = {}]
      BY DEF Notes!Change
    <3>. QED
      BY <1>1, <3>1, <3>2, <3>3, <3>4 DEF NoteChange
  <2>. QED
    BY <2>1, <2>2
<1> DEFINE made == [id |-> e.id, kind |-> e.kind, at |-> s, by |-> call[c].by, as |-> e.from]
<1>7. /\ Creates(c) => noted' = noted \cup {made} /\ UNCHANGED done
      /\ ~Creates(c) => done' = done \cup {ch} /\ UNCHANGED noted
      /\ made \in NoteCreation
      /\ made.id = e.id /\ made.kind = e.kind /\ made.at = s /\ made.as = e.from
  BY <1>1 DEF Notes!Append, Creates, NoteEntry, NoteCreation, NoteRequest
<1> HIDE DEF ch, made
<1>8. NoteTypes'
  <2>1. boards' \in [Scopes -> SUBSET NoteEntry]
    BY <1>2, <1>3 DEF NoteTypes
  <2>2. call' \in [Clients -> NoteRequest \cup {Notes!Idle}]
    <3>1. \A d \in Clients : call'[d] \in NoteRequest \cup {Notes!Idle}
      BY <1>5 DEF Busy
    <3>. QED
      BY <1>2, <3>1
  <2>3. noted' \in SUBSET NoteCreation /\ done' \in SUBSET NoteChange
    BY <1>6, <1>7 DEF NoteTypes, Creates
  <2>. QED
    BY <1>2, <2>1, <2>2, <2>3 DEF NoteTypes
<1>9. Told'
  <2>1. Entries' \subseteq Entries
    <3>1. \A t \in Scopes : \A f \in boards'[t] : f = e \/ f \in boards[t]
      BY <1>3, <1>4
    <3>2. \A d \in Clients : Busy(d)' => Busy(d) /\ call'[d].entry = call[d].entry
      BY <1>5
    <3>. QED
      BY <1>1, <1>2, <3>1, <3>2 DEF Entries
  <2>2. e.id <= stamp /\ e.ts <= stamp
    BY <1>1 DEF Told, Sane, NoteTypes
  <2>3. \A a \in noted' : a.id <= stamp /\ \A f \in Entries : f.id = a.id => f.kind = a.kind /\ f.from = a.as
    BY <1>1, <1>7, <2>2 DEF Told
  <2>4. call[c].op \notin {"send", "capture", "raw"} => (call[c].op = "move" <=> e.kind = "handoff")
    BY <1>1 DEF Asked
  <2>5. \A d \in done' : d.id <= stamp /\ d.ts <= stamp /\
                         \A f \in Entries : f.id = d.id => (d.op = "move" <=> f.kind = "handoff")
    BY <1>1, <1>6, <1>7, <2>2, <2>4 DEF Told, Creates
  <2>. QED
    BY <1>2, <2>1, <2>3, <2>5, StillTold
<1>10. Folded' /\ Finite'
  <2>1. \A f, g \in new : f.id = g.id => f = g
    <3>1. CASE \E g \in boards[s] : g.id = e.id /\ g.ts > e.ts
      BY <1>1, <1>3, <3>1 DEF Folded
    <3>2. CASE ~\E g \in boards[s] : g.id = e.id /\ g.ts > e.ts
      <4>1. \A g \in boards[s] : g.id = e.id => g.ts <= e.ts
        BY <1>1, <3>2, EntriesAre
      <4>. QED
        BY <1>1, <1>3, <4>1 DEF Folded
    <3>. QED
      BY <3>1, <3>2
  <2>2. IsFiniteSet({e})
    BY FS_Singleton
  <2>3. \A t \in Scopes : boards'[t] \subseteq Everything \cup {e}
    BY <1>1, <1>3, <1>4 DEF Everything
  <2> HIDE DEF e
  <2>4. IsFiniteSet(Everything')
    BY <2>2, <2>3, FewMore DEF Finite
  <2>. QED
    BY <1>1, <1>2, <1>3, <1>4, <2>1, <2>4 DEF Folded, Finite
<1>11. Asked'
  <2>1. ASSUME NEW d \in Clients \ {c}, Busy(d), Creates(d)
        PROVE  /\ \A t \in Scopes : \A f \in boards'[t] : f.id # call[d].entry.id
               /\ \A b \in done' : b.id # call[d].entry.id
    <3>1. e.id # call[d].entry.id
      BY <1>1, <2>1 DEF Asked
    <3>. QED
      BY <1>3, <1>4, <1>6, <1>7, <2>1, <3>1 DEF Asked
  <2>2. \A d \in Clients : Busy(d)' => d # c /\ Busy(d) /\ call'[d].op = call[d].op /\ call'[d].entry = call[d].entry
    BY <1>5
  <2>. QED
    BY <1>2, <2>1, <2>2 DEF Asked, Creates
<1>12. Placed'
  <2>1. \A d \in Clients : Busy(d)' => d # c /\ Busy(d) /\ call'[d].at = call[d].at /\ call'[d].entry = call[d].entry
    BY <1>5
  <2>2. \A w \in Workspaces : \A f \in boards'[w] \cup attic[w] : f.kind # "handoff"
    BY <1>1, <1>3, <1>4, EntriesAre DEF Placed
  <2>3. \A t \in Scopes : \A f \in boards'[t] : f \in boards[t] \/ (t = s /\ f = e)
    BY <1>3, <1>4
  <2>4. \A t, u \in Scopes : \A f \in boards'[t], g \in boards'[u] : f.kind = "handoff" /\ f.id = g.id => t = u
    <3> SUFFICES ASSUME NEW t \in Scopes, NEW u \in Scopes, NEW f \in boards'[t], NEW g \in boards'[u],
                        f.kind = "handoff", f.id = g.id
                 PROVE  t = u
      OBVIOUS
    <3>1. f \in Entries /\ g \in Entries /\ g.kind = "handoff"
      BY <1>1, <2>3, EntriesAre DEF Told
    <3>. QED
      BY <1>1, <2>3, <3>1 DEF Placed
  <2>5. \A d \in Clients, t \in Scopes : \A f \in boards'[t] :
          Busy(d)' /\ f.kind = "handoff" /\ call'[d].entry.id = f.id => call'[d].at = t
    <3> SUFFICES ASSUME NEW d \in Clients, NEW t \in Scopes, NEW f \in boards'[t],
                        Busy(d), f.kind = "handoff", call[d].entry.id = f.id
                 PROVE  call[d].at = t
      BY <2>1
    <3>. QED
      BY <1>1, <2>3 DEF Placed
  <2>6. \A a \in noted' : a.kind = "handoff" => a.at \notin Workspaces
    BY <1>1, <1>7 DEF Placed
  <2>. QED
    BY <1>2, <2>1, <2>2, <2>4, <2>5, <2>6 DEF Placed
<1>13. Claimed'
  <2>1. ASSUME NEW d \in done, d.op = "move", d.clean
        PROVE  \A t \in Scopes : \A f \in boards'[t] : f.id = d.id => f.state # "pending"
    <3>1. e.id = d.id => e.state # "pending"
      <4>1. call[c].op \in {"send", "capture", "raw"} => e.id # d.id
        BY <1>1, <2>1 DEF Asked, Creates
      <4>2. call[c].op \in {"edit", "mark"} => e.state # "pending"
        BY <1>1 DEF Asked, Told, Sane
      <4>3. call[c].op = "move" => e.state # "pending"
        BY <1>1 DEF Asked
      <4>. QED
        BY <1>1, <4>1, <4>2, <4>3 DEF NoteRequest
    <3>. QED
      BY <1>3, <1>4, <2>1, <3>1 DEF Claimed
  <2>2. ASSUME call[c].op = "move", ch.clean
        PROVE  /\ \A t \in Scopes : \A f \in boards'[t] : f.id = e.id => f.state # "pending"
               /\ \A d \in Clients : Busy(d)' /\ call'[d].op = "move" => call'[d].entry.id # e.id
    <3>1. e.kind = "handoff" /\ e.state # "pending" /\ e.id < e.ts
      BY <1>1, <2>2 DEF Asked, Creates
    <3>2. ASSUME NEW t \in Scopes, NEW f \in boards'[t], f.id = e.id, f.state = "pending"
          PROVE  FALSE
      <4>1. f \in boards[t] /\ f # e
        BY <1>3, <1>4, <3>1, <3>2
      <4>2. f.kind = "handoff" /\ f.ts = f.id
        BY <1>1, <3>1, <3>2, <4>1, EntriesAre DEF Told, Sane
      <4>3. t = s
        BY <1>1, <3>2, <4>1, <4>2 DEF Placed
      <4>4. \A g \in boards[s] : g.id = e.id => g = f
        BY <1>1, <3>2, <4>1, <4>3 DEF Folded
      <4>5. \A g \in boards[s] : g.id = e.id => g.ts <= e.ts
        BY <1>1, <3>1, <3>2, <4>2, <4>4
      <4>. QED
        BY <1>3, <1>4, <3>2, <4>1, <4>3, <4>5
    <3>3. ASSUME NEW d \in Clients, Busy(d)', call'[d].entry.id = e.id
          PROVE  FALSE
      <4>1. d # c /\ Busy(d) /\ call[d].entry.id = e.id
        BY <1>5, <3>3
      <4>2. call[d].at = s
        BY <1>1, <3>1, <4>1 DEF Placed
      <4>3. d \in Notes!Rivals(c)
        BY <4>1, <4>2 DEF Notes!Rivals, Busy
      <4>. QED
        BY <1>6, <2>2, <4>3
    <3>. QED
      BY <3>2, <3>3
  <2>3. \A d \in Clients : Busy(d)' /\ call'[d].op = "move" =>
          Busy(d) /\ call[d].op = "move" /\ call'[d].entry = call[d].entry
    BY <1>5
  <2>. QED
    BY <1>6, <1>7, <2>1, <2>2, <2>3 DEF Claimed
<1>14. Vacated'
  <2>1. \A w \in Workspaces : alias[w] # None => w # s
    BY <1>1 DEF Vacated
  <2>2. \A d \in done' : d \in done \/ d.at = s
    BY <1>6, <1>7
  <2>. QED
    BY <1>2, <1>4, <1>5, <2>1, <2>2, EntriesAre DEF Vacated
<1>15. Knows'
  <2> SUFFICES ASSUME NEW d \in Clients, Busy(d)', call'[d].op \in {"edit", "mark"}, ~call'[d].raced
               PROVE  \E g \in boards'[call'[d].at] :
                        /\ g.id = call'[d].entry.id /\ g.ts < call'[d].entry.ts
                        /\ call'[d].op = "edit" => g.state = call'[d].entry.state
                        /\ call'[d].op = "mark" => g.body = call'[d].entry.body
    BY DEF Knows
  <2>1. /\ d # c /\ Busy(d) /\ ~call[d].raced /\ ~(call[d].at = s /\ call[d].entry.id = e.id)
        /\ call'[d].op = call[d].op /\ call'[d].at = call[d].at /\ call'[d].entry = call[d].entry
    BY <1>5
  <2>2. PICK g \in boards[call[d].at] :
          /\ g.id = call[d].entry.id /\ g.ts < call[d].entry.ts
          /\ call[d].op = "edit" => g.state = call[d].entry.state
          /\ call[d].op = "mark" => g.body = call[d].entry.body
    BY <2>1 DEF Knows
  <2>3. g \in boards'[call[d].at]
    BY <1>3, <1>4, <2>1, <2>2, EntriesAre
  <2>. QED
    BY <2>1, <2>2, <2>3
<1>16. Patches'
  <2>0. /\ \A d \in done' : d \in done \/ (d = ch /\ ~Creates(c))
        /\ done \subseteq done'
    BY <1>7
  <2>1. ASSUME NEW t \in Scopes, NEW f \in boards[t]
        PROVE  \E g \in boards'[t] : g.id = f.id
    <3>1. CASE t = s /\ f.id = e.id
      <4>1. CASE \E g \in boards[s] : g.id = e.id /\ g.ts > e.ts
        BY <1>3, <1>4, <2>1, <3>1, <4>1
      <4>2. CASE ~\E g \in boards[s] : g.id = e.id /\ g.ts > e.ts
        BY <1>1, <1>3, <1>4, <3>1, <4>2, EntriesAre
      <4>. QED
        BY <4>1, <4>2
    <3>2. CASE ~(t = s /\ f.id = e.id)
      BY <1>3, <1>4, <2>1, <3>2
    <3>. QED
      BY <3>1, <3>2
  <2>2. ASSUME ~Creates(c), ~call[c].raced, call[c].op \in {"edit", "mark"}
        PROVE  /\ e \in boards'[s]
               /\ \E g \in boards[s] : /\ g.id = e.id
                                       /\ \A h \in boards[s] : h.id = e.id => h = g
                                       /\ call[c].op = "edit" => g.state = e.state
                                       /\ call[c].op = "mark" => g.body = e.body
    <3>1. PICK g \in boards[s] :
            /\ g.id = e.id /\ g.ts < e.ts
            /\ call[c].op = "edit" => g.state = e.state
            /\ call[c].op = "mark" => g.body = e.body
      BY <1>1, <2>2 DEF Knows
    <3>2. \A h \in boards[s] : h.id = e.id => h = g
      BY <1>1, <3>1 DEF Folded
    <3>3. g.ts \in Nat
      BY <1>1, EntriesAre
    <3>4. \A h \in boards[s] : h.id = e.id => h.ts <= e.ts
      BY <1>1, <3>1, <3>2, <3>3
    <3>. QED
      BY <1>3, <1>4, <3>1, <3>2, <3>4
  <2>3. ASSUME NEW d \in done, d.op # "move"
        PROVE  /\ \E g \in boards'[d.at] : g.id = d.id
               /\ d.clean => Holds(d)' \/ Overridden(d)'
    <3>1. d.at \in Scopes /\ d.op \in {"edit", "mark"} /\ d.ts \in Nat
      BY <2>3 DEF NoteTypes, NoteChange
    <3>2. \E g \in boards'[d.at] : g.id = d.id
      BY <2>1, <2>3, <3>1 DEF Patches
    <3>3. Overridden(d) => Overridden(d)'
      BY <2>0 DEF Overridden
    <3>4. ASSUME d.clean, Holds(d)
          PROVE  Holds(d)' \/ Overridden(d)'
      <4>1. PICK g \in boards[d.at] : g.id = d.id /\ d.val = IF d.op = "edit" THEN g.body ELSE g.state
        BY <3>4 DEF Holds
      <4>2. CASE ~(d.at = s /\ d.id = e.id)
        <5>1. g \in boards'[d.at]
          BY <1>3, <1>4, <3>1, <4>1, <4>2
        <5>. QED
          BY <4>1, <5>1 DEF Holds
      <4>3. CASE d.at = s /\ d.id = e.id
        <5>1. ~Creates(c) /\ call[c].op \in {"edit", "mark"} /\ ch \in done'
          <6>1. ~Creates(c)
            BY <1>1, <2>3, <4>3 DEF Asked
          <6>2. call[c].op # "move"
            BY <1>1, <2>3, <4>3 DEF Asked, Told
          <6>. QED
            BY <1>1, <1>7, <6>1, <6>2 DEF NoteRequest, Creates
        <5>2. e.ts > d.ts
          BY <1>1, <2>3, <3>4, <4>3 DEF Patches
        <5>3. CASE ch.op = d.op \/ ~ch.clean
          BY <1>6, <4>3, <5>1, <5>2, <5>3 DEF Overridden
        <5>4. CASE ch.op # d.op /\ ch.clean
          <6>1. ~call[c].raced
            BY <1>6, <5>4
          <6>2. e \in boards'[s] /\ g.id = e.id
                /\ (call[c].op = "edit" => g.state = e.state)
                /\ (call[c].op = "mark" => g.body = e.body)
            BY <2>2, <4>1, <4>3, <5>1, <6>1
          <6>3. d.val = IF d.op = "edit" THEN e.body ELSE e.state
            BY <1>6, <3>1, <4>1, <5>1, <5>4, <6>2
          <6>. QED
            BY <4>3, <6>2, <6>3 DEF Holds
        <5>. QED
          BY <5>3, <5>4
      <4>. QED
        BY <4>2, <4>3
    <3>. QED
      BY <2>3, <3>2, <3>3, <3>4 DEF Patches
  <2>4. ASSUME ~Creates(c), call[c].op # "move"
        PROVE  /\ \E g \in boards'[s] : g.id = e.id
               /\ ch.clean => \E g \in boards'[s] : /\ g.id = e.id
                                                     /\ ch.val = IF ch.op = "edit" THEN g.body ELSE g.state
    <3>1. call[c].op \in {"edit", "mark"}
      BY <1>1, <2>4 DEF NoteRequest, Creates
    <3>2. \E g \in boards'[s] : g.id = e.id
      <4>1. CASE \E g \in boards[s] : g.id = e.id
        BY <1>1, <2>1, <4>1
      <4>2. CASE ~\E g \in boards[s] : g.id = e.id
        BY <1>3, <1>4, <4>2
      <4>. QED
        BY <4>1, <4>2
    <3>3. ch.clean => e \in boards'[s]
      BY <1>6, <2>2, <2>4, <3>1
    <3>. QED
      BY <1>6, <3>2, <3>3
  <2>5. \A d \in Clients : Busy(d)' => d # c /\ Busy(d) /\ call'[d].at = call[d].at /\ call'[d].entry = call[d].entry
    BY <1>5
  <2>6. ch.clean => \A d \in Clients : Busy(d)' => ~(call'[d].at = s /\ call'[d].entry.id = e.id)
    BY <1>6, <2>5 DEF Notes!Rivals, Busy
  <2>7. ASSUME NEW d \in done', d.op # "move"
        PROVE  /\ \E g \in boards'[d.at] : g.id = d.id
               /\ d.clean =>
                    /\ Holds(d)' \/ Overridden(d)'
                    /\ \A b \in Clients : Busy(b)' /\ call'[b].at = d.at /\ call'[b].entry.id = d.id =>
                         call'[b].entry.ts > d.ts
    <3>1. CASE d \in done
      BY <2>3, <2>5, <2>7, <3>1 DEF Patches
    <3>2. CASE d = ch /\ ~Creates(c)
      <4>1. d.at = s /\ d.id = e.id /\ d.op = call[c].op
        BY <1>6, <3>2
      <4>2. /\ \E g \in boards'[d.at] : g.id = d.id
            /\ d.clean => Holds(d)'
        BY <2>4, <2>7, <3>2, <4>1 DEF Holds
      <4>3. d.clean => \A b \in Clients : Busy(b)' => ~(call'[b].at = d.at /\ call'[b].entry.id = d.id)
        BY <2>6, <3>2, <4>1
      <4>. QED
        BY <4>2, <4>3
    <3>. QED
      BY <2>0, <3>1, <3>2
  <2>. QED
    BY <2>7 DEF Patches
<1>. QED
  BY <1>8, <1>9, <1>10, <1>11, <1>12, <1>13, <1>14, <1>15, <1>16

(* What a merge of two folds keeps.                                        *)
LEMMA MergedIs ==
  ASSUME NEW a \in SUBSET NoteEntry, NEW b \in SUBSET NoteEntry,
         \A e, f \in a \cup b : e.ts = f.ts => e = f,
         \A e, f \in a : e.id = f.id => e = f,
         \A e, f \in b : e.id = f.id => e = f
  PROVE  /\ Notes!Merged(a, b) \in SUBSET NoteEntry
         /\ \A e \in Notes!Merged(a, b) : e \in a \/ e \in b
         /\ \A e, f \in Notes!Merged(a, b) : e.id = f.id => e = f
         /\ \A e \in a \cup b : \E f \in Notes!Merged(a, b) : f.id = e.id
         /\ \A e \in a \cup b : ~(\E f \in a, g \in b : f.id = e.id /\ g.id = e.id) =>
              e \in Notes!Merged(a, b)
         /\ IsFiniteSet(a) /\ IsFiniteSet(b) => IsFiniteSet(Notes!Merged(a, b))
<1> DEFINE m == Notes!Merged(a, b)
<1>0. \A e \in a \cup b : e.ts \in Nat
  BY DEF NoteEntry
<1>1. m \in SUBSET NoteEntry /\ \A e \in m : e \in a \/ e \in b
  BY DEF Notes!Merged
<1>2. \A e, f \in m : e.id = f.id => e = f
  <2> SUFFICES ASSUME NEW e \in m, NEW f \in m, e.id = f.id PROVE e = f
    OBVIOUS
  <2>1. e.ts <= f.ts /\ f.ts <= e.ts
    BY DEF Notes!Merged
  <2>2. e \in a \cup b /\ f \in a \cup b
    BY <1>1
  <2>3. e.ts = f.ts
    BY <1>0, <2>1, <2>2
  <2>. QED
    BY <2>2, <2>3
<1>3. ASSUME NEW e \in a \cup b, ~(\E f \in a, g \in b : f.id = e.id /\ g.id = e.id)
      PROVE  e \in m
  <2>1. \A f \in a \cup b : f.id = e.id => f = e
    BY <1>3
  <2>. QED
    BY <1>0, <2>1 DEF Notes!Merged
<1>4. ASSUME NEW f \in a, NEW g \in b, f.id = g.id
      PROVE  f \in m \/ g \in m
  <2>1. \A e \in a \cup b : e.id = f.id => e = f \/ e = g
    BY <1>4
  <2>2. f.ts <= g.ts \/ g.ts <= f.ts
    BY <1>0
  <2>3. f.ts <= f.ts /\ g.ts <= g.ts
    BY <1>0
  <2>4. CASE f.ts <= g.ts
    BY <1>4, <2>1, <2>3, <2>4 DEF Notes!Merged
  <2>5. CASE g.ts <= f.ts
    BY <1>4, <2>1, <2>3, <2>5 DEF Notes!Merged
  <2>. QED
    BY <2>2, <2>4, <2>5
<1>5. ASSUME NEW e \in a \cup b
      PROVE  \E f \in m : f.id = e.id
  <2>1. CASE \E f \in a, g \in b : f.id = e.id /\ g.id = e.id
    <3>1. PICK f \in a, g \in b : f.id = e.id /\ g.id = e.id
      BY <2>1
    <3>. QED
      BY <1>4, <3>1
  <2>2. CASE ~(\E f \in a, g \in b : f.id = e.id /\ g.id = e.id)
    BY <1>3, <2>2
  <2>. QED
    BY <2>1, <2>2
<1>6. IsFiniteSet(a) /\ IsFiniteSet(b) => IsFiniteSet(m)
  <2>1. IsFiniteSet(a) /\ IsFiniteSet(b) => IsFiniteSet(a \cup b)
    BY FS_Union
  <2>2. m \subseteq a \cup b
    BY <1>1
  <2>. QED
    BY <2>1, <2>2, FS_Subset
<1>. QED
  BY <1>1, <1>2, <1>3, <1>5, <1>6

(* An adoption finds nobody at work, and moves a workspace's board and all *)
(* that is remembered of it to the project.                                *)
LEMMA NoteAdopts ==
  ASSUME NotesInv, NEW w \in Workspaces, NEW q \in Projects, Notes!Adopt(w, q)
  PROVE  NotesInv'
<1> USE DEF NotesInv
<1> DEFINE m == Notes!Merged(boards[q], boards[w])
           Carried(d) == [d EXCEPT !.at = IF d.at = w THEN q ELSE d.at,
                                 !.clean = d.clean /\ ~Notes!Forked(d, w, q)]
<1>1. /\ q \in Scopes /\ w \in Scopes /\ q # w /\ q \notin Workspaces /\ q # None
      /\ boards[q] \in SUBSET NoteEntry /\ boards[w] \in SUBSET NoteEntry
  BY ScopesAssumption DEF Scopes, NoteTypes
<1>2. /\ UNCHANGED <<call, stamp>>
      /\ alias' = [alias EXCEPT ![w] = q]
      /\ boards' = [boards EXCEPT ![q] = m, ![w] = {}]
      /\ attic' = [attic EXCEPT ![w] = boards[w]]
      /\ noted' = {IF a.at = w THEN [a EXCEPT !.at = q] ELSE a : a \in noted}
      /\ done' = {Carried(d) : d \in done}
  BY DEF Notes!Adopt
<1>3. /\ m \in SUBSET NoteEntry
      /\ \A e \in m : e \in boards[q] \/ e \in boards[w]
      /\ \A e, f \in m : e.id = f.id => e = f
      /\ \A e \in boards[q] \cup boards[w] : \E f \in m : f.id = e.id
      /\ \A e \in boards[q] \cup boards[w] :
           ~(\E f \in boards[q], g \in boards[w] : f.id = e.id /\ g.id = e.id) => e \in m
      /\ IsFiniteSet(m)
  <2>1. \A e, f \in boards[q] \cup boards[w] : e.ts = f.ts => e = f
    BY <1>1, EntriesAre DEF Told
  <2>. QED
    BY <1>1, <2>1, MergedIs DEF Folded, Finite
<1> HIDE DEF m
<1>4. /\ boards'[q] = m /\ boards'[w] = {}
      /\ \A s \in Scopes \ {q, w} : boards'[s] = boards[s]
      /\ attic'[w] = boards[w] /\ \A v \in Workspaces \ {w} : attic'[v] = attic[v]
      /\ alias'[w] = q /\ \A v \in Workspaces \ {w} : alias'[v] = alias[v]
  BY <1>1, <1>2 DEF NoteTypes
<1>5. \A c \in Clients : ~Busy(c) /\ ~Busy(c)'
  BY <1>2 DEF Notes!Adopt, Notes!Quiet, Busy
<1>6. \A d \in done :
        /\ Carried(d) \in NoteChange
        /\ Carried(d).id = d.id /\ Carried(d).op = d.op /\ Carried(d).ts = d.ts /\ Carried(d).val = d.val
        /\ Carried(d).at = IF d.at = w THEN q ELSE d.at
        /\ Carried(d).clean <=> d.clean /\ ~Notes!Forked(d, w, q)
  <2> SUFFICES ASSUME NEW d \in done
               PROVE  /\ Carried(d) \in NoteChange
                      /\ Carried(d).id = d.id /\ Carried(d).op = d.op /\ Carried(d).ts = d.ts /\ Carried(d).val = d.val
                      /\ Carried(d).at = IF d.at = w THEN q ELSE d.at
                      /\ Carried(d).clean <=> d.clean /\ ~Notes!Forked(d, w, q)
    OBVIOUS
  <2>1. d \in NoteChange
    BY DEF NoteTypes
  <2>2. (d.clean /\ ~Notes!Forked(d, w, q)) \in BOOLEAN
    BY <2>1 DEF NoteChange
  <2>. QED
    BY <1>1, <2>1, <2>2 DEF NoteChange
<1> HIDE DEF Carried
<1>7. \A b \in noted' : \E a \in noted : /\ b.id = a.id /\ b.kind = a.kind /\ b.as = a.as
                                         /\ b \in NoteCreation /\ b.at \in {a.at, q}
  <2> SUFFICES ASSUME NEW a \in noted
               PROVE  LET b == IF a.at = w THEN [a EXCEPT !.at = q] ELSE a
                      IN /\ b.id = a.id /\ b.kind = a.kind /\ b.as = a.as
                         /\ b \in NoteCreation /\ b.at \in {a.at, q}
    BY <1>2
  <2>1. a \in NoteCreation
    BY DEF NoteTypes
  <2>. QED
    BY <1>1, <2>1 DEF NoteCreation
<1>8. NoteTypes'
  <2>1. boards' \in [Scopes -> SUBSET NoteEntry]
    BY <1>1, <1>2, <1>3 DEF NoteTypes
  <2>2. alias' \in [Workspaces -> Projects \cup {None}] /\ attic' \in [Workspaces -> SUBSET NoteEntry]
    BY <1>1, <1>2 DEF NoteTypes
  <2>3. noted' \in SUBSET NoteCreation
    BY <1>7
  <2>4. done' \in SUBSET NoteChange
    BY <1>2, <1>6
  <2>. QED
    BY <1>2, <2>1, <2>2, <2>3, <2>4 DEF NoteTypes
<1>9. /\ \A s \in Scopes : \A e \in boards'[s] : e \in boards[s] \/ (s = q /\ e \in boards[w])
      /\ \A v \in Workspaces : \A e \in attic'[v] : e \in attic[v] \/ e \in boards[w]
  BY <1>3, <1>4
<1>10. Told'
  <2>1. Entries' \subseteq Entries
    BY <1>1, <1>5, <1>9 DEF Entries
  <2>2. \A b \in noted' : b.id <= stamp /\ \A e \in Entries : e.id = b.id => e.kind = b.kind /\ e.from = b.as
    BY <1>7 DEF Told
  <2>3. \A d \in done' : d.id <= stamp /\ d.ts <= stamp /\
                         \A e \in Entries : e.id = d.id => (d.op = "move" <=> e.kind = "handoff")
    BY <1>2, <1>6 DEF Told
  <2>. QED
    BY <1>2, <2>1, <2>2, <2>3, StillTold
<1>11. Asked' /\ Knows'
  BY <1>5 DEF Asked, Knows
<1>12. Placed'
  <2>1. \A v \in Workspaces : \A e \in boards'[v] \cup attic'[v] : e.kind # "handoff"
    BY <1>1, <1>9 DEF Placed, Scopes
  <2>2. \A b \in noted' : b.kind = "handoff" => b.at \notin Workspaces
    BY <1>1, <1>7 DEF Placed
  <2>3. \A s, t \in Scopes : \A e \in boards'[s], f \in boards'[t] : e.kind = "handoff" /\ e.id = f.id => s = t
    <3> SUFFICES ASSUME NEW s \in Scopes, NEW t \in Scopes, NEW e \in boards'[s], NEW f \in boards'[t],
                        e.kind = "handoff", e.id = f.id
                 PROVE  s = t
      OBVIOUS
    <3>1. e \in Entries /\ f \in Entries
      BY <1>1, <1>9, EntriesAre
    <3>2. f.kind = "handoff"
      BY <3>1 DEF Told
    <3>3. e \in boards[s] /\ f \in boards[t]
      BY <1>9, <3>2 DEF Placed
    <3>. QED
      BY <3>3 DEF Placed
  <2>. QED
    BY <1>5, <2>1, <2>2, <2>3 DEF Placed
<1>13. Folded' /\ Finite'
  <2>1. \A s \in Scopes : boards'[s] \in {m, {}, boards[s]}
    BY <1>1, <1>4
  <2>2. \A v \in Workspaces : attic'[v] = boards[w] \/ attic'[v] = attic[v]
    BY <1>4
  <2>3. Folded'
    BY <1>1, <1>3, <2>1, <2>2 DEF Folded
  <2>4. IsFiniteSet({})
    BY FS_EmptySet
  <2>7. \A s \in Scopes : boards'[s] \subseteq Everything \cup {}
    BY <1>1, <1>3, <2>1 DEF Everything
  <2>6. IsFiniteSet(Everything')
    BY <2>4, <2>7, FewMore DEF Finite
  <2>5. Finite'
    BY <1>1, <1>3, <2>1, <2>2, <2>4, <2>6 DEF Finite
  <2>. QED
    BY <2>3, <2>5
<1>14. Claimed'
  <2> SUFFICES ASSUME NEW b \in done', b.op = "move", b.clean, NEW s \in Scopes, NEW e \in boards'[s], e.id = b.id
               PROVE  e.state # "pending"
    BY <1>5 DEF Claimed
  <2>1. PICK d \in done : b = Carried(d)
    BY <1>2
  <2>2. d.op = "move" /\ d.clean /\ e.id = d.id
    BY <1>6, <2>1
  <2>. QED
    BY <1>1, <1>9, <2>2 DEF Claimed
<1>15. Vacated'
  <2>1. ASSUME NEW v \in Workspaces, alias'[v] # None
        PROVE  boards'[v] = {} /\ \A d \in done : Carried(d).at # v
    <3>1. CASE v = w
      BY <1>1, <1>4, <1>6, <3>1
    <3>2. CASE v # w
      BY <1>1, <1>4, <1>6, <2>1, <3>2 DEF Vacated, Scopes
    <3>. QED
      BY <3>1, <3>2
  <2>2. \A v \in Workspaces : alias'[v] # None => \A b \in done' : b.at # v
    BY <1>2, <2>1
  <2>. QED
    BY <1>5, <2>1, <2>2 DEF Vacated
<1>16. Patches'
  <2>1. ASSUME NEW d \in done, d.op # "move"
        PROVE  /\ \E e \in boards'[Carried(d).at] : e.id = d.id
               /\ Carried(d).clean =>
                    \/ \E e \in boards'[Carried(d).at] :
                         e.id = d.id /\ d.val = IF d.op = "edit" THEN e.body ELSE e.state
                    \/ \E f \in done : /\ Carried(f).id = d.id /\ Carried(f).at = Carried(d).at
                                       /\ Carried(f).op = d.op \/ ~Carried(f).clean
                                       /\ Carried(f).ts > d.ts
    <3>1. d.at \in Scopes
      BY <2>1 DEF NoteTypes, NoteChange
    <3>2. \E e \in boards'[Carried(d).at] : e.id = d.id
      <4>1. PICK e \in boards[d.at] : e.id = d.id
        BY <2>1 DEF Patches
      <4>2. CASE d.at \in {w, q}
        BY <1>3, <1>4, <1>6, <4>1, <4>2
      <4>3. CASE d.at \notin {w, q}
        BY <1>4, <1>6, <3>1, <4>1, <4>3
      <4>. QED
        BY <4>2, <4>3
    <3>3. ASSUME Carried(d).clean, Holds(d)
          PROVE  \E e \in boards'[Carried(d).at] :
                   e.id = d.id /\ d.val = IF d.op = "edit" THEN e.body ELSE e.state
      <4>1. PICK e \in boards[d.at] : e.id = d.id /\ d.val = IF d.op = "edit" THEN e.body ELSE e.state
        BY <3>3 DEF Holds
      <4>2. ~Notes!Forked(d, w, q)
        BY <1>6, <3>3
      <4>3. CASE d.at \in {w, q}
        <5>1. ~(\E f \in boards[q], g \in boards[w] : f.id = e.id /\ g.id = e.id)
          BY <4>1, <4>2, <4>3 DEF Notes!Forked
        <5>2. e \in m
          BY <1>3, <4>1, <4>3, <5>1
        <5>3. Carried(d).at = q
          BY <1>6, <4>3
        <5>. QED
          BY <1>4, <4>1, <5>2, <5>3
      <4>4. CASE d.at \notin {w, q}
        BY <1>4, <1>6, <3>1, <4>1, <4>4
      <4>. QED
        BY <4>3, <4>4
    <3>4. ASSUME Overridden(d)
          PROVE  \E f \in done : /\ Carried(f).id = d.id /\ Carried(f).at = Carried(d).at
                                 /\ Carried(f).op = d.op \/ ~Carried(f).clean
                                 /\ Carried(f).ts > d.ts
      <4>1. PICK f \in done : f.id = d.id /\ f.at = d.at /\ (f.op = d.op \/ ~f.clean) /\ f.ts > d.ts
        BY <3>4 DEF Overridden
      <4>. QED
        BY <1>6, <4>1
    <3>5. Carried(d).clean => Holds(d) \/ Overridden(d)
      BY <1>6, <2>1 DEF Patches
    <3>. QED
      BY <3>2, <3>3, <3>4, <3>5
  <2>2. ASSUME NEW b \in done', b.op # "move"
        PROVE  /\ \E e \in boards'[b.at] : e.id = b.id
               /\ b.clean =>
                    \/ \E e \in boards'[b.at] : e.id = b.id /\ b.val = IF b.op = "edit" THEN e.body ELSE e.state
                    \/ \E f \in done' : f.id = b.id /\ f.at = b.at /\ (f.op = b.op \/ ~f.clean) /\ f.ts > b.ts
    <3>1. PICK d \in done : b = Carried(d)
      BY <1>2
    <3>2. d.op # "move" /\ b.id = d.id /\ b.op = d.op /\ b.ts = d.ts /\ b.val = d.val
      BY <1>6, <2>2, <3>1
    <3>3. \A f \in done : Carried(f) \in done'
      BY <1>2
    <3>. QED
      BY <2>1, <3>1, <3>2, <3>3
  <2>. QED
    BY <1>5, <2>2 DEF Patches, Holds, Overridden
<1>. QED
  BY <1>8, <1>10, <1>11, <1>12, <1>13, <1>14, <1>15, <1>16

(* A detachment gives a workspace the board back that it was adopted with. *)
LEMMA NoteDetaches ==
  ASSUME NotesInv, NEW w \in Workspaces, Notes!Detach(w)
  PROVE  NotesInv'
<1> USE DEF NotesInv
<1>1. /\ UNCHANGED <<attic, call, stamp, done>>
      /\ alias[w] # None /\ alias' = [alias EXCEPT ![w] = None]
      /\ boards' = [boards EXCEPT ![w] = attic[w]]
      /\ noted' = noted \cup {[a EXCEPT !.at = w] : a \in {b \in noted : b.id \in {e.id : e \in attic[w]}}}
  BY DEF Notes!Detach
<1>2. w \in Scopes /\ attic[w] \in SUBSET NoteEntry
  BY DEF Scopes, NoteTypes
<1>3. /\ boards'[w] = attic[w] /\ \A s \in Scopes \ {w} : boards'[s] = boards[s]
      /\ alias'[w] = None /\ \A v \in Workspaces \ {w} : alias'[v] = alias[v]
  BY <1>1, <1>2 DEF NoteTypes
<1>4. \A c \in Clients : ~Busy(c) /\ ~Busy(c)'
  BY <1>1 DEF Notes!Detach, Notes!Quiet, Busy
<1>5. \A b \in noted' : \/ b \in noted
                        \/ \E a \in noted, e \in attic[w] :
                             /\ b \in NoteCreation /\ b.id = a.id /\ b.kind = a.kind /\ b.as = a.as
                             /\ a.id = e.id
  <2> SUFFICES ASSUME NEW a \in noted, NEW e \in attic[w], a.id = e.id
               PROVE  LET b == [a EXCEPT !.at = w]
                      IN b \in NoteCreation /\ b.id = a.id /\ b.kind = a.kind /\ b.as = a.as
    <3> SUFFICES ASSUME NEW b \in noted', b \notin noted
                 PROVE  \E a \in noted, e \in attic[w] :
                          /\ b \in NoteCreation /\ b.id = a.id /\ b.kind = a.kind /\ b.as = a.as
                          /\ a.id = e.id
      OBVIOUS
    <3>1. PICK a \in {x \in noted : x.id \in {e.id : e \in attic[w]}} : b = [a EXCEPT !.at = w]
      BY <1>1
    <3>2. PICK e \in attic[w] : a.id = e.id
      BY <3>1
    <3>. QED
      BY <3>1, <3>2
  <2>1. a \in NoteCreation
    BY DEF NoteTypes
  <2>. QED
    BY <1>2, <2>1 DEF NoteCreation
<1>6. NoteTypes'
  <2>1. noted' \in SUBSET NoteCreation
    BY <1>5 DEF NoteTypes
  <2>. QED
    BY <1>1, <1>2, <2>1 DEF NoteTypes
<1>7. Told'
  <2>1. Entries' \subseteq Entries
    BY <1>1, <1>3, <1>4 DEF Entries
  <2>2. \A b \in noted' : b.id <= stamp /\ \A e \in Entries : e.id = b.id => e.kind = b.kind /\ e.from = b.as
    BY <1>5 DEF Told
  <2>. QED
    BY <1>1, <2>1, <2>2, StillTold DEF Told
<1>8. Asked' /\ Knows'
  BY <1>4 DEF Asked, Knows
<1>9. Placed'
  <2>1. \A v \in Workspaces : \A e \in boards'[v] \cup attic'[v] : e.kind # "handoff"
    BY <1>1, <1>3, <1>2, EntriesAre DEF Placed
  <2>2. \A b \in noted' : b.kind = "handoff" => b.at \notin Workspaces
    <3> SUFFICES ASSUME NEW b \in noted', b.kind = "handoff", b \notin noted PROVE FALSE
      BY DEF Placed
    <3>1. PICK a \in noted, e \in attic[w] : b.kind = a.kind /\ a.id = e.id
      BY <1>5
    <3>2. e.kind = a.kind
      BY <3>1, EntriesAre DEF Told
    <3>. QED
      BY <3>1, <3>2 DEF Placed
  <2>3. \A s, t \in Scopes : \A e \in boards'[s], f \in boards'[t] : e.kind = "handoff" /\ e.id = f.id => s = t
    <3> SUFFICES ASSUME NEW s \in Scopes, NEW t \in Scopes, NEW e \in boards'[s], NEW f \in boards'[t],
                        e.kind = "handoff", e.id = f.id
                 PROVE  s = t
      OBVIOUS
    <3>1. e \in Entries /\ f \in Entries
      BY <1>2, <1>3, EntriesAre
    <3>2. f.kind = "handoff"
      BY <3>1 DEF Told
    <3>3. e \in boards[s] /\ f \in boards[t]
      BY <1>2, <1>3, <3>2 DEF Placed
    <3>. QED
      BY <3>3 DEF Placed
  <2>. QED
    BY <1>4, <2>1, <2>2, <2>3 DEF Placed
<1>10. Folded' /\ Finite'
  <2>1. \A s \in Scopes : boards'[s] \subseteq Everything \cup attic[w]
    BY <1>3 DEF Everything
  <2>2. IsFiniteSet(Everything')
    BY <2>1, FewMore DEF Finite
  <2>. QED
    BY <1>1, <1>3, <2>2 DEF Folded, Finite
<1>11. Claimed'
  <2>1. ASSUME NEW d \in done, d.op = "move", d.clean, NEW e \in attic[w], e.id = d.id
        PROVE  e.state # "pending"
    <3>1. e \in Entries /\ e.kind # "handoff"
      BY <2>1, EntriesAre DEF Placed
    <3>. QED
      BY <3>1 DEF Told, Sane
  <2>. QED
    BY <1>1, <1>3, <1>4, <2>1 DEF Claimed
<1>12. Vacated'
  BY <1>1, <1>3, <1>4, <1>2, EntriesAre DEF Vacated
<1>13. Patches'
  <2>1. \A d \in done : d.at \in Scopes \ {w}
    BY <1>1 DEF NoteTypes, NoteChange, Vacated
  <2>. QED
    BY <1>1, <1>3, <1>4, <2>1 DEF Patches, Holds, Overridden
<1>. QED
  BY <1>6, <1>7, <1>8, <1>9, <1>10, <1>11, <1>12, <1>13

(* A name resolves to a scope that nobody's alias leads away from.         *)
LEMMA TargetIs ==
  ASSUME NoteTypes, NEW t \in Scopes
  PROVE  /\ Notes!Target(t) \in Scopes
         /\ Notes!Target(t) \in Workspaces => alias[Notes!Target(t)] = None
  BY ScopesAssumption DEF Notes!Target, Notes!Identity, NoteTypes, Scopes

(* Every request starts with an entry that is proper.                      *)
LEMMA NoteSends ==
  ASSUME NotesInv, NEW c \in Clients, NEW w \in Workspaces, NEW to \in Projects \cup {Global},
         Notes!Send(c, w, to)
  PROVE  NotesInv'
<1> DEFINE e == Notes!HandoffEntry(w)
<1>1. NoteTypes /\ w \in Scopes /\ stamp + 1 \in Nat
  BY DEF NotesInv, Scopes, NoteTypes
<1>2. Notes!Identity(w) \in Scopes
  BY <1>1, TargetIs DEF Notes!Target
<1>3. /\ e \in NoteEntry /\ e.ts = stamp + 1 /\ e.id = stamp + 1 /\ e.kind = "handoff"
      /\ e.state = "pending" /\ e.from \in Scopes
  BY <1>1, <1>2 DEF Notes!HandoffEntry, NoteEntry
<1>4. to \in Scopes /\ to \notin Workspaces
  BY ScopesAssumption DEF Scopes
<1>5. Proper("send", to, e)
  BY <1>3, <1>4 DEF Proper
<1>. QED
  BY <1>5, NoteBegins DEF Notes!Send

(* The transition of a handoff is acknowledged or refused.                 *)
LEMMA NoteTransits ==
  ASSUME NotesInv, NEW c \in Clients, NEW t \in Scopes, NEW next \in {"consumed", "archived"},
         Notes!Transition(c, t, next)
  PROVE  NotesInv'
<1> DEFINE s == Notes!Target(t)
<1>1. NoteTypes /\ stamp + 1 \in Nat /\ s \in Scopes /\ (s \in Workspaces => alias[s] = None)
  BY TargetIs DEF NotesInv, NoteTypes
<1> HIDE DEF s
<1>2. PICK g \in boards[s] :
        /\ g.kind = "handoff" /\ g.state = "pending"
        /\ Notes!Begin(c, "move", s, [g EXCEPT !.state = next, !.ts = stamp + 1], None)
  BY DEF Notes!Transition, Notes!Actionable, s
<1> DEFINE e == [g EXCEPT !.state = next, !.ts = stamp + 1]
<1>3. g \in NoteEntry
  BY <1>1 DEF NoteTypes
<1>4. /\ e \in NoteEntry /\ e.ts = stamp + 1 /\ e.id = g.id /\ e.kind = g.kind /\ e.from = g.from
      /\ e.state = next
  BY <1>1, <1>3 DEF NoteEntry
<1> HIDE DEF e
<1>5. Proper("move", s, e)
  BY <1>1, <1>2, <1>4 DEF Proper
<1>6. Notes!Begin(c, "move", s, e, None)
  BY <1>2 DEF e
<1>. QED
  BY <1>5, <1>6, NoteBegins

(* A tip is captured.                                                      *)
LEMMA NoteCaptures ==
  ASSUME NotesInv, NEW c \in Clients, NEW w \in Workspaces, Notes!CaptureTip(c, w, "captured")
  PROVE  NotesInv'
<1> DEFINE e == Notes!TipEntry("captured")
           s == Notes!Target(w)
<1>1. /\ NoteTypes /\ w \in Scopes /\ stamp + 1 \in Nat
      /\ s \in Scopes /\ (s \in Workspaces => alias[s] = None)
  BY TargetIs DEF NotesInv, Scopes, NoteTypes
<1>2. /\ e \in NoteEntry /\ e.ts = stamp + 1 /\ e.id = stamp + 1 /\ e.kind = "tip" /\ e.state = "captured"
  BY <1>1 DEF Notes!TipEntry, NoteEntry
<1>3. Notes!Begin(c, "capture", s, e, w)
  BY DEF Notes!CaptureTip
<1> HIDE DEF e, s
<1>4. Proper("capture", s, e)
  BY <1>1, <1>2 DEF Proper
<1>. QED
  BY <1>3, <1>4, NoteBegins

(* A tip is patched.                                                       *)
LEMMA NotePatches ==
  ASSUME NotesInv, NEW c \in Clients, NEW w \in Workspaces, NEW op, NEW field, NEW val,
         \/ op = "edit" /\ field = "body" /\ val = stamp + 1
         \/ op = "mark" /\ field = "state" /\ val \in {"captured", "archived"},
         Notes!ChangeTip(c, w, op, field, val)
  PROVE  NotesInv'
<1> DEFINE s == Notes!Target(w)
<1>1. /\ NoteTypes /\ w \in Scopes /\ stamp + 1 \in Nat
      /\ s \in Scopes /\ (s \in Workspaces => alias[s] = None)
  BY TargetIs DEF NotesInv, Scopes, NoteTypes
<1> HIDE DEF s
<1>2. PICK g \in boards[s] :
        /\ g.kind = "tip"
        /\ Notes!Begin(c, op, s, [Notes!Patched(g, field, val) EXCEPT !.ts = stamp + 1], None)
  BY DEF Notes!ChangeTip, s
<1> DEFINE e == [Notes!Patched(g, field, val) EXCEPT !.ts = stamp + 1]
<1>3. g \in NoteEntry /\ g \in Entries /\ g.state \in {"captured", "archived"}
  <2>1. g \in NoteEntry /\ g \in Entries
    BY <1>1, EntriesAre
  <2>. QED
    BY <1>2, <2>1 DEF NotesInv, Told, Sane
<1>4. /\ e \in NoteEntry /\ e.ts = stamp + 1 /\ e.id = g.id /\ e.kind = g.kind /\ e.from = g.from
      /\ op = "edit" => e.body = stamp + 1 /\ e.state = g.state
      /\ op = "mark" => e.body = g.body /\ e.state \in {"captured", "archived"}
  <2>1. CASE op = "edit" /\ field = "body" /\ val = stamp + 1
    <3>1. e = [g EXCEPT !.body = stamp + 1, !.ts = stamp + 1]
      BY <1>3, <2>1 DEF Notes!Patched, NoteEntry
    <3>. QED
      BY <1>1, <1>3, <2>1, <3>1 DEF NoteEntry
  <2>2. CASE op = "mark" /\ field = "state" /\ val \in {"captured", "archived"}
    <3>1. e = [g EXCEPT !.state = val, !.ts = stamp + 1]
      BY <1>3, <2>2 DEF Notes!Patched, NoteEntry
    <3>. QED
      BY <1>1, <1>3, <2>2, <3>1 DEF NoteEntry
  <2>. QED
    BY <2>1, <2>2
<1>5. Notes!Begin(c, op, s, e, None)
  BY <1>2
<1> HIDE DEF e
<1>6. Proper(op, s, e)
  BY <1>1, <1>2, <1>3, <1>4 DEF Proper
<1>. QED
  BY <1>5, <1>6, NoteBegins

(* A record is written around the modules.                                 *)
LEMMA NoteRaws ==
  ASSUME NotesInv, NEW c \in Clients, Notes!WriteRaw(c)
  PROVE  NotesInv'
<1>1. PICK s \in Scopes, kind \in {"raw", "junk"} :
        Notes!Target(s) = s /\ Notes!Begin(c, "raw", s, Notes!RawEntry(kind), None)
  BY DEF Notes!WriteRaw, Notes!Scopes, Scopes
<1> DEFINE e == Notes!RawEntry(kind)
<1>2. NoteTypes /\ stamp + 1 \in Nat /\ (s \in Workspaces => alias[s] = None)
  BY <1>1, TargetIs DEF NotesInv, NoteTypes
<1>3. /\ e \in NoteEntry /\ e.ts = stamp + 1 /\ e.id = stamp + 1 /\ e.kind \in {"raw", "junk"} /\ e.state = "none"
  BY <1>2 DEF Notes!RawEntry, NoteEntry
<1>4. Proper("raw", s, e)
  BY <1>2, <1>3 DEF Proper
<1>. QED
  BY <1>1, <1>4, NoteBegins

(* The invariant of the notes holds at the start.                          *)
LEMMA NotesStart == Notes!Init => NotesInv
<1> SUFFICES ASSUME Notes!Init PROVE NotesInv
  OBVIOUS
<1>1. /\ alias = [w \in Workspaces |-> None]
      /\ boards = [s \in Scopes |-> {}] /\ attic = [w \in Workspaces |-> {}]
      /\ call = [c \in Clients |-> Notes!Idle]
      /\ stamp = 0 /\ noted = {} /\ done = {}
  BY DEF Notes!Init, Notes!Scopes, Scopes
<1>2. NoteTypes
  BY <1>1 DEF NoteTypes
<1>3. \A c \in Clients : ~Busy(c)
  BY <1>1 DEF Busy
<1>4. Entries = {}
  BY <1>1, <1>3 DEF Entries
<1>5. Told
  BY <1>1, <1>4 DEF Told
<1>6. Asked /\ Knows
  BY <1>3 DEF Asked, Knows
<1>7. Placed
  BY <1>1, <1>3 DEF Placed, Scopes
<1>8. Folded
  BY <1>1 DEF Folded
<1>9. Finite
  <2>1. Everything = {}
    BY <1>1 DEF Everything, Scopes, Notes!Scopes
  <2>. QED
    BY <1>1, <2>1, FS_EmptySet DEF Finite
<1>10. Claimed /\ Vacated /\ Patches
  BY <1>1, <1>3 DEF Claimed, Vacated, Patches
<1>. QED
  BY <1>2, <1>5, <1>6, <1>7, <1>8, <1>9, <1>10 DEF NotesInv

(* What is no part of the notes may change.                                *)
LEMMA NotesIdle ==
  NotesInv /\ UNCHANGED mail => NotesInv'
<1> SUFFICES ASSUME NotesInv, UNCHANGED mail PROVE NotesInv'
  OBVIOUS
<1>1. UNCHANGED <<alias, boards, attic, call, stamp, links, noted, done>>
  BY DEF mail
<1>2. \A c \in Clients : Busy(c)' <=> Busy(c)
  BY <1>1 DEF Busy
<1>3. NoteTypes' /\ Folded' /\ Finite'
  BY <1>1 DEF NotesInv, NoteTypes, Folded, Finite, Everything
<1>4. Entries' = Entries
  BY <1>1, <1>2 DEF Entries
<1>5. Told'
  BY <1>1, <1>4, StillTold DEF NotesInv, Told
<1>6. Asked' /\ Knows'
  BY <1>1, <1>2 DEF NotesInv, Asked, Creates, Knows
<1>7. Placed'
  BY <1>1, <1>2 DEF NotesInv, Placed
<1>8. Claimed' /\ Vacated'
  BY <1>1, <1>2 DEF NotesInv, Claimed, Vacated
<1>9. Patches'
  BY <1>1, <1>2 DEF NotesInv, Patches, Holds, Overridden
<1>. QED
  BY <1>3, <1>5, <1>6, <1>7, <1>8, <1>9 DEF NotesInv

(* The invariant of handoffs and tips, one step per action.                *)
LEMMA NotesStep ==
  ASSUME NotesInv, Notes!Next
  PROVE  NotesInv'
<1>1. \A w \in Workspaces : w \in Scopes
  BY DEF Scopes
<1>2. ASSUME NEW c \in Clients, Notes!HandoffTools(c)
      PROVE  NotesInv'
  <2>1. Notes!Targets("tool") = Scopes
    BY DEF Notes!Targets, Notes!Scopes, Scopes
  <2>. QED
    BY <1>2, <2>1, NoteSends, NoteTransits DEF Notes!HandoffTools
<1>3. ASSUME NEW c \in Clients, Notes!HandoffRoutes(c)
      PROVE  NotesInv'
  BY <1>1, <1>3, NoteTransits DEF Notes!HandoffRoutes, Notes!Callers
<1>4. ASSUME NEW c \in Clients, NEW via, Notes!TipRequests(c, via)
      PROVE  NotesInv'
  <2>1. PICK w \in Workspaces :
          Notes!CaptureTip(c, w, "captured") \/ Notes!UpdateTip(c, w) \/ Notes!ArchiveTip(c, w)
    BY <1>4 DEF Notes!TipRequests, Notes!Callers
  <2>2. CASE Notes!CaptureTip(c, w, "captured")
    BY <2>2, NoteCaptures
  <2>3. CASE Notes!UpdateTip(c, w)
    <3>1. CASE Notes!ChangeTip(c, w, "edit", "body", stamp + 1)
      BY <3>1, NotePatches
    <3>2. CASE Notes!ChangeTip(c, w, "mark", "state", "captured")
      BY <3>2, NotePatches
    <3>. QED
      BY <2>3, <3>1, <3>2 DEF Notes!UpdateTip
  <2>4. CASE Notes!ArchiveTip(c, w)
    <3>1. Notes!ChangeTip(c, w, "mark", "state", "archived")
      BY <2>4 DEF Notes!ArchiveTip
    <3>. QED
      BY <3>1, NotePatches
  <2>. QED
    BY <2>1, <2>2, <2>3, <2>4
<1>5. ASSUME NEW c \in Clients, Notes!TipTools(c) \/ Notes!TipRoutes(c)
      PROVE  NotesInv'
  BY <1>4, <1>5 DEF Notes!TipTools, Notes!TipRoutes
<1>. QED
  BY <1>2, <1>3, <1>5, NoteRaws, NoteAppends, NoteRefused, NoteAdopts, NoteDetaches DEF Notes!Next

(* The second of two clean claims of a handoff would have had to be in     *)
(* flight when the first was acknowledged, or to find it pending after.    *)
LEMMA OnceStep ==
  ASSUME NotesInv, Notes!ClaimedOnce, Notes!Next
  PROVE  Notes!ClaimedOnce'
<1>1. CASE UNCHANGED done
  BY <1>1 DEF Notes!ClaimedOnce
<1>2. ASSUME NEW c \in Clients, Notes!Append(c), done' # done
      PROVE  Notes!ClaimedOnce'
  <2> DEFINE ch == Notes!Change(c)
  <2>1. /\ Busy(c) /\ done' = done \cup {ch}
        /\ ch.id = call[c].entry.id /\ ch.op = call[c].op
    BY <1>2 DEF Notes!Append, Busy, Notes!Change
  <2> HIDE DEF ch
  <2>2. \A d \in done : d.op = "move" /\ d.clean /\ ch.op = "move" => d.id # ch.id
    BY <2>1 DEF NotesInv, Claimed
  <2>. QED
    BY <2>1, <2>2 DEF Notes!ClaimedOnce
<1>3. ASSUME NEW w \in Workspaces, NEW q \in Projects, Notes!Adopt(w, q)
      PROVE  Notes!ClaimedOnce'
  <2> DEFINE Carried(d) == [d EXCEPT !.at = IF d.at = w THEN q ELSE d.at,
                                     !.clean = d.clean /\ ~Notes!Forked(d, w, q)]
  <2>1. done' = {Carried(d) : d \in done}
    BY <1>3 DEF Notes!Adopt
  <2>2. \A d \in done : /\ Carried(d).id = d.id /\ Carried(d).op = d.op
                        /\ Carried(d).clean => d.clean
    BY DEF NotesInv, NoteTypes, NoteChange
  <2> HIDE DEF Carried
  <2>3. \A d, f \in done : /\ Carried(d).op = "move" /\ Carried(f).op = "move"
                           /\ Carried(d).clean /\ Carried(f).clean /\ Carried(d).id = Carried(f).id
                           => Carried(d) = Carried(f)
    BY <2>2 DEF Notes!ClaimedOnce
  <2>. QED
    BY <2>1, <2>3 DEF Notes!ClaimedOnce
<1>4. ASSUME NEW c, NEW op, NEW s, NEW e, NEW by, Notes!Begin(c, op, s, e, by)
      PROVE  UNCHANGED done
  BY <1>4 DEF Notes!Begin, Notes!history
<1>5. ASSUME NEW c \in Clients,
             \/ Notes!HandoffTools(c) \/ Notes!HandoffRoutes(c) \/ Notes!TipTools(c)
             \/ Notes!TipRoutes(c) \/ Notes!WriteRaw(c)
      PROVE  UNCHANGED done
  <2>1. CASE Notes!HandoffTools(c)
    BY <1>4, <2>1 DEF Notes!HandoffTools, Notes!Send, Notes!Transition
  <2>2. CASE Notes!HandoffRoutes(c)
    BY <1>4, <2>2 DEF Notes!HandoffRoutes, Notes!Transition
  <2>3. CASE Notes!TipTools(c) \/ Notes!TipRoutes(c)
    BY <1>4, <2>3 DEF Notes!TipTools, Notes!TipRoutes, Notes!TipRequests, Notes!CaptureTip,
      Notes!UpdateTip, Notes!ArchiveTip, Notes!ChangeTip
  <2>4. CASE Notes!WriteRaw(c)
    BY <1>4, <2>4 DEF Notes!WriteRaw
  <2>. QED
    BY <1>5, <2>1, <2>2, <2>3, <2>4
<1>6. ASSUME NEW c \in Clients, Notes!Refused(c)
      PROVE  UNCHANGED done
  BY <1>6 DEF Notes!Refused, Notes!history
<1>7. ASSUME NEW w \in Workspaces, Notes!Detach(w)
      PROVE  UNCHANGED done
  BY <1>7 DEF Notes!Detach
<1>. QED
  BY <1>1, <1>2, <1>3, <1>5, <1>6, <1>7 DEF Notes!Next

(* A set of rows that fits the scan's cap is scanned whole.                *)
LEMMA NewestIsAll ==
  ASSUME NEW rows, IsFiniteSet(rows), \A e \in rows : e.ts \in Nat, Notes!Fits(rows)
  PROVE  Notes!Newest(rows) = rows
<1> DEFINE Later(e) == {f \in rows : f.ts > e.ts}
<1>0. \A set : Notes!Cardinality(set) = Cardinality(set)
  BY DEF Notes!Cardinality, Cardinality
<1>1. Notes!Newest(rows) = {e \in rows : Notes!Cardinality(Later(e)) < Cap}
  BY DEF Notes!Newest, Notes!First, Notes!Newer
<1>2. ASSUME NEW e \in rows
      PROVE  Cardinality(Later(e)) < Cap
  <2>1. Later(e) \subseteq rows \ {e}
    <3>1. ~(e.ts > e.ts)
      OBVIOUS
    <3>. QED
      BY <3>1
  <2>2. IsFiniteSet(rows \ {e}) /\ Cardinality(rows \ {e}) = Cardinality(rows) - 1
    BY FS_RemoveElement
  <2> HIDE DEF Later
  <2>3. IsFiniteSet(Later(e)) /\ Cardinality(Later(e)) <= Cardinality(rows \ {e})
    BY <2>1, <2>2, FS_Subset
  <2>4. Cardinality(Later(e)) \in Nat /\ Cardinality(rows) \in Nat
    BY <2>3, FS_CardinalityType
  <2>5. Cardinality(rows) <= Cap /\ Cap \in Nat
    BY <1>0, ScanAssumption DEF Notes!Fits
  <2>. QED
    BY <2>2, <2>3, <2>4, <2>5
<1> HIDE DEF Later
<1>. QED
  BY <1>0, <1>1, <1>2

(* A row that is asked for is shown unless as many newer rivals, among     *)
(* which are all rows that are asked for, are there as the limit allows.   *)
LEMMA ShownUnlessPushedOut ==
  ASSUME NEW rows, NEW rivals, NEW wanted, NEW limit \in Nat, NEW e \in rows, e.state \in wanted,
         IsFiniteSet(rivals), \A f \in rows : f.state \in wanted => f \in rivals,
         Notes!Cardinality({f \in Notes!Newer(rivals, e) : f.state \in wanted}) < limit
  PROVE  e.id \in Notes!Shown(rows, wanted, limit)
<1> DEFINE asked == {f \in rows : f.state \in wanted}
           near == Notes!Newer(asked, e)
           far == {f \in Notes!Newer(rivals, e) : f.state \in wanted}
<1>1. near \subseteq far /\ far \subseteq rivals
  BY DEF Notes!Newer
<1>2. e \in asked /\ Notes!Cardinality(far) < limit
  OBVIOUS
<1>3. Notes!Cardinality(far) = Cardinality(far) /\ Notes!Cardinality(near) = Cardinality(near)
  BY DEF Notes!Cardinality, Cardinality
<1>4. Notes!Shown(rows, wanted, limit) = {f.id : f \in {g \in asked : Notes!Cardinality(Notes!Newer(asked, g)) < limit}}
  BY DEF Notes!Shown, Notes!First
<1> HIDE DEF asked, near, far
<1>5. IsFiniteSet(far) /\ IsFiniteSet(near) /\ Cardinality(near) <= Cardinality(far)
  BY <1>1, FS_Subset
<1>6. Cardinality(near) \in Nat /\ Cardinality(far) \in Nat
  BY <1>5, FS_CardinalityType
<1>7. Cardinality(near) < limit
  BY <1>2, <1>3, <1>5, <1>6
<1>. QED
  BY <1>2, <1>3, <1>4, <1>7 DEF near

(* What the listings show follows from the invariant.                      *)
LEMMA ListingsAre ==
  NotesInv => Notes!ListingsComplete
<1> SUFFICES ASSUME NotesInv, NEW a \in noted, NEW w \in Workspaces, NEW limit \in 1..Cap
             PROVE  /\ a.kind = "handoff" /\ Notes!Fits({e \in boards[a.at] : Notes!InNamespace(e)}) =>
                         /\ a.at = Notes!Identity(w) =>
                              Notes!Lists(Notes!Inbox(w, Notes!DefaultView, limit), a, Notes!DefaultView,
                                          Notes!HandoffsOf(a.at), limit)
                         /\ a.by = w /\ a.as \in {w, alias[w]} =>
                              Notes!Lists(Notes!Outbox(w, Notes!DefaultView, limit), a, Notes!DefaultView,
                                          Notes!Sent(w), limit)
                    /\ a.kind = "tip" /\ a.at = Notes!Identity(w) /\ Notes!Fits(boards[a.at]) =>
                         Notes!Lists(Notes!ListTips(w, {"captured"}, limit), a, {"captured"},
                                     Notes!TipsOf(a.at), limit)
  BY DEF Notes!ListingsComplete
<1> DEFINE board == boards[a.at]
           rows == {e \in board : Notes!InNamespace(e)}
<1>0. limit \in Nat
  BY ScanAssumption
<1>1. a.at \in Scopes /\ w \in Scopes /\ NoteTypes
  BY DEF NotesInv, NoteTypes, NoteCreation, Scopes
<1>2. /\ IsFiniteSet(board) /\ IsFiniteSet(rows)
      /\ \A e \in board : e \in Entries /\ e.ts \in Nat
  BY <1>1, EntriesAre, FS_Subset DEF NotesInv, Finite
<1>3. \A e \in board : e.id = a.id => e.kind = a.kind /\ e.from = a.as
  BY <1>2 DEF NotesInv, Told
<1>a. /\ IsFiniteSet(Notes!HandoffsOf(a.at)) /\ IsFiniteSet(Notes!TipsOf(a.at))
  BY <1>2, FS_Subset DEF Notes!HandoffsOf, Notes!TipsOf
<1>4. ASSUME a.kind = "handoff", Notes!Fits(rows)
      PROVE  Notes!Mail(a.at) = rows
  BY <1>2, <1>4, NewestIsAll DEF Notes!Mail
<1>5. ASSUME a.kind = "handoff", Notes!Fits(rows), a.at = Notes!Identity(w)
      PROVE  Notes!Lists(Notes!Inbox(w, Notes!DefaultView, limit), a, Notes!DefaultView,
                         Notes!HandoffsOf(a.at), limit)
  <2>1. Notes!Target(w) = a.at
    BY <1>5 DEF Notes!Target
  <2>2. Notes!Inbox(w, Notes!DefaultView, limit) = Notes!Listing(rows, Notes!DefaultView, limit)
    BY <1>4, <1>5, <2>1 DEF Notes!Inbox
  <2>3. Notes!Decodes(rows) => \A f \in rows : f \in Notes!HandoffsOf(a.at)
    BY DEF Notes!Decodes, Notes!HandoffsOf, Notes!InNamespace
  <2>4. ASSUME NEW e \in board, e.id = a.id, e.state \in Notes!DefaultView, Notes!Decodes(rows),
               Notes!Cardinality({f \in Notes!Newer(Notes!HandoffsOf(a.at), e) : f.state \in Notes!DefaultView})
                 < limit
        PROVE  a.id \in Notes!Shown(rows, Notes!DefaultView, limit)
    <3>1. e \in rows
      BY <1>3, <1>5, <2>4 DEF Notes!InNamespace
    <3> HIDE DEF rows
    <3>. QED
      BY <1>0, <1>a, <2>3, <2>4, <3>1, ShownUnlessPushedOut
  <2>. QED
    BY <2>2, <2>4 DEF Notes!Lists, Notes!Listing, Notes!Failed
<1>b. IsFiniteSet(Notes!Sent(w))
  <2>1. Notes!Sent(w) \subseteq Everything
    BY DEF Notes!Sent, Notes!SentFrom, Notes!HandoffsOf, Notes!Scopes, Scopes, Everything
  <2>. QED
    BY <2>1, FS_Subset DEF NotesInv, Finite
<1>6. ASSUME a.kind = "handoff", Notes!Fits(rows), a.by = w, a.as \in {w, alias[w]}
      PROVE  Notes!Lists(Notes!Outbox(w, Notes!DefaultView, limit), a, Notes!DefaultView, Notes!Sent(w), limit)
  <2> DEFINE all == UNION {Notes!Mail(s) : s \in Notes!KnownScopes}
             mine == Notes!SentFrom(all, w)
  <2>1. SUFFICES ASSUME NEW e \in board, e.id = a.id, e.state \in Notes!DefaultView, Notes!Decodes(all),
                        Notes!Cardinality({f \in Notes!Newer(Notes!Sent(w), e) : f.state \in Notes!DefaultView})
                          < limit
                 PROVE  a.id \in Notes!Shown(mine, Notes!DefaultView, limit)
    BY DEF Notes!Lists, Notes!Outbox, Notes!Listing, Notes!Failed
  <2>2. e.kind = "handoff" /\ e.from = a.as /\ e.from \in Scopes
    BY <1>2, <1>3, <1>6, <2>1 DEF NotesInv, Told, Sane
  <2>3. a.at \notin Workspaces
    BY <1>6 DEF NotesInv, Placed
  <2>4. a.at \in Notes!KnownScopes
    <3>1. Notes!Target(a.at) = a.at
      BY <2>3 DEF Notes!Target, Notes!Identity
    <3>2. a.at \in {t \in Notes!Scopes : boards[t] # {}}
      BY <1>1, <2>1 DEF Notes!Scopes, Scopes
    <3>. QED
      BY <3>1, <3>2 DEF Notes!KnownScopes
  <2>5. e \in Notes!Mail(a.at)
    BY <1>4, <1>6, <2>2 DEF Notes!InNamespace
  <2>6. e \in all
    BY <2>4, <2>5
  <2>7. e.from \in Notes!Identities(w)
    <3>1. CASE alias[w] = None
      <4>1. a.as = w
        BY <1>6, <2>2, <3>1, ScopesAssumption DEF Scopes
      <4>. QED
        BY <2>2, <3>1, <4>1 DEF Notes!Identities, Notes!Identity
    <3>2. CASE alias[w] # None
      BY <1>6, <2>2, <3>2 DEF Notes!Identities, Notes!Identity
    <3>. QED
      BY <3>1, <3>2
  <2>8. e \in mine
    BY <2>6, <2>7 DEF Notes!SentFrom
  <2>9. \A f \in mine : f \in Notes!Sent(w)
    <3>1. ASSUME NEW f \in all PROVE f \in UNION {Notes!HandoffsOf(s) : s \in Notes!Scopes}
      <4>1. PICK s \in Notes!KnownScopes : f \in Notes!Mail(s)
        OBVIOUS
      <4>2. s \in Notes!Scopes
        BY <1>1, <4>1 DEF Notes!KnownScopes, Notes!Target, Notes!Identity, Notes!Scopes, NoteTypes
      <4>3. f \in boards[s] /\ Notes!InNamespace(f)
        BY <4>1 DEF Notes!Mail, Notes!Newest, Notes!First
      <4>4. f.kind = "handoff"
        BY <2>1, <4>1, <4>3 DEF Notes!Decodes, Notes!InNamespace
      <4>. QED
        BY <4>2, <4>3, <4>4 DEF Notes!HandoffsOf
    <3>. QED
      BY <3>1 DEF Notes!SentFrom, Notes!Sent
  <2> HIDE DEF mine, all
  <2>. QED
    BY <1>0, <1>b, <2>1, <2>8, <2>9, ShownUnlessPushedOut
<1>7. ASSUME a.kind = "tip", a.at = Notes!Identity(w), Notes!Fits(board)
      PROVE  Notes!Lists(Notes!ListTips(w, {"captured"}, limit), a, {"captured"}, Notes!TipsOf(a.at), limit)
  <2>1. Notes!Target(w) = a.at /\ Notes!Newest(board) = board
    BY <1>2, <1>7, NewestIsAll DEF Notes!Target
  <2>2. Notes!Tips(a.at) = Notes!TipsOf(a.at)
    BY <2>1 DEF Notes!Tips, Notes!TipsOf
  <2>3. ASSUME NEW e \in board, e.id = a.id, e.state \in {"captured"},
               Notes!Cardinality({f \in Notes!Newer(Notes!TipsOf(a.at), e) : f.state \in {"captured"}}) < limit
        PROVE  a.id \in Notes!Shown(Notes!TipsOf(a.at), {"captured"}, limit)
    <3>1. e \in Notes!TipsOf(a.at)
      BY <1>3, <1>7, <2>3 DEF Notes!TipsOf
    <3>. QED
      BY <1>0, <1>a, <2>3, <3>1, ShownUnlessPushedOut
  <2>. QED
    BY <2>1, <2>2, <2>3 DEF Notes!Lists, Notes!ListTips, Notes!Listing, Notes!Failed
<1>. QED
  BY <1>5, <1>6, <1>7

(* Of the acknowledged consumptions and archivings of a handoff at most    *)
(* one did not overlap another request for it, for any number of processes *)
(* and requests, workspaces, projects, adoptions and detachments.          *)
THEOREM HandoffsAreClaimedOnce == BothSpec => []ClaimedOnce
<1> DEFINE Inv == NotesInv /\ Notes!ClaimedOnce
<1>1. BothInit => Inv
  BY NotesStart DEF BothInit, Notes!Init, Notes!ClaimedOnce
<1>2. Inv /\ [BothNext]_<<part, vars, mail>> => Inv'
  <2> SUFFICES ASSUME Inv, [BothNext]_<<part, vars, mail>> PROVE Inv'
    OBVIOUS
  <2>1. CASE Notes!Next
    BY <2>1, NotesStep, OnceStep
  <2>2. CASE UNCHANGED mail
    <3>1. UNCHANGED done
      BY <2>2 DEF mail
    <3>. QED
      BY <2>2, <3>1, NotesIdle DEF Notes!ClaimedOnce
  <2>. QED
    BY <2>1, <2>2 DEF BothNext
<1>3. Inv => ClaimedOnce
  BY DEF ClaimedOnce
<1>. QED
  BY <1>1, <1>2, <1>3, PTL DEF BothSpec

(* Acknowledged patches of tips survive until the same field is patched    *)
(* again or another request or copy gets in between, and the listings show *)
(* all that was acknowledged, whatever the cap of the scan.                *)
THEOREM NotesStayAndShow == BothSpec => []NotesAreKept
<1>1. BothInit => NotesInv
  BY NotesStart DEF BothInit
<1>2. NotesInv /\ [BothNext]_<<part, vars, mail>> => NotesInv'
  BY NotesStep, NotesIdle DEF BothNext
<1>3. NotesInv => Notes!PatchesSurvive
  BY DEF NotesInv, Patches, Holds, Overridden, Notes!PatchesSurvive
<1>4. NotesInv => NotesAreKept
  BY <1>3, ListingsAre DEF NotesAreKept
<1>. QED
  BY <1>1, <1>2, <1>4, PTL DEF BothSpec
=============================================================================
