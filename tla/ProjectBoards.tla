--------------------------- MODULE ProjectBoards ---------------------------
(***************************************************************************)
(* core/store/project-registry.ts, project-migration.ts and the admin half *)
(* of board.ts: one directory ("the workspace") whose board is adopted by  *)
(* a project, detached from it, released or left behind by an archived     *)
(* project, while clients of several processes write to it.                *)
(*                                                                         *)
(* A board file is the set of the records in it; none exists when empty.   *)
(* registry.jsonl is its fold, reg; each process keeps an earlier fold,    *)
(* proj[p], and two file sizes that say whether it is the current one:     *)
(* fresh[p] (the size folded last), sized[p] (the size that               *)
(* refreshRegistryForScope has seen).  A registry mutation is one step:    *)
(* it runs under the registry's append lock.  The lock of a project file   *)
(* is held over the steps of a migration; every other holder takes and     *)
(* releases it within one step.  Sidecars, names and the contents of       *)
(* records are left out.                                                   *)
(*                                                                         *)
(* Discipline names what the code leaves to its callers: "quiet", nobody   *)
(* writes to a workspace while it is being adopted; "serial", admin        *)
(* requests come one at a time.                                            *)
(*                                                                         *)
(* A definition X_Y is X as a plausible bug would have it.                 *)
(***************************************************************************)
EXTENDS Naturals, FiniteSets

CONSTANTS
  Procs, Projects, None,
  Calls, Home,            (* requests in flight and the process of each    *)
  Faulty,                 (* the steps that may fail                       *)
  Discipline,
  MaxWrites, MaxAdmin, MaxFaults, MaxCrashes                  (* bounds    *)

ASSUME SetsAssumption == Home \in [Calls -> Procs] /\ None \notin Projects \cup Calls
ASSUME FaultAssumption ==
  Faulty \subseteq {"copy", "alias", "meta", "rename", "rotate", "unwind", "fold", "part"}
ASSUME DisciplineAssumption == Discipline \subseteq {"quiet", "serial"}
ASSUME BoundsAssumption == {MaxWrites, MaxAdmin, MaxFaults, MaxCrashes} \subseteq Nat

VARIABLES
  reg,                    (* the fold of registry.jsonl                    *)
  proj, fresh, sized,     (* the fold a process has, is it current         *)
  lock,                   (* the migration that holds a project's file     *)
  ws, brd,                (* ws-<hash>.jsonl, project-<id>.jsonl           *)
  mig,                    (* ws-<hash>.jsonl.migrated-<stamp>              *)
  shelf,                  (* what *.released-* and *.archived-* files hold *)
  pc, job,                (* where a request is, and its local state       *)
  acked,                  (* records whose write has returned ok           *)
  owed,                   (* those a reader of the workspace must find     *)
  snap,                   (* the records that the last adoption moved      *)
  astray,                 (* those written to the workspace while aliased  *)
  cut,                    (* the projects whose archiving was cut short    *)
  writes, clock, admin, faults, crashes

views == <<reg, proj, fresh, sized>>
files == <<lock, ws, brd, mig, shelf>>
promises == <<acked, owed, snap, astray, cut>>
counters == <<writes, clock, admin, faults, crashes>>
vars == <<views, files, pc, job, promises, counters>>

Fold == [known : SUBSET Projects, archived : SUBSET Projects, alias : Projects \cup {None}]
Blank == [known |-> {}, archived |-> {}, alias |-> None]

Job == [op : {"none", "write", "direct", "migrate", "detach", "release", "archive"},
        at : Projects \cup {None}, rec : Nat, calm : BOOLEAN,
        had : Projects \cup {None},
        copied : SUBSET Nat, was : SUBSET Nat, stamp : Nat]
Request(op, at, rec, had) ==
  [op |-> op, at |-> at, rec |-> rec, calm |-> rec # 0, had |-> had,
   copied |-> {}, was |-> {}, stamp |-> 0]
NoJob == Request("none", None, 0, None)

Init ==
  /\ reg = Blank /\ proj = [p \in Procs |-> Blank]
  /\ fresh = [p \in Procs |-> FALSE] /\ sized = [p \in Procs |-> FALSE]
  /\ lock = [q \in Projects |-> None]
  /\ ws = {} /\ brd = [q \in Projects |-> {}] /\ mig = {} /\ shelf = {}
  /\ pc = [c \in Calls |-> "idle"] /\ job = [c \in Calls |-> NoJob]
  /\ acked = {} /\ owed = {} /\ snap = {} /\ astray = {} /\ cut = {}
  /\ writes = 0 /\ clock = 0 /\ admin = 0 /\ faults = 0 /\ crashes = 0

(* ---------------------------------------------------------------------- *)
(* The registry                                                            *)

Live(view) == view.known \ view.archived

(* An alias that lingers on an archived project does not resolve.          *)
Resolve(view) == IF view.alias \in view.archived THEN None ELSE view.alias

(* Refresh and append under the lock; without a record, refresh alone.     *)
Commit(c, new) ==
  /\ reg' = new
  /\ proj' = [proj EXCEPT ![Home[c]] = new]
  /\ fresh' = [p \in Procs |-> p = Home[c] \/ (fresh[p] /\ new = reg)]
  /\ sized' = [p \in Procs |-> sized[p] /\ new = reg]

Refresh(c) == Commit(c, reg)

Fails(step) == step \in Faulty /\ faults < MaxFaults /\ faults' = faults + 1

(* A refresh that fails is swallowed: the projection is the old one, when  *)
(* the file's size cannot be had, or else empty, when it cannot be read.   *)
Misread(p) ==
  /\ ~fresh[p]
  /\ \E view \in {proj[p], Blank} : proj' = [proj EXCEPT ![p] = view]
  /\ UNCHANGED <<reg, fresh, sized>>
BestEffort(c) ==
  \/ Refresh(c) /\ UNCHANGED faults
  \/ Fails("fold") /\ Misread(Home[c])

(* Every other request folds the registry, and may fail to.                *)
Look(p) ==
  /\ ~fresh[p]
  /\ \/ /\ proj' = [proj EXCEPT ![p] = reg] /\ fresh' = [fresh EXCEPT ![p] = TRUE]
        /\ UNCHANGED <<reg, sized, faults>>
     \/ Fails("fold") /\ Misread(p)
  /\ UNCHANGED <<files, pc, job, promises, writes, clock, admin, crashes>>

Unaliased == [reg EXCEPT !.alias = None]

(* ---------------------------------------------------------------------- *)
(* Requests                                                                *)

Administers(c) == job[c].op \in {"migrate", "detach", "release", "archive"}
AtRest == \A c \in Calls : ~Administers(c)
Adopting == \E c \in Calls : job[c].op = "migrate"
Writing == \E c \in Calls : job[c].op = "write"

Goto(c, there) == pc' = [pc EXCEPT ![c] = there]
Return(c) == Goto(c, "idle") /\ job' = [job EXCEPT ![c] = NoJob]

(* The workspace is rolled back on purpose: its reader is owed nothing     *)
(* more, nor what a write in flight will have written.                     *)
Disown == owed' = {}
Disturbed == [c \in Calls |-> [job[c] EXCEPT !.calm = FALSE]]

(* ---------------------------------------------------------------------- *)
(* write: refresh, resolve, append                                         *)

(* A call that finds the size refreshRegistryForScope saw last does not    *)
(* wait.  While another one does, the projection is still the old one or,  *)
(* since refreshIfStale empties it before it reads the file, empty; and so *)
(* it stays when that refresh failed.                                      *)
Waits(p) == ~sized[p] /\ ~fresh[p]
Folding(p) == {c \in Calls : Home[c] = p /\ pc[c] = "fold"}
Seen(p) == {Resolve(proj[p])} \cup IF fresh[p] \/ Folding(p) = {} THEN {} ELSE {None}

(* The scope asked for: None is "workspace", q is "project:<q>".           *)
Scoped(q, found) == IF q = None THEN found ELSE {q}

(* A write is calm while it is resolved by the registry's current fold.    *)
Ask(q, there, current) ==
  [Request(IF q = None THEN "write" ELSE "direct", there, writes + 1, None) EXCEPT !.calm = current]

Write(c, q) ==
  LET p == Home[c]
  IN /\ pc[c] = "idle" /\ writes < MaxWrites
     /\ q = None /\ "quiet" \in Discipline => ~Adopting
     /\ q \in reg.known \cup {None}
     /\ \/ Waits(p) /\ Goto(c, "fold") /\ job' = [job EXCEPT ![c] = Ask(q, q, TRUE)]
        \/ /\ ~Waits(p) /\ Goto(c, "append")
           /\ \E there \in Scoped(q, Seen(p)) : job' = [job EXCEPT ![c] = Ask(q, there, fresh[p])]
     /\ sized' = [sized EXCEPT ![p] = TRUE]
     /\ writes' = writes + 1
     /\ UNCHANGED <<reg, proj, fresh, files, promises, clock, admin, faults, crashes>>

Target_Legacy(c, view) == job[c].at
Target(c, view) == IF job[c].op = "write" THEN Resolve(view) ELSE job[c].at

FoldRegistry(c) ==
  LET p == Home[c]
  IN /\ pc[c] = "fold"
     /\ BestEffort(c)
     /\ Goto(c, "append")
     /\ job' = [job EXCEPT ![c].at = Target(c, proj'[p]), ![c].calm = @ /\ fresh'[p]]
     /\ UNCHANGED <<files, promises, writes, clock, admin, crashes>>

(* fold() refreshes once more; the scope stays the one resolved before.    *)
AppendRecord(c) ==
  LET q == job[c].at  r == job[c].rec
  IN /\ pc[c] = "append"
     /\ q # None => lock[q] = None
     /\ ws' = IF q = None THEN ws \cup {r} ELSE ws
     /\ brd' = IF q = None THEN brd ELSE [brd EXCEPT ![q] = @ \cup {r}]
     /\ acked' = acked \cup {r}
     /\ owed' = IF job[c].op = "write" /\ job[c].calm THEN owed \cup {r} ELSE owed
     /\ astray' = IF q = None /\ Resolve(reg) # None THEN astray \cup {r} ELSE astray
     /\ BestEffort(c) /\ Return(c)
     /\ UNCHANGED <<lock, mig, shelf, snap, cut, writes, clock, admin, crashes>>

(* ---------------------------------------------------------------------- *)
(* migrateWorkspaceToProject                                               *)

Admit(c, op, q) ==
  /\ pc[c] = "idle" /\ admin < MaxAdmin
  /\ "serial" \in Discipline => AtRest
  /\ admin' = admin + 1
  /\ Refresh(c)
  /\ job' = [job EXCEPT ![c] = Request(op, q, 0, reg.alias)]
  /\ UNCHANGED <<files, promises, writes, clock, faults, crashes>>

Migrate(c, q) ==
  /\ "quiet" \in Discipline => ~Writing
  /\ Resolve(reg) = None
  /\ \/ q = None /\ reg.known # Projects /\ Goto(c, "create")
     \/ q \in Live(reg) /\ Goto(c, "copy")
  /\ Admit(c, "migrate", q)

Create(c) ==
  /\ pc[c] = "create"
  /\ \E q \in Projects \ reg.known :
       /\ Commit(c, [reg EXCEPT !.known = @ \cup {q}])
       /\ job' = [job EXCEPT ![c].at = q]
  /\ Goto(c, "copy")
  /\ UNCHANGED <<files, promises, counters>>

(* Lock the target, read the source, append its records to the target.     *)
(* An append that fails or comes out short is truncated under the lock.    *)
Copy(c) ==
  LET q == job[c].at
  IN /\ pc[c] = "copy" /\ lock[q] = None
     /\ \/ /\ lock' = [lock EXCEPT ![q] = c]
           /\ brd' = [brd EXCEPT ![q] = @ \cup ws]
           /\ job' = [job EXCEPT ![c].was = brd[q], ![c].copied = ws]
           /\ Goto(c, "alias")
           /\ UNCHANGED faults
        \/ Fails("copy") /\ Return(c) /\ UNCHANGED <<lock, brd>>
     /\ UNCHANGED <<views, ws, mig, shelf, promises, writes, clock, admin, crashes>>

Unlock_Keeps(q) == UNCHANGED lock
Unlock(q) == lock' = [lock EXCEPT ![q] = None]

(* rollbackToSize: the target as it was when the lock was taken.           *)
Rollback_Unlinks(c) == brd' = [brd EXCEPT ![job[c].at] = {}]
Rollback(c) == brd' = [brd EXCEPT ![job[c].at] = job[c].was]

(* The unwinding of a failed step; its removeAlias may fail unnoticed.     *)
Unwind(c) ==
  /\ \/ Commit(c, Unaliased)
     \/ "unwind" \in Faulty /\ UNCHANGED views
  /\ Rollback(c) /\ Unlock(job[c].at) /\ Return(c)

(* addAlias: the hash is free, or is already this project's.               *)
Adoptable(q) == reg.alias = q \/ (reg.alias = None /\ q \in Live(reg))

Adopt(c) ==
  LET q == job[c].at
  IN /\ pc[c] = "alias"
     /\ \/ /\ Adoptable(q)
           /\ Commit(c, [reg EXCEPT !.alias = q])
           /\ snap' = IF reg.alias = q THEN snap ELSE job[c].copied
           /\ Goto(c, "meta")
           /\ UNCHANGED <<lock, brd, job, faults>>
        \/ /\ \/ ~Adoptable(q) /\ Refresh(c) /\ UNCHANGED faults
              \/ Fails("alias") /\ UNCHANGED views
           /\ Rollback(c) /\ Unlock(q) /\ Return(c)
           /\ UNCHANGED snap
     /\ UNCHANGED <<ws, mig, shelf, acked, owed, astray, cut, writes, clock, admin, crashes>>

(* ensureProjectMetaCwd.                                                   *)
Meta(c) ==
  /\ pc[c] = "meta"
  /\ \/ Goto(c, "rename") /\ UNCHANGED <<views, lock, brd, job, faults>>
     \/ Fails("meta") /\ Unwind(c)
  /\ UNCHANGED <<ws, mig, shelf, promises, writes, clock, admin, crashes>>

(* archiveRename of the source: an absent file is skipped.                 *)
Rename(c) ==
  /\ pc[c] = "rename"
  /\ \/ /\ ws' = {}
        /\ mig' = IF ws = {} THEN mig ELSE mig \cup {[at |-> clock + 1, recs |-> ws]}
        /\ clock' = clock + 1
        /\ Goto(c, "rotate") /\ job' = [job EXCEPT ![c].stamp = clock + 1]
        /\ UNCHANGED <<views, lock, brd, faults>>
     \/ Fails("rename") /\ Unwind(c) /\ UNCHANGED <<ws, mig, clock>>
  /\ UNCHANGED <<shelf, promises, writes, admin, crashes>>

Kept_Oldest(stamp) == {a \in mig : a.at # stamp}
Kept(stamp) == {a \in mig : a.at = stamp}

(* The sidecar's rename and pruneOlderMigratedArchives; a failure unwinds  *)
(* alias and target, the source stays renamed, some archives are pruned.   *)
Rotate(c) ==
  LET keep == Kept(job[c].stamp)
  IN /\ pc[c] = "rotate"
     /\ \/ mig' = keep /\ Unlock(job[c].at) /\ Return(c) /\ UNCHANGED <<views, brd, faults>>
        \/ /\ Fails("rotate") /\ Unwind(c)
           /\ \E left \in SUBSET (mig \ keep) : mig' = keep \cup left
     /\ UNCHANGED <<ws, shelf, promises, writes, clock, admin, crashes>>

(* ---------------------------------------------------------------------- *)
(* Detach an alias, release the workspace, archive a project               *)

Detach(c, q) ==
  /\ q \in Live(reg) /\ reg.alias = q
  /\ Admit(c, "detach", q) /\ Goto(c, "drop")

Release(c) ==
  /\ Admit(c, "release", None)
  /\ Goto(c, IF Resolve(reg) = None THEN "release" ELSE "drop")

Archive(c, q) ==
  /\ q \in Live(reg)
  /\ Admit(c, "archive", q) /\ Goto(c, "tombstone")

(* Whether the list read before the record had the workspace among the     *)
(* project's aliases.                                                      *)
Dropped_None(c) == FALSE
Dropped(c) == job[c].had = job[c].at

Tombstone(c) ==
  LET q == job[c].at
  IN /\ pc[c] = "tombstone"
     /\ \/ /\ q \in Live(reg)
           /\ Commit(c, [reg EXCEPT !.archived = @ \cup {q}])
           /\ Goto(c, IF Dropped(c) THEN "drop" ELSE "shelve")
           /\ IF reg.alias = q THEN Disown /\ job' = Disturbed ELSE UNCHANGED <<owed, job>>
        \/ q \notin Live(reg) /\ Refresh(c) /\ Return(c) /\ UNCHANGED owed
     /\ UNCHANGED <<files, acked, snap, astray, cut, counters>>

AfterDrop == [detach |-> "pick", release |-> "release", archive |-> "shelve"]

(* removeAlias: whoever owns the hash by now loses it.                     *)
Drop(c) ==
  /\ pc[c] = "drop"
  /\ Commit(c, Unaliased)
  /\ Disown /\ job' = Disturbed
  /\ Goto(c, AfterDrop[job[c].op])
  /\ UNCHANGED <<files, acked, snap, astray, cut, counters>>

ReleaseBoard(c) ==
  /\ pc[c] = "release"
  /\ ws' = {} /\ shelf' = shelf \cup ws
  /\ Disown /\ Goto(c, "idle") /\ job' = [Disturbed EXCEPT ![c] = NoJob]
  /\ UNCHANGED <<views, lock, brd, mig, acked, snap, astray, cut, counters>>

(* restoreWorkspaceBoard: the newest archive, unless there is a live board *)
(* now or when the file's lock is taken.                                   *)
Newest == {a \in mig : \A b \in mig : b.at <= a.at}

Pick(c) ==
  /\ pc[c] = "pick"
  /\ \/ /\ ws = {}
        /\ \E a \in Newest : job' = [job EXCEPT ![c].stamp = a.at]
        /\ Goto(c, "restore")
     \/ (ws # {} \/ mig = {}) /\ Return(c)
  /\ UNCHANGED <<views, files, promises, counters>>

Restore(c) ==
  /\ pc[c] = "restore"
  /\ IF ws = {}
     THEN /\ ws' = UNION {a.recs : a \in Kept(job[c].stamp)}
          /\ mig' = mig \ Kept(job[c].stamp)
     ELSE UNCHANGED <<ws, mig>>
  /\ Return(c)
  /\ UNCHANGED <<views, lock, brd, shelf, promises, counters>>

Shelve(c) ==
  LET q == job[c].at
  IN /\ pc[c] = "shelve" /\ lock[q] = None
     /\ shelf' = shelf \cup brd[q] /\ brd' = [brd EXCEPT ![q] = {}]
     /\ Return(c)
     /\ UNCHANGED <<views, lock, ws, mig, promises, counters>>

(* Any of these steps may fail, which ends the request where it is.  An    *)
(* archived project whose aliases are not all dropped keeps them.          *)
Short(c) == job[c].op = "archive" /\ pc[c] = "drop"
GiveUp(c) ==
  /\ pc[c] \in {"tombstone", "drop", "release", "pick", "restore", "shelve"}
  /\ Fails("part") /\ Return(c)
  /\ cut' = IF Short(c) THEN cut \cup {job[c].at} ELSE cut
  /\ UNCHANGED <<views, files, acked, owed, snap, astray, writes, clock, admin, crashes>>

(* ---------------------------------------------------------------------- *)
(* A process dies: its requests end unanswered, its memory is gone and its *)
(* lock files go stale (AppendLock), which is when others pass them.       *)
Crash(p) ==
  LET gone == {c \in Calls : Home[c] = p}
  IN /\ crashes < MaxCrashes
     /\ pc' = [c \in Calls |-> IF c \in gone THEN "idle" ELSE pc[c]]
     /\ job' = [c \in Calls |-> IF c \in gone THEN NoJob ELSE job[c]]
     /\ lock' = [q \in Projects |-> IF lock[q] \in gone THEN None ELSE lock[q]]
     /\ proj' = [proj EXCEPT ![p] = Blank]
     /\ fresh' = [fresh EXCEPT ![p] = FALSE] /\ sized' = [sized EXCEPT ![p] = FALSE]
     /\ crashes' = crashes + 1
     /\ cut' = cut \cup {job[c].at : c \in {d \in gone : Short(d)}}
     /\ UNCHANGED <<reg, ws, brd, mig, shelf, acked, owed, snap, astray, writes, clock, admin, faults>>

Writer(c) == (\E q \in Projects \cup {None} : Write(c, q)) \/ FoldRegistry(c) \/ AppendRecord(c)

Migration(c) ==
  \/ \E q \in Projects \cup {None} : Migrate(c, q)
  \/ Create(c) \/ Copy(c) \/ Adopt(c) \/ Meta(c) \/ Rename(c) \/ Rotate(c)

Separation(c) ==
  \/ \E q \in Projects : Detach(c, q) \/ Archive(c, q)
  \/ Release(c)
  \/ Tombstone(c) \/ Drop(c) \/ ReleaseBoard(c) \/ Pick(c) \/ Restore(c) \/ Shelve(c)
  \/ GiveUp(c)

Next ==
  \/ \E c \in Calls : Writer(c) \/ Migration(c) \/ Separation(c)
  \/ \E p \in Procs : Look(p) \/ Crash(p)

Spec == Init /\ [][Next]_vars

(* ---------------------------------------------------------------------- *)
(* Properties                                                              *)

PcType == [Calls -> {"idle", "fold", "append", "create", "copy", "alias", "meta", "rename",
                     "rotate", "tombstone", "drop", "release", "pick", "restore", "shelve"}]

Inside == {"alias", "meta", "rename", "rotate"}

ViewType ==
  /\ reg \in Fold /\ proj \in [Procs -> Fold]
  /\ fresh \in [Procs -> BOOLEAN] /\ sized \in [Procs -> BOOLEAN]
FileType ==
  /\ lock \in [Projects -> Calls \cup {None}]
  /\ ws \in SUBSET Nat /\ brd \in [Projects -> SUBSET Nat] /\ shelf \in SUBSET Nat
  /\ mig \in SUBSET [at : Nat, recs : SUBSET Nat]
CallType == pc \in PcType /\ job \in [Calls -> Job]
PromiseType ==
  /\ acked \in SUBSET Nat /\ owed \in SUBSET Nat /\ snap \in SUBSET Nat
  /\ astray \in SUBSET Nat /\ cut \in SUBSET Projects
  /\ writes \in Nat /\ clock \in Nat /\ admin \in Nat /\ faults \in Nat /\ crashes \in Nat
Locked ==
  \A q \in Projects, c \in Calls : lock[q] = c <=> pc[c] \in Inside /\ job[c].at = q

(* The types; and a project's file is locked by exactly the migration that *)
(* is between its copy and its return: no lock is left behind or shared.   *)
TypeOK == ViewType /\ FileType /\ CallType /\ PromiseType /\ Locked

(* A record whose write was acknowledged is in some file for ever: the     *)
(* live boards, an archive of the workspace, or a shelved board            *)
(* (project-migration.ts:14, board.ts:733 and 1030).                       *)
NothingLost ==
  acked \subseteq ws \cup shelf \cup UNION {brd[q] : q \in Projects} \cup UNION {a.recs : a \in mig}

(* While no admin request runs, a reader of the workspace finds every      *)
(* record acknowledged since the workspace was last rolled back, whichever *)
(* process wrote it and however often it was adopted, in the board that    *)
(* the registry resolves it to; but for a record that was written when its *)
(* process could not fold the registry, or had not finished to             *)
(* (board.ts:1214, "degrades to legacy workspace resolution").             *)
View == IF Resolve(reg) = None THEN ws ELSE brd[Resolve(reg)]
Visible == AtRest => owed \subseteq View

(* At rest no hash is the alias of an archived project, unless its         *)
(* archiving was cut short: such a workspace resolves to nothing and can   *)
(* be adopted by nobody any more.                                          *)
AliasedToLive == AtRest => reg.alias \in Live(reg) \cup cut \cup {None}

(* While the workspace is aliased, detaching it brings back at least what  *)
(* its adoption moved away: the live board if there is one, else the       *)
(* newest archive (project-migration.ts:64, board.ts:920).  A live board   *)
(* with a record that went astray stands in the way.                       *)
Snapshot == IF ws # {} THEN ws ELSE UNION {a.recs : a \in Newest}
Restorable ==
  AtRest /\ Resolve(reg) # None /\ ws \cap astray = {} => snap \subseteq Snapshot

(* No admin request leaves a workspace whose records cannot be read or     *)
(* cannot be brought back.                                                 *)
BoardsReachable == Visible /\ AliasedToLive /\ Restorable
=============================================================================
