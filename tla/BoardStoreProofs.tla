-------------------------- MODULE BoardStoreProofs --------------------------
(***************************************************************************)
(* Proofs about a scope of the board shared by any number of processes,    *)
(* for any finite set of keys and any number of writes, failed appends and *)
(* crashes.                                                                *)
(***************************************************************************)
EXTENDS BoardStore, FiniteSetTheorems, TLAPS

(* ---------------------------------------------------------------------- *)
(* The fold of a log                                                       *)

(* i is the record of k that the fold of log ends with.                    *)
Newest(log, k, i) ==
  /\ i \in Hits(log, k)
  /\ \A j \in Hits(log, k) :
       log[j].ts < log[i].ts \/ (log[j].ts = log[i].ts /\ j <= i)

(* Both hold of every finite log; each append hands them on, which takes   *)
(* the place of an induction over the log.                                 *)
HasNewest(log) == \A k \in Keys : Hits(log, k) = {} \/ \E i \in Hits(log, k) : Newest(log, k, i)
HasTop(log) ==
  log = <<>> \/ \E m \in DOMAIN log : \A i \in DOMAIN log : log[i].ts <= log[m].ts

(* The records of a key are places of the log.                             *)
LEMMA HitsType ==
  ASSUME NEW log \in Seq(Records), NEW k
  PROVE  \A j \in Hits(log, k) :
           /\ j \in DOMAIN log /\ j \in Nat \ {0}
           /\ log[j] \in Records /\ log[j].ts \in Nat /\ log[j].key = k
<1>1. \A j \in DOMAIN log : log[j] \in Records /\ j \in Nat \ {0}
  OBVIOUS
<1>2. \A r \in Records : r.ts \in Nat
  BY DEF Records
<1>. QED
  BY <1>1, <1>2 DEF Hits

(* What the fold chooses is the newest record.                             *)
LEMMA LatestIsNewest ==
  ASSUME NEW log \in Seq(Records), NEW k \in Keys, NEW i \in Hits(log, k), Newest(log, k, i)
  PROVE  Latest(log, k) = i
<1>1. \A j \in Hits(log, k) : Newest(log, k, j) => j = i
  BY HitsType DEF Newest
<1>2. Hits(log, k) # {}
  OBVIOUS
<1>3. Latest(log, k) = CHOOSE j \in Hits(log, k) : Newest(log, k, j)
  BY <1>2, Zenon DEF Latest, Newest
<1>. QED
  BY <1>1, <1>3

(* The choice falls on a record of the key.                                *)
LEMMA LatestType ==
  ASSUME NEW log \in Seq(Records), HasNewest(log), NEW k \in Keys
  PROVE  \/ Hits(log, k) = {} /\ Latest(log, k) = 0
         \/ /\ Latest(log, k) \in Hits(log, k)
            /\ Latest(log, k) # 0
            /\ Newest(log, k, Latest(log, k))
<1>1. CASE Hits(log, k) = {}
  BY <1>1 DEF Latest
<1>2. CASE Hits(log, k) # {}
  <2>1. PICK i \in Hits(log, k) : Newest(log, k, i)
    BY <1>2 DEF HasNewest
  <2>2. Latest(log, k) = i
    BY <2>1, LatestIsNewest
  <2>3. i # 0
    BY DEF Hits
  <2>. QED
    BY <2>1, <2>2, <2>3
<1>. QED
  BY <1>1, <1>2

(* A fold is a view.                                                       *)
LEMMA FoldType ==
  ASSUME NEW log \in Seq(Records), HasNewest(log)
  PROVE  /\ FoldOf(log) \in Mems
         /\ \A k \in Keys :
              /\ \A i \in Hits(log, k) : log[i].ts <= FoldOf(log).versions[k]
              /\ \/ FoldOf(log).versions[k] = 0
                 \/ \E i \in DOMAIN log : FoldOf(log).versions[k] = log[i].ts
<1>1. ASSUME NEW k \in Keys
      PROVE  /\ FoldOf(log).entries[k] \in Stamps
             /\ FoldOf(log).versions[k] \in Nat
             /\ \A i \in Hits(log, k) : log[i].ts <= FoldOf(log).versions[k]
             /\ \/ FoldOf(log).versions[k] = 0
                \/ \E i \in DOMAIN log : FoldOf(log).versions[k] = log[i].ts
  <2>1. CASE Hits(log, k) = {}
    BY <2>1, LatestType DEF FoldOf, Absent, Stamps
  <2>2. CASE Hits(log, k) # {}
    <3> DEFINE i == Latest(log, k)
    <3>1. i \in Hits(log, k) /\ i # 0 /\ Newest(log, k, i)
      BY <2>2, LatestType
    <3>2. i \in DOMAIN log /\ log[i] \in Records
      BY <3>1 DEF Hits
    <3>3. FoldOf(log).entries[k] = EntryOf(log[i]) /\ FoldOf(log).versions[k] = log[i].ts
      BY <3>1 DEF FoldOf
    <3>4. EntryOf(log[i]) \in Stamps
      BY <3>2 DEF EntryOf, Stamp, Absent, Stamps, Records
    <3> HIDE DEF i
    <3>5. \A j \in Hits(log, k) : log[j].ts <= log[i].ts
      BY <3>1, HitsType DEF Newest
    <3>. QED
      BY <3>1, <3>2, <3>3, <3>4, <3>5, HitsType
  <2>. QED
    BY <2>1, <2>2
<1>2. FoldOf(log) \in Mems
  BY <1>1 DEF FoldOf, Mems
<1>. QED
  BY <1>1, <1>2

(* A longer log folds to one application more: appending a record to the   *)
(* file and applying it to the cache keep file and cache together.         *)
THEOREM FoldAppend ==
  ASSUME NEW log \in Seq(Records), NEW r \in Records, HasNewest(log)
  PROVE  /\ HasNewest(Append(log, r))
         /\ FoldOf(Append(log, r)) = Apply(FoldOf(log), r)
<1> DEFINE longer == Append(log, r)
           last == Len(log) + 1
<1>1. /\ longer \in Seq(Records) /\ Len(longer) = last /\ longer[last] = r
      /\ DOMAIN longer = DOMAIN log \cup {last} /\ last \notin DOMAIN log
      /\ \A i \in DOMAIN log : longer[i] = log[i]
      /\ DOMAIN log = 1..Len(log) /\ last \in Nat
  OBVIOUS
<1> HIDE DEF longer, last
<1>2. ASSUME NEW k \in Keys, k # r.key
      PROVE  /\ Hits(longer, k) = Hits(log, k)
             /\ \A i \in Hits(log, k) : Newest(log, k, i) => Newest(longer, k, i)
             /\ Latest(longer, k) = Latest(log, k)
  <2>1. Hits(longer, k) = Hits(log, k)
    BY <1>1, <1>2 DEF Hits
  <2>2. \A i \in Hits(log, k) : Newest(log, k, i) => Newest(longer, k, i)
    BY <1>1, <2>1 DEF Newest, Hits
  <2>3. CASE Hits(log, k) = {}
    BY <2>1, <2>3 DEF Latest
  <2>4. CASE Hits(log, k) # {}
    <3>1. PICK i \in Hits(log, k) : Newest(log, k, i)
      BY <2>4 DEF HasNewest
    <3>2. Latest(log, k) = i
      BY <3>1, LatestIsNewest
    <3>3. Latest(longer, k) = i
      BY <1>1, <2>1, <2>2, <3>1, LatestIsNewest
    <3>. QED
      BY <3>2, <3>3, <2>1, <2>2
  <2>. QED
    BY <2>1, <2>2, <2>3, <2>4
<1>3. r.key \in Keys /\ r.ts \in Nat
  BY DEF Records
<1>4. Hits(longer, r.key) = Hits(log, r.key) \cup {last}
  BY <1>1 DEF Hits
<1>5. CASE Hits(log, r.key) = {} \/ Beats(r, FoldOf(log).versions[r.key])
  <2>1. \A j \in Hits(log, r.key) : log[j].ts <= r.ts /\ j < last /\ log[j].ts \in Nat
    <3>1. /\ FoldOf(log).versions[r.key] \in Nat
          /\ \A j \in Hits(log, r.key) : log[j].ts <= FoldOf(log).versions[r.key]
      BY <1>3, FoldType DEF Mems
    <3>2. \A j \in Hits(log, r.key) : j < last /\ log[j].ts \in Nat
      BY <1>1, HitsType
    <3>. QED
      BY <1>3, <1>5, <3>1, <3>2 DEF Beats
  <2>2. Newest(longer, r.key, last)
    BY <1>1, <1>3, <1>4, <2>1 DEF Newest, Hits
  <2>3. Latest(longer, r.key) = last
    BY <1>1, <1>3, <1>4, <2>2, LatestIsNewest
  <2>4. Beats(r, FoldOf(log).versions[r.key])
    <3>1. CASE Hits(log, r.key) = {}
      BY <1>3, <3>1, LatestType DEF Beats, FoldOf
    <3>. QED
      BY <1>5, <3>1
  <2>5. HasNewest(longer)
    BY <1>2, <1>4, <2>2 DEF HasNewest
  <2>6. FoldOf(longer) = Apply(FoldOf(log), r)
    <3>1. Apply(FoldOf(log), r)
            = [entries  |-> [FoldOf(log).entries EXCEPT ![r.key] = EntryOf(r)],
               versions |-> [FoldOf(log).versions EXCEPT ![r.key] = r.ts]]
      BY <2>4 DEF Apply
    <3>2. FoldOf(longer).entries = [FoldOf(log).entries EXCEPT ![r.key] = EntryOf(r)]
      <4>1. \A k \in Keys : k # r.key => FoldOf(longer).entries[k] = FoldOf(log).entries[k]
        <5> SUFFICES ASSUME NEW k \in Keys, k # r.key
                     PROVE  FoldOf(longer).entries[k] = FoldOf(log).entries[k]
          OBVIOUS
        <5>1. CASE Hits(log, k) = {}
          BY <1>2, <5>1 DEF FoldOf, Latest
        <5>2. CASE Hits(log, k) # {}
          BY <1>1, <1>2, <5>2, LatestType DEF FoldOf, Hits
        <5>. QED
          BY <5>1, <5>2
      <4>2. FoldOf(longer).entries[r.key] = EntryOf(r)
        BY <1>1, <1>3, <2>3 DEF FoldOf
      <4>. QED
        BY <4>1, <4>2 DEF FoldOf
    <3>3. FoldOf(longer).versions = [FoldOf(log).versions EXCEPT ![r.key] = r.ts]
      <4>1. \A k \in Keys : k # r.key => FoldOf(longer).versions[k] = FoldOf(log).versions[k]
        <5> SUFFICES ASSUME NEW k \in Keys, k # r.key
                     PROVE  FoldOf(longer).versions[k] = FoldOf(log).versions[k]
          OBVIOUS
        <5>1. CASE Hits(log, k) = {}
          BY <1>2, <5>1 DEF FoldOf, Latest
        <5>2. CASE Hits(log, k) # {}
          BY <1>1, <1>2, <5>2, LatestType DEF FoldOf, Hits
        <5>. QED
          BY <5>1, <5>2
      <4>2. FoldOf(longer).versions[r.key] = r.ts
        BY <1>1, <1>3, <2>3 DEF FoldOf
      <4>. QED
        BY <4>1, <4>2 DEF FoldOf
    <3>. QED
      BY <3>1, <3>2, <3>3 DEF FoldOf
  <2>. QED
    BY <2>5, <2>6 DEF longer
<1>6. CASE Hits(log, r.key) # {} /\ ~ Beats(r, FoldOf(log).versions[r.key])
  <2> DEFINE i == Latest(log, r.key)
  <2>1. i \in Hits(log, r.key) /\ i # 0 /\ Newest(log, r.key, i)
    BY <1>3, <1>6, LatestType
  <2>2. FoldOf(log).versions[r.key] = log[i].ts
    BY <1>3, <2>1 DEF FoldOf
  <2>3. r.ts < log[i].ts
    BY <1>3, <1>6, <2>1, <2>2, HitsType DEF Beats
  <2> HIDE DEF i
  <2>4. Newest(longer, r.key, i)
    BY <1>1, <1>4, <2>1, <2>3 DEF Newest, Hits
  <2>5. i \in Hits(longer, r.key)
    BY <1>4, <2>1
  <2>6. HasNewest(longer)
    BY <1>2, <1>3, <2>4, <2>5 DEF HasNewest
  <2>7. \A k \in Keys : Latest(longer, k) = Latest(log, k)
    BY <1>1, <1>2, <1>3, <2>4, <2>5, LatestIsNewest DEF i
  <2>8. \A k \in Keys : Latest(log, k) # 0 => longer[Latest(log, k)] = log[Latest(log, k)]
    BY <1>1, LatestType DEF Hits
  <2>9. FoldOf(longer) = FoldOf(log)
    BY <2>7, <2>8 DEF FoldOf
  <2>. QED
    BY <1>6, <2>6, <2>9 DEF Apply, longer
<1>. QED
  BY <1>5, <1>6

(* Appending never takes a version back.                                   *)
LEMMA FoldGrows ==
  ASSUME NEW log \in Seq(Records), NEW r \in Records, HasNewest(log)
  PROVE  /\ \A k \in Keys :
              FoldOf(log).versions[k] <= FoldOf(Append(log, r)).versions[k]
         /\ r.ts <= FoldOf(Append(log, r)).versions[r.key]
<1>1. FoldOf(log) \in Mems /\ r.ts \in Nat /\ r.key \in Keys
  BY FoldType DEF Records
<1>. QED
  BY <1>1, FoldAppend DEF Apply, Beats, Mems

(* ---------------------------------------------------------------------- *)
(* What holds at every step                                                *)

LogShape ==
  HasNewest(file) /\ HasTop(file) /\ \A i \in DOMAIN file : file[i].saw < i

(* The records of an operation under way carry the last timestamp of their *)
(* process, which is newer than all its writer had read.                   *)
Fresh(p, r) ==
  /\ r.by = p /\ r.ts = lastEpoch[p] /\ r.saw <= Len(file)
  /\ \A j \in 1..r.saw : file[j].ts < r.ts

OpShape ==
  \A p \in Procs :
    /\ \A i \in DOMAIN op[p].pending : Fresh(p, op[p].pending[i])
    /\ op[p].kind = "none" => op[p] = NoOp
    /\ op[p].kind \in {"write", "delete"} => Len(op[p].pending) = 1
    /\ op[p].kind = "mutate" /\ op[p].pending = <<>> => mem[p] = op[p].before

(* The generator of a process is past everything the process has folded.   *)
Clocks ==
  \A p \in Procs :
    /\ size[p] <= Len(file)
    /\ loaded[p] => \A i \in 1..size[p] : file[i].ts <= lastEpoch[p]
    /\ ~ loaded[p] => mem[p] = EmptyMem /\ op[p] = NoOp
    /\ \A k \in Keys : /\ mem[p].versions[k] <= lastEpoch[p]
                       /\ op[p].before.versions[k] <= lastEpoch[p]

Base == TypeOK /\ LogShape /\ OpShape /\ Clocks /\ CausalOrder

(* A view m that agrees with the file on k, or that keeps a failed append. *)
Current(p, m, k) ==
  \/ \E r \in failed : r.by = p /\ r.key = k /\ r.ts = m.versions[k]
  \/ /\ m.entries[k] = FoldOf(file).entries[k]
     /\ m.versions[k] = FoldOf(file).versions[k]

(* While the file has the size it was folded with, the view is current but *)
(* for what the operation under way has done to it.                        *)
Skips(p) ==
  Unchanged(p) => \A k \in Keys :
    /\ op[p].kind = "none" => Current(p, mem[p], k)
    /\ op[p].kind \in {"write", "delete"} =>
         IF k = Head(op[p].pending).key
         THEN mem[p].versions[k] = Head(op[p].pending).ts
         ELSE Current(p, mem[p], k)
    /\ op[p].kind = "mutate" => Current(p, op[p].before, k)

(* With nothing but appends of its own in the file since its fold, the view*)
(* of a process is the fold with the operation under way applied to it.    *)
Alone(p) == fails = 0 /\ loaded[p] /\ \A i \in size[p] + 1 .. Len(file) : file[i].by = p
Owns(p) ==
  Alone(p) =>
    /\ op[p].kind = "none" => mem[p] = FoldOf(file)
    /\ op[p].kind \in {"write", "delete"} =>
         mem[p] = Apply(FoldOf(file), Head(op[p].pending))
    /\ op[p].kind = "mutate" =>
         /\ mem[p].versions = FoldOf(file).versions
         /\ \A i \in DOMAIN op[p].pending :
              mem[p].entries[op[p].pending[i].key] = EntryOf(op[p].pending[i])
         /\ \A k \in Keys :
              (\A i \in DOMAIN op[p].pending : op[p].pending[i].key # k)
              => mem[p].entries[k] = FoldOf(file).entries[k]

(* A view is ahead of the file only in the record it is about to append.   *)
Behind(p) ==
  fails = 0 =>
    \A k \in Keys :
      \/ mem[p].versions[k] <= FoldOf(file).versions[k]
      \/ /\ op[p].kind \in {"write", "delete"}
         /\ Head(op[p].pending).key = k
         /\ Head(op[p].pending).ts = mem[p].versions[k]

Local(p) == Skips(p) /\ Owns(p) /\ Behind(p)
IInv == Base /\ \A p \in Procs : Local(p)

(* ---------------------------------------------------------------------- *)
(* What an operation starts from                                           *)

(* The values of a process that knows nothing.                             *)
LEMMA EmptyTypes == EmptyMem \in Mems /\ Absent \in Stamps /\ NoOp.before = EmptyMem
BY DEF EmptyMem, Mems, Stamps, Absent, NoOp

(* A generator that has read the file is past its timestamps.              *)
LEMMA Learning ==
  ASSUME TypeOK, HasTop(file), NEW p \in Procs, Clocks
  PROVE  /\ Learned(p) \in Nat /\ lastEpoch[p] <= Learned(p)
         /\ \A i \in DOMAIN file : file[i].ts <= Learned(p)
<1>1. lastEpoch[p] \in Nat /\ \A i \in DOMAIN file : file[i].ts \in Nat
  <2>1. file \in Seq(Records) /\ lastEpoch \in [Procs -> Nat]
    BY DEF TypeOK
  <2>2. \A r \in Records : r.ts \in Nat
    BY DEF Records
  <2>. QED
    BY <2>1, <2>2
<1>2. CASE Unchanged(p)
  BY <1>1, <1>2 DEF Learned, Unchanged, Clocks, TypeOK
<1>3. CASE ~ Unchanged(p)
  <2> DEFINE seen == {lastEpoch[p]} \cup {file[i].ts : i \in DOMAIN file}
  <2>1. \E t \in seen : \A s \in seen : s <= t
    <3>1. CASE file = <<>>
      BY <1>1, <3>1
    <3>2. CASE file # <<>>
      <4>1. PICK m \in DOMAIN file : \A i \in DOMAIN file : file[i].ts <= file[m].ts
        BY <3>2 DEF HasTop
      <4>. QED
        BY <1>1, <4>1
    <3>. QED
      BY <3>1, <3>2
  <2>2. Learned(p) = CHOOSE t \in seen : \A s \in seen : s <= t
    BY <1>3 DEF Learned
  <2>3. Learned(p) \in seen /\ \A s \in seen : s <= Learned(p)
    BY <2>1, <2>2
  <2>. QED
    BY <1>1, <2>3
<1>. QED
  BY <1>2, <1>3

(* What an operation goes on from, whether it refolds or not.              *)
LEMMA Refreshing ==
  ASSUME Base, NEW p \in Procs
  PROVE  /\ Refreshed(p) \in Mems
         /\ \A k \in Keys : Refreshed(p).versions[k] <= Learned(p)
         /\ Learned(p) \in Nat /\ lastEpoch[p] <= Learned(p)
         /\ \A i \in DOMAIN file : file[i].ts <= Learned(p)
         /\ NextTs(p) \in Nat /\ Learned(p) < NextTs(p)
<1>1. /\ Learned(p) \in Nat /\ lastEpoch[p] <= Learned(p)
      /\ \A i \in DOMAIN file : file[i].ts <= Learned(p)
  BY Learning DEF Base, LogShape
<1>2. NextTs(p) \in Nat /\ Learned(p) < NextTs(p)
  BY <1>1, BoundsAssumption DEF NextTs, Base, TypeOK
<1>3. CASE Unchanged(p)
  <2>1. Refreshed(p) = mem[p] /\ mem[p] \in Mems /\ lastEpoch[p] \in Nat
    BY <1>3 DEF Refreshed, Base, TypeOK
  <2>2. \A k \in Keys : mem[p].versions[k] \in Nat /\ mem[p].versions[k] <= lastEpoch[p]
    BY <2>1 DEF Base, Clocks, Mems
  <2>. QED
    BY <1>1, <1>2, <2>1, <2>2
<1>4. CASE ~ Unchanged(p)
  <2>1. Refreshed(p) = FoldOf(file)
    BY <1>4 DEF Refreshed
  <2>2. file \in Seq(Records) /\ HasNewest(file)
    BY DEF Base, TypeOK, LogShape
  <2>. QED
    BY <1>1, <1>2, <2>1, <2>2, FoldType
<1>. QED
  BY <1>3, <1>4

(* What write, delete and mutate commit: records of one process at one     *)
(* timestamp, and the view their keys lead to.                             *)
Committed(p, kind, records, view) ==
  /\ view \in Mems /\ records \in Seq(Records)
  /\ \A i \in DOMAIN records :
       records[i].by = p /\ records[i].ts = NextTs(p) /\ records[i].saw = Len(file)
  /\ \/ /\ kind \in {"write", "delete"} /\ Len(records) = 1
        /\ view = Apply(Refreshed(p), Head(records))
     \/ /\ kind = "mutate"
        /\ view.versions = Refreshed(p).versions
        /\ \A i \in DOMAIN records : view.entries[records[i].key] = EntryOf(records[i])
        /\ \A k \in Keys : (\A i \in DOMAIN records : records[i].key # k)
                           => view.entries[k] = Refreshed(p).entries[k]

(* A view with one more record is a view.                                  *)
LEMMA ApplyType ==
  ASSUME NEW m \in Mems, NEW r \in Records
  PROVE  /\ Apply(m, r) \in Mems
         /\ \A k \in Keys : k # r.key =>
              /\ Apply(m, r).entries[k] = m.entries[k]
              /\ Apply(m, r).versions[k] = m.versions[k]
         /\ m.versions[r.key] <= Apply(m, r).versions[r.key]
         /\ m.versions[r.key] <= r.ts =>
              Apply(m, r).versions[r.key] = r.ts /\ Apply(m, r).entries[r.key] = EntryOf(r)
<1>1. /\ m.entries \in [Keys -> Stamps] /\ m.versions \in [Keys -> Nat]
      /\ r.key \in Keys /\ r.ts \in Nat /\ EntryOf(r) \in Stamps
  BY DEF Mems, Records, EntryOf, Stamp, Stamps, Absent
<1>2. CASE Beats(r, m.versions[r.key])
  BY <1>1, <1>2 DEF Apply, Mems, Beats
<1>3. CASE ~ Beats(r, m.versions[r.key])
  BY <1>1, <1>3 DEF Apply, Mems, Beats
<1>. QED
  BY <1>2, <1>3

(* The records that operations make.                                       *)
LEMMA RecordType ==
  ASSUME Base, NEW p \in Procs, NEW k \in Keys, NEW isLive \in BOOLEAN, NEW n \in Nat
  PROVE  RecordAt(p, k, isLive, n) \in Records
<1>1. Refreshed(p).entries[k] \in Stamps
  BY Refreshing DEF Mems
<1>2. Len(file) \in Nat
  BY DEF Base, TypeOK
<1>. QED
  BY <1>1, <1>2, Refreshing DEF RecordAt, Records

(* An operation of one record.                                             *)
LEMMA OneRecord ==
  ASSUME Base, NEW p \in Procs, NEW k \in Keys, NEW isLive \in BOOLEAN,
         NEW kind \in {"write", "delete"}
  PROVE  LET r == RecordAt(p, k, isLive, 1)
         IN Committed(p, kind, <<r>>, Apply(Refreshed(p), r))
<1> DEFINE r == RecordAt(p, k, isLive, 1)
<1>1. r \in Records /\ r.by = p /\ r.ts = NextTs(p) /\ r.saw = Len(file)
  BY RecordType DEF RecordAt
<1> HIDE DEF r
<1>2. Apply(Refreshed(p), r) \in Mems
  BY <1>1, Refreshing, ApplyType
<1>3. Committed(p, kind, <<r>>, Apply(Refreshed(p), r))
  BY <1>1, <1>2 DEF Committed
<1>. QED
  BY <1>3 DEF r

(* The orders in which a mutation writes its keys.                         *)
LEMMA OrderType ==
  ASSUME NEW ks \in SUBSET Keys, NEW order \in InSomeOrder(ks)
  PROVE  /\ order \in Seq(ks) /\ Len(order) \in Nat
         /\ DOMAIN order = 1..Len(order)
         /\ \A k \in ks : \E i \in DOMAIN order : order[i] = k
<1>1. Cardinality(ks) \in Nat
  BY KeysAssumption, FS_Subset, FS_CardinalityType
<1>. QED
  BY <1>1 DEF InSomeOrder

(* An operation of several records, which carry one timestamp after the other. *)
LEMMA ManyRecords ==
  ASSUME Base, NEW p \in Procs, NEW puts \in SUBSET Keys, NEW drops \in SUBSET Keys,
         puts \cap drops = {}, NEW order \in InSomeOrder(puts \cup drops)
  PROVE  Committed(p, "mutate",
           [i \in DOMAIN order |-> RecordAt(p, order[i], order[i] \in puts, Len(order))],
           Mutated(p, puts, drops))
<1> DEFINE rec(i) == RecordAt(p, order[i], order[i] \in puts, Len(order))
           records == [i \in DOMAIN order |-> rec(i)]
           view == Mutated(p, puts, drops)
<1>1. /\ order \in Seq(puts \cup drops) /\ Len(order) \in Nat
      /\ DOMAIN order = 1..Len(order)
      /\ \A k \in puts \cup drops : \E i \in DOMAIN order : order[i] = k
  BY OrderType
<1>2. \A i \in DOMAIN order : order[i] \in puts \cup drops /\ order[i] \in Keys
  BY <1>1
<1>3. \A i \in DOMAIN order :
        /\ rec(i) \in Records /\ rec(i).key = order[i]
        /\ rec(i).by = p /\ rec(i).ts = NextTs(p) /\ rec(i).saw = Len(file)
        /\ EntryOf(rec(i)) = IF order[i] \in puts THEN [ts |-> NextTs(p), by |-> p] ELSE Absent
  <2> SUFFICES ASSUME NEW i \in DOMAIN order
               PROVE  /\ rec(i) \in Records /\ rec(i).key = order[i]
                      /\ rec(i).by = p /\ rec(i).ts = NextTs(p) /\ rec(i).saw = Len(file)
                      /\ EntryOf(rec(i)) = IF order[i] \in puts
                                           THEN [ts |-> NextTs(p), by |-> p] ELSE Absent
    OBVIOUS
  <2>1. rec(i) \in Records
    <3>1. order[i] \in Keys /\ (order[i] \in puts) \in BOOLEAN /\ Len(order) \in Nat
      BY <1>1, <1>2
    <3>. QED
      BY <3>1, RecordType, Zenon DEF rec
  <2>. QED
    BY <2>1 DEF RecordAt, EntryOf, Stamp
<1> HIDE DEF rec
<1>4. records \in Seq(Records) /\ DOMAIN records = DOMAIN order
      /\ \A i \in DOMAIN order : records[i] = rec(i)
  BY <1>1, <1>3
<1>5. Refreshed(p) \in Mems /\ NextTs(p) \in Nat
  BY Refreshing
<1>6. /\ view.versions = Refreshed(p).versions
      /\ view.entries = [k \in Keys |-> IF k \in puts THEN [ts |-> NextTs(p), by |-> p]
                                        ELSE IF k \in drops THEN Absent
                                        ELSE Refreshed(p).entries[k]]
      /\ view = [entries |-> view.entries, versions |-> view.versions]
  BY <1>5 DEF Mutated, Mems
<1>7. view \in Mems
  <2>1. \A k \in Keys : view.entries[k] \in Stamps
    BY <1>5, <1>6 DEF Mems, Stamps, Absent
  <2>2. view.entries \in [Keys -> Stamps] /\ view.versions \in [Keys -> Nat]
    BY <1>5, <1>6, <2>1 DEF Mems
  <2>. QED
    BY <1>6, <2>2 DEF Mems
<1>8. \A i \in DOMAIN records : view.entries[records[i].key] = EntryOf(records[i])
  <2> SUFFICES ASSUME NEW i \in DOMAIN order
               PROVE  view.entries[order[i]] = EntryOf(rec(i))
    BY <1>3, <1>4
  <2>1. CASE order[i] \in puts
    BY <1>2, <1>3, <1>6, <2>1
  <2>2. CASE order[i] \notin puts
    BY <1>2, <1>3, <1>6, <2>2
  <2>. QED
    BY <2>1, <2>2
<1>9. ASSUME NEW k \in Keys, \A i \in DOMAIN records : records[i].key # k
      PROVE  view.entries[k] = Refreshed(p).entries[k]
  <2>1. k \notin puts \cup drops
    BY <1>1, <1>3, <1>4, <1>9
  <2>. QED
    BY <1>6, <2>1
<1> HIDE DEF view
<1>10. Committed(p, "mutate", records, view)
  BY <1>3, <1>4, <1>6, <1>7, <1>8, <1>9 DEF Committed
<1>. QED
  BY <1>10 DEF view, rec

(* The three operations that commit, in one form.                          *)
LEMMA CommitForm ==
  ASSUME Base, NEW p \in Procs,
         \/ \E k \in Keys : Write(p, k) \/ Delete(p, k)
         \/ \E puts, drops \in SUBSET Keys : Mutate(p, puts, drops)
  PROVE  \E kind, records, view :
           Commit(p, kind, records, view) /\ Committed(p, kind, records, view)
<1>1. CASE \E k \in Keys : Write(p, k)
  <2>1. PICK k \in Keys : Write(p, k)
    BY <1>1
  <2>. QED
    BY <2>1, OneRecord, Zenon DEF Write
<1>2. CASE \E k \in Keys : Delete(p, k)
  <2>1. PICK k \in Keys : Delete(p, k)
    BY <1>2
  <2>. QED
    BY <2>1, OneRecord, Zenon DEF Delete
<1>3. CASE \E puts, drops \in SUBSET Keys : Mutate(p, puts, drops)
  <2>1. PICK puts \in SUBSET Keys, drops \in SUBSET Keys : Mutate(p, puts, drops)
    BY <1>3
  <2>2. PICK order \in InSomeOrder(puts \cup drops) :
          Commit(p, "mutate",
            [i \in DOMAIN order |-> RecordAt(p, order[i], order[i] \in puts, Len(order))],
            Mutated(p, puts, drops))
    BY <2>1, Zenon DEF Mutate
  <2>3. puts \cap drops = {}
    BY <2>1, Zenon DEF Mutate
  <2>. QED
    BY <2>2, <2>3, ManyRecords, Zenon
<1>. QED
  BY <1>1, <1>2, <1>3

(* ---------------------------------------------------------------------- *)
(* The steps, one lemma each                                               *)

(* The invariant holds at the start.                                       *)
LEMMA InitInvariant == Init => IInv
<1> SUFFICES ASSUME Init PROVE IInv
  OBVIOUS
<1>1. file = <<>> /\ DOMAIN file = {} /\ Len(file) = 0
  BY DEF Init
<1>2. NoOp \in [kind : {"none", "write", "delete", "mutate"},
                pending : Seq(Records), before : Mems]
  BY EmptyTypes DEF NoOp
<1>3. TypeOK
  BY <1>1, <1>2, EmptyTypes, BoundsAssumption DEF Init, TypeOK
<1>4. LogShape /\ CausalOrder
  BY <1>1 DEF LogShape, HasNewest, HasTop, Hits, CausalOrder
<1>5. OpShape
  BY DEF Init, OpShape, NoOp
<1>6. Clocks
  BY <1>1 DEF Init, Clocks, EmptyMem, NoOp
<1>7. \A p \in Procs : Skips(p) /\ Owns(p)
  BY DEF Init, Skips, Owns, Unchanged, Alone
<1>8. \A p \in Procs : Behind(p)
  BY <1>1 DEF Init, Behind, EmptyMem, FoldOf, Latest, Hits
<1>. QED
  BY <1>3, <1>4, <1>5, <1>6, <1>7, <1>8 DEF IInv, Base, Local

(* read, wait and poll: fold and nothing else that the invariant sees.     *)
Refold(p) ==
  /\ Fold(p)
  /\ lastEpoch' = [lastEpoch EXCEPT ![p] = Learned(p)]
  /\ mem' = [mem EXCEPT ![p] = Refreshed(p)]
  /\ UNCHANGED <<file, op, now, failed, bounds>>

WaitersType ==
  waiters \subseteq [proc : Procs, key : Keys, since : Nat \cup {-1}, seen : Stamps]

(* What a process that reads the log ends with.                            *)
LEMMA RefoldForm ==
  ASSUME TypeOK, NEW p \in Procs,
         \/ Read(p) \/ Poll(p)
         \/ \E k \in Keys : WaitForValue(p, k) \/ WaitForUpdate(p, k)
  PROVE  Refold(p) /\ WaitersType'
<1>1. CASE Read(p) \/ Poll(p)
  BY <1>1 DEF Read, Poll, Refold, WaitersType, TypeOK
<1>2. ASSUME NEW k \in Keys, NEW s \in Nat \cup {-1}, NEW known \in Stamps, Wait(p, k, s, known)
      PROVE  Refold(p) /\ WaitersType'
  <2>1. Refold(p)
    BY <1>2 DEF Wait, Refold
  <2>2. waiters' \subseteq waiters \cup {[proc |-> p, key |-> k, since |-> s, seen |-> known]}
    BY <1>2 DEF Wait
  <2>. QED
    BY <2>1, <2>2 DEF WaitersType, TypeOK
<1>3. CASE \E k \in Keys : WaitForValue(p, k)
  <2>1. -1 \in Nat \cup {-1} /\ Absent \in Stamps
    BY EmptyTypes
  <2>. QED
    BY <1>2, <1>3, <2>1, Zenon DEF WaitForValue
<1>4. CASE \E k \in Keys : WaitForUpdate(p, k)
  <2>1. \A k \in Keys : mem[p].entries[k] \in Stamps /\ mem[p].entries[k].ts \in Nat \cup {-1}
    BY DEF TypeOK, Mems, Stamps
  <2>. QED
    BY <1>2, <1>4, <2>1, Zenon DEF WaitForUpdate
<1>. QED
  BY <1>1, <1>3, <1>4

(* A step of another process that appends nothing.                         *)
LEMMA OthersStay ==
  ASSUME NEW q \in Procs, Local(q), file' = file, failed \subseteq failed',
         fails' = 0 => fails = 0,
         mem'[q] = mem[q], loaded'[q] = loaded[q], size'[q] = size[q], op'[q] = op[q]
  PROVE  Local(q)'
<1>1. Skips(q)'
  BY DEF Local, Skips, Unchanged, Current
<1>2. Owns(q)'
  BY DEF Local, Owns, Alone
<1>3. Behind(q)'
  BY DEF Local, Behind
<1>. QED
  BY <1>1, <1>2, <1>3 DEF Local

(* An append of another process: the size check will see it.               *)
LEMMA OthersSeeAppend ==
  ASSUME Base, NEW p \in Procs, NEW q \in Procs, p # q, Local(q),
         NEW r \in Records, r.by = p, file' = Append(file, r), fails' = fails,
         mem'[q] = mem[q], loaded'[q] = loaded[q], size'[q] = size[q], op'[q] = op[q]
  PROVE  Local(q)'
<1>1. /\ file \in Seq(Records) /\ HasNewest(file) /\ size[q] \in Nat /\ size[q] <= Len(file)
  BY DEF Base, TypeOK, LogShape, Clocks
<1>2. Len(file') = Len(file) + 1 /\ file'[Len(file) + 1] = r /\ Len(file) \in Nat
  BY <1>1
<1>3. Skips(q)'
  BY <1>1, <1>2 DEF Skips, Unchanged
<1>4. Owns(q)'
  BY <1>1, <1>2 DEF Owns, Alone
<1>5. Behind(q)'
  <2>1. \A k \in Keys : FoldOf(file).versions[k] <= FoldOf(file').versions[k]
    BY <1>1, FoldGrows
  <2>2. /\ FoldOf(file) \in Mems /\ FoldOf(file') \in Mems /\ mem[q] \in Mems
    BY <1>1, FoldType, FoldAppend, ApplyType DEF Base, TypeOK
  <2>3. \A k \in Keys : /\ FoldOf(file).versions[k] \in Nat /\ FoldOf(file').versions[k] \in Nat
                         /\ mem[q].versions[k] \in Nat
    BY <2>2 DEF Mems
  <2>. QED
    BY <2>1, <2>3 DEF Local, Behind
<1>. QED
  BY <1>3, <1>4, <1>5 DEF Local

(* What an idle process goes on from, whether it refolds or not.           *)
LEMMA IdleView ==
  ASSUME IInv, NEW p \in Procs, op[p] = NoOp
  PROVE  /\ \A k \in Keys : Current(p, Refreshed(p), k)
         /\ fails = 0 => Refreshed(p) = FoldOf(file)
         /\ fails = 0 => \A k \in Keys : mem[p].versions[k] <= FoldOf(file).versions[k]
<1>1. op[p].kind = "none" /\ Local(p) /\ size[p] \in Nat
  BY DEF NoOp, IInv, Base, TypeOK
<1>2. CASE Unchanged(p)
  BY <1>1, <1>2 DEF Refreshed, Local, Skips, Owns, Alone, Unchanged, Behind
<1>3. CASE ~ Unchanged(p)
  BY <1>1, <1>3 DEF Refreshed, Current, Local, Behind
<1>. QED
  BY <1>2, <1>3

(* Reading the log keeps the invariant.                                    *)
LEMMA RefoldKeeps ==
  ASSUME IInv, NEW p \in Procs, Refold(p), WaitersType'
  PROVE  IInv'
<1>1. /\ op[p] = NoOp /\ op' = op /\ file' = file /\ failed' = failed /\ fails' = fails
      /\ now' = now /\ commits' = commits /\ crashes' = crashes
      /\ loaded' = [loaded EXCEPT ![p] = TRUE] /\ size' = [size EXCEPT ![p] = Len(file)]
      /\ lastEpoch' = [lastEpoch EXCEPT ![p] = Learned(p)]
      /\ mem' = [mem EXCEPT ![p] = Refreshed(p)]
  BY DEF Refold, Fold, bounds
<1>2. /\ Refreshed(p) \in Mems /\ Learned(p) \in Nat
      /\ \A k \in Keys : Refreshed(p).versions[k] <= Learned(p)
      /\ \A i \in DOMAIN file : file[i].ts <= Learned(p)
  BY Refreshing DEF IInv
<1>3. TypeOK /\ LogShape /\ OpShape /\ Clocks /\ CausalOrder
  BY DEF IInv, Base
<1>4. TypeOK'
  BY <1>1, <1>2, <1>3 DEF TypeOK, WaitersType
<1>5. LogShape' /\ CausalOrder'
  BY <1>1, <1>3 DEF LogShape, CausalOrder
<1>6. OpShape'
  BY <1>1, <1>3 DEF OpShape, Fresh, NoOp, TypeOK
<1>7. Clocks'
  <2>1. \A k \in Keys : op[p].before.versions[k] = 0
    BY <1>1 DEF NoOp, EmptyMem
  <2>2. /\ lastEpoch'[p] = Learned(p) /\ size'[p] = Len(file) /\ mem'[p] = Refreshed(p)
        /\ loaded'[p] /\ DOMAIN file = 1..Len(file) /\ Len(file) \in Nat
    BY <1>1, <1>3 DEF TypeOK
  <2>3. \A q \in Procs : q # p =>
          /\ lastEpoch'[q] = lastEpoch[q] /\ size'[q] = size[q] /\ mem'[q] = mem[q]
          /\ loaded'[q] = loaded[q]
    BY <1>1, <1>3 DEF TypeOK
  <2>. QED
    BY <1>1, <1>2, <1>3, <2>1, <2>2, <2>3 DEF Clocks
<1>8. ASSUME NEW q \in Procs PROVE Local(q)'
  <2>1. CASE q = p
    <3>1. /\ mem'[p] = Refreshed(p) /\ op'[p] = NoOp /\ NoOp.kind = "none"
          /\ size'[p] = Len(file)
      BY <1>1, <1>3 DEF TypeOK, NoOp
    <3>2. Skips(p)'
      BY <1>1, <3>1, IdleView DEF Skips, Current
    <3>3. Owns(p)'
      BY <1>1, <3>1, IdleView DEF Owns, Alone
    <3>4. Behind(p)'
      BY <1>1, <1>2, <3>1, IdleView DEF Behind, Mems
    <3>. QED
      BY <2>1, <3>2, <3>3, <3>4 DEF Local
  <2>2. CASE q # p
    BY <1>1, <1>3, <2>2, OthersStay DEF IInv, TypeOK
  <2>. QED
    BY <2>1, <2>2
<1>. QED
  BY <1>4, <1>5, <1>6, <1>7, <1>8 DEF IInv, Base

(* An operation that has its records keeps the invariant.                  *)
LEMMA CommitKeeps ==
  ASSUME IInv, NEW p \in Procs, NEW kind, NEW records, NEW view,
         Commit(p, kind, records, view), Committed(p, kind, records, view)
  PROVE  IInv'
<1>1. /\ op[p] = NoOp /\ file' = file /\ failed' = failed /\ fails' = fails
      /\ now' = now /\ commits < MaxCommits /\ commits' = commits + 1 /\ crashes' = crashes
      /\ loaded' = [loaded EXCEPT ![p] = TRUE] /\ size' = [size EXCEPT ![p] = Len(file)]
      /\ lastEpoch' = [lastEpoch EXCEPT ![p] = NextTs(p)]
      /\ mem' = [mem EXCEPT ![p] = view] /\ waiters' \subseteq waiters
      /\ op' = [op EXCEPT ![p] = [kind |-> kind, pending |-> records, before |-> Refreshed(p)]]
  BY DEF Commit, Fold
<1>2. /\ Refreshed(p) \in Mems /\ Learned(p) \in Nat /\ NextTs(p) \in Nat
      /\ Learned(p) < NextTs(p) /\ lastEpoch[p] <= Learned(p)
      /\ \A k \in Keys : Refreshed(p).versions[k] <= Learned(p)
      /\ \A i \in DOMAIN file : file[i].ts <= Learned(p)
  BY Refreshing DEF IInv
<1>3. TypeOK /\ LogShape /\ OpShape /\ Clocks /\ CausalOrder
  BY DEF IInv, Base
<1>4. /\ view \in Mems /\ records \in Seq(Records)
      /\ \A i \in DOMAIN records :
           records[i].by = p /\ records[i].ts = NextTs(p) /\ records[i].saw = Len(file)
      /\ kind \in {"write", "delete", "mutate"}
  BY DEF Committed
<1>5. TypeOK'
  <2>1. [kind |-> kind, pending |-> records, before |-> Refreshed(p)]
          \in [kind : {"none", "write", "delete", "mutate"},
               pending : Seq(Records), before : Mems]
    BY <1>2, <1>4
  <2>2. commits' \in 0..MaxCommits
    BY <1>1, <1>3, BoundsAssumption DEF TypeOK
  <2>. QED
    BY <1>1, <1>2, <1>3, <1>4, <2>1, <2>2 DEF TypeOK
<1>6. LogShape' /\ CausalOrder'
  BY <1>1, <1>3 DEF LogShape, CausalOrder
<1>7. \A k \in Keys : view.versions[k] <= NextTs(p)
  <2> SUFFICES ASSUME NEW k \in Keys PROVE view.versions[k] <= NextTs(p)
    OBVIOUS
  <2>1. Refreshed(p).versions[k] \in Nat /\ Refreshed(p).versions[k] <= NextTs(p)
    BY <1>2 DEF Mems
  <2>2. CASE kind = "mutate"
    BY <2>1, <2>2 DEF Committed
  <2>3. CASE kind # "mutate"
    <3>1. /\ Len(records) = 1 /\ view = Apply(Refreshed(p), Head(records))
          /\ Head(records) = records[1] /\ 1 \in DOMAIN records /\ Head(records) \in Records
      BY <1>4, <2>3 DEF Committed
    <3>2. Head(records).ts = NextTs(p) /\ Head(records).key \in Keys
      BY <1>4, <3>1 DEF Records
    <3>3. Refreshed(p).versions[Head(records).key] <= Head(records).ts
      BY <1>2, <3>2 DEF Mems
    <3>. QED
      BY <1>2, <2>1, <3>1, <3>2, <3>3, ApplyType
  <2>. QED
    BY <2>2, <2>3
<1>8. OpShape'
  <2> SUFFICES ASSUME NEW q \in Procs
               PROVE  /\ \A i \in DOMAIN op'[q].pending : Fresh(q, op[q].pending[i])'
                      /\ op'[q].kind = "none" => op'[q] = NoOp
                      /\ op'[q].kind \in {"write", "delete"} => Len(op'[q].pending) = 1
                      /\ op'[q].kind = "mutate" /\ op'[q].pending = <<>>
                         => mem'[q] = op'[q].before
    BY DEF OpShape
  <2>1. CASE q # p
    BY <1>1, <1>3, <2>1 DEF OpShape, Fresh, TypeOK
  <2>2. CASE q = p
    <3>1. /\ op'[p] = [kind |-> kind, pending |-> records, before |-> Refreshed(p)]
          /\ mem'[p] = view /\ lastEpoch'[p] = NextTs(p)
      BY <1>1, <1>3 DEF TypeOK
    <3>2. \A i \in DOMAIN records : Fresh(p, records[i])'
      <4>1. \A j \in DOMAIN file : file[j].ts < NextTs(p)
        <5>1. \A j \in DOMAIN file : file[j] \in Records
          BY <1>3 DEF TypeOK
        <5>2. \A r \in Records : r.ts \in Nat
          BY DEF Records
        <5>. QED
          BY <1>2, <5>1, <5>2
      <4>2. DOMAIN file = 1..Len(file) /\ Len(file) \in Nat
        BY <1>3 DEF TypeOK
      <4>. QED
        BY <1>1, <1>4, <3>1, <4>1, <4>2 DEF Fresh
    <3>3. kind = "mutate" /\ records = <<>> => view = Refreshed(p)
      <4> SUFFICES ASSUME kind = "mutate", records = <<>> PROVE view = Refreshed(p)
        OBVIOUS
      <4>1. DOMAIN records = {}
        OBVIOUS
      <4>2. /\ view.versions = Refreshed(p).versions
            /\ \A k \in Keys : view.entries[k] = Refreshed(p).entries[k]
        BY <4>1 DEF Committed
      <4>. QED
        BY <1>2, <1>4, <4>2 DEF Mems
    <3>4. kind \in {"write", "delete"} => Len(records) = 1
      BY DEF Committed
    <3>. QED
      BY <1>4, <2>2, <3>1, <3>2, <3>3, <3>4
  <2>. QED
    BY <2>1, <2>2
<1>9. Clocks'
  <2>1. /\ lastEpoch'[p] = NextTs(p) /\ size'[p] = Len(file) /\ mem'[p] = view /\ loaded'[p]
        /\ DOMAIN file = 1..Len(file) /\ Len(file) \in Nat
    BY <1>1, <1>3 DEF TypeOK
  <2>2. \A i \in DOMAIN file : file[i].ts <= NextTs(p)
    <3>1. \A i \in DOMAIN file : file[i] \in Records
      BY <1>3 DEF TypeOK
    <3>2. \A r \in Records : r.ts \in Nat
      BY DEF Records
    <3>. QED
      BY <1>2, <3>1, <3>2
  <2>3. \A q \in Procs : q # p =>
          /\ lastEpoch'[q] = lastEpoch[q] /\ size'[q] = size[q] /\ mem'[q] = mem[q]
          /\ loaded'[q] = loaded[q] /\ op'[q] = op[q]
    BY <1>1, <1>3 DEF TypeOK
  <2>4. op'[p].before = Refreshed(p)
    BY <1>1, <1>3 DEF TypeOK
  <2>5. \A k \in Keys : Refreshed(p).versions[k] <= NextTs(p)
    BY <1>2 DEF Mems
  <2>. QED
    BY <1>1, <1>3, <1>7, <2>1, <2>2, <2>3, <2>4, <2>5 DEF Clocks
<1>10. Local(p)'
  <2>1. /\ op'[p] = [kind |-> kind, pending |-> records, before |-> Refreshed(p)]
        /\ mem'[p] = view /\ size'[p] = Len(file)
    BY <1>1, <1>3 DEF TypeOK
  <2>2. CASE kind = "mutate"
    <3>1. Skips(p)'
      BY <1>1, <2>1, <2>2, IdleView DEF Skips, Current
    <3>2. Owns(p)'
      <4> SUFFICES ASSUME fails = 0
                   PROVE  /\ view.versions = FoldOf(file).versions
                          /\ \A i \in DOMAIN records :
                               view.entries[records[i].key] = EntryOf(records[i])
                          /\ \A k \in Keys :
                               (\A i \in DOMAIN records : records[i].key # k)
                               => view.entries[k] = FoldOf(file).entries[k]
        BY <1>1, <2>1, <2>2 DEF Owns, Alone
      <4>. QED
        BY <1>1, <2>2, IdleView DEF Committed
    <3>3. Behind(p)'
      BY <1>1, <1>2, <2>1, <2>2, IdleView DEF Behind, Mems, Committed
    <3>. QED
      BY <3>1, <3>2, <3>3 DEF Local
  <2>3. CASE kind # "mutate"
    <3> DEFINE r == Head(records)
    <3>1. /\ Len(records) = 1 /\ view = Apply(Refreshed(p), r) /\ r = records[1]
          /\ 1 \in DOMAIN records /\ r \in Records /\ kind \in {"write", "delete"}
      BY <1>4, <2>3 DEF Committed
    <3>2. r.ts = NextTs(p) /\ r.key \in Keys
      BY <1>4, <3>1 DEF Records
    <3> HIDE DEF r
    <3>3. Refreshed(p).versions[r.key] <= r.ts
      BY <1>2, <3>2 DEF Mems
    <3>4. /\ view.versions[r.key] = r.ts
          /\ \A k \in Keys : k # r.key => view.entries[k] = Refreshed(p).entries[k]
                                       /\ view.versions[k] = Refreshed(p).versions[k]
      BY <1>2, <3>1, <3>3, ApplyType
    <3>5. op'[p].kind = kind /\ Head(op'[p].pending) = r
      BY <2>1 DEF r
    <3>6. Skips(p)'
      BY <1>1, <2>1, <3>1, <3>4, <3>5, IdleView DEF Skips, Current
    <3>7. Owns(p)'
      BY <1>1, <2>1, <3>1, <3>5, IdleView DEF Owns, Alone
    <3>8. Behind(p)'
      <4> SUFFICES ASSUME fails = 0, NEW k \in Keys, k # r.key
                   PROVE  view.versions[k] <= FoldOf(file).versions[k]
        BY <1>1, <2>1, <3>1, <3>4, <3>5 DEF Behind
      <4>1. view.versions[k] = FoldOf(file).versions[k] /\ view.versions[k] \in Nat
        BY <1>1, <1>4, <3>4, IdleView DEF Mems
      <4>. QED
        BY <4>1
    <3>. QED
      BY <3>6, <3>7, <3>8 DEF Local
  <2>. QED
    BY <2>2, <2>3
<1>11. \A q \in Procs : q # p => Local(q)'
  BY <1>1, <1>3, OthersStay DEF IInv, TypeOK
<1>. QED
  BY <1>5, <1>6, <1>8, <1>9, <1>10, <1>11 DEF IInv, Base

(* The file grows by a record of an operation under way.                   *)
LEMMA Appending ==
  ASSUME Base, NEW r \in Records, file' = Append(file, r),
         \A j \in 1..r.saw : file[j].ts < r.ts, r.saw <= Len(file)
  PROVE  /\ file' \in Seq(Records) /\ Len(file') = Len(file) + 1 /\ Len(file) \in Nat
         /\ file'[Len(file) + 1] = r /\ \A i \in 1..Len(file) : file'[i] = file[i]
         /\ LogShape' /\ CausalOrder'
<1>1. /\ file \in Seq(Records) /\ HasNewest(file) /\ HasTop(file) /\ CausalOrder
      /\ \A i \in DOMAIN file : file[i].saw < i
  BY DEF Base, TypeOK, LogShape
<1>2. /\ file' \in Seq(Records) /\ Len(file') = Len(file) + 1 /\ Len(file) \in Nat
      /\ file'[Len(file) + 1] = r /\ \A i \in 1..Len(file) : file'[i] = file[i]
      /\ DOMAIN file = 1..Len(file) /\ DOMAIN file' = 1 .. Len(file) + 1
  BY <1>1
<1>3. \A i \in DOMAIN file : file[i] \in Records /\ file[i].ts \in Nat
  <2>1. \A q \in Records : q.ts \in Nat
    BY DEF Records
  <2>. QED
    BY <1>1, <2>1
<1>4. r.ts \in Nat /\ r.saw \in Nat
  BY DEF Records
<1>5. HasTop(file')
  <2>1. CASE file = <<>>
    <3>1. \A i \in DOMAIN file' : i = 1 /\ file'[i].ts <= file'[1].ts
      BY <1>2, <1>4, <2>1
    <3>. QED
      BY <1>2, <2>1, <3>1 DEF HasTop
  <2>2. CASE file # <<>>
    <3>1. PICK m \in DOMAIN file : \A i \in DOMAIN file : file[i].ts <= file[m].ts
      BY <1>1, <2>2 DEF HasTop
    <3>2. CASE r.ts <= file[m].ts
      <4>1. \A i \in DOMAIN file' : file'[i].ts <= file'[m].ts
        BY <1>2, <3>1, <3>2
      <4>2. m \in DOMAIN file'
        BY <1>2
      <4>. QED
        BY <4>1, <4>2 DEF HasTop
    <3>3. CASE file[m].ts < r.ts
      <4>1. \A i \in DOMAIN file' : file'[i].ts <= file'[Len(file) + 1].ts
        BY <1>2, <1>3, <1>4, <3>1, <3>3
      <4>2. Len(file) + 1 \in DOMAIN file'
        BY <1>2
      <4>. QED
        BY <4>1, <4>2 DEF HasTop
    <3>. QED
      BY <1>3, <1>4, <3>2, <3>3
  <2>. QED
    BY <2>1, <2>2
<1>6. HasNewest(file')
  BY <1>1, FoldAppend
<1>7. CausalOrder'
  <2> SUFFICES ASSUME NEW i \in DOMAIN file', NEW j \in 1..file'[i].saw
               PROVE  file'[j].ts < file'[i].ts
    BY DEF CausalOrder
  <2>1. CASE i \in DOMAIN file
    <3>1. file'[i] = file[i] /\ file[j].ts < file[i].ts
      BY <1>1, <1>2, <2>1 DEF CausalOrder
    <3>2. file[i].saw \in Nat
      BY <1>3, <2>1 DEF Records
    <3>3. j \in DOMAIN file
      BY <1>1, <1>2, <2>1, <3>1, <3>2
    <3>. QED
      BY <1>2, <3>1, <3>3
  <2>2. CASE i = Len(file) + 1
    <3>1. j \in 1..r.saw /\ file'[i] = r
      BY <1>2, <2>2
    <3>. QED
      BY <1>2, <1>4, <3>1
  <2>3. i \in DOMAIN file \/ i = Len(file) + 1
    BY <1>2
  <2>. QED
    BY <2>1, <2>2, <2>3
<1>8. \A i \in DOMAIN file' : file'[i].saw < i
  <2> SUFFICES ASSUME NEW i \in DOMAIN file' PROVE file'[i].saw < i
    OBVIOUS
  <2>1. CASE i = Len(file) + 1
    BY <1>2, <1>4, <2>1
  <2>2. CASE i \in DOMAIN file
    BY <1>1, <1>2, <2>2
  <2>. QED
    BY <1>2, <2>1, <2>2
<1>. QED
  BY <1>2, <1>5, <1>6, <1>7, <1>8 DEF LogShape

(* Appending a record keeps the invariant.                                 *)
LEMMA PersistKeeps ==
  ASSUME IInv, NEW p \in Procs, PersistNext(p)
  PROVE  IInv'
<1> DEFINE pending == op[p].pending
           r == Head(pending)
           m == IF op[p].kind = "mutate" THEN Apply(mem[p], r) ELSE mem[p]
           rest == IF Len(pending) = 1 THEN NoOp ELSE [op[p] EXCEPT !.pending = Tail(pending)]
<1>1. /\ pending # <<>> /\ file' = Append(file, r) /\ mem' = [mem EXCEPT ![p] = m]
      /\ op' = [op EXCEPT ![p] = rest] /\ waiters' \subseteq waiters
      /\ loaded' = loaded /\ size' = size /\ lastEpoch' = lastEpoch /\ now' = now
      /\ failed' = failed /\ fails' = fails /\ commits' = commits /\ crashes' = crashes
  <2>1. /\ pending # <<>> /\ file' = Append(file, r) /\ mem' = [mem EXCEPT ![p] = m]
    BY Zenon DEF PersistNext, Pending
  <2>2. op' = [op EXCEPT ![p] = rest]
    BY Zenon DEF PersistNext, Advance
  <2>3. waiters' \subseteq waiters
    BY DEF PersistNext
  <2>. QED
    BY <2>1, <2>2, <2>3 DEF PersistNext, bounds
<1>2. TypeOK /\ LogShape /\ OpShape /\ Clocks /\ CausalOrder /\ Base
  BY DEF IInv, Base
<1>3. /\ op[p] \in [kind : {"none", "write", "delete", "mutate"},
                    pending : Seq(Records), before : Mems]
      /\ pending \in Seq(Records) /\ mem[p] \in Mems /\ lastEpoch[p] \in Nat
  BY <1>2 DEF TypeOK
<1>4. /\ r \in Records /\ r = pending[1] /\ 1 \in DOMAIN pending /\ Tail(pending) \in Seq(Records)
      /\ Len(Tail(pending)) = Len(pending) - 1 /\ Len(pending) \in Nat \ {0}
      /\ \A i \in DOMAIN Tail(pending) :
           i + 1 \in DOMAIN pending /\ Tail(pending)[i] = pending[i + 1]
      /\ \A i \in DOMAIN pending : i # 1 => i - 1 \in DOMAIN Tail(pending)
                                            /\ Tail(pending)[i - 1] = pending[i]
  BY <1>1, <1>3
<1>5. r.key \in Keys /\ r.ts \in Nat /\ Fresh(p, r)
  BY <1>2, <1>4 DEF Records, OpShape
<1>6. /\ op[p].kind \in {"write", "delete"} => Len(pending) = 1
      /\ op[p].kind \in {"write", "delete", "mutate"}
  <2>1. op[p].kind = "none" => pending = <<>>
    BY <1>2 DEF OpShape, NoOp
  <2>. QED
    BY <1>1, <1>2, <1>3, <2>1 DEF OpShape
<1>7. /\ file' \in Seq(Records) /\ Len(file') = Len(file) + 1 /\ Len(file) \in Nat
      /\ file'[Len(file) + 1] = r /\ \A i \in 1..Len(file) : file'[i] = file[i]
      /\ LogShape' /\ CausalOrder'
  BY <1>1, <1>2, <1>4, <1>5, Appending DEF Fresh
<1>8. FoldOf(file) \in Mems /\ HasNewest(file) /\ FoldOf(file') = Apply(FoldOf(file), r)
      /\ FoldOf(file') \in Mems
  BY <1>1, <1>2, <1>4, FoldType, FoldAppend, ApplyType DEF TypeOK, LogShape
<1> HIDE DEF r
<1>9. /\ mem[p].versions[r.key] <= r.ts
      /\ m \in Mems
      /\ \A k \in Keys : m.versions[k] <= lastEpoch[p]
  <2>1. \A k \in Keys : mem[p].versions[k] \in Nat /\ mem[p].versions[k] <= lastEpoch[p]
    BY <1>2, <1>3 DEF Clocks, Mems
  <2>2. r.ts = lastEpoch[p]
    BY <1>5 DEF Fresh
  <2>3. CASE op[p].kind = "mutate"
    <3>1. m = Apply(mem[p], r)
      BY <2>3
    <3> HIDE DEF m
    <3>4. mem[p].versions[r.key] <= r.ts
      BY <1>5, <2>1, <2>2
    <3>2. m \in Mems /\ m.versions[r.key] = r.ts
      BY <1>3, <1>4, <3>1, <3>4, ApplyType
    <3>3. \A k \in Keys : k # r.key => m.versions[k] = mem[p].versions[k]
      BY <1>3, <1>4, <3>1, ApplyType
    <3>. QED
      BY <1>3, <1>5, <2>1, <2>2, <3>2, <3>3
  <2>4. CASE op[p].kind # "mutate"
    BY <1>3, <1>5, <2>1, <2>2, <2>4
  <2>. QED
    BY <2>3, <2>4
<1> HIDE DEF m
<1>10. rest \in [kind : {"none", "write", "delete", "mutate"},
                 pending : Seq(Records), before : Mems]
  <2>1. NoOp \in [kind : {"none", "write", "delete", "mutate"},
                  pending : Seq(Records), before : Mems]
    BY EmptyTypes DEF NoOp
  <2>. QED
    BY <1>3, <1>4, <2>1
<1>11. /\ op'[p] = rest /\ mem'[p] = m
       /\ Len(pending) = 1 => rest = NoOp
       /\ Len(pending) # 1 => /\ rest.kind = op[p].kind /\ rest.kind = "mutate"
                             /\ rest.before = op[p].before /\ rest.pending = Tail(pending)
  BY <1>1, <1>2, <1>3, <1>6 DEF TypeOK
<1> HIDE DEF rest
<1>12. TypeOK'
  BY <1>1, <1>2, <1>7, <1>9, <1>10 DEF TypeOK
<1>13. \A q \in Procs : q # p =>
         /\ lastEpoch'[q] = lastEpoch[q] /\ size'[q] = size[q] /\ mem'[q] = mem[q]
         /\ loaded'[q] = loaded[q] /\ op'[q] = op[q]
  BY <1>1, <1>2 DEF TypeOK
<1>14. OpShape'
  <2>1. ASSUME NEW q \in Procs, NEW s \in Records, Fresh(q, s) PROVE Fresh(q, s)'
    <3>1. s.saw \in Nat /\ s.saw <= Len(file)
      BY <2>1 DEF Records, Fresh
    <3>. QED
      BY <1>1, <1>7, <2>1, <3>1 DEF Fresh
  <2>2. \A q \in Procs : op'[q].pending \in Seq(Records)
    BY <1>12 DEF TypeOK
  <2>3. \A q \in Procs : \A i \in DOMAIN op'[q].pending : op'[q].pending[i] \in Records
    BY <2>2
  <2>4. ASSUME NEW q \in Procs, q # p
        PROVE  /\ \A i \in DOMAIN op'[q].pending : Fresh(q, op[q].pending[i])'
               /\ op'[q].kind = "none" => op'[q] = NoOp
               /\ op'[q].kind \in {"write", "delete"} => Len(op'[q].pending) = 1
               /\ op'[q].kind = "mutate" /\ op'[q].pending = <<>>
                  => mem'[q] = op'[q].before
    <3>1. /\ op'[q] = op[q] /\ mem'[q] = mem[q]
      BY <1>13, <2>4
    <3>2. \A i \in DOMAIN op[q].pending : Fresh(q, op[q].pending[i])
      BY <1>2 DEF OpShape
    <3>. QED
      BY <1>2, <2>1, <2>3, <3>1, <3>2 DEF OpShape
  <2>5. /\ \A i \in DOMAIN op'[p].pending : Fresh(p, op[p].pending[i])'
        /\ op'[p].kind = "none" => op'[p] = NoOp
        /\ op'[p].kind \in {"write", "delete"} => Len(op'[p].pending) = 1
        /\ op'[p].kind = "mutate" /\ op'[p].pending = <<>> => mem'[p] = op'[p].before
    <3>1. CASE Len(pending) = 1
      BY <1>11, <3>1 DEF NoOp
    <3>2. CASE Len(pending) # 1
      <4>1. /\ op'[p].pending = Tail(pending) /\ op'[p].kind = "mutate"
            /\ Tail(pending) # <<>>
        <5>1. Len(Tail(pending)) # 0 /\ Len(<<>>) = 0
          BY <1>4, <3>2
        <5>. QED
          BY <1>11, <3>2, <5>1
      <4>2. \A i \in DOMAIN pending : Fresh(p, pending[i])
        BY <1>2 DEF OpShape
      <4>3. \A i \in DOMAIN op'[p].pending : Fresh(p, op'[p].pending[i])
        BY <1>4, <4>1, <4>2
      <4>. QED
        BY <2>1, <2>3, <4>1, <4>3
    <3>. QED
      BY <3>1, <3>2
  <2>. QED
    BY <2>4, <2>5 DEF OpShape
<1>15. Clocks'
  <2> SUFFICES ASSUME NEW q \in Procs
               PROVE  /\ size'[q] <= Len(file')
                      /\ loaded'[q] => \A i \in 1..size'[q] : file'[i].ts <= lastEpoch'[q]
                      /\ ~ loaded'[q] => mem'[q] = EmptyMem /\ op'[q] = NoOp
                      /\ \A k \in Keys : /\ mem'[q].versions[k] <= lastEpoch'[q]
                                         /\ op'[q].before.versions[k] <= lastEpoch'[q]
    BY DEF Clocks
  <2>1. /\ size[q] \in Nat /\ size[q] <= Len(file)
        /\ loaded[q] => \A i \in 1..size[q] : file[i].ts <= lastEpoch[q]
        /\ ~ loaded[q] => mem[q] = EmptyMem /\ op[q] = NoOp
        /\ \A k \in Keys : /\ mem[q].versions[k] <= lastEpoch[q]
                           /\ op[q].before.versions[k] <= lastEpoch[q]
    BY <1>2 DEF Clocks, TypeOK
  <2>2. \A i \in 1..size[q] : file'[i] = file[i]
    BY <1>7, <2>1
  <2>3. /\ size'[q] <= Len(file')
        /\ loaded'[q] => \A i \in 1..size'[q] : file'[i].ts <= lastEpoch'[q]
    BY <1>1, <1>7, <2>1, <2>2
  <2>4. CASE q = p
    <3>1. loaded[p]
      BY <1>1, <2>1, <2>4 DEF NoOp
    <3>2. op'[p].before = op[p].before \/ op'[p].before = EmptyMem
      BY <1>11 DEF NoOp
    <3>3. \A k \in Keys : EmptyMem.versions[k] = 0
      BY DEF EmptyMem
    <3>4. \A k \in Keys : op'[p].before.versions[k] <= lastEpoch[p]
      BY <1>3, <2>1, <2>4, <3>2, <3>3
    <3>. QED
      BY <1>1, <1>9, <1>11, <2>3, <2>4, <3>1, <3>4
  <2>5. CASE q # p
    BY <1>1, <1>13, <2>1, <2>3, <2>5
  <2>. QED
    BY <2>4, <2>5
<1>16. Local(p)'
  <2>1. Skips(p)'
    <3>1. size'[p] # Len(file')
      BY <1>1, <1>2, <1>7 DEF Clocks, TypeOK
    <3>. QED
      BY <3>1 DEF Skips, Unchanged
  <2>2. ASSUME Alone(p)' PROVE Alone(p)
    <3>1. size[p] \in Nat /\ \A i \in size[p] + 1 .. Len(file') : file'[i].by = p
      BY <1>1, <1>2, <2>2 DEF Alone, TypeOK
    <3>2. \A i \in size[p] + 1 .. Len(file) : file[i].by = p
      BY <1>7, <3>1
    <3>. QED
      BY <1>1, <2>2, <3>2 DEF Alone
  <2>3. CASE op[p].kind \in {"write", "delete"}
    <3>1. op'[p] = NoOp /\ NoOp.kind = "none" /\ m = mem[p]
      BY <1>6, <1>11, <2>3 DEF m, NoOp
    <3>2. Owns(p)'
      <4> SUFFICES ASSUME Alone(p)' PROVE m = FoldOf(file')
        BY <1>11, <3>1 DEF Owns
      <4>. QED
        BY <1>8, <2>2, <2>3, <3>1 DEF IInv, Local, Owns, r
    <3>3. Behind(p)'
      <4> SUFFICES ASSUME fails = 0, NEW k \in Keys
                   PROVE  mem[p].versions[k] <= FoldOf(file').versions[k]
        BY <1>1, <1>11, <3>1 DEF Behind
      <4>1. \/ mem[p].versions[k] <= FoldOf(file).versions[k]
            \/ r.key = k /\ r.ts = mem[p].versions[k]
        BY DEF IInv, Local, Behind, r
      <4>2. /\ FoldOf(file).versions[k] <= FoldOf(file').versions[k]
            /\ r.ts <= FoldOf(file').versions[r.key]
        BY <1>1, <1>2, <1>4, <1>8, FoldGrows DEF TypeOK
      <4>3. /\ FoldOf(file).versions[k] \in Nat /\ FoldOf(file').versions[k] \in Nat
            /\ mem[p].versions[k] \in Nat
        BY <1>3, <1>8 DEF Mems
      <4>. QED
        BY <4>1, <4>2, <4>3
    <3>. QED
      BY <2>1, <3>2, <3>3 DEF Local
  <2>4. CASE op[p].kind = "mutate"
    <3>1. m = Apply(mem[p], r) /\ m.versions[r.key] = r.ts /\ m.entries[r.key] = EntryOf(r)
          /\ \A k \in Keys : k # r.key => m.versions[k] = mem[p].versions[k]
                                       /\ m.entries[k] = mem[p].entries[k]
      BY <1>3, <1>4, <1>9, <2>4, ApplyType DEF m
    <3>2. Owns(p)'
      <4> SUFFICES ASSUME Alone(p)' PROVE Owns(p)'
        BY DEF Owns
      <4>1. /\ mem[p].versions = FoldOf(file).versions
            /\ \A i \in DOMAIN pending : mem[p].entries[pending[i].key] = EntryOf(pending[i])
            /\ \A k \in Keys : (\A i \in DOMAIN pending : pending[i].key # k)
                               => mem[p].entries[k] = FoldOf(file).entries[k]
        BY <2>2, <2>4 DEF IInv, Local, Owns
      <4>2. /\ FoldOf(file').versions[r.key] = r.ts
            /\ FoldOf(file').entries[r.key] = EntryOf(r)
            /\ \A k \in Keys : k # r.key =>
                 /\ FoldOf(file').versions[k] = FoldOf(file).versions[k]
                 /\ FoldOf(file').entries[k] = FoldOf(file).entries[k]
        <5>1. FoldOf(file).versions[r.key] <= r.ts
          BY <1>9, <4>1
        <5> DEFINE f == FoldOf(file)
        <5>2. f \in Mems /\ FoldOf(file') = Apply(f, r) /\ f.versions[r.key] <= r.ts
          BY <1>8, <5>1
        <5> HIDE DEF f
        <5>3. /\ FoldOf(file').versions[r.key] = r.ts /\ FoldOf(file').entries[r.key] = EntryOf(r)
              /\ \A k \in Keys : k # r.key => FoldOf(file').versions[k] = f.versions[k]
                                           /\ FoldOf(file').entries[k] = f.entries[k]
          BY <1>4, <5>2, ApplyType
        <5>. QED
          BY <5>3 DEF f
      <4>3. m.versions = FoldOf(file').versions
        <5>1. \A k \in Keys : m.versions[k] = FoldOf(file').versions[k]
          BY <3>1, <4>1, <4>2
        <5>. QED
          BY <1>8, <1>9, <5>1 DEF Mems
      <4>4. ASSUME NEW i \in DOMAIN Tail(pending)
            PROVE  m.entries[Tail(pending)[i].key] = EntryOf(Tail(pending)[i])
        <5>1. /\ i + 1 \in DOMAIN pending /\ Tail(pending)[i] = pending[i + 1]
              /\ pending[i + 1].key \in Keys
          <6>1. /\ i + 1 \in DOMAIN pending /\ Tail(pending)[i] = pending[i + 1]
                /\ pending[i + 1] \in Records
            BY <1>3, <1>4
          <6>2. \A s \in Records : s.key \in Keys
            BY DEF Records
          <6>. QED
            BY <6>1, <6>2
        <5>2. mem[p].entries[pending[i + 1].key] = EntryOf(pending[i + 1])
              /\ mem[p].entries[r.key] = EntryOf(r)
          BY <1>4, <4>1, <5>1
        <5>. QED
          BY <3>1, <5>1, <5>2
      <4>5. ASSUME NEW k \in Keys, \A i \in DOMAIN Tail(pending) : Tail(pending)[i].key # k
            PROVE  m.entries[k] = FoldOf(file').entries[k]
        <5>1. CASE k = r.key
          BY <3>1, <4>2, <5>1
        <5>2. CASE k # r.key
          <6>1. \A i \in DOMAIN pending : pending[i].key # k
            BY <1>4, <4>5, <5>2
          <6>. QED
            BY <3>1, <4>1, <4>2, <5>2, <6>1
        <5>. QED
          BY <5>1, <5>2
      <4>6. CASE Len(pending) = 1
        <5>1. DOMAIN Tail(pending) = {}
          BY <1>4, <4>6
        <5>2. \A k \in Keys : m.entries[k] = FoldOf(file').entries[k]
          BY <4>5, <5>1
        <5>3. m = FoldOf(file')
          BY <1>8, <1>9, <4>3, <5>2 DEF Mems
        <5>. QED
          BY <1>11, <4>6, <5>3 DEF Owns, NoOp
      <4>7. CASE Len(pending) # 1
        BY <1>11, <4>3, <4>4, <4>5, <4>7 DEF Owns
      <4>. QED
        BY <4>6, <4>7
    <3>3. Behind(p)'
      <4> SUFFICES ASSUME fails = 0, NEW k \in Keys
                   PROVE  m.versions[k] <= FoldOf(file').versions[k]
        BY <1>1, <1>11 DEF Behind
      <4>1. /\ FoldOf(file).versions[k] \in Nat /\ FoldOf(file').versions[k] \in Nat
            /\ mem[p].versions[k] \in Nat
        BY <1>3, <1>8 DEF Mems
      <4>2. /\ FoldOf(file).versions[k] <= FoldOf(file').versions[k]
            /\ r.ts <= FoldOf(file').versions[r.key]
        BY <1>1, <1>2, <1>4, <1>8, FoldGrows DEF TypeOK
      <4>3. mem[p].versions[k] <= FoldOf(file).versions[k]
        BY <2>4 DEF IInv, Local, Behind
      <4>. QED
        BY <3>1, <4>1, <4>2, <4>3
    <3>. QED
      BY <2>1, <3>2, <3>3 DEF Local
  <2>. QED
    BY <1>6, <2>3, <2>4
<1>17. \A q \in Procs : q # p => Local(q)'
  <2>1. r.by = p
    BY <1>5 DEF Fresh
  <2>. QED
    BY <1>1, <1>2, <1>4, <1>13, <2>1, OthersSeeAppend DEF IInv
<1>. QED
  BY <1>7, <1>12, <1>14, <1>15, <1>16, <1>17 DEF IInv, Base

(* An append that fails keeps the invariant.                               *)
LEMMA FailKeeps ==
  ASSUME IInv, NEW p \in Procs, Fail(p)
  PROVE  IInv'
<1> DEFINE m == IF op[p].kind = "mutate" THEN op[p].before ELSE mem[p]
           r == Head(op[p].pending)
<1>1. /\ op[p].pending # <<>> /\ fails < MaxFails /\ fails' = fails + 1
      /\ op' = [op EXCEPT ![p] = NoOp] /\ failed \subseteq failed'
      /\ op[p].kind # "mutate" => failed' = failed \cup {r}
      /\ op[p].kind = "mutate" => failed' = failed
      /\ file' = file /\ loaded' = loaded /\ size' = size /\ lastEpoch' = lastEpoch
      /\ waiters' = waiters /\ now' = now /\ commits' = commits /\ crashes' = crashes
  BY DEF Fail, Pending
<1>2. TypeOK /\ LogShape /\ OpShape /\ Clocks /\ CausalOrder
  BY DEF IInv, Base
<1>3. mem' = [mem EXCEPT ![p] = m]
  BY <1>2 DEF Fail, TypeOK
<1>4. /\ op[p].kind \in {"none", "write", "delete", "mutate"}
      /\ op[p].pending \in Seq(Records) /\ op[p].before \in Mems /\ mem[p] \in Mems
  BY <1>2 DEF TypeOK
<1>5. /\ r \in Records /\ Fresh(p, r) /\ op[p].kind # "none"
  <2>1. r = op[p].pending[1] /\ 1 \in DOMAIN op[p].pending /\ r \in Records
    BY <1>1, <1>4
  <2>. QED
    BY <1>1, <1>2, <2>1 DEF OpShape, NoOp<1>6. TypeOK'
  <2>1. NoOp \in [kind : {"none", "write", "delete", "mutate"},
                  pending : Seq(Records), before : Mems]
    BY EmptyTypes DEF NoOp
  <2>2. failed' \subseteq Records
    BY <1>1, <1>2, <1>5 DEF TypeOK
  <2>3. fails' \in 0..MaxFails
    BY <1>1, <1>2, BoundsAssumption DEF TypeOK
  <2>. QED
    BY <1>1, <1>2, <1>3, <1>4, <2>1, <2>2, <2>3 DEF TypeOK
<1>7. LogShape' /\ CausalOrder'
  BY <1>1, <1>2 DEF LogShape, CausalOrder
<1>8. op'[p] = NoOp /\ mem'[p] = m /\ NoOp.kind = "none" /\ NoOp.pending = <<>>
  BY <1>1, <1>2, <1>3 DEF TypeOK, NoOp
<1>9. \A q \in Procs : q # p => op'[q] = op[q] /\ mem'[q] = mem[q]
  BY <1>1, <1>2, <1>3 DEF TypeOK
<1>10. OpShape'
  BY <1>1, <1>2, <1>8, <1>9 DEF OpShape, Fresh
<1>11. Clocks'
  <2>1. loaded[p]
    BY <1>1, <1>2 DEF Clocks, NoOp
  <2>2. \A k \in Keys : m.versions[k] <= lastEpoch[p] /\ op'[p].before.versions[k] <= lastEpoch[p]
    BY <1>2, <1>8 DEF Clocks, TypeOK, NoOp, EmptyMem
  <2>. QED
    BY <1>1, <1>2, <1>8, <1>9, <2>1, <2>2 DEF Clocks
<1>12. Local(p)'
  <2>1. Owns(p)' /\ Behind(p)'
    BY <1>1, <1>2 DEF Owns, Alone, Behind, TypeOK
  <2>2. Skips(p)'
    <3> SUFFICES ASSUME Unchanged(p), NEW k \in Keys PROVE Current(p, mem[p], k)'
      BY <1>1, <1>8 DEF Skips, Unchanged
    <3>1. CASE op[p].kind = "mutate"
      BY <1>1, <1>8, <3>1 DEF IInv, Local, Skips, Current
    <3>2. CASE op[p].kind # "mutate" /\ k = r.key
      <4>1. mem[p].versions[k] = r.ts
        BY <1>4, <1>5, <3>2 DEF IInv, Local, Skips
      <4>. QED
        BY <1>1, <1>5, <1>8, <3>2, <4>1 DEF Current, Fresh
    <3>3. CASE op[p].kind # "mutate" /\ k # r.key
      <4>1. Current(p, mem[p], k)
        BY <1>4, <1>5, <3>3 DEF IInv, Local, Skips
      <4>. QED
        BY <1>1, <1>8, <3>3, <4>1 DEF Current
    <3>. QED
      BY <3>1, <3>2, <3>3
  <2>. QED
    BY <2>1, <2>2 DEF Local
<1>13. \A q \in Procs : q # p => Local(q)'
  <2>1. fails' # 0
    BY <1>1, <1>2 DEF TypeOK
  <2>. QED
    BY <1>1, <1>9, <2>1, OthersStay DEF IInv
<1>. QED
  BY <1>6, <1>7, <1>10, <1>11, <1>12, <1>13 DEF IInv, Base

(* A mutation that changes nothing keeps the invariant.                    *)
LEMMA NothingKeeps ==
  ASSUME IInv, NEW p \in Procs, NothingToDo(p)
  PROVE  IInv'
<1>1. /\ op[p].kind = "mutate" /\ op[p].pending = <<>> /\ op' = [op EXCEPT ![p] = NoOp]
      /\ mem' = mem /\ failed' = failed /\ fails' = fails
      /\ file' = file /\ loaded' = loaded /\ size' = size /\ lastEpoch' = lastEpoch
      /\ waiters' = waiters /\ now' = now /\ commits' = commits /\ crashes' = crashes
  BY DEF NothingToDo, Pending, bounds
<1>2. TypeOK /\ LogShape /\ OpShape /\ Clocks /\ CausalOrder
  BY DEF IInv, Base
<1>3. NoOp \in [kind : {"none", "write", "delete", "mutate"},
                pending : Seq(Records), before : Mems]
  BY EmptyTypes DEF NoOp
<1>4. TypeOK' /\ LogShape' /\ CausalOrder'
  BY <1>1, <1>2, <1>3 DEF TypeOK, LogShape, CausalOrder
<1>5. op'[p] = NoOp /\ NoOp.kind = "none" /\ NoOp.pending = <<>>
      /\ \A q \in Procs : q # p => op'[q] = op[q]
  BY <1>1, <1>2 DEF TypeOK, NoOp
<1>6. OpShape'
  BY <1>1, <1>2, <1>5 DEF OpShape, Fresh
<1>7. Clocks'
  <2>1. loaded[p]
    BY <1>1, <1>2 DEF Clocks, NoOp
  <2>2. \A k \in Keys : op'[p].before.versions[k] <= lastEpoch[p]
    BY <1>2, <1>5 DEF TypeOK, NoOp, EmptyMem
  <2>. QED
    BY <1>1, <1>2, <1>5, <2>1, <2>2 DEF Clocks
<1>8. Local(p)'
  <2>1. mem[p] = op[p].before /\ mem[p] \in Mems
    BY <1>1, <1>2 DEF OpShape, TypeOK
  <2>2. Skips(p)'
    BY <1>1, <1>5, <2>1 DEF IInv, Local, Skips, Current, Unchanged
  <2>3. Owns(p)'
    <3> SUFFICES ASSUME Alone(p) PROVE mem[p] = FoldOf(file)
      BY <1>1, <1>5 DEF Owns, Alone
    <3>1. FoldOf(file) \in Mems
      BY <1>2, FoldType DEF TypeOK, LogShape
    <3>2. mem[p].versions = FoldOf(file).versions
          /\ \A k \in Keys : mem[p].entries[k] = FoldOf(file).entries[k]
      BY <1>1 DEF IInv, Local, Owns
    <3>. QED
      BY <2>1, <3>1, <3>2 DEF Mems
  <2>4. Behind(p)'
    BY <1>1 DEF IInv, Local, Behind
  <2>. QED
    BY <2>2, <2>3, <2>4 DEF Local
<1>9. \A q \in Procs : q # p => Local(q)'
  BY <1>1, <1>5, OthersStay DEF IInv
<1>. QED
  BY <1>4, <1>6, <1>7, <1>8, <1>9 DEF IInv, Base

(* A crash keeps the invariant.                                            *)
LEMMA CrashKeeps ==
  ASSUME IInv, NEW p \in Procs, Crash(p)
  PROVE  IInv'
<1>1. /\ op' = [op EXCEPT ![p] = NoOp] /\ mem' = [mem EXCEPT ![p] = EmptyMem]
      /\ loaded' = [loaded EXCEPT ![p] = FALSE] /\ size' = [size EXCEPT ![p] = 0]
      /\ lastEpoch' = [lastEpoch EXCEPT ![p] = 0] /\ waiters' \subseteq waiters
      /\ file' = file /\ now' = now /\ failed' = failed /\ fails' = fails
      /\ commits' = commits /\ crashes < MaxCrashes /\ crashes' = crashes + 1
  BY DEF Crash
<1>2. TypeOK /\ LogShape /\ OpShape /\ Clocks /\ CausalOrder
  BY DEF IInv, Base
<1>3. NoOp \in [kind : {"none", "write", "delete", "mutate"},
                pending : Seq(Records), before : Mems]
  BY EmptyTypes DEF NoOp
<1>4. TypeOK'
  <2>1. crashes' \in 0..MaxCrashes
    BY <1>1, <1>2, BoundsAssumption DEF TypeOK
  <2>. QED
    BY <1>1, <1>2, <1>3, <2>1, EmptyTypes DEF TypeOK
<1>5. LogShape' /\ CausalOrder'
  BY <1>1, <1>2 DEF LogShape, CausalOrder
<1>6. /\ op'[p] = NoOp /\ mem'[p] = EmptyMem /\ ~ loaded'[p] /\ size'[p] = 0 /\ lastEpoch'[p] = 0
      /\ NoOp.kind = "none" /\ NoOp.pending = <<>> /\ NoOp.before = EmptyMem
      /\ \A k \in Keys : EmptyMem.versions[k] = 0
  BY <1>1, <1>2 DEF TypeOK, NoOp, EmptyMem
<1>7. \A q \in Procs : q # p => /\ op'[q] = op[q] /\ mem'[q] = mem[q] /\ loaded'[q] = loaded[q]
                               /\ size'[q] = size[q] /\ lastEpoch'[q] = lastEpoch[q]
  BY <1>1, <1>2 DEF TypeOK
<1>8. OpShape'
  BY <1>1, <1>2, <1>6, <1>7 DEF OpShape, Fresh
<1>9. Clocks'
  <2>1. Len(file) \in Nat
    BY <1>2 DEF TypeOK
  <2>. QED
    BY <1>1, <1>2, <1>6, <1>7, <2>1 DEF Clocks
<1>10. Local(p)'
  <2>1. FoldOf(file) \in Mems
    BY <1>2, FoldType DEF TypeOK, LogShape
  <2>2. \A k \in Keys : EmptyMem.versions[k] <= FoldOf(file).versions[k]
    BY <1>6, <2>1 DEF Mems
  <2>. QED
    BY <1>1, <1>6, <2>2 DEF Local, Skips, Owns, Behind, Unchanged, Alone
<1>11. \A q \in Procs : q # p => Local(q)'
  BY <1>1, <1>7, OthersStay DEF IInv
<1>. QED
  BY <1>4, <1>5, <1>8, <1>9, <1>10, <1>11 DEF IInv, Base

(* A waiter gives up, the clock moves on, or nothing happens.              *)
LEMMA IdleKeeps ==
  ASSUME IInv, (\E w \in waiters : TimeOut(w)) \/ Tick \/ UNCHANGED vars
  PROVE  IInv'
<1>1. /\ op' = op /\ mem' = mem /\ failed' = failed /\ fails' = fails
      /\ file' = file /\ loaded' = loaded /\ size' = size /\ lastEpoch' = lastEpoch
      /\ commits' = commits /\ crashes' = crashes /\ waiters' \subseteq waiters
      /\ now' = now \/ (now < MaxNow /\ now' = now + 1)
  BY DEF TimeOut, Tick, vars, bounds
<1>2. TypeOK /\ LogShape /\ OpShape /\ Clocks /\ CausalOrder
  BY DEF IInv, Base
<1>3. TypeOK' /\ LogShape' /\ CausalOrder'
  <2>1. now' \in 1..MaxNow
    BY <1>1, <1>2, BoundsAssumption DEF TypeOK
  <2>. QED
    BY <1>1, <1>2, <2>1 DEF TypeOK, LogShape, CausalOrder
<1>4. OpShape' /\ Clocks'
  BY <1>1, <1>2 DEF OpShape, Fresh, Clocks
<1>5. \A q \in Procs : Local(q)'
  BY <1>1, OthersStay DEF IInv
<1>. QED
  BY <1>3, <1>4, <1>5 DEF IInv, Base

(* The invariant holds in every behaviour.                                 *)
LEMMA Invariance == Spec => []IInv
<1>1. IInv /\ [Next]_vars => IInv'
  <2> SUFFICES ASSUME IInv, [Next]_vars PROVE IInv'
    OBVIOUS
  <2>1. ASSUME NEW p \in Procs,
               \/ \E k \in Keys : Write(p, k) \/ Delete(p, k)
               \/ \E puts, drops \in SUBSET Keys : Mutate(p, puts, drops)
        PROVE  IInv'
    <3>1. PICK kind, records, view :
            Commit(p, kind, records, view) /\ Committed(p, kind, records, view)
      BY <2>1, CommitForm DEF IInv
    <3>. QED
      BY <3>1, CommitKeeps
  <2>2. ASSUME NEW p \in Procs,
               \/ Read(p) \/ Poll(p)
               \/ \E k \in Keys : WaitForValue(p, k) \/ WaitForUpdate(p, k)
        PROVE  IInv'
    BY <2>2, RefoldForm, RefoldKeeps DEF IInv, Base
  <2>3. ASSUME NEW p \in Procs, PersistNext(p) \/ NothingToDo(p) \/ Fail(p) \/ Crash(p)
        PROVE  IInv'
    BY <2>3, PersistKeeps, NothingKeeps, FailKeeps, CrashKeeps
  <2>4. CASE (\E w \in waiters : TimeOut(w)) \/ Tick \/ UNCHANGED vars
    BY <2>4, IdleKeeps
  <2>. QED
    BY <2>1, <2>2, <2>3, <2>4 DEF Next
<1>. QED
  BY <1>1, InitInvariant, PTL DEF Spec

(* ---------------------------------------------------------------------- *)
(* Theorems                                                                *)

(* The variables keep their types.                                         *)
THEOREM BoardTypes == Spec => []TypeOK
<1>1. IInv => TypeOK
  BY DEF IInv, Base
<1>. QED
  BY <1>1, Invariance, PTL

(* Every read is as new as the order of the writes demands: records carry  *)
(* timestamps past all their writer had read, skipping the refold of an    *)
(* unchanged file loses nothing, and a process that applies its own        *)
(* records one by one has what folding the file gives                      *)
(* (readPersistentSnapshot, nextTs, applyRecord).                          *)
THEOREM CurrentFolds == Spec => []FoldsAreCurrent
<1>1. IInv => FoldsAreCurrent
  <2> SUFFICES ASSUME IInv PROVE FoldsAreCurrent
    OBVIOUS
  <2>1. NoOp.kind = "none"
    BY DEF NoOp
  <2>2. SkippedFoldIsCurrent
    BY <2>1 DEF SkippedFoldIsCurrent, IInv, Local, Skips, Current
  <2>3. OwnAppendsAgree
    BY <2>1 DEF OwnAppendsAgree, IInv, Local, Owns, Alone
  <2>. QED
    BY <2>2, <2>3 DEF FoldsAreCurrent, IInv, Base
<1>. QED
  BY <1>1, Invariance, PTL

(* No refold, own append or foreign append takes a process back to an      *)
(* older version of a key, as long as no append has failed.                *)
THEOREM AdvancingViews == Spec => ViewsAdvance
<1> DEFINE Advances == fails' = 0 =>
             \A p \in Procs : loaded[p] /\ loaded'[p] =>
               \A k \in Keys : mem[p].versions[k] <= mem'[p].versions[k]
<1>1. IInv /\ [Next]_vars => [Advances]_vars
  <2> SUFFICES ASSUME IInv, Next, fails' = 0, NEW p \in Procs, loaded[p], loaded'[p],
                      NEW k \in Keys
               PROVE  mem[p].versions[k] <= mem'[p].versions[k]
    OBVIOUS
  <2>1. TypeOK /\ mem \in [Procs -> Mems] /\ mem[p] \in Mems /\ mem[p].versions[k] \in Nat
    BY DEF IInv, Base, TypeOK, Mems
  <2>2. fails = 0 \/ ~ (fails' = fails \/ fails' = fails + 1)
    BY <2>1 DEF TypeOK
  <2>3. ASSUME NEW q \in Procs, NEW view, op[q] = NoOp, fails' = fails,
               mem' = [mem EXCEPT ![q] = view], Refreshed(q).versions[k] <= view.versions[k],
               view.versions[k] \in Nat
        PROVE  mem[p].versions[k] <= mem'[p].versions[k]
    <3>1. CASE q # p
      BY <2>1, <2>3, <3>1
    <3>2. CASE q = p
      <4>1. mem[p].versions[k] <= FoldOf(file).versions[k] /\ Refreshed(p) = FoldOf(file)
        BY <2>3, <3>2, IdleView
      <4>2. Refreshed(p).versions[k] \in Nat
        BY Refreshing DEF IInv, Mems
      <4>. QED
        BY <2>1, <2>3, <3>2, <4>1, <4>2
    <3>. QED
      BY <3>1, <3>2
  <2>4. ASSUME NEW q \in Procs, NEW kind, NEW records, NEW view,
               Commit(q, kind, records, view), Committed(q, kind, records, view)
        PROVE  mem[p].versions[k] <= mem'[p].versions[k]
    <3>1. op[q] = NoOp /\ fails' = fails /\ mem' = [mem EXCEPT ![q] = view]
      BY <2>4 DEF Commit, Fold
    <3>2. view \in Mems /\ view.versions[k] \in Nat /\ Refreshed(q) \in Mems
          /\ Refreshed(q).versions[k] \in Nat
      BY <2>4, Refreshing DEF Committed, IInv, Mems
    <3>3. Refreshed(q).versions[k] <= view.versions[k]
      <4>1. CASE view.versions = Refreshed(q).versions
        BY <3>2, <4>1
      <4>2. CASE Len(records) = 1 /\ view = Apply(Refreshed(q), Head(records))
        <5>1. records \in Seq(Records)
          BY <2>4 DEF Committed
        <5>2. Head(records) \in Records
          BY <4>2, <5>1
        <5>. QED
          BY <3>2, <4>2, <5>2, ApplyType
      <4>. QED
        BY <2>4, <4>1, <4>2 DEF Committed
    <3>. QED
      BY <2>3, <3>1, <3>2, <3>3
  <2>5. ASSUME NEW q \in Procs,
               \/ \E l \in Keys : Write(q, l) \/ Delete(q, l)
               \/ \E puts, drops \in SUBSET Keys : Mutate(q, puts, drops)
        PROVE  mem[p].versions[k] <= mem'[p].versions[k]
    <3>1. PICK kind, records, view :
            Commit(q, kind, records, view) /\ Committed(q, kind, records, view)
      BY <2>5, CommitForm DEF IInv
    <3>. QED
      BY <2>4, <3>1
  <2>6. ASSUME NEW q \in Procs,
               \/ Read(q) \/ Poll(q)
               \/ \E l \in Keys : WaitForValue(q, l) \/ WaitForUpdate(q, l)
        PROVE  mem[p].versions[k] <= mem'[p].versions[k]
    <3>1. Refold(q)
      BY <2>1, <2>6, RefoldForm
    <3>2. Refreshed(q).versions[k] \in Nat
      BY Refreshing DEF IInv, Mems
    <3>3. op[q] = NoOp /\ fails' = fails /\ mem' = [mem EXCEPT ![q] = Refreshed(q)]
      BY <3>1 DEF Refold, Fold, bounds
    <3>4. Refreshed(q).versions[k] <= Refreshed(q).versions[k]
      BY <3>2
    <3>. QED
      BY <2>3, <3>2, <3>3, <3>4, Zenon
  <2>7. ASSUME NEW q \in Procs, PersistNext(q) PROVE mem[p].versions[k] <= mem'[p].versions[k]
    <3> DEFINE r == Head(op[q].pending)
               m == IF op[q].kind = "mutate" THEN Apply(mem[q], r) ELSE mem[q]
    <3>1. mem' = [mem EXCEPT ![q] = m] /\ op[q].pending # <<>>
      BY <2>7, Zenon DEF PersistNext, Pending
    <3>2. r \in Records /\ mem[q] \in Mems
      BY <2>1, <3>1 DEF TypeOK
    <3>3. mem[q].versions[k] <= m.versions[k]
      <4>1. mem[q].versions[k] \in Nat
        BY <3>2 DEF Mems
      <4>2. mem[q].versions[k] <= Apply(mem[q], r).versions[k]
        BY <3>2, <4>1, ApplyType
      <4>. QED
        BY <4>1, <4>2
    <3> HIDE DEF m, r
    <3>. QED
      BY <2>1, <3>1, <3>3
  <2>8. ASSUME NEW q \in Procs, Fail(q) PROVE FALSE
    BY <2>1, <2>8 DEF Fail, TypeOK
  <2>9. ASSUME NEW q \in Procs, NothingToDo(q) \/ Crash(q)
        PROVE  mem[p].versions[k] <= mem'[p].versions[k]
    <3>1. CASE NothingToDo(q)
      BY <2>1, <3>1 DEF NothingToDo
    <3>2. CASE Crash(q)
      <4>1. loaded' = [loaded EXCEPT ![q] = FALSE] /\ mem' = [mem EXCEPT ![q] = EmptyMem]
            /\ loaded \in [Procs -> BOOLEAN]
        BY <2>1, <3>2 DEF Crash, TypeOK
      <4>2. p # q
        BY <4>1
      <4>. QED
        BY <2>1, <4>1, <4>2
    <3>. QED
      BY <2>9, <3>1, <3>2
  <2>10. CASE (\E w \in waiters : TimeOut(w)) \/ Tick
    BY <2>1, <2>10 DEF TimeOut, Tick
  <2>. QED
    BY <2>5, <2>6, <2>7, <2>8, <2>9, <2>10 DEF Next
<1>. QED
  BY <1>1, Invariance, PTL DEF Spec, ViewsAdvance
=============================================================================
