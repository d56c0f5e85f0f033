-------------------------- MODULE TowerCallsProofs --------------------------
(***************************************************************************)
(* Proofs about the long calls of a tower, for any missions, dependencies, *)
(* worktrees and numbers of runs.                                          *)
(***************************************************************************)
EXTENDS MCTowerCalls, TLAPS

(* ---------------------------------------------------------------------- *)
(* CI runs                                                                 *)

Stages == {"idle", "asked", "dirty", "refused", "queued", "running", "hung", "exited", "settled", "failed"}

(* Runs whose promise is in a chain, and those of them not yet settled.    *)
Chained(r) == stage[r] \in {"queued", "running", "hung", "exited", "settled", "failed"}
Unsettled(r) == stage[r] \in {"queued", "running", "hung", "exited"}

(* What of the runs is typed; a run is on a worktree once it is asked for. *)
RunTypes ==
  /\ asked \in 0..MaxRuns
  /\ stage \in [Ci!Runs -> Stages]
  /\ on \in [Ci!Runs -> Trees \cup {None}]
  /\ behind \in [Ci!Runs -> 0..MaxRuns]
  /\ chain \in [Trees -> 0..MaxRuns]
  /\ \A r \in Ci!Runs : IF r <= asked THEN on[r] \in Trees ELSE stage[r] = "idle"

(* before numbers the runs in the order in which they were chained: a run  *)
(* waits for the unsettled run just before it on its worktree, has begun   *)
(* only when all before it have settled, and the entry of the map is the   *)
(* last one as long as any is unsettled.                                   *)
Ordered(before, m) ==
  /\ \A r \in Ci!Runs : Chained(r) => before[r] < m
  /\ \A t \in Trees : chain[t] # 0 => Chained(chain[t]) /\ on[chain[t]] = t
  /\ \A r \in Ci!Runs : Unsettled(r) =>
       chain[on[r]] # 0 /\ before[r] <= before[chain[on[r]]]
  /\ \A r, s \in Ci!Runs : r # s /\ on[r] = on[s] /\ Chained(r) /\ Chained(s) =>
       /\ before[r] # before[s]
       /\ before[s] < before[r] /\ Unsettled(s) =>
            /\ stage[r] = "queued"
            /\ behind[r] # 0 /\ Unsettled(behind[r]) /\ on[behind[r]] = on[r]
            /\ before[s] <= before[behind[r]] /\ before[behind[r]] < before[r]

RunOrder == \E before \in [Ci!Runs -> Nat], m \in Nat : Ordered(before, m)

(* The types of the runs, by every step.                                   *)
LEMMA RunTypesKept ==
  ASSUME RunTypes, [Ci!Next]_Ci!vars PROVE RunTypes'
<1> USE RunsAssumption DEF Ci!Runs
<1>1. ASSUME NEW t \in Trees, Ci!Edit(t) \/ Ci!Commit(t) PROVE RunTypes'
  BY <1>1 DEF Ci!Edit, Ci!Commit, Ci!run, RunTypes
<1>2. ASSUME NEW t \in Trees, Ci!Ask(t) PROVE RunTypes'
  <2>1. /\ asked + 1 \in 1..MaxRuns /\ asked' = asked + 1
        /\ \E x \in {"asked", "dirty"} : stage' = [stage EXCEPT ![asked + 1] = x]
        /\ on' = [on EXCEPT ![asked + 1] = t]
        /\ UNCHANGED <<behind, chain>>
    <3>1. asked \in Nat /\ asked < MaxRuns /\ asked' = asked + 1
      BY <1>2 DEF Ci!Ask, RunTypes
    <3>2. \E x \in {"asked", "dirty"} : stage' = [stage EXCEPT ![asked + 1] = x]
      BY <1>2 DEF Ci!Ask
    <3>3. asked + 1 \in 1..MaxRuns
      BY <3>1
    <3>4. on' = [on EXCEPT ![asked + 1] = t] /\ UNCHANGED <<behind, chain>>
      BY <1>2 DEF Ci!Ask
    <3>. QED
      BY <3>1, <3>2, <3>3, <3>4
  <2>. QED
    BY <2>1 DEF RunTypes, Stages
<1>3. ASSUME NEW r \in Ci!Runs, Ci!RunStep(r) PROVE RunTypes'
  <2>1. CASE Ci!Chain(r)
    <3>1. r <= asked /\ on[r] \in Trees
      BY <2>1 DEF Ci!Chain, RunTypes
    <3>2. /\ stage' = [stage EXCEPT ![r] = "queued"]
          /\ behind' = [behind EXCEPT ![r] = chain[on[r]]]
          /\ chain' = [chain EXCEPT ![on[r]] = r]
          /\ UNCHANGED <<asked, on>>
      BY <2>1 DEF Ci!Chain
    <3>3. chain[on[r]] \in 0..MaxRuns /\ r \in 0..MaxRuns
      BY <3>1 DEF RunTypes
    <3>4. stage' \in [Ci!Runs -> Stages] /\ chain' \in [Trees -> 0..MaxRuns]
      BY <3>1, <3>2, <3>3 DEF RunTypes, Stages
    <3>5. behind' \in [Ci!Runs -> 0..MaxRuns]
      BY <3>2, <3>3 DEF RunTypes
    <3>. QED
      BY <3>1, <3>2, <3>4, <3>5 DEF RunTypes
  <2>2. CASE Ci!Prune(r)
    <3>1. chain' \in [Trees -> 0..MaxRuns]
      <4>1. \E x \in {0, chain[on[r]]} : chain' = [chain EXCEPT ![on[r]] = x]
        BY <2>2 DEF Ci!Prune
      <4>2. on[r] \in Trees
        BY <2>2 DEF Ci!Prune, Ci!Settled, RunTypes
      <4>3. chain \in [Trees -> 0..MaxRuns] /\ chain[on[r]] \in 0..MaxRuns /\ 0 \in 0..MaxRuns
        BY <4>2 DEF RunTypes
      <4>. QED
        BY <4>1, <4>2, <4>3
    <3>. QED
      BY <2>2, <3>1 DEF Ci!Prune, Ci!run, RunTypes
  <2>3. CASE Ci!Refuse(r) \/ Ci!Start(r) \/ Ci!Litter(r) \/ Ci!Hang(r) \/ Ci!Exit(r) \/ Ci!Persist(r)
    <3>1. UNCHANGED <<asked, on, behind, chain>>
      BY <2>3 DEF Ci!Refuse, Ci!Start, Ci!Litter, Ci!Hang, Ci!Exit, Ci!Persist, Ci!run
    <3>2. stage[r] # "idle"
      BY <2>3 DEF Ci!Refuse, Ci!Start, Ci!Ready, Ci!Litter, Ci!Hang, Ci!Exit, Ci!Persist
    <3>3. stage' = stage \/ \E x \in Stages : stage' = [stage EXCEPT ![r] = x]
      BY <2>3 DEF Ci!Refuse, Ci!Start, Ci!Litter, Ci!Hang, Ci!Exit, Ci!Persist, Ci!run, Stages
    <3>. QED
      BY <3>1, <3>2, <3>3 DEF RunTypes
  <2>. QED
    BY <1>3, <2>1, <2>2, <2>3 DEF Ci!RunStep
<1>4. CASE UNCHANGED Ci!vars
  BY <1>4 DEF Ci!vars, Ci!run, RunTypes
<1>. QED
  BY <1>1, <1>2, <1>3, <1>4 DEF Ci!Next

(* Steps that leave the chained runs and the chain alone keep the order.   *)
LEMMA OrderStays ==
  ASSUME RunTypes, NEW before \in [Ci!Runs -> Nat], NEW m \in Nat, Ordered(before, m),
         UNCHANGED <<behind, chain>>,
         \A r \in Ci!Runs :
           IF Chained(r) THEN stage'[r] = stage[r] /\ on'[r] = on[r]
           ELSE stage'[r] \in {"idle", "asked", "dirty", "refused"}
  PROVE  Ordered(before, m)'
<1> USE DEF Ci!Runs
<1>1. \A r \in Ci!Runs : /\ Chained(r)' <=> Chained(r)
                         /\ Unsettled(r)' <=> Unsettled(r)
                         /\ Unsettled(r) => Chained(r)
                         /\ Chained(r) => stage'[r] = stage[r] /\ on'[r] = on[r]
                         /\ behind[r] # 0 => behind[r] \in Ci!Runs
  BY DEF Chained, Unsettled, RunTypes
<1>2. \A t \in Trees : chain[t] # 0 => chain[t] \in Ci!Runs
  BY DEF RunTypes
<1>3. \A r \in Ci!Runs : Chained(r) => on[r] \in Trees
  BY DEF Chained, RunTypes
<1> HIDE DEF Ci!Runs
<1>. QED
  BY <1>1, <1>2, <1>3 DEF Ordered

(* A run that begins, or one that has begun and goes on or settles, keeps  *)
(* the order: nothing unsettled is before it.                              *)
LEMMA OrderAdvances ==
  ASSUME RunTypes, NEW before \in [Ci!Runs -> Nat], NEW m \in Nat, Ordered(before, m),
         UNCHANGED <<on, behind, chain>>, NEW r \in Ci!Runs, Unsettled(r),
         NEW x \in {"running", "hung", "exited", "settled", "failed"}, stage' = [stage EXCEPT ![r] = x],
         stage[r] \in {"queued", "running", "hung"} => x \in {"running", "hung", "exited"},
         stage[r] = "queued" => Ci!Settled(behind[r])
  PROVE  Ordered(before, m)'
<1> USE DEF Ci!Runs
<1>1. \A q \in Ci!Runs : Unsettled(q)' => Unsettled(q)
  BY DEF RunTypes, Unsettled, Chained
<1>2. \A q \in Ci!Runs : Chained(q)' <=> Chained(q)
  BY DEF RunTypes, Chained, Unsettled
<1>3. \A q \in Ci!Runs : q # r => stage'[q] = stage[q] /\ (Unsettled(q)' <=> Unsettled(q))
  BY DEF RunTypes, Unsettled
<1>4. \A q \in Ci!Runs : Unsettled(q) => Chained(q)
  BY DEF Unsettled, Chained
<1>5. ASSUME NEW s \in Ci!Runs, s # r, on[s] = on[r], Unsettled(s) PROVE before[s] > before[r]
  <2>1. before[s] # before[r] /\ (before[s] < before[r] => stage[r] = "queued" /\ behind[r] # 0 /\ Unsettled(behind[r]))
    BY <1>4, <1>5 DEF Ordered
  <2>2. stage[r] = "queued" /\ behind[r] # 0 => ~ Unsettled(behind[r])
    BY DEF Ci!Settled, Unsettled
  <2>. QED
    BY <2>1, <2>2
<1>6. \A t \in Trees : chain[t] # 0 => chain[t] \in Ci!Runs
  BY DEF RunTypes
<1>7. \A q \in Ci!Runs : behind[q] # 0 => behind[q] \in Ci!Runs
  BY DEF RunTypes
<1>8. \A q \in Ci!Runs : Unsettled(q) => on[q] \in Trees
  BY DEF Unsettled, RunTypes
<1> HIDE DEF Ci!Runs
<1>9. (\A q \in Ci!Runs : Chained(q) => before[q] < m)'
  BY <1>2 DEF Ordered
<1>10. (\A t \in Trees : chain[t] # 0 => Chained(chain[t]) /\ on[chain[t]] = t)'
  BY <1>2, <1>6 DEF Ordered
<1>11. (\A q \in Ci!Runs : Unsettled(q) => chain[on[q]] # 0 /\ before[q] <= before[chain[on[q]]])'
  BY <1>1, <1>8 DEF Ordered
<1>12. ASSUME NEW q \in Ci!Runs, NEW s \in Ci!Runs, q # s, on[q] = on[s], Chained(q), Chained(s)
       PROVE  /\ before[q] # before[s]
              /\ before[s] < before[q] /\ Unsettled(s)' =>
                   /\ stage'[q] = "queued"
                   /\ behind[q] # 0 /\ Unsettled(behind[q])' /\ on[behind[q]] = on[q]
                   /\ before[s] <= before[behind[q]] /\ before[behind[q]] < before[q]
  <2>1. before[q] # before[s]
    BY <1>12 DEF Ordered
  <2>2. ASSUME before[s] < before[q], Unsettled(s)'
        PROVE  /\ stage'[q] = "queued"
               /\ behind[q] # 0 /\ Unsettled(behind[q])' /\ on[behind[q]] = on[q]
               /\ before[s] <= before[behind[q]] /\ before[behind[q]] < before[q]
    <3>1. /\ stage[q] = "queued"
          /\ behind[q] # 0 /\ Unsettled(behind[q]) /\ on[behind[q]] = on[q]
          /\ before[s] <= before[behind[q]] /\ before[behind[q]] < before[q]
      BY <1>1, <1>12, <2>2 DEF Ordered
    <3>2. q # r
      BY <1>1, <1>5, <1>12, <2>2
    <3>3. ASSUME behind[q] = r PROVE Unsettled(r)'
      BY <1>1, <1>5, <1>12, <2>2, <3>1, <3>3
    <3>. QED
      BY <1>3, <1>7, <3>1, <3>2, <3>3
  <2>. QED
    BY <2>1, <2>2
<1>. QED
  BY <1>2, <1>9, <1>10, <1>11, <1>12 DEF Ordered

(* A run that is chained comes after all others.                           *)
LEMMA OrderGrows ==
  ASSUME RunTypes, NEW before \in [Ci!Runs -> Nat], NEW m \in Nat, Ordered(before, m),
         NEW r \in Ci!Runs, Ci!Chain(r)
  PROVE  Ordered([before EXCEPT ![r] = m], m + 1)'
<1> DEFINE after == [before EXCEPT ![r] = m]
           t == on[r]
           C(q) == stage'[q] \in {"queued", "running", "hung", "exited", "settled", "failed"}
           U(q) == stage'[q] \in {"queued", "running", "hung", "exited"}
<1> USE DEF Ci!Runs
<1>1. t \in Trees /\ r \in 1..MaxRuns /\ stage[r] = "asked"
  BY DEF Ci!Chain, RunTypes
<1>2. /\ stage'[r] = "queued" /\ behind'[r] = chain[t] /\ chain'[t] = r
      /\ \A q \in Ci!Runs : q # r => stage'[q] = stage[q] /\ behind'[q] = behind[q]
      /\ \A u \in Trees : u # t => chain'[u] = chain[u]
      /\ on' = on
  BY <1>1 DEF Ci!Chain, RunTypes
<1>3. after \in [Ci!Runs -> Nat] /\ after[r] = m /\ \A q \in Ci!Runs : q # r => after[q] = before[q]
  OBVIOUS
<1>4. /\ \A q \in Ci!Runs : q # r => (C(q) <=> Chained(q)) /\ (U(q) <=> Unsettled(q))
      /\ C(r) /\ U(r) /\ ~ Chained(r) /\ ~ Unsettled(r)
      /\ \A q \in Ci!Runs : Unsettled(q) => Chained(q)
  BY <1>1, <1>2 DEF Chained, Unsettled
<1>5. /\ \A u \in Trees : chain[u] # 0 => chain[u] \in Ci!Runs
      /\ \A q \in Ci!Runs : behind[q] # 0 => behind[q] \in Ci!Runs
      /\ \A q \in Ci!Runs : Unsettled(q) => on[q] \in Trees
  BY DEF RunTypes, Unsettled
<1>u. /\ \A q \in Ci!Runs : (C(q) <=> Chained(q)') /\ (U(q) <=> Unsettled(q)')
      /\ chain' \in [Trees -> 0..MaxRuns] /\ \A q \in 1..MaxRuns : behind'[q] \in 0..MaxRuns
  <2>1. RunTypes'
    BY RunTypesKept DEF Ci!Next, Ci!RunStep
  <2>. QED
    BY <2>1 DEF Chained, Unsettled, RunTypes
<1> HIDE DEF Ci!Runs, after, C, U
<1>6. \A q \in Ci!Runs : Chained(q) => before[q] < m /\ q # r
  BY <1>4 DEF Ordered
<1>7. \A q \in Ci!Runs : C(q) => after[q] < m + 1
  BY <1>3, <1>4, <1>6
<1>8. \A u \in Trees : chain'[u] # 0 => C(chain'[u]) /\ on[chain'[u]] = u
  <2>1. \A u \in Trees : chain[u] # 0 => C(chain[u]) /\ on[chain[u]] = u
    BY <1>4, <1>5 DEF Ordered
  <2>. QED
    BY <1>1, <1>2, <1>4, <2>1
<1>9. ASSUME NEW q \in Ci!Runs, U(q)
      PROVE  chain'[on[q]] # 0 /\ after[q] <= after[chain'[on[q]]]
  <2>1. CASE q = r
    BY <1>1, <1>2, <1>3, <2>1
  <2>2. CASE q # r /\ on[q] = t
    BY <1>1, <1>2, <1>3, <1>4, <1>6, <1>9, <2>2
  <2>3. CASE q # r /\ on[q] # t
    <3>1. on[q] \in Trees /\ chain[on[q]] # 0 /\ before[q] <= before[chain[on[q]]]
          /\ chain[on[q]] \in Ci!Runs /\ Chained(chain[on[q]])
      BY <1>4, <1>5, <1>9, <2>3 DEF Ordered
    <3>. QED
      BY <1>2, <1>3, <1>6, <2>3, <3>1
  <2>. QED
    BY <2>1, <2>2, <2>3
<1>10. ASSUME NEW q \in Ci!Runs, NEW s \in Ci!Runs, q # s, on[q] = on[s], C(q), C(s)
       PROVE  /\ after[q] # after[s]
              /\ after[s] < after[q] /\ U(s) =>
                   /\ stage'[q] = "queued"
                   /\ behind'[q] # 0 /\ U(behind'[q]) /\ on[behind'[q]] = on[q]
                   /\ after[s] <= after[behind'[q]] /\ after[behind'[q]] < after[q]
  <2>1. CASE q = r
    <3>1. after[s] < m /\ after[s] = before[s] /\ Chained(s) /\ s # r
      BY <1>3, <1>4, <1>6, <1>10, <2>1
    <3>2. ASSUME Unsettled(s)
          PROVE  chain[t] # 0 /\ Unsettled(chain[t]) /\ on[chain[t]] = t
                 /\ before[s] <= before[chain[t]] /\ chain[t] \in Ci!Runs /\ Chained(chain[t])
      <4>1. chain[t] # 0 /\ before[s] <= before[chain[t]] /\ chain[t] \in Ci!Runs
            /\ Chained(chain[t]) /\ on[chain[t]] = t
        BY <1>1, <1>5, <1>10, <2>1, <3>2 DEF Ordered
      <4>2. CASE s = chain[t]
        BY <3>2, <4>1, <4>2
      <4>3. CASE s # chain[t]
        <5>1. before[chain[t]] # before[s]
              /\ (before[s] < before[chain[t]] => stage[chain[t]] = "queued")
          BY <1>10, <2>1, <3>1, <3>2, <4>1, <4>3 DEF Ordered
        <5>. QED
          BY <4>1, <5>1 DEF Unsettled
      <4>. QED
        BY <4>2, <4>3
    <3>3. U(s) => Unsettled(s)
      BY <1>4, <3>1
    <3>4. ASSUME Unsettled(s)
          PROVE  U(chain[t]) /\ after[chain[t]] = before[chain[t]] /\ after[chain[t]] < m
      BY <1>3, <1>4, <1>6, <3>2, <3>4
    <3>. QED
      BY <1>2, <1>3, <2>1, <3>1, <3>2, <3>3, <3>4
  <2>2. CASE s = r
    BY <1>3, <1>4, <1>6, <1>10, <2>2
  <2>3. CASE q # r /\ s # r
    <3>1. Chained(q) /\ Chained(s) /\ after[q] = before[q] /\ after[s] = before[s]
          /\ (U(s) <=> Unsettled(s)) /\ stage'[q] = stage[q] /\ behind'[q] = behind[q]
      BY <1>2, <1>3, <1>4, <1>10, <2>3
    <3>2. /\ before[q] # before[s]
          /\ before[s] < before[q] /\ Unsettled(s) =>
               /\ stage[q] = "queued"
               /\ behind[q] # 0 /\ Unsettled(behind[q]) /\ on[behind[q]] = on[q]
               /\ before[s] <= before[behind[q]] /\ before[behind[q]] < before[q]
      BY <1>10, <3>1 DEF Ordered
    <3>3. behind[q] # 0 /\ Unsettled(behind[q]) => U(behind[q]) /\ after[behind[q]] = before[behind[q]]
      BY <1>3, <1>4, <1>5
    <3>4. behind[q] # 0 /\ Unsettled(behind[q]) => U(behind'[q]) /\ after[behind'[q]] = before[behind[q]]
      BY <3>1, <3>3
    <3>. QED
      BY <3>1, <3>2, <3>4
  <2>. QED
    BY <2>1, <2>2, <2>3
<1>. QED
  <2>1. \A u \in Trees : chain'[u] # 0 => chain'[u] \in Ci!Runs
    BY <1>u DEF Ci!Runs
  <2>. QED
    BY <1>2, <1>3, <1>7, <1>8, <1>9, <1>10, <2>1 DEF Ordered, Chained, Unsettled, C, U, after

(* An entry that is removed from the chain has nothing behind it to wait   *)
(* for: its run has settled, so all before it have.                        *)
LEMMA OrderOutlivesEntries ==
  ASSUME RunTypes, NEW before \in [Ci!Runs -> Nat], NEW m \in Nat, Ordered(before, m),
         NEW r \in Ci!Runs, Ci!Prune(r)
  PROVE  Ordered(before, m)'
<1> USE DEF Ci!Runs
<1>1. UNCHANGED <<stage, on, behind>> /\ stage[r] \in {"settled", "failed"} /\ on[r] \in Trees
  BY DEF Ci!Prune, Ci!run, Ci!Settled, RunTypes
<1>2. /\ \A t \in Trees : chain'[t] \in {0, chain[t]} /\ (t # on[r] => chain'[t] = chain[t])
      /\ chain'[on[r]] # chain[on[r]] => chain[on[r]] = r
  BY <1>1 DEF Ci!Prune, Ci!Owns, RunTypes
<1>3. ASSUME NEW q \in Ci!Runs, Unsettled(q), on[q] = on[r], chain[on[r]] = r PROVE FALSE
  <2>1. q # r /\ Chained(q) /\ Chained(r) /\ before[q] <= before[r]
    BY <1>1, <1>3 DEF Ordered, Unsettled, Chained
  <2>2. before[r] # before[q] /\ (before[q] < before[r] => stage[r] = "queued")
    BY <1>3, <2>1 DEF Ordered
  <2>. QED
    BY <1>1, <2>1, <2>2
<1>4. \A q \in Ci!Runs : Unsettled(q) => on[q] \in Trees
  BY DEF RunTypes, Unsettled
<1>5. \A q \in Ci!Runs : Unsettled(q) => chain'[on[q]] = chain[on[q]]
  BY <1>1, <1>2, <1>3, <1>4
<1> HIDE DEF Ci!Runs
<1>. QED
  BY <1>1, <1>2, <1>5 DEF Ordered, Unsettled, Chained

(* The turns of the commands, by every step.                               *)
LEMMA RunOrderKept ==
  ASSUME RunTypes, RunOrder, [Ci!Next]_Ci!vars PROVE RunOrder'
<1> USE RunsAssumption
<1>1. PICK before \in [Ci!Runs -> Nat], m \in Nat : Ordered(before, m)
  BY DEF RunOrder
<1>2. ASSUME Ordered(before, m)' PROVE RunOrder'
  BY <1>2 DEF RunOrder
<1>3. ASSUME NEW t \in Trees, Ci!Edit(t) \/ Ci!Commit(t) PROVE RunOrder'
  <2>1. UNCHANGED <<stage, on, behind, chain>>
    BY <1>3 DEF Ci!Edit, Ci!Commit, Ci!run
  <2>2. \A r \in Ci!Runs : ~ Chained(r) => stage[r] \in {"idle", "asked", "dirty", "refused"}
    BY DEF RunTypes, Stages, Chained
  <2>. QED
    BY <1>1, <1>2, <2>1, <2>2, OrderStays
<1>4. ASSUME NEW t \in Trees, Ci!Ask(t) PROVE RunOrder'
  <2>1. asked + 1 \in Ci!Runs /\ stage[asked + 1] = "idle"
    BY <1>4 DEF Ci!Ask, RunTypes, Ci!Runs
  <2>2. /\ \E x \in {"asked", "dirty"} : stage' = [stage EXCEPT ![asked + 1] = x]
        /\ on' = [on EXCEPT ![asked + 1] = t]
        /\ UNCHANGED <<behind, chain>>
    BY <1>4 DEF Ci!Ask
  <2>3. \A r \in Ci!Runs : ~ Chained(r) => stage[r] \in {"idle", "asked", "dirty", "refused"}
    BY DEF RunTypes, Stages, Chained
  <2>4. \A r \in Ci!Runs :
          IF Chained(r) THEN stage'[r] = stage[r] /\ on'[r] = on[r]
          ELSE stage'[r] \in {"idle", "asked", "dirty", "refused"}
    BY <2>1, <2>2, <2>3 DEF RunTypes, Chained
  <2>. QED
    BY <1>1, <1>2, <2>2, <2>4, OrderStays
<1>5. ASSUME NEW r \in Ci!Runs, Ci!RunStep(r) PROVE RunOrder'
  <2>1. CASE Ci!Refuse(r) \/ Ci!Litter(r)
    <3>1. /\ UNCHANGED <<on, behind, chain>>
          /\ stage' = stage \/ (stage[r] = "dirty" /\ stage' = [stage EXCEPT ![r] = "refused"])
      BY <2>1 DEF Ci!Refuse, Ci!Litter, Ci!run
    <3>2. \A q \in Ci!Runs :
            IF Chained(q) THEN stage'[q] = stage[q] /\ on'[q] = on[q]
            ELSE stage'[q] \in {"idle", "asked", "dirty", "refused"}
      BY <3>1 DEF RunTypes, Stages, Chained
    <3>. QED
      BY <1>1, <1>2, <3>1, <3>2, OrderStays
  <2>2. CASE Ci!Chain(r)
    <3>1. Ordered([before EXCEPT ![r] = m], m + 1)'
      BY <1>1, <2>2, OrderGrows
    <3>2. [before EXCEPT ![r] = m] \in [Ci!Runs -> Nat] /\ m + 1 \in Nat
      OBVIOUS
    <3>. QED
      BY <3>1, <3>2 DEF RunOrder
  <2>3. CASE Ci!Start(r) \/ Ci!Hang(r) \/ Ci!Exit(r) \/ Ci!Persist(r)
    <3>1. /\ UNCHANGED <<on, behind, chain>> /\ Unsettled(r)
          /\ stage[r] = "queued" => Ci!Settled(behind[r])
          /\ \E x \in {"running", "hung", "exited", "settled", "failed"} :
               /\ stage' = [stage EXCEPT ![r] = x]
               /\ stage[r] \in {"queued", "running", "hung"} => x \in {"running", "hung", "exited"}
      BY <2>3 DEF Ci!Start, Ci!Ready, Ci!Hang, Ci!Exit, Ci!Persist, Unsettled
    <3>. QED
      BY <1>1, <1>2, <3>1, OrderAdvances
  <2>4. CASE Ci!Prune(r)
    BY <1>1, <1>2, <2>4, OrderOutlivesEntries
  <2>. QED
    BY <1>5, <2>1, <2>2, <2>3, <2>4 DEF Ci!RunStep
<1>6. CASE UNCHANGED Ci!vars
  <2>1. UNCHANGED <<stage, on, behind, chain>>
    BY <1>6 DEF Ci!vars, Ci!run
  <2>2. \A r \in Ci!Runs : ~ Chained(r) => stage[r] \in {"idle", "asked", "dirty", "refused"}
    BY DEF RunTypes, Stages, Chained
  <2>. QED
    BY <1>1, <1>2, <2>1, <2>2, OrderStays
<1>. QED
  BY <1>3, <1>4, <1>5, <1>6 DEF Ci!Next

(* Two commands never run in one worktree, however calls, settled promises *)
(* and removals of chain entries interleave (chainCiRun, tower/store.ts).  *)
THEOREM CommandsTakeTurns == Ci!Spec => []OneCommandAtATime
<1> USE RunsAssumption
<1>1. Ci!Init => RunTypes /\ RunOrder
  <2> SUFFICES ASSUME Ci!Init PROVE RunTypes /\ RunOrder
    OBVIOUS
  <2>1. RunTypes
    BY DEF Ci!Init, RunTypes, Stages, Ci!Runs
  <2>2. Ordered([r \in Ci!Runs |-> 0], 0)
    BY DEF Ci!Init, Ordered, Chained, Unsettled
  <2>. QED
    BY <2>1, <2>2 DEF RunOrder
<1>2. RunTypes /\ RunOrder => OneCommandAtATime
  <2> SUFFICES ASSUME RunTypes, RunOrder, NEW r \in Ci!Runs, NEW s \in Ci!Runs, r # s,
                      Ci!Busy(r), Ci!Busy(s), on[r] = on[s]
               PROVE  FALSE
    BY DEF OneCommandAtATime, Ci!OneCommandAtATime
  <2>1. PICK before \in [Ci!Runs -> Nat], m \in Nat : Ordered(before, m)
    BY DEF RunOrder
  <2>2. Chained(r) /\ Chained(s) /\ Unsettled(r) /\ Unsettled(s)
        /\ stage[r] # "queued" /\ stage[s] # "queued"
    BY DEF Ci!Busy, Chained, Unsettled
  <2>3. before[r] # before[s] /\ ~ (before[r] < before[s]) /\ ~ (before[s] < before[r])
    BY <2>1, <2>2 DEF Ordered
  <2>. QED
    BY <2>3
<1>3. RunTypes /\ RunOrder /\ [Ci!Next]_Ci!vars => RunTypes' /\ RunOrder'
  BY RunTypesKept, RunOrderKept
<1>. QED
  BY <1>1, <1>2, <1>3, PTL DEF Ci!Spec

(* ---------------------------------------------------------------------- *)
(* Waits                                                                   *)

WaitFields == {"kind", "m", "at", "todo", "open", "base", "from", "got", "seen", "key", "since"}

(* A wait for missions has found merged all that it does not have on its   *)
(* list or among the open ones, or one of them has been opened since; a    *)
(* wait for a CI record knows a tip that the branch has had.               *)
WaitIsTrue ==
  /\ DOMAIN wait = WaitFields
  /\ status \in [Missions -> {"open", "merged"}]
  /\ tip \in Nat
  /\ wait.kind = "deps" =>
       /\ wait.m \in Missions
       /\ wait.at = "read" /\ ~ reopened =>
            \A d \in Deps[wait.m] \ (wait.todo \cup wait.open) : status[d] = "merged"
       /\ wait.at = "answered" /\ ~ reopened => \A d \in Deps[wait.m] : status[d] = "merged"
  /\ wait.kind = "ci" =>
       /\ wait.from \in Nat /\ wait.from <= tip
       /\ wait.at = "answered" => wait.got >= wait.from
  /\ wait.at = "compare" => wait.kind = "ci"

(* The answers of the waits, by every step.                                *)
LEMMA WaitKept == ASSUME WaitIsTrue, [Wt!Next]_Wt!vars PROVE WaitIsTrue'
<1> USE DEF WaitFields
<1>0. /\ DOMAIN wait = WaitFields
      /\ \A x : DOMAIN [wait EXCEPT !.at = x] = WaitFields /\ [wait EXCEPT !.at = x].at = x
      /\ wait.kind = "deps" => Deps[wait.m] \subseteq Missions
  BY DepsAssumption DEF WaitIsTrue
<1>1. ASSUME NEW m \in Missions, Wt!WriteMission(m) PROVE WaitIsTrue'
  <2>1. PICK s \in {"open", "merged"} :
          /\ status' = [status EXCEPT ![m] = s]
          /\ reopened' = (reopened \/ (status[m] = "merged" /\ s = "open"))
    BY <1>1 DEF Wt!WriteMission
  <2>2. UNCHANGED <<wait, tip>>
    BY <1>1 DEF Wt!WriteMission
  <2>3. ASSUME NEW d \in Missions, status[d] = "merged", ~ reopened' PROVE status'[d] = "merged"
    BY <2>1, <2>3 DEF WaitIsTrue
  <2>4. ~ reopened' => ~ reopened
    BY <2>1
  <2>5. status' \in [Missions -> {"open", "merged"}]
    BY <2>1 DEF WaitIsTrue
  <2>. QED
    BY <1>0, <2>2, <2>3, <2>4, <2>5 DEF WaitIsTrue
<1>2. CASE Wt!WriteRecord \/ Wt!Mail \/ UNCHANGED Wt!vars
  BY <1>2 DEF Wt!WriteRecord, Wt!Mail, Wt!vars, WaitIsTrue
<1>3. CASE Wt!Commit
  <2>1. tip' = tip + 1 /\ UNCHANGED <<status, reopened, wait>>
    BY <1>3 DEF Wt!Commit
  <2>2. tip' \in Nat /\ \A n \in Nat : n <= tip => n <= tip'
    BY <2>1 DEF WaitIsTrue
  <2>. QED
    BY <2>1, <2>2 DEF WaitIsTrue
<1>4. CASE Wt!Ask
  <2>1. UNCHANGED <<status, tip>> /\ reopened' = FALSE
    BY <1>4 DEF Wt!Ask, Wt!world
  <2>2. CASE \E m \in Missions : wait' = [Wt!NoWait EXCEPT !.kind = "deps", !.m = m, !.at = "read", !.todo = Deps[m]]
    <3>1. PICK m \in Missions : wait' = [Wt!NoWait EXCEPT !.kind = "deps", !.m = m, !.at = "read", !.todo = Deps[m]]
      BY <2>2
    <3>2. DOMAIN wait' = WaitFields /\ wait'.kind = "deps" /\ wait'.m = m /\ wait'.at = "read"
          /\ wait'.todo = Deps[m]
      BY <3>1 DEF Wt!NoWait
    <3>. QED
      BY <2>1, <3>2 DEF WaitIsTrue
  <2>3. CASE \E m \in Missions :
               wait' = [Wt!NoWait EXCEPT !.kind = "mission", !.m = m, !.at = "parked",
                                         !.base = status[m], !.key = m, !.since = stamp[m]]
    <3>1. DOMAIN wait' = WaitFields /\ wait'.kind = "mission" /\ wait'.at = "parked"
      BY <2>3 DEF Wt!NoWait
    <3>. QED
      BY <2>1, <3>1 DEF WaitIsTrue
  <2>4. CASE \E k \in {"ci", "inbox"} : wait' = [Wt!NoWait EXCEPT !.kind = k, !.at = "read", !.from = tip]
    <3>1. DOMAIN wait' = WaitFields /\ wait'.kind \in {"ci", "inbox"} /\ wait'.at = "read" /\ wait'.from = tip
      BY <2>4 DEF Wt!NoWait
    <3>2. tip \in Nat /\ tip <= tip
      BY DEF WaitIsTrue
    <3>. QED
      BY <2>1, <3>1, <3>2 DEF WaitIsTrue
  <2>. QED
    BY <1>4, <2>2, <2>3, <2>4 DEF Wt!Ask
<1>5. ASSUME NEW x, wait' = [wait EXCEPT !.at = x], x \notin {"read", "answered", "compare"},
             UNCHANGED <<status, tip, reopened>>
      PROVE  WaitIsTrue'
  BY <1>0, <1>5 DEF WaitIsTrue
<1>6. ASSUME NEW k, Wt!Park(k), UNCHANGED <<status, tip, reopened>> PROVE WaitIsTrue'
  <2>1. DOMAIN wait' = WaitFields /\ wait'.kind = wait.kind /\ wait'.m = wait.m /\ wait'.at = "parked"
        /\ wait'.from = wait.from
    BY <1>0, <1>6 DEF Wt!Park
  <2>. QED
    BY <1>6, <2>1 DEF WaitIsTrue
<1>7. CASE Wt!ReadDep
  <2> DEFINE d == Wt!Min(wait.todo)
             a == wait.todo \ {d}
             b == IF status[d] = "merged" THEN wait.open ELSE wait.open \cup {d}
  <2>1. DOMAIN wait' = WaitFields /\ wait'.kind = "deps" /\ wait'.m = wait.m /\ wait'.at = "read"
        /\ wait.kind = "deps" /\ wait.at = "read" /\ wait'.todo = a /\ wait'.open = b
        /\ UNCHANGED <<status, tip, reopened>>
    BY <1>0, <1>7 DEF Wt!ReadDep, Wt!world
  <2> HIDE DEF d
  <2>. QED
    BY <2>1 DEF WaitIsTrue
<1>8. CASE Wt!JudgeDeps
  <2>1. wait.kind = "deps" /\ wait.at = "read" /\ wait.todo = {} /\ UNCHANGED <<status, tip, reopened>>
    BY <1>8 DEF Wt!JudgeDeps, Wt!world
  <2>2. CASE wait.open = {} /\ wait' = [wait EXCEPT !.at = "answered"]
    <3>1. DOMAIN wait' = WaitFields /\ wait'.kind = "deps" /\ wait'.m = wait.m /\ wait'.at = "answered"
      BY <1>0, <2>1, <2>2
    <3>. QED
      BY <2>1, <2>2, <3>1 DEF WaitIsTrue
  <2>. QED
    BY <1>6, <1>8, <2>1, <2>2 DEF Wt!JudgeDeps, Wt!Answer
<1>9. CASE Wt!ReadRecord
  <2>1. DOMAIN wait' = WaitFields /\ wait'.kind = "ci" /\ wait.kind = "ci" /\ wait'.at = "compare"
        /\ wait'.from = wait.from /\ UNCHANGED <<status, tip, reopened>>
    BY <1>0, <1>9 DEF Wt!ReadRecord, Wt!world
  <2>. QED
    BY <2>1 DEF WaitIsTrue
<1>10. CASE Wt!Compare
  <2>1. wait.kind = "ci" /\ UNCHANGED <<status, tip, reopened>>
    BY <1>10 DEF Wt!Compare, Wt!world, WaitIsTrue
  <2>2. CASE wait.got = tip /\ wait' = [wait EXCEPT !.at = "answered"]
    <3>1. DOMAIN wait' = WaitFields /\ wait'.kind = "ci" /\ wait'.from = wait.from /\ wait'.got = wait.got
          /\ wait'.at = "answered"
      BY <1>0, <2>1, <2>2
    <3>. QED
      BY <2>1, <2>2, <3>1 DEF WaitIsTrue
  <2>. QED
    BY <1>6, <1>10, <2>1, <2>2 DEF Wt!Compare, Wt!MatchesTip, Wt!Answer
<1>11. CASE Wt!Poll
  <2>1. DOMAIN wait' = WaitFields /\ wait'.kind = "inbox" /\ wait'.at = "answered"
        /\ UNCHANGED <<status, tip, reopened>>
    BY <1>0, <1>11 DEF Wt!Poll, Wt!Answer, Wt!world
  <2>. QED
    BY <2>1 DEF WaitIsTrue
<1>12. CASE Wt!Wake
  <2>1. UNCHANGED <<status, tip, reopened>>
    BY <1>12 DEF Wt!Wake, Wt!world
  <2>2. CASE wait.kind = "deps"
    <3>1. wait' = [wait EXCEPT !.at = "read", !.todo = Deps[wait.m], !.open = {}]
      BY <1>12, <2>2 DEF Wt!Wake, Wt!Woken, Wt!Again
    <3>2. DOMAIN wait' = WaitFields /\ wait'.kind = "deps" /\ wait'.m = wait.m /\ wait'.at = "read"
          /\ wait'.todo = Deps[wait.m]
      BY <1>0, <2>2, <3>1
    <3>. QED
      BY <2>1, <2>2, <3>2 DEF WaitIsTrue
  <2>3. CASE wait.kind = "ci"
    <3>1. wait' = [wait EXCEPT !.at = "read"]
      BY <1>12, <2>3 DEF Wt!Wake, Wt!Woken
    <3>2. DOMAIN wait' = WaitFields /\ wait'.kind = "ci" /\ wait'.at = "read" /\ wait'.from = wait.from
      BY <1>0, <2>3, <3>1
    <3>. QED
      BY <2>1, <2>3, <3>2 DEF WaitIsTrue
  <2>4. CASE wait.kind \notin {"deps", "ci"}
    <3>1. wait' \in {[wait EXCEPT !.at = "answered"], [wait EXCEPT !.since = stamp[wait.m]]}
      BY <1>12, <2>4 DEF Wt!Wake, Wt!Woken
    <3>2. wait.at = "parked"
      BY <1>12 DEF Wt!Wake
    <3>3. DOMAIN wait' = WaitFields /\ wait'.kind = wait.kind /\ wait'.at \in {"answered", "parked"}
      BY <1>0, <3>1, <3>2
    <3>. QED
      BY <2>1, <2>4, <3>3 DEF WaitIsTrue
  <2>. QED
    BY <2>2, <2>3, <2>4
<1>13. CASE Wt!TimeOut \/ Wt!Close
  <2>1. UNCHANGED <<status, tip, reopened>>
    BY <1>13 DEF Wt!TimeOut, Wt!Close, Wt!world
  <2>2. CASE wait' = Wt!NoWait
    <3>1. DOMAIN wait' = WaitFields /\ wait'.kind = "none" /\ wait'.at = "idle"
      BY <2>2 DEF Wt!NoWait
    <3>. QED
      BY <2>1, <3>1 DEF WaitIsTrue
  <2>3. CASE wait.kind = "ci" /\ wait' = [wait EXCEPT !.at = "read"]
    <3>1. DOMAIN wait' = WaitFields /\ wait'.kind = "ci" /\ wait'.at = "read" /\ wait'.from = wait.from
      BY <1>0, <2>3
    <3>. QED
      BY <2>1, <2>3, <3>1 DEF WaitIsTrue
  <2>. QED
    BY <1>13, <2>2, <2>3 DEF Wt!TimeOut, Wt!Close
<1>. QED
  BY <1>1, <1>2, <1>3, <1>4, <1>7, <1>8, <1>9, <1>10, <1>11, <1>12, <1>13 DEF Wt!Next, Wt!Loop

(* A wait for missions answers when all of them are merged, however their  *)
(* statuses change between its reads, unless one was opened again; a wait  *)
(* for CI never answers for a tip older than the one it began with.        *)
THEOREM WaitsAnswerTruly == Wt!Spec => []AnswersAreTrue
<1>1. Wt!Init => WaitIsTrue
  BY DEF Wt!Init, Wt!NoWait, WaitIsTrue, WaitFields
<1>2. WaitIsTrue => AnswersAreTrue
  BY DEF WaitIsTrue, AnswersAreTrue, Wt!AnswersAreTrue, Wt!Satisfied
<1>3. WaitIsTrue /\ [Wt!Next]_Wt!vars => WaitIsTrue'
  BY WaitKept
<1>. QED
  BY <1>1, <1>2, <1>3, PTL DEF Wt!Spec
=============================================================================
