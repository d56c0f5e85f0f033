-------------------------- MODULE TowerGateProofs --------------------------
(***************************************************************************)
(* Proofs about the tower's merge gate, for any missions, dependencies,    *)
(* reviewers, scopes and number of concurrent merge calls; about the plan  *)
(* and its worktrees; and about the roster of the crew.                    *)
(***************************************************************************)
EXTENDS MCTowerCamp, FiniteSetTheorems, TLAPS

(* What a merge call knows of its mission at each step.                    *)
Shape ==
  \A c \in Calls :
    /\ pc[c] = "idle" <=> job[c] = None
    /\ pc[c] \in {"reviews", "tip", "scope", "ci", "merge"} => kind[job[c]] = "build"
    /\ pc[c] = "diff" => kind[job[c]] # "build"
    /\ pc[c] = "ci" => ciOn
    /\ scope[c] => job[c] \in Missions /\ wide[job[c]]

(* A reviewer's rounds on a branch are numbered without a gap.             *)
Counted ==
  /\ IsFiniteSet(reviews)
  /\ \A v \in reviews : v.round <= Cardinality({w \in OfBranch(v.m) : w.by = v.by})

TypeInv == TypeOK /\ Shape /\ Counted

(* The types hold at the start.                                            *)
LEMMA TypeInit == Init => TypeInv
<1> SUFFICES ASSUME Init PROVE TypeInv
  OBVIOUS
<1>1. TypeOK
  BY SetsAssumption DEF Init, TypeOK, BoardType, RepoType, CallType, Steps, Review
<1>2. Shape
  BY DEF Init, Shape
<1>3. Counted
  BY FS_EmptySet DEF Init, Counted
<1>. QED
  BY <1>1, <1>2, <1>3 DEF TypeInv

(* A new review has a round of its own.                                    *)
LEMMA SubmitReviewType ==
  ASSUME TypeInv, NEW r \in Reviewers, NEW m \in Missions, SubmitReview(r, m)
  PROVE  TypeInv'
<1> DEFINE Mine == {v \in OfBranch(m) : v.by = r}
<1>1. IsFiniteSet(Mine) /\ Cardinality(Mine) \in Nat
  <2>1. Mine \subseteq reviews
    BY DEF OfBranch
  <2>. QED
    BY <2>1, FS_Subset, FS_CardinalityType DEF TypeInv, Counted
<1>2. Round(r, m) = Cardinality(Mine) + 1
  BY DEF Round
<1>3. PICK ok \in BOOLEAN, read \in 0..tip[m] :
        reviews' = reviews \cup {[by |-> r, m |-> m, round |-> Cardinality(Mine) + 1,
                                  clean |-> ok, at |-> tip[m], of |-> read]}
  BY <1>2 DEF SubmitReview, TypeInv, TypeOK, RepoType
<1> DEFINE new == [by |-> r, m |-> m, round |-> Cardinality(Mine) + 1,
                   clean |-> ok, at |-> tip[m], of |-> read]
<1>4. new \in Review
  BY <1>1 DEF Review, TypeInv, TypeOK, RepoType
<1>5. \A v \in reviews : v \in Review
  BY DEF TypeInv, TypeOK, BoardType
<1>6. \A v \in reviews : v.by = r /\ v.m = m => v.round <= Cardinality(Mine)
  BY DEF TypeInv, Counted, OfBranch
<1>7. new \notin reviews
  BY <1>1, <1>6
<1>8. \A v, w \in reviews' : <<v.by, v.m, v.round>> = <<w.by, w.m, w.round>> => v = w
  <2>1. \A v, w \in reviews : <<v.by, v.m, v.round>> = <<w.by, w.m, w.round>> => v = w
    BY DEF TypeInv, TypeOK, BoardType
  <2>2. \A v \in reviews : <<v.by, v.m, v.round>> # <<r, m, Cardinality(Mine) + 1>>
    BY <1>1, <1>5, <1>6 DEF Review
  <2>3. <<new.by, new.m, new.round>> = <<r, m, Cardinality(Mine) + 1>>
    OBVIOUS
  <2>4. reviews' = reviews \cup {new}
    BY <1>3
  <2>. QED
    BY <2>1, <2>2, <2>3, <2>4
<1>9. TypeOK'
  <2>1. reviews' \subseteq Review
    BY <1>3, <1>4 DEF TypeInv, TypeOK, BoardType
  <2>. QED
    BY <2>1, <1>8
    DEF TypeInv, TypeOK, BoardType, RepoType, CallType, SubmitReview, fixed, repo, cis, call
<1>10. Shape'
  BY DEF TypeInv, Shape, SubmitReview, fixed, call
<1>11. Counted'
  <2>1. IsFiniteSet(reviews')
    BY <1>3, FS_AddElement DEF TypeInv, Counted
  <2>2. ASSUME NEW v \in reviews'
        PROVE  v.round <= Cardinality({w \in OfBranch(v.m)' : w.by = v.by})
    <3> DEFINE Old == {w \in OfBranch(v.m) : w.by = v.by}
               Now == {w \in OfBranch(v.m)' : w.by = v.by}
    <3>1. CASE v.by = r /\ v.m = m
      <4>1. Old = Mine
        BY <3>1 DEF OfBranch
      <4>2. Now = {w \in reviews' : w.m = m /\ w.by = r}
        BY <3>1 DEF OfBranch
      <4>3. Mine = {w \in reviews : w.m = m /\ w.by = r}
        BY DEF OfBranch
      <4>4. new.m = m /\ new.by = r /\ reviews' = reviews \cup {new}
        BY <1>3
      <4>5. Now = Mine \cup {new}
        BY <4>2, <4>3, <4>4
      <4>6. new \notin Mine
        BY <1>7 DEF OfBranch
      <4>7. Cardinality(Now) = Cardinality(Mine) + 1
        BY <1>1, <4>5, <4>6, FS_AddElement
      <4>8. v.round <= Cardinality(Mine) + 1
        <5>1. CASE v = new
          BY <1>1, <5>1
        <5>2. CASE v \in reviews
          BY <1>1, <1>5, <1>6, <3>1, <5>2 DEF Review
        <5>. QED
          BY <1>3, <5>1, <5>2
      <4>. QED
        BY <4>7, <4>8
    <3>2. CASE ~(v.by = r /\ v.m = m)
      <4>1. v \in reviews
        BY <1>3, <3>2
      <4>2. Now = Old
        BY <1>3, <3>2 DEF OfBranch
      <4>. QED
        BY <4>1, <4>2 DEF TypeInv, Counted
    <3>. QED
      BY <3>1, <3>2
  <2>. QED
    BY <2>1, <2>2 DEF Counted
<1>. QED
  BY <1>9, <1>10, <1>11 DEF TypeInv

(* A step that leaves the reviews alone keeps their numbering.             *)
LEMMA CountedStays ==
  ASSUME Counted, UNCHANGED reviews
  PROVE  Counted'
BY DEF Counted, OfBranch

(* A call that returns keeps no mission.                                   *)
LEMMA ReturnType ==
  ASSUME TypeInv, NEW c \in Calls, Return(c), UNCHANGED <<fixed, wide>>
  PROVE  CallType' /\ Shape'
<1>1. CallType'
  BY DEF TypeInv, TypeOK, CallType, Return, Steps
<1>2. Shape'
  BY DEF TypeInv, TypeOK, CallType, Shape, Return, fixed
<1>. QED
  BY <1>1, <1>2

(* A call that goes on keeps its mission.                                  *)
LEMMA GotoType ==
  ASSUME TypeInv, NEW c \in Calls, NEW step \in Steps \ {"idle", "diff"}, Goto(c, step),
         pc[c] # "idle", UNCHANGED <<fixed, wide>>,
         latest' \in [Calls -> SUBSET Review], seenTip' \in [Calls -> Nat],
         step = "ci" => ciOn, step # "save" => kind[job[c]] = "build"
  PROVE  CallType' /\ Shape'
<1>1. CallType'
  BY DEF TypeInv, TypeOK, CallType, Goto
<1>2. Shape'
  BY DEF TypeInv, TypeOK, CallType, Shape, Goto, fixed, Steps
<1>. QED
  BY <1>1, <1>2

(* The steps of a merge call keep the types.                               *)
LEMMA CallStepType ==
  ASSUME TypeInv, NEW c \in Calls, MergeStep(c) \/ \E m \in Missions : Ask(c, m)
  PROVE  TypeInv'
<1> USE SetsAssumption
<1>0. pc[c] # "idle" => job[c] \in Missions
  BY DEF TypeInv, TypeOK, CallType, Shape
<1>1. CASE \E m \in Missions : Ask(c, m)
  <2>1. PICK m \in Missions : Ask(c, m)
    BY <1>1
  <2>2. Objected(m) \subseteq Nat
    BY DEF Objected, OfBranch, TypeInv, TypeOK, BoardType, Review
  <2>3. BoardType' /\ RepoType'
    BY <2>1 DEF Ask, board, fixed, repo, cis, TypeInv, TypeOK, BoardType, RepoType
  <2>4. CallType'
    BY <2>1, <2>2 DEF Ask, board, fixed, TypeInv, TypeOK, BoardType, CallType, Steps
  <2>5. Shape'
    <3>1. kind[m] \in {"build", "survey"} /\ wide[m] \in BOOLEAN /\ m # None
      BY DEF TypeInv, TypeOK, BoardType
    <3>. QED
      BY <2>1, <3>1 DEF Ask, board, fixed, TypeInv, TypeOK, CallType, Shape
  <2>. QED
    BY <2>1, <2>3, <2>4, <2>5, CountedStays DEF Ask, board, TypeInv, TypeOK
<1>2. ASSUME UNCHANGED board,
             \/ Return(c)
             \/ \E step \in Steps \ {"idle", "diff"} :
                  /\ Goto(c, step) /\ pc[c] # "idle"
                  /\ latest' \in [Calls -> SUBSET Review] /\ seenTip' \in [Calls -> Nat]
                  /\ step = "ci" => ciOn
                  /\ step # "save" => kind[job[c]] = "build"
      PROVE  TypeInv'
  <2>1. BoardType' /\ RepoType'
    BY <1>2 DEF board, fixed, repo, cis, TypeInv, TypeOK, BoardType, RepoType
  <2>2. CallType' /\ Shape'
    BY <1>2, ReturnType, GotoType DEF board
  <2>. QED
    BY <1>2, <2>1, <2>2, CountedStays DEF board, TypeInv, TypeOK
<1>3. pc[c] \in {"reviews", "tip", "scope", "ci", "merge"} => kind[job[c]] = "build"
  BY DEF TypeInv, Shape
<1>4. /\ latest \in [Calls -> SUBSET Review] /\ seenTip \in [Calls -> Nat]
      /\ tip \in [Missions -> Nat] /\ {} \in SUBSET Review
  BY DEF TypeInv, TypeOK, CallType, RepoType
<1>5. CASE SurveyDiff(c)
  BY <1>2, <1>4, <1>5 DEF SurveyDiff, Steps
<1>6. CASE ReadReviews(c)
  <2>1. LatestRound(job[c]) \in SUBSET Review
    BY DEF LatestRound, OfBranch, TypeInv, TypeOK, BoardType
  <2>. QED
    BY <1>2, <1>3, <1>4, <1>6, <2>1 DEF ReadReviews, Steps
<1>7. CASE CheckTip(c)
  BY <1>0, <1>2, <1>3, <1>4, <1>7 DEF CheckTip, Steps
<1>8. CASE CheckScope(c)
  BY <1>2, <1>3, <1>4, <1>8 DEF CheckScope, Steps
<1>9. CASE CheckCi(c)
  BY <1>2, <1>3, <1>4, <1>9 DEF CheckCi, Steps
<1>10. CASE MergeNoFf(c)
  <2>1. BoardType' /\ RepoType'
    BY <1>0, <1>10 DEF MergeNoFf, fixed, cis, TypeInv, TypeOK, BoardType, RepoType
  <2>2. CallType' /\ Shape'
    BY <1>4, <1>10, GotoType DEF MergeNoFf, Steps
  <2>. QED
    BY <1>10, <2>1, <2>2, CountedStays DEF MergeNoFf, TypeInv, TypeOK
<1>11. CASE MergeFails(c)
  <2>1. BoardType' /\ RepoType'
    BY <1>0, <1>11 DEF MergeFails, fixed, cis, TypeInv, TypeOK, BoardType, RepoType
  <2>2. CallType' /\ Shape'
    BY <1>11, ReturnType DEF MergeFails
  <2>. QED
    BY <1>11, <2>1, <2>2, CountedStays DEF MergeFails, TypeInv, TypeOK
<1>12. CASE Save(c)
  <2>1. BoardType' /\ RepoType'
    BY <1>0, <1>12 DEF Save, fixed, repo, cis, TypeInv, TypeOK, BoardType, RepoType
  <2>2. CallType' /\ Shape'
    BY <1>12, ReturnType DEF Save
  <2>. QED
    BY <1>12, <2>1, <2>2, CountedStays DEF Save, TypeInv, TypeOK
<1>. QED
  BY <1>1, <1>5, <1>6, <1>7, <1>8, <1>9, <1>10, <1>11, <1>12 DEF MergeStep

(* The steps on the branches keep the types.                               *)
LEMMA BranchStepType ==
  ASSUME TypeInv, NEW m \in Missions,
         Commit(m) \/ Reopen(m) \/ Declare(m) \/ Widen(m) \/ StartCi(m) \/ CompleteCi(m)
  PROVE  TypeInv'
<1> USE DEF TypeInv, TypeOK
<1>1. UNCHANGED <<call, reviews, fixed>>
  BY DEF Commit, Reopen, Declare, Widen, StartCi, CompleteCi
<1>2. CallType'
  BY <1>1 DEF call, CallType
<1>3. wide' = wide \/ wide' = [wide EXCEPT ![m] = TRUE]
  BY DEF Commit, Reopen, Declare, Widen, StartCi, CompleteCi
<1>4. Shape'
  BY <1>1, <1>3 DEF call, fixed, BoardType, CallType, Shape
<1>5. Counted'
  BY <1>1, CountedStays
<1>6. RepoType'
  BY DEF Commit, Reopen, Declare, Widen, StartCi, CompleteCi, repo, RepoType
<1>7. BoardType'
  <2>1. CASE Commit(m) \/ Reopen(m) \/ Declare(m) \/ Widen(m)
    <3>1. \/ UNCHANGED status
          \/ \E s \in {"open", "merged"} : status' = [status EXCEPT ![m] = s]
      BY <2>1 DEF Commit, Reopen, Declare, Widen
    <3>2. {started, crashes, reopens}' \subseteq Nat
      BY <2>1 DEF Commit, Reopen, Declare, Widen, cis, BoardType
    <3>3. UNCHANGED <<kind, ciOn, reviews, ci, runs, tested>>
      BY <2>1 DEF Commit, Reopen, Declare, Widen, fixed, cis
    <3>4. status' \in [Missions -> {"open", "merged"}] /\ wide' \in [Missions -> BOOLEAN]
      BY <1>3, <3>1 DEF BoardType
    <3>. QED
      BY <3>2, <3>3, <3>4 DEF BoardType
  <2>2. CASE StartCi(m)
    <3>0. /\ [commit |-> tip[m], green |-> FALSE] \in [commit : Nat, green : BOOLEAN]
          /\ Append(runs[m], tip[m]) \in Seq(Nat)
      BY DEF BoardType, RepoType
    <3>1. ci' \in [Missions -> [commit : Nat, green : BOOLEAN] \cup {None}]
      <4>1. ci' = ci \/ ci' = [ci EXCEPT ![m] = [commit |-> tip[m], green |-> FALSE]]
        BY <2>2 DEF StartCi
      <4>. QED
        BY <3>0, <4>1 DEF BoardType
    <3>2. runs' \in [Missions -> Seq(Nat)]
      <4>1. runs' = runs \/ runs' = [runs EXCEPT ![m] = Append(@, tip[m])]
        BY <2>2 DEF StartCi
      <4>. QED
        BY <3>0, <4>1 DEF BoardType
    <3>3. {started, crashes, reopens}' \subseteq Nat
      BY <2>2 DEF StartCi, BoardType
    <3>. QED
      BY <2>2, <3>1, <3>2, <3>3 DEF StartCi, fixed, BoardType
  <2>3. CASE CompleteCi(m)
    <3>1. Head(runs[m]) \in Nat /\ Tail(runs[m]) \in Seq(Nat)
      BY <2>3 DEF CompleteCi, BoardType
    <3>2. ci' \in [Missions -> [commit : Nat, green : BOOLEAN] \cup {None}]
      BY <2>3, <3>1 DEF CompleteCi, BoardType
    <3>3. tested' \in [Missions -> SUBSET Nat]
      BY <2>3 DEF CompleteCi, BoardType, RepoType
    <3>4. runs' \in [Missions -> Seq(Nat)]
      BY <2>3, <3>1 DEF CompleteCi, BoardType
    <3>. QED
      BY <2>3, <3>2, <3>3, <3>4 DEF CompleteCi, fixed, BoardType
  <2>. QED
    BY <2>1, <2>2, <2>3
<1>. QED
  BY <1>2, <1>4, <1>5, <1>6, <1>7

(* Every step keeps the types.                                             *)
LEMMA TypeStep == TypeInv /\ [Next]_vars => TypeInv'
<1> SUFFICES ASSUME TypeInv, [Next]_vars PROVE TypeInv'
  OBVIOUS
<1>1. CASE \E m \in Missions : \/ Commit(m) \/ Reopen(m) \/ Declare(m) \/ Widen(m)
                               \/ StartCi(m) \/ CompleteCi(m)
  BY <1>1, BranchStepType
<1>2. CASE \E r \in Reviewers, m \in Missions : SubmitReview(r, m)
  BY <1>2, SubmitReviewType
<1>3. CASE \E c \in Calls : MergeStep(c) \/ \E m \in Missions : Ask(c, m)
  BY <1>3, CallStepType
<1>4. CASE Abort
  <2>1. TypeOK' /\ Shape'
    BY <1>4
    DEF Abort, TypeInv, TypeOK, BoardType, RepoType, CallType, Shape, fixed, cis, call
  <2>. QED
    BY <1>4, <2>1, CountedStays DEF Abort, TypeInv
<1>5. CASE Crash
  <2>1. BoardType' /\ RepoType'
    BY <1>5 DEF Crash, TypeInv, TypeOK, BoardType, RepoType, fixed, repo
  <2>2. CallType' /\ Shape'
    BY <1>5 DEF Crash, CallType, Shape, Steps
  <2>. QED
    BY <1>5, <2>1, <2>2, CountedStays DEF Crash, TypeInv, TypeOK
<1>6. CASE UNCHANGED vars
  <2>1. TypeOK' /\ Shape'
    BY <1>6
    DEF vars, TypeInv, TypeOK, BoardType, RepoType, CallType, Shape, fixed, repo, cis, call
  <2>. QED
    BY <1>6, <2>1, CountedStays DEF vars, TypeInv
<1>. QED
  BY <1>1, <1>2, <1>3, <1>4, <1>5, <1>6 DEF Next

(* The types hold in every behaviour.                                      *)
LEMMA TypeInvariant == Spec => []TypeInv
BY TypeInit, TypeStep, PTL DEF Spec

(* The board, the branches and the calls stay well typed, and no review    *)
(* replaces another one: the round counted from a reviewer's own history   *)
(* is new for the branch.                                                  *)
THEOREM TypeCorrect == Spec => []TypeOK
<1>1. TypeInv => TypeOK
  BY DEF TypeInv
<1>. QED
  BY <1>1, TypeInvariant, PTL

(* ---------------------------------------------------------------------- *)
(* What the gates that a call has passed still say, as long as nobody      *)
(* moves a branch that is being merged                                     *)

(* A green record of the branch's present tip was earned by that tip.      *)
Earned ==
  \A m \in Missions :
    /\ \A i \in DOMAIN runs[m] : runs[m][i] <= tip[m]
    /\ ci[m] # None => /\ ci[m].commit <= tip[m]
                       /\ Green(m, tip[m]) => tip[m] \in tested[m]

(* v answers every objection known when call c was made.                   *)
Answers(c, v) ==
  v \in OfBranch(job[c]) /\ v.clean /\ \A n \in asked[c] : n < v.round

Gate(c) ==
  /\ pc[c] = "reviews" => asked[c] \subseteq Objected(job[c])
  /\ pc[c] = "tip" => latest[c] # {} /\ \A v \in latest[c] : Answers(c, v)
  /\ pc[c] \in {"scope", "ci", "merge"} =>
       seenTip[c] = tip[job[c]] /\ \E v \in reviews : Answers(c, v) /\ v.at = tip[job[c]]
  /\ pc[c] \in {"ci", "merge"} =>
       scope[c] \/ Listed(job[c]) = {}
  /\ pc[c] = "merge" /\ ciOn => tip[job[c]] \in tested[job[c]]

GateInv == \A c \in Calls : Gate(c)

(* A step that another actor takes.                                        *)
Bystands(c) ==
  /\ pc'[c] = pc[c] /\ job'[c] = job[c] /\ scope'[c] = scope[c]
  /\ latest'[c] = latest[c] /\ seenTip'[c] = seenTip[c] /\ asked'[c] = asked[c]
  /\ UNCHANGED ciOn /\ reviews \subseteq reviews'
  /\ pc[c] # "idle" => /\ tip'[job[c]] = tip[job[c]]
                       /\ landed'[job[c]] \in {landed[job[c]], tip[job[c]]}
                       /\ tested[job[c]] \subseteq tested'[job[c]]

(* What holds at a step of a call while another call moves.                *)
LEMMA BystanderGate ==
  ASSUME TypeInv, NEW c \in Calls, Gate(c), Bystands(c), TypeInv'
  PROVE  Gate(c)'
<1>1. CASE pc[c] = "idle"
  BY <1>1 DEF Gate, Bystands
<1>2. CASE pc[c] # "idle"
  <2>1. job[c] \in Missions
    BY <1>2 DEF TypeInv, TypeOK, CallType, Shape
  <2>2. \A v : Answers(c, v) => Answers(c, v)'
    BY DEF Answers, OfBranch, Bystands
  <2>3. Objected(job[c]) \subseteq Objected(job[c])'
    BY DEF Objected, OfBranch, Bystands
  <2>4. Listed(job[c])' \subseteq Listed(job[c])
    BY <1>2 DEF Listed, Held, Bystands
  <2>5. pc[c] = "reviews" => asked'[c] \subseteq Objected(job[c])'
    BY <2>3 DEF Gate, Bystands
  <2>6. pc[c] = "tip" => latest'[c] # {} /\ \A v \in latest'[c] : Answers(c, v)'
    BY <2>2 DEF Gate, Bystands
  <2>7. pc[c] \in {"scope", "ci", "merge"} =>
          /\ seenTip'[c] = tip'[job'[c]]
          /\ \E v \in reviews' : Answers(c, v)' /\ v.at = tip'[job'[c]]
    BY <1>2, <2>2 DEF Gate, Bystands
  <2>8. pc[c] \in {"ci", "merge"} =>
          scope'[c] \/ Listed(job[c])' = {}
    BY <2>4 DEF Gate, Bystands, Listed, Held
  <2>9. pc[c] = "merge" /\ ciOn' => tip'[job'[c]] \in tested'[job'[c]]
    BY <1>2 DEF Gate, Bystands
  <2>. QED
    BY <2>5, <2>6, <2>7, <2>8, <2>9 DEF Gate, Bystands
<1>. QED
  BY <1>1, <1>2

(* What each step does to CI's records and to the branches.                *)
LEMMA EarnedStep == TypeInv /\ Earned /\ [Next]_vars => Earned'
<1> SUFFICES ASSUME TypeInv, Earned, [Next]_vars PROVE Earned'
  OBVIOUS
<1>0. /\ tip \in [Missions -> Nat]
      /\ runs \in [Missions -> Seq(Nat)]
      /\ ci \in [Missions -> [commit : Nat, green : BOOLEAN] \cup {None}]
      /\ tested \in [Missions -> SUBSET Nat]
  BY DEF TypeInv, TypeOK, BoardType, RepoType
<1>1. ASSUME NEW m \in Missions, Commit(m) PROVE Earned'
  <2>1. \A k \in Missions : tip'[k] = IF k = m THEN tip[k] + 1 ELSE tip[k]
    BY <1>0, <1>1 DEF Commit
  <2>2. UNCHANGED cis
    BY <1>1 DEF Commit
  <2>3. ASSUME NEW k \in Missions, NEW i \in DOMAIN runs[k] PROVE runs[k][i] <= tip'[k]
    <3>1. runs[k][i] \in Nat /\ tip[k] \in Nat /\ runs[k][i] <= tip[k]
      BY <1>0 DEF Earned
    <3>. QED
      BY <2>1, <3>1
  <2>4. ASSUME NEW k \in Missions, ci[k] # None
        PROVE  /\ ci[k].commit <= tip'[k]
               /\ Green(k, tip'[k]) => tip'[k] \in tested[k]
    <3>1. ci[k].commit \in Nat /\ tip[k] \in Nat /\ ci[k].commit <= tip[k]
      BY <1>0, <2>4 DEF Earned
    <3>. QED
      BY <2>1, <3>1 DEF Earned, Green
  <2>. QED
    BY <2>2, <2>3, <2>4 DEF Earned, cis, Green
<1>2. ASSUME NEW m \in Missions, StartCi(m) PROVE Earned'
  <2>1. UNCHANGED <<tip, tested>>
    BY <1>2 DEF StartCi, repo
  <2>2. runs' = runs \/ runs' = [runs EXCEPT ![m] = Append(@, tip[m])]
    BY <1>2 DEF StartCi
  <2>3. ci' = ci \/ ci' = [ci EXCEPT ![m] = [commit |-> tip[m], green |-> FALSE]]
    BY <1>2 DEF StartCi
  <2>4. ASSUME NEW k \in Missions, NEW i \in DOMAIN runs'[k] PROVE runs'[k][i] <= tip[k]
    <3>1. tip[k] \in Nat /\ runs[k] \in Seq(Nat)
      BY <1>0
    <3>2. \/ runs'[k] = runs[k]
          \/ runs'[k] = Append(runs[k], tip[k])
      BY <1>0, <2>2
    <3>3. runs'[k][i] = tip[k] \/ (i \in DOMAIN runs[k] /\ runs'[k][i] = runs[k][i])
      BY <3>1, <3>2
    <3>. QED
      BY <3>1, <3>3 DEF Earned
  <2>5. ASSUME NEW k \in Missions, ci'[k] # None
        PROVE  ci'[k].commit <= tip[k] /\ (Green(k, tip[k])' => tip[k] \in tested[k])
    <3>1. ci'[k] = ci[k] \/ ci'[k] = [commit |-> tip[k], green |-> FALSE]
      BY <1>0, <2>3
    <3>. QED
      BY <1>0, <2>1, <2>5, <3>1 DEF Earned, Green
  <2>. QED
    BY <2>1, <2>4, <2>5 DEF Earned, Green
<1>3. ASSUME NEW m \in Missions, CompleteCi(m) PROVE Earned'
  <2>1. UNCHANGED tip /\ runs[m] # <<>>
    BY <1>3 DEF CompleteCi, repo
  <2>2. PICK green \in BOOLEAN :
          /\ ci' = [ci EXCEPT ![m] = [commit |-> Head(runs[m]), green |-> green]]
          /\ tested' = [tested EXCEPT ![m] = IF green THEN @ \cup {tip[m]} ELSE @]
    BY <1>3 DEF CompleteCi
  <2>3. runs' = [runs EXCEPT ![m] = Tail(@)]
    BY <1>3 DEF CompleteCi
  <2>4. ASSUME NEW k \in Missions, NEW i \in DOMAIN runs'[k] PROVE runs'[k][i] <= tip[k]
    <3>1. runs[k] \in Seq(Nat)
      BY <1>0
    <3>2. \/ runs'[k] = runs[k]
          \/ k = m /\ runs'[k] = Tail(runs[k])
      BY <1>0, <2>3
    <3>3. \E j \in DOMAIN runs[k] : runs'[k][i] = runs[k][j]
      <4>1. CASE runs'[k] = runs[k]
        BY <4>1
      <4>2. CASE k = m /\ runs'[k] = Tail(runs[k])
        <5>1. i + 1 \in DOMAIN runs[k] /\ runs'[k][i] = runs[k][i + 1]
          BY <2>1, <3>1, <4>2
        <5>. QED
          BY <5>1
      <4>. QED
        BY <3>2, <4>1, <4>2
    <3>. QED
      BY <3>3 DEF Earned
  <2>5. ASSUME NEW k \in Missions, ci'[k] # None
        PROVE  ci'[k].commit <= tip[k] /\ (Green(k, tip[k])' => tip[k] \in tested'[k])
    <3>1. CASE k = m
      <4>1. ci'[k] = [commit |-> Head(runs[k]), green |-> green]
        BY <1>0, <2>2, <3>1
      <4>2. 1 \in DOMAIN runs[k] /\ Head(runs[k]) = runs[k][1]
        BY <1>0, <2>1, <3>1
      <4>3. green = TRUE => tip[k] \in tested'[k]
        BY <1>0, <2>2, <3>1
      <4>4. Head(runs[k]) <= tip[k]
        BY <4>2 DEF Earned
      <4>5. Green(k, tip[k])' => tip[k] \in tested'[k]
        BY <2>1, <4>1, <4>3 DEF Green
      <4>6. ci'[k].commit <= tip[k]
        BY <4>1, <4>4
      <4>. QED
        BY <4>5, <4>6
    <3>2. CASE k # m
      <4>1. ci'[k] = ci[k] /\ tested'[k] = tested[k]
        BY <1>0, <2>2, <3>2
      <4>. QED
        BY <2>1, <2>5, <4>1 DEF Earned, Green
    <3>. QED
      BY <3>1, <3>2
  <2>. QED
    BY <2>1, <2>4, <2>5 DEF Earned, Green
<1>4. CASE UNCHANGED <<tip, ci, runs, tested>>
  BY <1>4 DEF Earned, Green
<1>5. CASE Crash
  BY <1>5 DEF Crash, repo, Earned, Green
<1>6. ASSUME NEW c \in Calls, MergeStep(c) PROVE UNCHANGED <<tip, ci, runs, tested>>
  BY <1>6 DEF MergeStep, SurveyDiff, ReadReviews, CheckTip, CheckScope, CheckCi,
              MergeNoFf, MergeFails, Save, board, repo, cis
<1>7. ASSUME NEW c \in Calls, NEW m \in Missions, Ask(c, m)
      PROVE  UNCHANGED <<tip, ci, runs, tested>>
  BY <1>7 DEF Ask, board, repo, cis
<1>8. ASSUME NEW m \in Missions, Reopen(m) \/ Declare(m) \/ Widen(m)
      PROVE  UNCHANGED <<tip, ci, runs, tested>>
  BY <1>8 DEF Reopen, Declare, Widen, repo, cis
<1>9. ASSUME NEW r \in Reviewers, NEW m \in Missions, SubmitReview(r, m)
      PROVE  UNCHANGED <<tip, ci, runs, tested>>
  BY <1>9 DEF SubmitReview, repo, cis
<1>10. Abort \/ UNCHANGED vars => UNCHANGED <<tip, ci, runs, tested>>
  BY DEF Abort, vars, repo, cis
<1>. QED
  BY <1>1, <1>2, <1>3, <1>4, <1>5, <1>6, <1>7, <1>8, <1>9, <1>10 DEF Next

(* A call that passes a gate knows what the gate asked for.                *)
LEMMA OwnGate ==
  ASSUME TypeInv, Earned, NEW c \in Calls, Gate(c),
         MergeStep(c) \/ \E m \in Missions : Ask(c, m)
  PROVE  Gate(c)'
<1>0. /\ pc \in [Calls -> Steps] /\ job \in [Calls -> Missions \cup {None}]
      /\ latest \in [Calls -> SUBSET Review] /\ asked \in [Calls -> SUBSET Nat]
      /\ seenTip \in [Calls -> Nat]
      /\ pc[c] # "idle" => job[c] \in Missions
  BY DEF TypeInv, TypeOK, CallType, Shape
<1>1. ASSUME pc'[c] \in {"idle", "diff", "save"} PROVE Gate(c)'
  BY <1>1 DEF Gate
<1>2. ASSUME Return(c) PROVE Gate(c)'
  BY <1>0, <1>1, <1>2 DEF Return
<1>3. ASSUME NEW step, Goto(c, step) PROVE pc'[c] = step
  BY <1>0, <1>3 DEF Goto
<1>4. CASE \E m \in Missions : Ask(c, m)
  <2>1. PICK m \in Missions : Ask(c, m)
    BY <1>4
  <2>2. pc'[c] \in {"diff", "reviews"} /\ job'[c] = m /\ asked'[c] = Objected(m)
    BY <1>0, <2>1 DEF Ask
  <2>3. Objected(m)' = Objected(m)
    BY <2>1 DEF Ask, board, Objected, OfBranch
  <2>. QED
    BY <2>2, <2>3 DEF Gate
<1>5. CASE SurveyDiff(c)
  BY <1>1, <1>2, <1>3, <1>5 DEF SurveyDiff
<1>6. CASE ReadReviews(c)
  <2>1. CASE Return(c)
    BY <1>2, <2>1
  <2>2. CASE ~Return(c)
    <3>1. /\ Goto(c, "tip") /\ LatestRound(job[c]) # {} /\ Clean(LatestRound(job[c]))
          /\ latest'[c] = LatestRound(job[c]) /\ UNCHANGED reviews
      BY <1>0, <1>6, <2>2 DEF ReadReviews, board
    <3>2. pc'[c] = "tip" /\ job'[c] = job[c] /\ asked'[c] = asked[c]
      BY <1>3, <3>1 DEF Goto
    <3>3. asked[c] \subseteq Objected(job[c])
      BY <1>6 DEF ReadReviews, Gate
    <3>4. ASSUME NEW v \in LatestRound(job[c]), NEW n \in asked[c] PROVE n < v.round
      <4>1. PICK w \in OfBranch(job[c]) : ~w.clean /\ n = w.round
        BY <3>3 DEF Objected
      <4>2. v.round \in Nat /\ w.round \in Nat /\ w.round <= v.round
        BY DEF LatestRound, OfBranch, TypeInv, TypeOK, BoardType, Review
      <4>3. CASE w.round = v.round
        <5>1. w \in LatestRound(job[c])
          BY <4>3 DEF LatestRound
        <5>. QED
          BY <3>1, <4>1, <5>1 DEF Clean
      <4>. QED
        BY <4>1, <4>2, <4>3
    <3>5. \A v \in LatestRound(job[c]) : v.clean /\ v \in OfBranch(job[c])
      BY <3>1 DEF Clean, LatestRound
    <3>6. \A v \in latest'[c] : Answers(c, v)'
      BY <3>1, <3>2, <3>4, <3>5 DEF Answers, OfBranch
    <3>. QED
      BY <3>1, <3>2, <3>6 DEF Gate
  <2>. QED
    BY <2>1, <2>2
<1>7. CASE CheckTip(c)
  <2>1. CASE Return(c)
    BY <1>2, <2>1
  <2>2. CASE ~Return(c)
    <3>1. /\ Goto(c, "scope") /\ \A v \in latest[c] : v.at = tip[job[c]]
          /\ seenTip'[c] = tip[job[c]] /\ UNCHANGED <<reviews, tip>>
      BY <1>0, <1>7, <2>2 DEF CheckTip, board, repo
    <3>2. pc'[c] = "scope" /\ job'[c] = job[c] /\ asked'[c] = asked[c]
      BY <1>3, <3>1 DEF Goto
    <3>3. PICK v \in latest[c] : Answers(c, v)
      BY <1>7 DEF CheckTip, Gate
    <3>4. Answers(c, v)' /\ v \in reviews'
      BY <3>1, <3>2, <3>3 DEF Answers, OfBranch
    <3>. QED
      BY <3>1, <3>2, <3>4 DEF Gate
  <2>. QED
    BY <2>1, <2>2
<1>8. ASSUME pc[c] \in {"scope", "ci"}, UNCHANGED board, UNCHANGED <<latest, seenTip>>,
             NEW step \in {"ci", "merge"}, Goto(c, step),
             ~OutOfScope(c), step = "merge" /\ ciOn => tip[job[c]] \in tested[job[c]]
      PROVE  Gate(c)'
  <2>1. /\ pc'[c] = step /\ job'[c] = job[c] /\ asked'[c] = asked[c] /\ scope'[c] = scope[c]
        /\ seenTip'[c] = seenTip[c] /\ UNCHANGED <<reviews, tip, landed, tested, ciOn>>
    BY <1>3, <1>8 DEF Goto, board, repo, cis, fixed
  <2>2. PICK v \in reviews : Answers(c, v) /\ v.at = tip[job[c]]
    BY <1>8 DEF Gate
  <2>3. Answers(c, v)' /\ v \in reviews'
    BY <2>1, <2>2 DEF Answers, OfBranch
  <2>4. seenTip'[c] = tip'[job'[c]] /\ v.at = tip'[job'[c]]
    BY <1>8, <2>1, <2>2 DEF Gate
  <2>5. scope'[c] \/ Listed(job[c])' = {}
    BY <1>8, <2>1 DEF OutOfScope, Listed, Held
  <2>6. step = "merge" /\ ciOn' => tip'[job'[c]] \in tested'[job'[c]]
    BY <1>8, <2>1
  <2>. QED
    BY <2>1, <2>3, <2>4, <2>5, <2>6 DEF Gate
<1>9. CASE CheckScope(c)
  BY <1>2, <1>8, <1>9 DEF CheckScope
<1>10. CASE CheckCi(c)
  <2>1. pc[c] = "ci" /\ UNCHANGED board
    BY <1>10 DEF CheckCi
  <2>2. ~OutOfScope(c)
    BY <2>1 DEF Gate, OutOfScope
  <2>3. Green(job[c], seenTip[c]) => tip[job[c]] \in tested[job[c]]
    BY <1>0, <2>1 DEF Gate, Earned, Green
  <2>. QED
    BY <1>2, <1>8, <1>10, <2>1, <2>2, <2>3 DEF CheckCi
<1>11. CASE MergeNoFf(c)
  BY <1>1, <1>3, <1>11 DEF MergeNoFf
<1>12. CASE MergeFails(c)
  BY <1>2, <1>12 DEF MergeFails
<1>13. CASE Save(c)
  BY <1>2, <1>13 DEF Save
<1>. QED
  BY <1>4, <1>5, <1>6, <1>7, <1>9, <1>10, <1>11, <1>12, <1>13 DEF MergeStep

(* A merge call's step goes by the other calls.                            *)
LEMMA OtherCalls ==
  ASSUME TypeInv, NEW c \in Calls, NEW d \in Calls, c # d,
         MergeStep(c) \/ \E m \in Missions : Ask(c, m)
  PROVE  Bystands(d)
<1>0. /\ pc \in [Calls -> Steps] /\ job \in [Calls -> Missions \cup {None}]
      /\ scope \in [Calls -> BOOLEAN] /\ latest \in [Calls -> SUBSET Review]
      /\ seenTip \in [Calls -> Nat] /\ asked \in [Calls -> SUBSET Nat]
      /\ tip \in [Missions -> Nat] /\ landed \in [Missions -> Nat]
      /\ \A m \in Missions : landed[m] <= tip[m]
      /\ \A e \in Calls : pc[e] # "idle" => job[e] \in Missions
  BY DEF TypeInv, TypeOK, CallType, RepoType, Shape
<1>1. Return(c) => /\ pc'[d] = pc[d] /\ job'[d] = job[d] /\ scope'[d] = scope[d]
                   /\ latest'[d] = latest[d] /\ seenTip'[d] = seenTip[d]
                   /\ asked'[d] = asked[d]
  BY <1>0 DEF Return
<1>2. ASSUME NEW step, Goto(c, step)
      PROVE  pc'[d] = pc[d] /\ job'[d] = job[d] /\ scope'[d] = scope[d] /\ asked'[d] = asked[d]
  BY <1>0, <1>2 DEF Goto
<1>3. ASSUME UNCHANGED board PROVE UNCHANGED <<ciOn, reviews, tip, landed, tested>>
  BY <1>3 DEF board, fixed, repo, cis
<1>4. CASE \E m \in Missions : Ask(c, m)
  BY <1>0, <1>3, <1>4 DEF Ask, Bystands
<1>5. CASE SurveyDiff(c)
  BY <1>0, <1>1, <1>2, <1>3, <1>5 DEF SurveyDiff, Bystands
<1>6. CASE ReadReviews(c)
  BY <1>0, <1>1, <1>2, <1>3, <1>6 DEF ReadReviews, Bystands
<1>7. CASE CheckTip(c)
  BY <1>0, <1>1, <1>2, <1>3, <1>7 DEF CheckTip, Bystands
<1>8. CASE CheckScope(c)
  BY <1>0, <1>1, <1>2, <1>3, <1>8 DEF CheckScope, Bystands
<1>9. CASE CheckCi(c)
  BY <1>0, <1>1, <1>2, <1>3, <1>9 DEF CheckCi, Bystands
<1>10. CASE MergeNoFf(c)
  <2>1. UNCHANGED <<ciOn, reviews, tip, tested, latest, seenTip>> /\ job[c] \in Missions
    BY <1>0, <1>10 DEF MergeNoFf, fixed, cis
  <2>2. \A m \in Missions : landed[m] <= landed'[m]
    BY <1>0, <1>10, <2>1 DEF MergeNoFf
  <2>. QED
    BY <1>0, <1>2, <1>10, <2>1, <2>2 DEF MergeNoFf, Bystands
<1>11. CASE MergeFails(c)
  <2>1. UNCHANGED <<ciOn, reviews, tip, landed, tested>>
    BY <1>11 DEF MergeFails, fixed, cis
  <2>. QED
    BY <1>0, <1>1, <1>11, <2>1 DEF MergeFails, Bystands
<1>12. CASE Save(c)
  <2>1. UNCHANGED <<ciOn, reviews, tip, landed, tested>>
    BY <1>12 DEF Save, fixed, cis, repo
  <2>. QED
    BY <1>0, <1>1, <1>12, <2>1 DEF Save, Bystands
<1>. QED
  BY <1>4, <1>5, <1>6, <1>7, <1>8, <1>9, <1>10, <1>11, <1>12 DEF MergeStep

(* So does a step of the workers, the reviewers, CI or the owner, if the   *)
(* workers leave alone what is being merged.                               *)
LEMMA OtherActors ==
  ASSUME "merge" \in Discipline, TypeInv, NEW d \in Calls,
         \/ \E m \in Missions : \/ Commit(m) \/ Reopen(m) \/ Declare(m) \/ Widen(m)
                                \/ StartCi(m) \/ CompleteCi(m)
         \/ \E r \in Reviewers, m \in Missions : SubmitReview(r, m)
         \/ Abort \/ UNCHANGED vars
  PROVE  Bystands(d)
<1>0. /\ tip \in [Missions -> Nat] /\ landed \in [Missions -> Nat]
      /\ tested \in [Missions -> SUBSET Nat]
      /\ pc[d] # "idle" => job[d] \in Missions
  BY DEF TypeInv, TypeOK, BoardType, CallType, RepoType, Shape
<1>1. UNCHANGED <<call, ciOn>> /\ reviews \subseteq reviews'
  BY DEF Commit, Reopen, Declare, Widen, StartCi, CompleteCi, SubmitReview, Abort, vars, fixed
<1>2. \A k \in Missions : landed'[k] = landed[k] /\ tested[k] \subseteq tested'[k]
  <2>1. UNCHANGED landed
    BY DEF Commit, Reopen, Declare, Widen, StartCi, CompleteCi, SubmitReview, Abort, vars, repo
  <2>2. CASE \E m \in Missions : CompleteCi(m)
    BY <1>0, <2>1, <2>2 DEF CompleteCi
  <2>3. CASE ~\E m \in Missions : CompleteCi(m)
    <3>1. UNCHANGED tested
      BY <2>3 DEF Commit, Reopen, Declare, Widen, StartCi, SubmitReview, Abort, vars, cis
    <3>. QED
      BY <2>1, <3>1
  <2>. QED
    BY <2>2, <2>3
<1>3. pc[d] # "idle" => tip'[job[d]] = tip[job[d]]
  <2>1. CASE \E m \in Missions : Commit(m)
    BY <1>0, <2>1 DEF Commit
  <2>2. CASE ~\E m \in Missions : Commit(m)
    BY <2>2 DEF Reopen, Declare, Widen, StartCi, CompleteCi, SubmitReview, Abort, vars, repo
  <2>. QED
    BY <2>1, <2>2
<1>. QED
  BY <1>0, <1>1, <1>2, <1>3 DEF Bystands, call

(* Every step keeps the gate.                                              *)
LEMMA GateStep ==
  ASSUME "merge" \in Discipline
  PROVE  TypeInv /\ Earned /\ GateInv /\ [Next]_vars => GateInv'
<1> SUFFICES ASSUME TypeInv, Earned, GateInv, [Next]_vars, NEW d \in Calls PROVE Gate(d)'
  BY DEF GateInv
<1>1. TypeInv' /\ Gate(d)
  BY TypeStep DEF GateInv
<1>2. CASE \E c \in Calls : MergeStep(c) \/ \E m \in Missions : Ask(c, m)
  BY <1>1, <1>2, OwnGate, OtherCalls, BystanderGate
<1>3. CASE Crash
  BY <1>3 DEF Crash, Gate
<1>4. CASE \/ \E m \in Missions : \/ Commit(m) \/ Reopen(m) \/ Declare(m) \/ Widen(m)
                                  \/ StartCi(m) \/ CompleteCi(m)
           \/ \E r \in Reviewers, m \in Missions : SubmitReview(r, m)
           \/ Abort \/ UNCHANGED vars
  BY <1>1, <1>4, OtherActors, BystanderGate
<1>. QED
  BY <1>2, <1>3, <1>4 DEF Next

(* The gate holds in every behaviour.                                      *)
LEMMA GateInvariant ==
  ASSUME "merge" \in Discipline
  PROVE  Spec => [](TypeInv /\ Earned /\ GateInv)
<1>1. Init => Earned /\ GateInv
  BY DEF Init, Earned, GateInv, Gate
<1>. QED
  BY <1>1, TypeInit, TypeStep, EarnedStep, GateStep, PTL DEF Spec

(* Every objection known when a merge was asked for is answered by a clean *)
(* review, of a later round, of the commit that lands: several reviewers   *)
(* write rounds and other merges run while the gates are passed.           *)
THEOREM ObjectionsAnswered ==
  ASSUME "merge" \in Discipline
  PROVE  Spec => ObjectionsAreAnswered
<1>1. ASSUME TypeInv, GateInv, [Next]_vars,
             NEW c \in Calls, pc[c] = "merge", pc'[c] = "save"
      PROVE  \E v \in OfBranch(job[c]) :
               v.clean /\ (\A n \in asked[c] : n < v.round) /\ v.at = landed'[job[c]]
  <2>1. MergeNoFf(c)
    <3>1. ~Bystands(c)
      BY <1>1 DEF Bystands
    <3>2. ~Crash
      BY <1>1 DEF Crash
    <3>3. UNCHANGED vars => pc'[c] = pc[c]
      BY DEF vars, call
    <3>4. MergeStep(c) \/ \E m \in Missions : Ask(c, m)
      BY <1>1, <3>1, <3>2, <3>3, OtherCalls, OtherActors DEF Next
    <3>5. ~Return(c)
      BY <1>1 DEF Return, TypeInv, TypeOK, CallType
    <3>. QED
      BY <1>1, <3>4, <3>5 DEF MergeStep, Ask, SurveyDiff, ReadReviews, CheckTip, CheckScope,
                              CheckCi, MergeFails, Save
  <2>2. landed'[job[c]] = tip[job[c]]
    BY <1>1, <2>1 DEF MergeNoFf, TypeInv, TypeOK, RepoType, CallType, Shape
  <2>3. PICK v \in reviews : Answers(c, v) /\ v.at = tip[job[c]]
    BY <1>1 DEF GateInv, Gate
  <2>. QED
    BY <2>2, <2>3 DEF Answers
<1>2. TypeInv /\ GateInv /\ [Next]_vars =>
        [\A c \in Calls : pc[c] = "merge" /\ pc'[c] = "save" =>
           \E v \in OfBranch(job[c]) :
             v.clean /\ (\A n \in asked[c] : n < v.round) /\ v.at = landed'[job[c]]]_vars
  BY <1>1
<1>. QED
  BY <1>2, GateInvariant, PTL DEF Spec, ObjectionsAreAnswered

(* ---------------------------------------------------------------------- *)
(* What lands                                                              *)

(* Nothing on record is taken back.                                        *)
LEMMA Monotone ==
  ASSUME TypeInv, [Next]_vars
  PROVE  /\ UNCHANGED <<kind, ciOn>> /\ reviews \subseteq reviews'
         /\ \A m \in Missions : (wide[m] => wide'[m]) /\ tested[m] \subseteq tested'[m]
<1>0. wide \in [Missions -> BOOLEAN] /\ tested \in [Missions -> SUBSET Nat]
  BY DEF TypeInv, TypeOK, BoardType
<1>1. ASSUME NEW c \in Calls, MergeStep(c) \/ \E m \in Missions : Ask(c, m)
      PROVE  UNCHANGED <<fixed, wide, tested, reviews>>
  BY <1>1 DEF MergeStep, Ask, SurveyDiff, ReadReviews, CheckTip, CheckScope, CheckCi,
              MergeNoFf, MergeFails, Save, board, cis
<1>2. ASSUME NEW m \in Missions, Widen(m)
      PROVE  wide' = [wide EXCEPT ![m] = TRUE] /\ UNCHANGED <<fixed, tested, reviews>>
  BY <1>2 DEF Widen, cis
<1>3. ASSUME NEW m \in Missions, CompleteCi(m)
      PROVE  /\ \A k \in Missions : tested[k] \subseteq tested'[k]
             /\ UNCHANGED <<fixed, wide, reviews>>
  BY <1>0, <1>3 DEF CompleteCi
<1>4. ASSUME NEW r \in Reviewers, NEW m \in Missions, SubmitReview(r, m)
      PROVE  reviews \subseteq reviews' /\ UNCHANGED <<fixed, wide, tested>>
  BY <1>4 DEF SubmitReview, cis
<1>5. ASSUME NEW m \in Missions, Commit(m) \/ Reopen(m) \/ Declare(m) \/ StartCi(m)
      PROVE  UNCHANGED <<fixed, wide, tested, reviews>>
  BY <1>5 DEF Commit, Reopen, Declare, StartCi, cis
<1>6. Abort \/ Crash \/ UNCHANGED vars => UNCHANGED <<fixed, wide, tested, reviews>>
  BY DEF Abort, Crash, vars, cis
<1>. QED
  BY <1>0, <1>1, <1>2, <1>3, <1>4, <1>5, <1>6 DEF Next, fixed

(* Only `git merge' moves the base, and it takes the tip.                  *)
LEMMA Landing ==
  ASSUME TypeInv, [Next]_vars
  PROVE  \/ UNCHANGED landed
         \/ \E c \in Calls : /\ pc[c] = "merge" /\ job[c] \in Missions
                             /\ landed' = [landed EXCEPT ![job[c]] = tip[job[c]]]
                             /\ landed'[job[c]] = tip[job[c]]
                             /\ kind[job[c]] = "build"
<1>1. ASSUME NEW c \in Calls, MergeNoFf(c)
      PROVE  /\ pc[c] = "merge" /\ job[c] \in Missions
             /\ landed' = [landed EXCEPT ![job[c]] = tip[job[c]]]
             /\ landed'[job[c]] = tip[job[c]]
             /\ kind[job[c]] = "build"
  BY <1>1 DEF MergeNoFf, TypeInv, TypeOK, RepoType, CallType, Shape
<1>2. ASSUME NEW c \in Calls, MergeStep(c), ~MergeNoFf(c) PROVE UNCHANGED landed
  BY <1>2 DEF MergeStep, SurveyDiff, ReadReviews, CheckTip, CheckScope, CheckCi,
              MergeFails, Save, board, repo
<1>3. ASSUME NEW c \in Calls, NEW m \in Missions, Ask(c, m) PROVE UNCHANGED landed
  BY <1>3 DEF Ask, board, repo
<1>4. ASSUME NEW m \in Missions, \/ Commit(m) \/ Reopen(m) \/ Declare(m) \/ Widen(m)
                                 \/ StartCi(m) \/ CompleteCi(m)
      PROVE  UNCHANGED landed
  BY <1>4 DEF Commit, Reopen, Declare, Widen, StartCi, CompleteCi, repo
<1>5. ASSUME NEW r \in Reviewers, NEW m \in Missions, SubmitReview(r, m)
      PROVE  UNCHANGED landed
  BY <1>5 DEF SubmitReview, repo
<1>6. Abort \/ Crash \/ UNCHANGED vars => UNCHANGED landed
  BY DEF Abort, Crash, vars, repo
<1>. QED
  BY <1>1, <1>2, <1>3, <1>4, <1>5, <1>6 DEF Next

(* With CI configured nothing lands that a green run has not executed,     *)
(* whatever happens between the capture of the tip and the merge.          *)
THEOREM TestedLands ==
  ASSUME "merge" \in Discipline
  PROVE  Spec => []OnlyTestedLands
<1>1. Init => OnlyTestedLands
  BY DEF Init, OnlyTestedLands
<1>2. TypeInv /\ GateInv /\ OnlyTestedLands /\ [Next]_vars => OnlyTestedLands'
  <2> SUFFICES ASSUME TypeInv, GateInv, OnlyTestedLands, [Next]_vars, ciOn',
                      NEW m \in Missions, landed'[m] # 0
               PROVE  landed'[m] \in tested'[m]
    BY DEF OnlyTestedLands
  <2>1. ciOn /\ tested[m] \subseteq tested'[m]
    BY Monotone
  <2>2. CASE landed'[m] = landed[m]
    BY <2>1, <2>2 DEF OnlyTestedLands
  <2>3. CASE landed'[m] # landed[m]
    <3>1. PICK c \in Calls : pc[c] = "merge" /\ job[c] = m /\ landed'[m] = tip[m]
      BY <2>3, Landing DEF TypeInv, TypeOK, RepoType
    <3>2. tip[m] \in tested[m]
      BY <2>1, <3>1 DEF GateInv, Gate
    <3>. QED
      BY <2>1, <3>1, <3>2
  <2>. QED
    BY <2>2, <2>3
<1>. QED
  BY <1>1, <1>2, GateInvariant, PTL DEF Spec

(* The base takes no change to a file outside the mission's scope unless   *)
(* the tower has widened it, although the scope judged is the one loaded   *)
(* before all gates and only the net change is judged; moves into the      *)
(* scope are no such change.                                               *)
THEOREM ScopedLands ==
  ASSUME "merge" \in Discipline
  PROVE  Spec => []OnlyScopedLands
<1>1. Init => OnlyScopedLands
  <2> SUFFICES ASSUME Init, NEW m \in Missions, NEW x \in Files
               PROVE  Held(m, landed[m], x) # "edited"
    BY DEF OnlyScopedLands
  <2>1. landed[m] = 0
    BY DEF Init
  <2>2. <<m, 0, x>> \notin Edited
    BY SetsAssumption
  <2>. QED
    BY <2>1, <2>2 DEF Held
<1>2. TypeInv /\ GateInv /\ OnlyScopedLands /\ [Next]_vars => OnlyScopedLands'
  <2> SUFFICES ASSUME TypeInv, GateInv, OnlyScopedLands, [Next]_vars,
                      NEW m \in Missions, NEW x \in Files, Held(m, landed[m], x)' = "edited"
               PROVE  wide'[m]
    BY DEF OnlyScopedLands
  <2>1. Held(m, landed'[m], x) = "edited"
    BY DEF Held
  <2>2. wide[m] => wide'[m]
    BY Monotone
  <2>3. CASE Held(m, landed[m], x) = "edited"
    BY <2>2, <2>3 DEF OnlyScopedLands
  <2>4. CASE Held(m, landed[m], x) # "edited"
    <3>0. landed'[m] # landed[m]
      BY <2>1, <2>4
    <3>1. PICK c \in Calls : pc[c] = "merge" /\ job[c] = m /\ landed'[m] = tip[m]
      BY <3>0, Landing DEF TypeInv, TypeOK, RepoType
    <3>2. x \in Listed(job[c])
      BY <2>1, <2>4, <3>1 DEF Listed
    <3>3. scope[c]
      BY <3>1, <3>2 DEF GateInv, Gate
    <3>. QED
      BY <2>2, <3>1, <3>3 DEF TypeInv, Shape
  <2>. QED
    BY <2>3, <2>4
<1>. QED
  BY <1>1, <1>2, GateInvariant, PTL DEF Spec

(* Reviews speak of what their reviewers have read.                        *)
Honest == \A v \in reviews : v.at = v.of

(* Every step keeps the reviews true.                                      *)
LEMMA HonestStep ==
  ASSUME "review" \in Discipline
  PROVE  Honest /\ [Next]_vars => Honest'
<1> SUFFICES ASSUME Honest, [Next]_vars PROVE Honest'
  OBVIOUS
<1>1. ASSUME NEW r \in Reviewers, NEW m \in Missions, SubmitReview(r, m) PROVE Honest'
  BY <1>1 DEF SubmitReview, Honest
<1>2. ASSUME NEW c \in Calls, MergeStep(c) \/ \E m \in Missions : Ask(c, m)
      PROVE  UNCHANGED reviews
  BY <1>2 DEF MergeStep, Ask, SurveyDiff, ReadReviews, CheckTip, CheckScope, CheckCi,
              MergeNoFf, MergeFails, Save, board
<1>3. ASSUME NEW m \in Missions, \/ Commit(m) \/ Reopen(m) \/ Declare(m) \/ Widen(m)
                                 \/ StartCi(m) \/ CompleteCi(m)
      PROVE  UNCHANGED reviews
  BY <1>3 DEF Commit, Reopen, Declare, Widen, StartCi, CompleteCi
<1>4. Abort \/ Crash \/ UNCHANGED vars => UNCHANGED reviews
  BY DEF Abort, Crash, vars
<1>. QED
  BY <1>1, <1>2, <1>3, <1>4 DEF Next, Honest

(* The reviews are true in every behaviour.                                *)
LEMMA ReviewedInvariant ==
  ASSUME {"review", "merge"} \subseteq Discipline
  PROVE  Spec => [](TypeInv /\ GateInv /\ Honest)
<1>1. Init => Honest
  BY DEF Init, Honest
<1>2. Honest /\ [Next]_vars => Honest'
  BY HonestStep
<1>3. Spec => [](TypeInv /\ Earned /\ GateInv)
  BY GateInvariant
<1>. QED
  BY <1>1, <1>2, <1>3, PTL DEF Spec

(* What is vouched for stays so: the base moves on only to a commit that   *)
(* has been read and found clean.                                          *)
LEMMA VouchedStays ==
  ASSUME TypeInv, GateInv, Honest, [Next]_vars, NEW m \in Missions,
         Vouched(m) \/ landed'[m] # landed[m]
  PROVE  Vouched(m)'
<1>1. reviews \subseteq reviews'
  BY Monotone
<1>2. CASE landed'[m] = landed[m]
  BY <1>1, <1>2 DEF Vouched, OfBranch
<1>3. CASE landed'[m] # landed[m]
  <2>1. PICK c \in Calls : pc[c] = "merge" /\ job[c] = m /\ landed'[m] = tip[m]
    BY <1>3, Landing DEF TypeInv, TypeOK, RepoType
  <2>2. PICK v \in reviews : Answers(c, v) /\ v.at = tip[m]
    BY <2>1 DEF GateInv, Gate
  <2>3. v \in OfBranch(m)' /\ v.clean /\ v.of = landed'[m]
    BY <1>1, <2>1, <2>2 DEF Answers, OfBranch, Honest
  <2>. QED
    BY <2>3 DEF Vouched
<1>. QED
  BY <1>2, <1>3

(* No commit reaches the base that a reviewer has not read and found       *)
(* clean, as long as a branch stands still while it is read and merged.    *)
THEOREM ReviewedLands ==
  ASSUME {"review", "merge"} \subseteq Discipline
  PROVE  Spec => []OnlyReviewedLands
<1>1. Init => OnlyReviewedLands
  BY DEF Init, OnlyReviewedLands
<1>2. TypeInv /\ GateInv /\ Honest /\ OnlyReviewedLands /\ [Next]_vars => OnlyReviewedLands'
  <2> SUFFICES ASSUME TypeInv, GateInv, Honest, OnlyReviewedLands, [Next]_vars,
                      NEW m \in Missions, landed'[m] # 0
               PROVE  Vouched(m)'
    BY DEF OnlyReviewedLands
  <2>. QED
    BY VouchedStays DEF OnlyReviewedLands
<1>. QED
  BY <1>1, <1>2, ReviewedInvariant, PTL DEF Spec

(* ---------------------------------------------------------------------- *)
(* What the board says of the base                                         *)

(* A call that is about to mark its mission has landed it, and the calls   *)
(* that run found their dependencies in the base.                          *)
Backed ==
  \A c \in Calls :
    /\ pc[c] = "save" /\ kind[job[c]] = "build" => Vouched(job[c])
    /\ pc[c] # "idle" =>
         \A d \in Deps[job[c]] : kind[d] = "build" => Vouched(d)

Delivered == MergedMeansLanded /\ DepsLandFirst /\ Backed

(* How the status of a mission and the state of a call come about.         *)
LEMMA StatusStep ==
  ASSUME "status" \in Discipline, TypeInv, [Next]_vars
  PROVE  /\ \A m \in Missions :
              status'[m] = "merged" =>
                status[m] = "merged" \/ \E c \in Calls : pc[c] = "save" /\ job[c] = m
         /\ \A c \in Calls :
              \/ pc'[c] = "idle"
              \/ job'[c] = job[c] /\ pc[c] # "idle" /\ (pc'[c] = pc[c] \/ pc'[c] # "save")
              \/ job'[c] = job[c] /\ pc[c] = "diff" /\ kind[job[c]] # "build"
              \/ job'[c] = job[c] /\ pc[c] = "merge" /\ MergeNoFf(c)
              \/ pc'[c] # "save" /\ job'[c] \in Missions /\ DepsMerged(job'[c])
<1>0. /\ pc \in [Calls -> Steps] /\ job \in [Calls -> Missions \cup {None}]
      /\ status \in [Missions -> {"open", "merged"}]
      /\ \A c \in Calls : pc[c] # "idle" => job[c] \in Missions
  BY DEF TypeInv, TypeOK, BoardType, CallType, Shape
<1> DEFINE Marked(m) == status'[m] = "merged" =>
                          status[m] = "merged" \/ \E c \in Calls : pc[c] = "save" /\ job[c] = m
           Goes(c) == \/ pc'[c] = "idle"
                      \/ job'[c] = job[c] /\ pc[c] # "idle" /\ (pc'[c] = pc[c] \/ pc'[c] # "save")
                      \/ job'[c] = job[c] /\ pc[c] = "diff" /\ kind[job[c]] # "build"
                      \/ job'[c] = job[c] /\ pc[c] = "merge" /\ MergeNoFf(c)
                      \/ pc'[c] # "save" /\ job'[c] \in Missions /\ DepsMerged(job'[c])
<1> SUFFICES (\A m \in Missions : Marked(m)) /\ (\A c \in Calls : Goes(c))
  OBVIOUS
<1>1. ASSUME NEW c \in Calls, MergeStep(c) \/ \E m \in Missions : Ask(c, m)
      PROVE  (\A m \in Missions : Marked(m)) /\ (\A d \in Calls : Goes(d))
  <2>1. ASSUME NEW d \in Calls, d # c PROVE Goes(d)
    <3>1. Bystands(d)
      BY <1>1, <2>1, OtherCalls
    <3>. QED
      BY <3>1 DEF Bystands
  <2>2. ASSUME ~Save(c) PROVE UNCHANGED status
    BY <1>1, <2>2 DEF MergeStep, Ask, SurveyDiff, ReadReviews, CheckTip, CheckScope,
                      CheckCi, MergeNoFf, MergeFails, board
  <2>3. Save(c) => pc[c] = "save" /\ status' = [status EXCEPT ![job[c]] = "merged"]
    BY DEF Save
  <2>4. ASSUME NEW m \in Missions PROVE Marked(m)
    BY <1>0, <2>2, <2>3
  <2>5. Goes(c)
    <3>1. Return(c) => pc'[c] = "idle"
      BY <1>0 DEF Return
    <3>2. ASSUME NEW step, Goto(c, step) PROVE pc'[c] = step /\ job'[c] = job[c]
      BY <1>0, <3>2 DEF Goto
    <3>3. CASE \E m \in Missions : Ask(c, m)
      BY <1>0, <3>3 DEF Ask
    <3>4. CASE SurveyDiff(c)
      <4>1. kind[job[c]] # "build"
        BY <3>4 DEF SurveyDiff, TypeInv, Shape
      <4>. QED
        BY <3>1, <3>2, <3>4, <4>1 DEF SurveyDiff
    <3>5. CASE ReadReviews(c)
      BY <3>1, <3>2, <3>5 DEF ReadReviews
    <3>6. CASE CheckTip(c)
      BY <3>1, <3>2, <3>6 DEF CheckTip
    <3>7. CASE CheckScope(c)
      BY <3>1, <3>2, <3>7 DEF CheckScope
    <3>8. CASE CheckCi(c)
      BY <3>1, <3>2, <3>8 DEF CheckCi
    <3>9. CASE MergeNoFf(c)
      <4>1. pc[c] = "merge" /\ job'[c] = job[c]
        BY <3>2, <3>9 DEF MergeNoFf
      <4>. QED
        BY <3>9, <4>1
    <3>10. CASE MergeFails(c) \/ Save(c)
      BY <3>1, <3>10 DEF MergeFails, Save
    <3>. QED
      BY <1>1, <3>3, <3>4, <3>5, <3>6, <3>7, <3>8, <3>9, <3>10 DEF MergeStep
  <2>. QED
    BY <2>1, <2>4, <2>5
<1>2. ASSUME \/ \E m \in Missions : \/ Commit(m) \/ Reopen(m) \/ Declare(m) \/ Widen(m)
                                    \/ StartCi(m) \/ CompleteCi(m)
             \/ \E r \in Reviewers, m \in Missions : SubmitReview(r, m)
             \/ Abort \/ UNCHANGED vars
      PROVE  (\A m \in Missions : Marked(m)) /\ (\A c \in Calls : Goes(c))
  <2>1. UNCHANGED <<pc, job>>
    BY <1>2 DEF Commit, Reopen, Declare, Widen, StartCi, CompleteCi, SubmitReview, Abort,
                vars, call
  <2>2. UNCHANGED status \/ \E m \in Missions : status' = [status EXCEPT ![m] = "open"]
    BY <1>2 DEF Commit, Reopen, Declare, Widen, StartCi, CompleteCi, SubmitReview, Abort, vars
  <2>3. \A m \in Missions : Marked(m)
    BY <1>0, <2>2
  <2>. QED
    BY <1>0, <2>1, <2>3
<1>3. CASE Crash
  BY <1>3 DEF Crash
<1>. QED
  BY <1>1, <1>2, <1>3 DEF Next

(* Every step keeps what was delivered.                                    *)
LEMMA DeliveredStep ==
  ASSUME "status" \in Discipline
  PROVE  TypeInv /\ GateInv /\ Honest /\ Delivered /\ [Next]_vars => Delivered'
<1> SUFFICES ASSUME TypeInv, GateInv, Honest, Delivered, [Next]_vars PROVE Delivered'
  OBVIOUS
<1>0. \A m \in Missions : Deps[m] \subseteq Missions
  BY SetsAssumption
<1>1. UNCHANGED kind
  BY Monotone
<1>2. \A m \in Missions : Vouched(m) => Vouched(m)'
  BY VouchedStays
<1>3. \A c \in Calls : pc[c] # "idle" => job[c] \in Missions
  BY DEF TypeInv, TypeOK, CallType, Shape
<1>4. ASSUME NEW m \in Missions, status'[m] = "merged", kind[m] = "build"
      PROVE  Vouched(m)'
  <2>1. CASE status[m] = "merged"
    BY <1>2, <1>4, <2>1 DEF Delivered, MergedMeansLanded
  <2>2. CASE status[m] # "merged"
    <3>1. PICK c \in Calls : pc[c] = "save" /\ job[c] = m
      BY <1>4, <2>2, StatusStep
    <3>. QED
      BY <1>2, <1>4, <3>1 DEF Delivered, Backed
  <2>. QED
    BY <2>1, <2>2
<1>5. ASSUME NEW m \in Missions, landed'[m] # 0, NEW d \in Deps[m], kind[d] = "build"
      PROVE  Vouched(d)'
  <2>1. CASE landed'[m] = landed[m]
    BY <1>0, <1>2, <1>5, <2>1 DEF Delivered, DepsLandFirst
  <2>2. CASE landed'[m] # landed[m]
    <3>1. PICK c \in Calls : pc[c] = "merge" /\ job[c] = m
      BY <2>2, Landing DEF TypeInv, TypeOK, RepoType
    <3>. QED
      BY <1>0, <1>2, <1>5, <3>1 DEF Delivered, Backed
  <2>. QED
    BY <2>1, <2>2
<1>6. ASSUME NEW c \in Calls, pc'[c] = "save", kind[job'[c]] = "build"
      PROVE  Vouched(job[c])' /\ job'[c] = job[c]
  <2>1. CASE pc[c] = "save" /\ job'[c] = job[c]
    BY <1>2, <1>3, <1>6, <2>1 DEF Delivered, Backed
  <2>2. CASE pc[c] = "merge" /\ MergeNoFf(c) /\ job'[c] = job[c]
    <3>1. job[c] \in Missions /\ landed'[job[c]] = tip[job[c]]
      BY <1>3, <2>2 DEF MergeNoFf, TypeInv, TypeOK, RepoType
    <3>2. PICK v \in reviews : Answers(c, v) /\ v.at = tip[job[c]]
      BY <2>2 DEF GateInv, Gate
    <3>3. v \in OfBranch(job[c])' /\ v.clean /\ v.of = landed'[job[c]]
      BY <2>2, <3>1, <3>2, Monotone DEF Answers, OfBranch, Honest
    <3>. QED
      BY <2>2, <3>3 DEF Vouched
  <2>. QED
    BY <1>6, <2>1, <2>2, StatusStep
<1>7. ASSUME NEW c \in Calls, pc'[c] # "idle", NEW d \in Deps[job'[c]], kind[d] = "build"
      PROVE  Vouched(d)'
  <2>1. CASE job'[c] = job[c] /\ pc[c] # "idle"
    BY <1>0, <1>2, <1>3, <1>7, <2>1 DEF Delivered, Backed
  <2>2. CASE job'[c] \in Missions /\ DepsMerged(job'[c])
    <3>1. d \in Missions /\ status[d] = "merged"
      BY <1>0, <1>7, <2>2 DEF DepsMerged
    <3>. QED
      BY <1>2, <1>7, <3>1 DEF Delivered, MergedMeansLanded
  <2>. QED
    BY <1>7, <2>1, <2>2, StatusStep
<1>8. MergedMeansLanded'
  BY <1>1, <1>4 DEF MergedMeansLanded
<1>9. DepsLandFirst'
  BY <1>1, <1>5 DEF DepsLandFirst
<1>10. Backed'
  BY <1>1, <1>6, <1>7 DEF Backed
<1>. QED
  BY <1>8, <1>9, <1>10 DEF Delivered

(* What was delivered stays so in every behaviour.                         *)
LEMMA DeliveredInvariant ==
  ASSUME {"review", "merge", "status"} \subseteq Discipline
  PROVE  Spec => []Delivered
<1>1. Init => Delivered
  BY DEF Init, Delivered, MergedMeansLanded, DepsLandFirst, Backed
<1>2. TypeInv /\ GateInv /\ Honest /\ Delivered /\ [Next]_vars => Delivered'
  BY DeliveredStep
<1>3. Spec => [](TypeInv /\ GateInv /\ Honest)
  BY ReviewedInvariant
<1>. QED
  BY <1>1, <1>2, <1>3, PTL DEF Spec

(* A build mission that the board calls merged has reviewed work in the    *)
(* base, through crashes, failed merges and reopened missions.             *)
THEOREM MergedIsLanded ==
  ASSUME {"review", "merge", "status"} \subseteq Discipline
  PROVE  Spec => []MergedMeansLanded
<1>1. Delivered => MergedMeansLanded
  BY DEF Delivered
<1>. QED
  BY <1>1, DeliveredInvariant, PTL

(* Work lands in dependency order, although the order is judged on a       *)
(* snapshot taken before all the other gates.                              *)
THEOREM DependenciesLandFirst ==
  ASSUME {"review", "merge", "status"} \subseteq Discipline
  PROVE  Spec => []DepsLandFirst
<1>1. Delivered => DepsLandFirst
  BY DEF Delivered
<1>. QED
  BY <1>1, DeliveredInvariant, PTL

(* While branches stand still under review and merge, what lands has been  *)
(* reviewed, tested where CI is configured, and kept to its scope.         *)
THEOREM VettedLands ==
  ASSUME {"review", "merge"} \subseteq Discipline
  PROVE  Spec => []OnlyVettedLands
<1>1. "merge" \in Discipline
  OBVIOUS
<1>2. OnlyReviewedLands /\ OnlyTestedLands /\ OnlyScopedLands => OnlyVettedLands
  BY DEF OnlyVettedLands
<1>. QED
  BY <1>1, <1>2, ReviewedLands, TestedLands, ScopedLands, PTL

(* If moreover only merge() marks missions merged, work lands in order and *)
(* a merged mission has landed.                                            *)
THEOREM OrderedLands ==
  ASSUME {"review", "merge", "status"} \subseteq Discipline
  PROVE  Spec => []LandsInOrder
<1>1. MergedMeansLanded /\ DepsLandFirst => LandsInOrder
  BY DEF LandsInOrder
<1>. QED
  BY <1>1, MergedIsLanded, DependenciesLandFirst, PTL

(* ---------------------------------------------------------------------- *)
(* TowerPlan: scopes and worktrees                                         *)

MissionDoc ==
  [stem : Paths, kind : {"build", "survey"}, deps : SUBSET (1..MaxMissions),
   status : {"planned", "active", "merged"}]

PlanTypes ==
  /\ missions \in Seq(MissionDoc) /\ Len(missions) <= MaxMissions
  /\ tree \in [1..MaxMissions -> {"none", "clean", "links", "dirty"}]
  /\ spawn \in [at : {"idle", "tree", "activate"}, m : Nat]
  /\ down \in [at : {"idle", "look", "unlink", "remove", "clear"}, m : Nat, n : Nat, force : BOOLEAN, kept : BOOLEAN]
  /\ booted \in BOOLEAN /\ reopened \in BOOLEAN /\ lost \in BOOLEAN

(* Worktrees are those of missions, a teardown and a spawn exclude each    *)
(* other, and a teardown has seen to every worktree it has passed.         *)
Worktrees ==
  /\ ~lost
  /\ ~booted => missions = <<>>
  /\ \A m \in 1..MaxMissions : tree[m] # "none" => m <= Len(missions)
  /\ spawn.at # "idle" => spawn.m \in 1..Len(missions) /\ down.at = "idle"
Passed ==
  /\ down.at # "idle" => booted /\ down.n = Len(missions)
  /\ down.at \in {"unlink", "remove"} => down.m <= down.n
  /\ down.at \in {"look", "unlink", "remove"} =>
       down.m > 0 /\ (down.kept \/ \A k \in 1..MaxMissions : k < down.m => tree[k] = "none")
  /\ down.at = "clear" => \A k \in 1..MaxMissions : tree[k] = "none"

PlanInv == PlanTypes /\ Worktrees /\ Passed /\ Pl!NoSharedScope

(* Scopes stay apart when no mission takes a place or another scope.       *)
LEMMA StillApart ==
  ASSUME Pl!NoSharedScope, ~reopened' => ~reopened, DOMAIN missions' \subseteq DOMAIN missions,
         ~reopened' => \A i \in DOMAIN missions' :
           /\ missions'[i].stem = missions[i].stem /\ missions'[i].kind = missions[i].kind
           /\ missions[i].status = "merged" => missions'[i].status = "merged"
  PROVE  Pl!NoSharedScope'
  BY DEF Pl!NoSharedScope, Pl!ScopesDisjoint, Pl!Reserving, Pl!Known, Pl!Reserves, Pl!Overlap

(* A mission's status moves; only a merged one can take its place again.   *)
LEMMA StatusMoves ==
  ASSUME PlanTypes, Pl!NoSharedScope, NEW m \in DOMAIN missions, NEW s \in {"active", "merged"},
         missions' = [missions EXCEPT ![m].status = s],
         ~reopened' => ~reopened /\ (missions[m].status = "merged" => s = "merged")
  PROVE  /\ missions' \in Seq(MissionDoc) /\ Len(missions') = Len(missions)
         /\ Pl!NoSharedScope'
<1>1. /\ missions \in Seq(MissionDoc) /\ missions[m] \in MissionDoc
      /\ missions' = [missions EXCEPT ![m] = [missions[m] EXCEPT !.status = s]]
  BY DEF PlanTypes
<1>2. /\ [missions[m] EXCEPT !.status = s] \in MissionDoc
      /\ [missions[m] EXCEPT !.status = s].stem = missions[m].stem
      /\ [missions[m] EXCEPT !.status = s].kind = missions[m].kind
      /\ [missions[m] EXCEPT !.status = s].status = s
  BY <1>1 DEF MissionDoc
<1>3. /\ missions' \in Seq(MissionDoc) /\ Len(missions') = Len(missions)
      /\ DOMAIN missions' = DOMAIN missions
  BY <1>1, <1>2
<1>4. /\ missions'[m] = [missions[m] EXCEPT !.status = s]
      /\ \A i \in DOMAIN missions \ {m} : missions'[i] = missions[i]
  BY <1>1
<1>5. Pl!NoSharedScope'
  BY <1>2, <1>3, <1>4, StillApart
<1>. QED
  BY <1>3, <1>5

(* The plan at the start.                                                  *)
LEMMA PlanStart == Pl!Init => PlanInv
<1> SUFFICES ASSUME Pl!Init PROVE PlanInv
  OBVIOUS
<1>1. /\ booted = FALSE /\ missions = <<>> /\ tree = [m \in 1..MaxMissions |-> "none"]
      /\ spawn = [at |-> "idle", m |-> 0]
      /\ down = [at |-> "idle", m |-> 0, n |-> 0, force |-> FALSE, kept |-> FALSE]
      /\ reopened = FALSE /\ lost = FALSE
  BY DEF Pl!Init, Pl!Ids, Pl!NoSpawn, Pl!NoTeardown
<1>2. PlanTypes
  <2>1. <<>> \in Seq(MissionDoc) /\ Len(<<>>) = 0 /\ 0 <= MaxMissions
    BY MissionsAssumption
  <2>2. /\ [m \in 1..MaxMissions |-> "none"] \in [1..MaxMissions -> {"none", "clean", "links", "dirty"}]
        /\ FALSE \in BOOLEAN
    OBVIOUS
  <2>. QED
    BY <1>1, <2>1, <2>2 DEF PlanTypes
<1>3. Worktrees /\ Passed
  BY <1>1 DEF Worktrees, Passed
<1>4. Pl!NoSharedScope
  BY <1>1 DEF Pl!NoSharedScope, Pl!ScopesDisjoint, Pl!Reserving, Pl!Known
<1>. QED
  BY <1>2, <1>3, <1>4 DEF PlanInv

(* A plan is judged with all that keep their scopes.                       *)
LEMMA PlanKeeps ==
  ASSUME PlanInv, NEW batch \in Batches, Pl!Plan(batch)
  PROVE  PlanInv'
<1> DEFINE rows == [i \in DOMAIN batch |-> Pl!Doc(batch[i])]
           all == missions \o rows
<1>1. /\ booted /\ down.at = "idle" /\ Len(all) <= MaxMissions
      /\ missions' = all /\ UNCHANGED <<booted, tree, spawn, down, reopened, lost>>
      /\ Pl!ScopesDisjoint(all, Pl!Reserving \cup (DOMAIN all \ Pl!Known))
  BY DEF Pl!Plan, Pl!Free
<1> DEFINE Row == [stem : Paths, kind : {"build", "survey"}, deps : SUBSET (1..MaxMissions)]
<1>2. batch \in Seq(Row)
  BY MissionsAssumption
<1>3. rows \in Seq(MissionDoc)
  <2>2. DOMAIN batch = 1..Len(batch) /\ Len(batch) \in Nat
    BY <1>2
  <2>1. ASSUME NEW i \in DOMAIN batch
        PROVE  Pl!Doc(batch[i]) \in MissionDoc
    <3> HIDE DEF Row
    <3>1. batch[i] \in Row
      BY <1>2, <2>2
    <3> USE DEF Row
    <3>. QED
      BY <3>1 DEF Pl!Doc, MissionDoc
  <2>. QED
    BY <2>1, <2>2
<1> HIDE DEF rows
<1>4. /\ missions \in Seq(MissionDoc) /\ all \in Seq(MissionDoc) /\ Len(missions) <= Len(all)
      /\ \A i \in 1..Len(missions) : all[i] = missions[i]
  BY <1>3 DEF PlanInv, PlanTypes
<1> HIDE DEF all
<1>5. PlanTypes'
  BY <1>1, <1>4 DEF PlanInv, PlanTypes
<1>6. Worktrees' /\ Passed'
  BY <1>1, <1>4, MissionsAssumption DEF PlanInv, PlanTypes, Worktrees, Passed
<1>7. Pl!NoSharedScope'
  <2>1. DOMAIN all = 1..Len(all) /\ Pl!Known = 1..Len(missions)
    BY <1>4 DEF Pl!Known
  <2>2. Pl!Reserving' \subseteq Pl!Reserving \cup (DOMAIN all \ Pl!Known)
    BY <1>1, <1>4, <2>1 DEF Pl!Reserving, Pl!Known
  <2>. QED
    BY <1>1, <2>2 DEF Pl!NoSharedScope, Pl!ScopesDisjoint
<1>. QED
  BY <1>5, <1>6, <1>7 DEF PlanInv

(* A new scope is judged with all that keep theirs.                        *)
LEMMA RescopeKeeps ==
  ASSUME PlanInv, NEW m \in 1..MaxMissions, NEW stem \in Stems, Pl!Rescope(m, stem)
  PROVE  PlanInv'
<1>1. /\ m \in DOMAIN missions /\ missions' = [missions EXCEPT ![m].stem = stem]
      /\ Pl!ScopesDisjoint(missions', Pl!Reserving \cup {m})
      /\ UNCHANGED <<booted, tree, spawn, down, reopened, lost>>
  BY DEF Pl!Rescope, Pl!Known
<1>2. /\ missions \in Seq(MissionDoc) /\ missions[m] \in MissionDoc /\ stem \in Paths
      /\ missions' = [missions EXCEPT ![m] = [missions[m] EXCEPT !.stem = stem]]
  BY <1>1, MissionsAssumption DEF PlanInv, PlanTypes
<1> DEFINE mine == [missions[m] EXCEPT !.stem = stem]
<1>3. mine \in MissionDoc /\ missions' = [missions EXCEPT ![m] = mine]
  BY <1>2 DEF MissionDoc
<1> HIDE DEF mine
<1>4. /\ missions' \in Seq(MissionDoc) /\ Len(missions') = Len(missions) /\ DOMAIN missions' = DOMAIN missions
      /\ \A i \in DOMAIN missions \ {m} : missions'[i] = missions[i]
  BY <1>1, <1>2, <1>3
<1>5. PlanTypes' /\ Worktrees' /\ Passed'
  BY <1>1, <1>4 DEF PlanInv, PlanTypes, Worktrees, Passed
<1>6. Pl!NoSharedScope'
  <2>1. Pl!Reserving' \subseteq Pl!Reserving \cup {m}
    BY <1>4 DEF Pl!Reserving, Pl!Known
  <2>. QED
    BY <1>1, <2>1 DEF Pl!NoSharedScope, Pl!ScopesDisjoint
<1>. QED
  BY <1>5, <1>6 DEF PlanInv

(* A mission that changes state or is merged keeps the plan sound.         *)
LEMMA PatchKeeps ==
  ASSUME PlanInv, NEW m \in 1..MaxMissions, Pl!Patch(m) \/ Pl!Merge(m)
  PROVE  PlanInv'
<1>1. PICK s \in {"active", "merged"} :
        /\ m \in DOMAIN missions /\ missions' = [missions EXCEPT ![m].status = s]
        /\ ~reopened' => ~reopened /\ (missions[m].status = "merged" => s = "merged")
        /\ reopened' \in BOOLEAN /\ UNCHANGED <<booted, tree, spawn, down, lost>>
  <2>0. reopened \in BOOLEAN
    BY DEF PlanInv, PlanTypes
  <2>1. CASE Pl!Patch(m)
    <3>1. PICK s \in {"active", "merged"} : Pl!SetStatus(m, s)
      BY <2>1 DEF Pl!Patch
    <3>2. reopened' = (reopened \/ Pl!Merged(m)) /\ UNCHANGED <<booted, tree, spawn, down, lost>>
      BY <2>1 DEF Pl!Patch
    <3>3. m \in DOMAIN missions /\ missions' = [missions EXCEPT ![m].status = s]
      BY <3>1 DEF Pl!SetStatus, Pl!Known
    <3>4. Pl!Merged(m) <=> missions[m].status = "merged"
      BY <3>3 DEF Pl!Merged, Pl!Known
    <3>5. reopened' \in BOOLEAN /\ (~reopened' => ~reopened /\ missions[m].status # "merged")
      BY <2>0, <3>2, <3>4
    <3>. QED
      BY <3>2, <3>3, <3>5
  <2>2. CASE Pl!Merge(m)
    <3>1. m \in DOMAIN missions /\ missions' = [missions EXCEPT ![m].status = "merged"]
      BY <2>2 DEF Pl!Merge, Pl!SetStatus, Pl!Known
    <3>2. UNCHANGED <<booted, tree, spawn, down, reopened, lost>>
      BY <2>2 DEF Pl!Merge
    <3>. QED
      BY <2>0, <3>1, <3>2
  <2>. QED
    BY <2>1, <2>2
<1>2. /\ missions' \in Seq(MissionDoc) /\ Len(missions') = Len(missions)
      /\ Pl!NoSharedScope'
  BY <1>1, StatusMoves DEF PlanInv
<1>3. booted
  BY <1>1 DEF PlanInv, Worktrees
<1>4. PlanTypes' /\ Worktrees' /\ Passed'
  BY <1>1, <1>2, <1>3 DEF PlanInv, PlanTypes, Worktrees, Passed
<1>. QED
  BY <1>2, <1>4 DEF PlanInv

(* A spawn takes a merged mission up again, which is remembered.           *)
LEMMA SpawnKeeps ==
  ASSUME PlanInv,
         \/ \E m \in 1..MaxMissions : Pl!AskSpawn(m)
         \/ Pl!AddWorktree \/ Pl!Activate
  PROVE  PlanInv'
<1>0. /\ spawn \in [at : {"idle", "tree", "activate"}, m : Nat] /\ DOMAIN missions = 1..Len(missions)
      /\ Pl!NoSpawn \in [at : {"idle", "tree", "activate"}, m : Nat] /\ Pl!NoSpawn.at = "idle"
      /\ Len(missions) \in Nat /\ MaxMissions \in Nat
  BY MissionsAssumption DEF PlanInv, PlanTypes, Pl!NoSpawn
<1>1. ASSUME NEW m \in 1..MaxMissions, Pl!AskSpawn(m)
      PROVE  PlanInv'
  <2>1. /\ m \in DOMAIN missions /\ down.at = "idle" /\ spawn' = [at |-> "tree", m |-> m]
        /\ UNCHANGED <<booted, missions, tree, down, reopened, lost>>
    BY <1>1 DEF Pl!AskSpawn, Pl!Free, Pl!Known
  <2>2. spawn' \in [at : {"idle", "tree", "activate"}, m : Nat] /\ spawn'.m = m
    BY <2>1
  <2>3. PlanTypes' /\ Worktrees' /\ Passed'
    BY <1>0, <2>1, <2>2 DEF PlanInv, PlanTypes, Worktrees, Passed
  <2>4. Pl!NoSharedScope'
    BY <2>1, StillApart DEF PlanInv
  <2>. QED
    BY <2>3, <2>4 DEF PlanInv
<1>2. ASSUME Pl!AddWorktree
      PROVE  PlanInv'
  <2>1. /\ spawn.at = "tree" /\ spawn.m \in 1..Len(missions) /\ down.at = "idle"
        /\ UNCHANGED <<booted, missions, down, reopened, lost>>
    BY <1>2 DEF Pl!AddWorktree, PlanInv, Worktrees
  <2>2. /\ spawn' \in [at : {"idle", "tree", "activate"}, m : Nat]
        /\ spawn'.at # "idle" => spawn'.m = spawn.m
    BY <1>0, <1>2 DEF Pl!AddWorktree
  <2>3. /\ tree' \in [1..MaxMissions -> {"none", "clean", "links", "dirty"}]
        /\ \A k \in 1..MaxMissions : tree'[k] # "none" => tree[k] # "none" \/ k = spawn.m
    BY <1>2 DEF Pl!AddWorktree, PlanInv, PlanTypes
  <2>4. PlanTypes' /\ Worktrees' /\ Passed'
    BY <1>0, <2>1, <2>2, <2>3 DEF PlanInv, PlanTypes, Worktrees, Passed
  <2>5. Pl!NoSharedScope'
    BY <2>1, StillApart DEF PlanInv
  <2>. QED
    BY <2>4, <2>5 DEF PlanInv
<1>3. ASSUME Pl!Activate
      PROVE  PlanInv'
  <2>1. /\ spawn.m \in DOMAIN missions /\ spawn' = Pl!NoSpawn
        /\ missions' = [missions EXCEPT ![spawn.m].status = "active"]
        /\ reopened' = (reopened \/ Pl!Merged(spawn.m))
        /\ UNCHANGED <<booted, tree, down, lost>>
    BY <1>0, <1>3 DEF Pl!Activate, Pl!Known, PlanInv, Worktrees
  <2>2. reopened' \in BOOLEAN /\ (~reopened' => ~reopened /\ missions[spawn.m].status # "merged")
    BY <2>1 DEF Pl!Merged, Pl!Known, PlanInv, PlanTypes
  <2>3. /\ missions' \in Seq(MissionDoc) /\ Len(missions') = Len(missions)
        /\ Pl!NoSharedScope'
    BY <2>1, <2>2, StatusMoves DEF PlanInv
  <2>4. booted
    BY <2>1 DEF PlanInv, Worktrees
  <2>5. PlanTypes' /\ Worktrees' /\ Passed'
    BY <1>0, <2>1, <2>2, <2>3, <2>4 DEF PlanInv, PlanTypes, Worktrees, Passed
  <2>. QED
    BY <2>3, <2>5 DEF PlanInv
<1>. QED
  BY <1>1, <1>2, <1>3

(* Work in a worktree keeps the plan sound.                                *)
LEMMA WorkKeeps ==
  ASSUME PlanInv, Pl!Boot \/ \E m \in 1..MaxMissions : Pl!Edit(m) \/ Pl!Commit(m)
  PROVE  PlanInv'
<1>1. /\ UNCHANGED <<missions, spawn, down, reopened, lost>>
      /\ booted' \in BOOLEAN /\ (booted => booted')
      /\ tree' \in [1..MaxMissions -> {"none", "clean", "links", "dirty"}]
      /\ \A k \in 1..MaxMissions : tree'[k] = "none" <=> tree[k] = "none"
  <2>0. PlanTypes
    BY DEF PlanInv
  <2>1. CASE Pl!Boot
    BY <2>0, <2>1 DEF Pl!Boot, PlanTypes
  <2>2. ASSUME NEW m \in 1..MaxMissions, Pl!Edit(m) \/ Pl!Commit(m)
        PROVE  /\ UNCHANGED <<booted, missions, spawn, down, reopened, lost>>
               /\ tree' \in [1..MaxMissions -> {"none", "clean", "links", "dirty"}]
               /\ \A k \in 1..MaxMissions : tree'[k] = "none" <=> tree[k] = "none"
    BY <2>0, <2>2 DEF Pl!Edit, Pl!Commit, Pl!Uncommitted, PlanTypes
  <2>. QED
    BY <2>0, <2>1, <2>2 DEF PlanTypes
<1>2. PlanTypes' /\ Worktrees' /\ Passed'
  BY <1>1 DEF PlanInv, PlanTypes, Worktrees, Passed
<1>3. Pl!NoSharedScope'
  BY <1>1, StillApart DEF PlanInv
<1>. QED
  BY <1>2, <1>3 DEF PlanInv

(* A teardown goes past a worktree that is gone or remembers that it is    *)
(* not; the namespace goes when all have gone.                             *)
LEMMA TeardownKeeps ==
  ASSUME PlanInv,
         \/ \E f \in BOOLEAN : Pl!StartTeardown(f)
         \/ Pl!Look \/ Pl!UnlinkRoot \/ Pl!RemoveTree \/ Pl!EndTeardown \/ Pl!Clear \/ Pl!Crash
  PROVE  PlanInv'
<1> DEFINE Down == [at : {"idle", "look", "unlink", "remove", "clear"}, m : Nat, n : Nat, force : BOOLEAN, kept : BOOLEAN]
<1>00. down \in Down /\ down.m \in Nat /\ down.n \in Nat /\ down.kept \in BOOLEAN
  BY DEF PlanInv, PlanTypes
<1>01. ASSUME NEW k \in BOOLEAN
       PROVE  /\ Pl!NextTree(k) \in Down /\ Pl!NextTree(k).at = "look"
              /\ Pl!NextTree(k).m = down.m + 1 /\ Pl!NextTree(k).n = down.n
              /\ Pl!NextTree(k).kept <=> down.kept \/ k
  <2>1. (down.kept \/ k) \in BOOLEAN /\ down.m + 1 \in Nat
    BY <1>00
  <2>2. Pl!NextTree(k) = [down EXCEPT !.at = "look", !.m = down.m + 1, !.kept = (down.kept \/ k)]
    BY <1>00 DEF Pl!NextTree
  <2>. QED
    BY <1>00, <2>1, <2>2
<1>0. /\ down \in Down /\ Len(missions) \in Nat /\ MaxMissions \in Nat
      /\ Pl!NoTeardown \in Down /\ Pl!NoTeardown.at = "idle"
      /\ Pl!NoSpawn \in [at : {"idle", "tree", "activate"}, m : Nat] /\ Pl!NoSpawn.at = "idle"
      /\ \A k \in BOOLEAN : /\ Pl!NextTree(k) \in Down /\ Pl!NextTree(k).at = "look"
                            /\ Pl!NextTree(k).m = down.m + 1 /\ Pl!NextTree(k).n = down.n
                            /\ Pl!NextTree(k).kept <=> down.kept \/ k
  BY <1>00, <1>01, MissionsAssumption DEF PlanInv, PlanTypes, Pl!NoTeardown, Pl!NoSpawn
<1>1. ASSUME NEW f \in BOOLEAN, Pl!StartTeardown(f)
      PROVE  PlanInv'
  <2>1. /\ booted /\ spawn.at = "idle"
        /\ down' = [at |-> "look", m |-> 1, n |-> Len(missions), force |-> f, kept |-> FALSE]
        /\ UNCHANGED <<booted, missions, tree, spawn, reopened, lost>>
    BY <1>1 DEF Pl!StartTeardown
  <2>2. /\ down' \in Down /\ down'.at = "look" /\ down'.m = 1 /\ down'.n = Len(missions)
    BY <1>0, <2>1
  <2>3. PlanTypes' /\ Worktrees' /\ Passed'
    BY <1>0, <2>1, <2>2 DEF PlanInv, PlanTypes, Worktrees, Passed
  <2>4. Pl!NoSharedScope'
    BY <2>1, StillApart DEF PlanInv
  <2>. QED
    BY <2>3, <2>4 DEF PlanInv
<1>2. ASSUME Pl!Look
      PROVE  PlanInv'
  <2>1. /\ down.at = "look" /\ down.m <= down.n
        /\ UNCHANGED <<booted, missions, tree, spawn, reopened, lost>>
        /\ \/ tree[down.m] = "none" /\ down' = Pl!NextTree(FALSE)
           \/ down' = Pl!NextTree(TRUE)
           \/ down' = [down EXCEPT !.at = "unlink"]
    BY <1>2 DEF Pl!Look
  <2>2. /\ down' \in Down /\ down'.at \in {"look", "unlink"} /\ down'.n = down.n
        /\ \/ down'.at = "unlink" /\ down'.m = down.m /\ down'.kept = down.kept
           \/ /\ down'.at = "look" /\ down'.m = down.m + 1 /\ (down.kept => down'.kept)
              /\ tree[down.m] = "none" \/ down'.kept
    BY <1>0, <2>1
  <2>3. PlanTypes' /\ Worktrees' /\ Passed'
    BY <1>0, <2>1, <2>2 DEF PlanInv, PlanTypes, Worktrees, Passed
  <2>4. Pl!NoSharedScope'
    BY <2>1, StillApart DEF PlanInv
  <2>. QED
    BY <2>3, <2>4 DEF PlanInv
<1>7. ASSUME Pl!UnlinkRoot
      PROVE  PlanInv'
  <2>1. /\ down.at = "unlink" /\ down' = [down EXCEPT !.at = "remove"]
        /\ UNCHANGED <<booted, missions, spawn, reopened, lost>>
        /\ \/ UNCHANGED tree
           \/ tree[down.m] # "none" /\ tree' = [tree EXCEPT ![down.m] = "clean"]
           \/ tree[down.m] # "none" /\ tree' = [tree EXCEPT ![down.m] = "dirty"]
    BY <1>7 DEF Pl!UnlinkRoot
  <2>2. /\ down' \in Down /\ down'.at = "remove" /\ down'.m = down.m /\ down'.n = down.n
        /\ down'.kept = down.kept
    BY <1>0, <2>1
  <2>3. /\ tree' \in [1..MaxMissions -> {"none", "clean", "links", "dirty"}]
        /\ \A k \in 1..MaxMissions : tree'[k] = "none" <=> tree[k] = "none"
    BY <1>0, <2>1 DEF PlanInv, PlanTypes
  <2>4. PlanTypes' /\ Worktrees' /\ Passed'
    BY <1>0, <2>1, <2>2, <2>3 DEF PlanInv, PlanTypes, Worktrees, Passed
  <2>5. Pl!NoSharedScope'
    BY <2>1, StillApart DEF PlanInv
  <2>. QED
    BY <2>4, <2>5 DEF PlanInv
<1>3. ASSUME Pl!RemoveTree
      PROVE  PlanInv'
  <2>1. /\ down.at = "remove" /\ ~lost'
        /\ UNCHANGED <<booted, missions, spawn, reopened>>
        /\ \/ /\ tree' = [tree EXCEPT ![down.m] = "none"]
              /\ \E unlogged \in BOOLEAN : down' = Pl!NextTree(unlogged)
           \/ down' = Pl!NextTree(TRUE) /\ UNCHANGED tree
    <3>1. ~lost
      BY DEF PlanInv, Worktrees
    <3>2. /\ down.at = "remove" /\ UNCHANGED <<booted, missions, spawn, reopened>>
          /\ \/ /\ ~Pl!Uncommitted(down.m) \/ down.force
                /\ tree' = [tree EXCEPT ![down.m] = "none"]
                /\ lost' = (lost \/ (Pl!Uncommitted(down.m) /\ ~down.force))
                /\ \E unlogged \in BOOLEAN : down' = Pl!NextTree(unlogged)
             \/ down' = Pl!NextTree(TRUE) /\ UNCHANGED <<tree, lost>>
      BY <1>3 DEF Pl!RemoveTree, Pl!RemoveForced
    <3>3. CASE /\ ~Pl!Uncommitted(down.m) \/ down.force
               /\ lost' = (lost \/ (Pl!Uncommitted(down.m) /\ ~down.force))
      <4>1. ~(Pl!Uncommitted(down.m) /\ ~down.force)
        BY <3>3
      <4>2. ~lost'
        BY <3>1, <3>3, <4>1
      <4>. QED
        BY <3>2, <4>2
    <3>4. CASE UNCHANGED lost
      BY <3>1, <3>2, <3>4
    <3>. QED
      BY <3>2, <3>3, <3>4
  <2>2. /\ down' \in Down /\ down'.at = "look" /\ down'.n = down.n /\ down'.m = down.m + 1
        /\ down.kept => down'.kept
    BY <1>0, <2>1
  <2>3. /\ tree' \in [1..MaxMissions -> {"none", "clean", "links", "dirty"}]
        /\ \A k \in 1..MaxMissions : tree[k] = "none" => tree'[k] = "none"
        /\ down'.kept \/ (down.m \in 1..MaxMissions => tree'[down.m] = "none")
    BY <1>0, <2>1 DEF PlanInv, PlanTypes
  <2>4. lost' \in BOOLEAN
    BY <1>3, Zenon DEF Pl!RemoveTree, PlanInv, PlanTypes
  <2>5. PlanTypes' /\ Worktrees' /\ Passed'
    BY <1>0, <2>1, <2>2, <2>3, <2>4 DEF PlanInv, PlanTypes, Worktrees, Passed
  <2>6. Pl!NoSharedScope'
    BY <2>1, StillApart DEF PlanInv
  <2>. QED
    BY <2>5, <2>6 DEF PlanInv
<1>4. ASSUME Pl!EndTeardown
      PROVE  PlanInv'
  <2>1. /\ down.at = "look" /\ down.m > down.n
        /\ UNCHANGED <<booted, missions, tree, spawn, reopened, lost>>
        /\ \/ down' = Pl!NoTeardown
           \/ ~down.kept /\ down' = [down EXCEPT !.at = "clear"]
    BY <1>4 DEF Pl!EndTeardown, Pl!ClearsAfter
  <2>2. /\ down' \in Down
        /\ \/ down'.at = "idle"
           \/ ~down.kept /\ down'.at = "clear" /\ down'.n = down.n
    BY <1>0, <2>1
  <2>3. ~down.kept => \A k \in 1..MaxMissions : tree[k] = "none"
    BY <1>0, <2>1 DEF PlanInv, PlanTypes, Worktrees, Passed
  <2>4. PlanTypes' /\ Worktrees' /\ Passed'
    BY <1>0, <2>1, <2>2, <2>3 DEF PlanInv, PlanTypes, Worktrees, Passed
  <2>5. Pl!NoSharedScope'
    BY <2>1, StillApart DEF PlanInv
  <2>. QED
    BY <2>4, <2>5 DEF PlanInv
<1>5. ASSUME Pl!Clear
      PROVE  PlanInv'
  <2>1. /\ \A k \in 1..MaxMissions : tree[k] = "none"
        /\ down.at = "clear" /\ down' = Pl!NoTeardown /\ spawn.at = "idle"
        /\ booted' = FALSE /\ missions' = <<>> /\ reopened' = FALSE
        /\ UNCHANGED <<tree, spawn, lost>>
    BY <1>5 DEF Pl!Clear, PlanInv, Worktrees, Passed
  <2>2. /\ missions' \in Seq(MissionDoc) /\ Len(missions') = 0 /\ Len(missions') <= MaxMissions
        /\ booted' \in BOOLEAN /\ reopened' \in BOOLEAN
    <3>1. <<>> \in Seq(MissionDoc) /\ Len(<<>>) = 0 /\ 0 <= MaxMissions
      BY <1>0
    <3>2. missions' \in Seq(MissionDoc) /\ Len(missions') = 0
      BY <2>1, <3>1, Zenon
    <3>3. booted' \in BOOLEAN /\ reopened' \in BOOLEAN
      BY <2>1, Zenon
    <3>. QED
      BY <3>1, <3>2, <3>3
  <2>3. PlanTypes'
    BY <1>0, <2>1, <2>2 DEF PlanInv, PlanTypes
  <2>5. Worktrees' /\ Passed'
    BY <1>0, <2>1, <2>2 DEF PlanInv, Worktrees, Passed
  <2>4. Pl!NoSharedScope'
    BY <2>1, <2>2 DEF Pl!NoSharedScope, Pl!ScopesDisjoint, Pl!Reserving, Pl!Known
  <2>. QED
    BY <2>3, <2>4, <2>5 DEF PlanInv
<1>6. ASSUME Pl!Crash
      PROVE  PlanInv'
  <2>1. /\ spawn' = Pl!NoSpawn /\ down' = Pl!NoTeardown
        /\ UNCHANGED <<booted, missions, tree, reopened, lost>>
    BY <1>6 DEF Pl!Crash
  <2>2. PlanTypes' /\ Worktrees' /\ Passed'
    BY <1>0, <2>1 DEF PlanInv, PlanTypes, Worktrees, Passed
  <2>3. Pl!NoSharedScope'
    BY <2>1, StillApart DEF PlanInv
  <2>. QED
    BY <2>2, <2>3 DEF PlanInv
<1>. QED
  BY <1>1, <1>2, <1>3, <1>4, <1>5, <1>6, <1>7

(* No two missions under way share a path, unless a merged one was taken   *)
(* up again; no worktree with uncommitted work (links in its root apart)   *)
(* is removed without force, and a namespace that is cleared leaves no     *)
(* worktree: for any plans, scopes and number of missions, wherever the    *)
(* server is killed.                                                       *)
THEOREM PlansAreSound == CampSpec => []PlanIsSound
<1>1. CampInit => PlanInv
  BY PlanStart DEF CampInit
<1>2. PlanInv /\ [CampNext]_campVars => PlanInv'
  <2> SUFFICES ASSUME PlanInv, [CampNext]_campVars PROVE PlanInv'
    OBVIOUS
  <2>1. CASE Pl!Next
    <3>1. Pl!Ids = 1..MaxMissions
      BY DEF Pl!Ids
    <3>. QED
      BY <2>1, <3>1, PlanKeeps, RescopeKeeps, PatchKeeps, SpawnKeeps, WorkKeeps, TeardownKeeps
      DEF Pl!Next, Pl!TowerStep, Pl!MissionStep
  <2>2. CASE UNCHANGED planVars
    <3>1. UNCHANGED <<booted, missions, tree, spawn, down, reopened, lost>>
      BY <2>2 DEF planVars
    <3>2. Pl!NoSharedScope'
      BY <3>1, StillApart DEF PlanInv
    <3>. QED
      BY <3>1, <3>2 DEF PlanInv, PlanTypes, Worktrees, Passed
  <2>. QED
    BY <2>1, <2>2 DEF CampNext, campVars
<1>3. PlanInv => PlanIsSound
  <2> SUFFICES ASSUME PlanInv PROVE PlanIsSound
    OBVIOUS
  <2>1. Len(<<>>) = 0 /\ \A m \in 1..MaxMissions : ~(m <= 0)
    OBVIOUS
  <2>2. ~booted => \A m \in 1..MaxMissions : tree[m] = "none"
    BY <2>1 DEF PlanInv, Worktrees
  <2>. QED
    BY <2>2 DEF PlanInv, Worktrees, PlanIsSound, Pl!TeardownIsSafe, Pl!Ids
<1>. QED
  BY <1>1, <1>2, <1>3, PTL DEF CampSpec

(* ---------------------------------------------------------------------- *)
(* TowerCrew: the roster and its mirror                                    *)

Member == [agent : Agents \cup {None}, verified : BOOLEAN, checked : BOOLEAN]
OpenCall ==
  [at : {"idle", "enlist", "verify", "load", "rename", "clear"}, name : Names \cup {None},
   shows : SUBSET (Names \X (Agents \cup {None})), short : BOOLEAN, earlier : SUBSET Calls]

CrewTypes ==
  /\ roster \in [Names -> Member \cup {None}]
  /\ open \in [Calls -> OpenCall]
  /\ manned \in BOOLEAN /\ behind \in BOOLEAN

Clearing == \E c \in Calls : open[c].at = "clear"
(* A change of the roster that no load has seen yet.                       *)
Unloaded == \E c \in Calls : open[c].at \in {"verify", "load"}

Turns ==
  /\ \A c \in Calls : open[c].at = "enlist" => open[c].name \in Names
  /\ \A c \in Calls : open[c].at = "verify" => open[c].name \in Names /\ roster[open[c].name] \in Member
  /\ \A c \in Calls : open[c].at = "clear" => (behind \/ mirror = {}) /\ \A d \in Calls \ {c} : open[d].at = "idle"
  /\ \A c \in Calls : open[c].earlier \subseteq Cr!Loaded \ {c}
  /\ \A c, d \in Cr!Loaded : c # d => c \in open[d].earlier \/ d \in open[c].earlier

(* The last to load has what there is to show, or knows that some is       *)
(* missing; with nobody left to write, the mirror shows it or is known to  *)
(* be behind.                                                              *)
Mirrored ==
  ~Unloaded /\ ~Clearing =>
    /\ Cr!Loaded = {} => behind \/ mirror = Cr!Shown
    /\ \A c \in Cr!Loaded : Cr!Loaded \ {c} \subseteq open[c].earlier =>
         open[c].shows = Cr!Shown \/ open[c].short

CrewInv ==
  /\ CrewTypes /\ Turns /\ Mirrored /\ Cr!NamesDistinct /\ Cr!VerifiedIsChild

(* The value of a call that is idle.                                       *)
LEMMA IdleCall == Cr!Idle \in OpenCall /\ Cr!Idle.at = "idle" /\ Cr!Idle.earlier = {}
  BY DEF Cr!Idle, OpenCall

(* The crew at the start.                                                  *)
LEMMA CrewStart == Cr!Init => CrewInv
<1> SUFFICES ASSUME Cr!Init PROVE CrewInv
  OBVIOUS
<1>1. /\ manned = FALSE /\ roster = [n \in Names |-> None] /\ mirror = {}
      /\ open = [c \in Calls |-> Cr!Idle] /\ behind = FALSE
  BY DEF Cr!Init, Cr!Empty
<1>2. \A c \in Calls : open[c].at = "idle" /\ open[c].earlier = {}
  BY <1>1, IdleCall
<1>3. CrewTypes
  BY <1>1, IdleCall DEF CrewTypes
<1>4. Cr!Members = {} /\ Cr!Loaded = {}
  BY <1>1, <1>2 DEF Cr!Members, Cr!Loaded
<1>5. Turns
  BY <1>2, <1>4 DEF Turns
<1>6. Mirrored
  BY <1>1, <1>4 DEF Mirrored, Cr!Shown
<1>7. Cr!NamesDistinct /\ Cr!VerifiedIsChild
  BY <1>4 DEF Cr!NamesDistinct, Cr!VerifiedIsChild
<1>. QED
  BY <1>3, <1>5, <1>6, <1>7 DEF CrewInv

(* A look changes the verdict on one member, and only for the better if    *)
(* the tower has started it.                                               *)
LEMMA LookIs ==
  ASSUME CrewTypes, NEW n \in Names, roster[n] \in Member, Cr!Look(n),
         Cr!NamesDistinct, Cr!VerifiedIsChild
  PROVE  /\ roster' \in [Names -> Member \cup {None}]
         /\ roster'[n] \in Member /\ \A k \in Names \ {n} : roster'[k] = roster[k]
         /\ Cr!Members' = Cr!Members /\ Cr!Shown' = Cr!Shown
         /\ Cr!NamesDistinct' /\ Cr!VerifiedIsChild'
<1>1. PICK v \in Cr!Views(roster[n].agent) :
        roster' = [roster EXCEPT ![n].verified = Cr!Verified(v, roster[n].agent), ![n].checked = TRUE]
  BY DEF Cr!Look
<1> DEFINE verdict == Cr!Verified(v, roster[n].agent)
           entry == [roster[n] EXCEPT !.verified = verdict, !.checked = TRUE]
<1>2. /\ v \in [known : BOOLEAN, parent : {"none", "tower", "other"}, home : BOOLEAN, listed : SUBSET Children]
      /\ v.parent = "tower" => roster[n].agent \in Children
  BY DEF Cr!Views
<1>3. verdict \in BOOLEAN /\ (verdict => roster[n].agent \in Children)
  BY <1>2 DEF Cr!Verified, Cr!Confirmed
<1>4. /\ roster' = [roster EXCEPT ![n] = entry]
      /\ entry \in Member /\ entry.agent = roster[n].agent /\ entry.verified = verdict
      /\ entry # None /\ roster[n] # None
  BY <1>1, <1>3, RosterAssumption DEF CrewTypes, Member
<1> HIDE DEF entry, verdict
<1>5. /\ roster' \in [Names -> Member \cup {None}] /\ roster'[n] = entry
      /\ \A k \in Names \ {n} : roster'[k] = roster[k]
  BY <1>4 DEF CrewTypes
<1>6. Cr!Members' = Cr!Members
  BY <1>4, <1>5 DEF Cr!Members
<1>7. \A k \in Names : roster'[k].agent = roster[k].agent
  BY <1>4, <1>5
<1>8. Cr!Shown' = Cr!Shown
  <2>1. Cr!Members \subseteq Names
    BY DEF Cr!Members
  <2>. QED
    BY <1>6, <1>7, <2>1 DEF Cr!Shown
<1>9. Cr!NamesDistinct'
  BY <1>6 DEF Cr!NamesDistinct
<1>10. Cr!VerifiedIsChild'
  BY <1>3, <1>4, <1>5, <1>6, <1>7 DEF Cr!VerifiedIsChild, Cr!Members
<1>. QED
  BY <1>4, <1>5, <1>6, <1>8, <1>9, <1>10

(* While something is to be loaded the mirror may be behind.               *)
LEMMA RosterStep ==
  ASSUME CrewInv, NEW c \in Calls,
         \/ \E n \in Names, a \in Agents : Cr!Register(c, n, a)
         \/ Cr!Enlist(c) \/ Cr!Verify(c)
  PROVE  CrewInv'
<1>0. CrewTypes /\ Turns /\ Cr!NamesDistinct /\ Cr!VerifiedIsChild /\ open[c] \in OpenCall
  BY DEF CrewInv, CrewTypes
<1>1. ASSUME roster' \in [Names -> Member \cup {None}], NEW x \in OpenCall, open' = [open EXCEPT ![c] = x],
             x.at \in {"verify", "load"}, open[c].at \notin {"rename", "clear"}, open[c].at # "idle" \/ ~Clearing,
             x.at = "verify" => x.name \in Names /\ roster'[x.name] \in Member,
             x.earlier = open[c].earlier,
             \A n \in Names : roster[n] \in Member => roster'[n] \in Member,
             UNCHANGED <<manned, mirror, behind>>
      PROVE  CrewTypes' /\ Turns' /\ Mirrored'
  <2>1. open'[c] = x /\ \A d \in Calls \ {c} : open'[d] = open[d]
    BY <1>0, <1>1 DEF CrewTypes
  <2>2. CrewTypes'
    BY <1>0, <1>1 DEF CrewTypes
  <2>3. Cr!Loaded' = Cr!Loaded
    BY <1>1, <2>1 DEF Cr!Loaded
  <2>4. ~Clearing'
    <3>1. ~Clearing
      BY <1>0, <1>1 DEF Turns, Clearing
    <3>. QED
      BY <1>1, <2>1, <3>1 DEF Clearing
  <2>5. Turns'
    <3>1. \A d \in Calls : open'[d].earlier = open[d].earlier
      BY <1>1, <2>1
    <3>. QED
      BY <1>0, <1>1, <2>1, <2>3, <2>4, <3>1 DEF Turns, Clearing, Cr!Loaded
  <2>6. Mirrored'
    BY <1>1, <2>1 DEF Mirrored, Unloaded
  <2>. QED
    BY <2>2, <2>5, <2>6
<1>2. ASSUME NEW n \in Names, NEW a \in Agents, Cr!Register(c, n, a)
      PROVE  CrewInv'
  <2> DEFINE x == [Cr!Idle EXCEPT !.at = "verify", !.name = n]
             entry == [roster[n] EXCEPT !.agent = a, !.checked = FALSE]
  <2>1. /\ open[c] = Cr!Idle /\ ~Clearing /\ roster[n] \in Member /\ n \in Cr!Members
        /\ roster' = [roster EXCEPT ![n] = entry] /\ open' = [open EXCEPT ![c] = x]
        /\ UNCHANGED <<manned, mirror, behind>>
    BY <1>0, <1>2 DEF Cr!Register, Cr!MayCall, Cr!Members, CrewTypes, Clearing
  <2>2. x \in OpenCall /\ x.at = "verify" /\ x.name = n /\ x.earlier = {}
    BY DEF Cr!Idle, OpenCall
  <2>3. /\ entry \in Member /\ entry.agent = a /\ ~entry.checked /\ entry # None
    BY <2>1, RosterAssumption DEF Member
  <2> HIDE DEF x, entry
  <2>4. /\ roster' \in [Names -> Member \cup {None}] /\ roster'[n] = entry
        /\ \A k \in Names \ {n} : roster'[k] = roster[k]
    BY <1>0, <2>1, <2>3 DEF CrewTypes
  <2>5. CrewTypes' /\ Turns' /\ Mirrored'
    BY <1>1, <2>1, <2>2, <2>3, <2>4, IdleCall
  <2>6. Cr!Members' = Cr!Members
    BY <2>1, <2>3, <2>4 DEF Cr!Members
  <2>7. Cr!NamesDistinct' /\ Cr!VerifiedIsChild'
    BY <1>0, <2>3, <2>4, <2>6 DEF Cr!NamesDistinct, Cr!VerifiedIsChild, Cr!Members
  <2>. QED
    BY <2>5, <2>7 DEF CrewInv
<1>3. ASSUME Cr!Verify(c)
      PROVE  CrewInv'
  <2> DEFINE n == open[c].name
             x == [open[c] EXCEPT !.at = "load"]
  <2>1. /\ open[c].at = "verify" /\ n \in Names /\ roster[n] \in Member /\ Cr!Look(n)
        /\ open' = [open EXCEPT ![c] = x] /\ UNCHANGED <<manned, mirror, behind>>
    BY <1>0, <1>3 DEF Cr!Verify, Turns
  <2>2. x \in OpenCall /\ x.at = "load" /\ x.earlier = open[c].earlier
    BY <1>0 DEF OpenCall
  <2> HIDE DEF x
  <2>3. /\ roster' \in [Names -> Member \cup {None}]
        /\ roster'[n] \in Member /\ \A k \in Names \ {n} : roster'[k] = roster[k]
        /\ Cr!NamesDistinct' /\ Cr!VerifiedIsChild'
    BY <1>0, <2>1, LookIs
  <2>4. CrewTypes' /\ Turns' /\ Mirrored'
    BY <1>1, <2>1, <2>2, <2>3
  <2>. QED
    BY <2>3, <2>4 DEF CrewInv
<1>4. ASSUME Cr!Enlist(c)
      PROVE  CrewInv'
  <2> DEFINE n == open[c].name
             x == [open[c] EXCEPT !.at = "load"]
  <2>1. open[c].at = "enlist" /\ n \in Names /\ UNCHANGED <<manned, mirror, behind>>
    BY <1>0, <1>4 DEF Cr!Enlist, Turns
  <2>2. CASE Cr!MayEnlist(n)
    <3>1. roster' = [roster EXCEPT ![n] = Cr!Pending] /\ open' = [open EXCEPT ![c] = x]
      BY <1>4, <2>2 DEF Cr!Enlist
    <3>2. x \in OpenCall /\ x.at = "load" /\ x.earlier = open[c].earlier
      BY <1>0 DEF OpenCall
    <3>3. Cr!Pending \in Member /\ ~Cr!Pending.verified /\ Cr!Pending # None
      <4>1. Cr!Pending \in Member /\ ~Cr!Pending.verified
        BY DEF Cr!Pending, Member
      <4>2. None \notin Member
        BY RosterAssumption DEF Member
      <4>. QED
        BY <4>1, <4>2
    <3> HIDE DEF x
    <3>4. /\ roster' \in [Names -> Member \cup {None}] /\ roster'[n] = Cr!Pending
          /\ \A k \in Names \ {n} : roster'[k] = roster[k]
      BY <1>0, <2>1, <3>1, <3>3 DEF CrewTypes
    <3>5. CrewTypes' /\ Turns' /\ Mirrored'
      BY <1>1, <2>1, <3>1, <3>2, <3>3, <3>4
    <3>6. Cr!Members' = Cr!Members \cup {n}
      BY <2>1, <3>3, <3>4 DEF Cr!Members
    <3>7. Cr!NamesDistinct'
      BY <1>0, <2>2, <3>6 DEF Cr!NamesDistinct, Cr!MayEnlist, Cr!Available
    <3>8. Cr!VerifiedIsChild'
      BY <1>0, <3>3, <3>4, <3>6 DEF Cr!VerifiedIsChild, Cr!Members
    <3>. QED
      BY <3>5, <3>7, <3>8 DEF CrewInv
  <2>3. CASE ~Cr!MayEnlist(n)
    <3>1. open' = [open EXCEPT ![c] = Cr!Idle] /\ UNCHANGED roster
      BY <1>4, <2>3 DEF Cr!Enlist
    <3>2. open'[c] = Cr!Idle /\ \A d \in Calls \ {c} : open'[d] = open[d]
      BY <1>0, <3>1 DEF CrewTypes
    <3>3. CrewTypes'
      BY <1>0, <2>1, <3>1, IdleCall DEF CrewTypes
    <3>4. Cr!Loaded' = Cr!Loaded
      BY <2>1, <3>2, IdleCall DEF Cr!Loaded
    <3>5. Turns'
      BY <1>0, <2>1, <3>1, <3>2, <3>4, IdleCall DEF Turns, Cr!Loaded
    <3>6. (Unloaded <=> Unloaded') /\ (Clearing <=> Clearing')
      BY <2>1, <3>2, IdleCall DEF Unloaded, Clearing
    <3>7. Cr!Shown' = Cr!Shown /\ Cr!Members' = Cr!Members
      BY <3>1 DEF Cr!Shown, Cr!Members
    <3>8. Mirrored'
      BY <2>1, <3>2, <3>4, <3>6, <3>7 DEF CrewInv, Mirrored, Cr!Loaded
    <3>9. Cr!NamesDistinct' /\ Cr!VerifiedIsChild'
      BY <1>0, <3>1, <3>7 DEF Cr!NamesDistinct, Cr!VerifiedIsChild
    <3>. QED
      BY <3>3, <3>5, <3>8, <3>9 DEF CrewInv
  <2>. QED
    BY <2>2, <2>3
<1>. QED
  BY <1>2, <1>3, <1>4

(* A mirror is written from what was loaded, possibly by a call that has   *)
(* been overtaken.                                                         *)
LEMMA MirrorStep ==
  ASSUME CrewInv, NEW c \in Calls, Cr!LoadRoster(c) \/ Cr!Publish(c)
  PROVE  CrewInv'
<1>0. CrewTypes /\ Turns /\ Mirrored /\ open[c] \in OpenCall
  BY DEF CrewInv, CrewTypes
<1>1. open[c].at \in {"load", "rename"} /\ UNCHANGED <<manned, roster>> /\ ~Clearing
  BY <1>0 DEF Cr!LoadRoster, Cr!Publish, Turns, Clearing
<1>2. Cr!Shown' = Cr!Shown /\ Cr!Members' = Cr!Members
  BY <1>1 DEF Cr!Shown, Cr!Members
<1>3. Cr!NamesDistinct' /\ Cr!VerifiedIsChild'
  BY <1>1, <1>2 DEF CrewInv, Cr!NamesDistinct, Cr!VerifiedIsChild
<1>4. CASE Cr!LoadRoster(c)
  <2> DEFINE x == [open[c] EXCEPT !.at = "rename", !.shows = Cr!Shown, !.earlier = Cr!Loaded]
  <2>1. open[c].at = "load" /\ open' = [open EXCEPT ![c] = x] /\ UNCHANGED <<mirror, behind>>
    BY <1>4 DEF Cr!LoadRoster, Cr!Load
  <2>2. Cr!Shown \subseteq Names \X (Agents \cup {None})
    <3>1. \A n \in Cr!Members : n \in Names /\ roster[n].agent \in Agents \cup {None}
      BY <1>0 DEF CrewTypes, Cr!Members, Member
    <3>. QED
      BY <3>1 DEF Cr!Shown
  <2>3. Cr!Loaded \subseteq Calls /\ c \notin Cr!Loaded
    BY <2>1 DEF Cr!Loaded
  <2>4. x \in OpenCall /\ x.at = "rename" /\ x.shows = Cr!Shown /\ x.earlier = Cr!Loaded
    BY <1>0, <2>2, <2>3 DEF OpenCall
  <2> HIDE DEF x
  <2>5. open'[c] = x /\ \A d \in Calls \ {c} : open'[d] = open[d]
    BY <1>0, <2>1 DEF CrewTypes
  <2>6. CrewTypes'
    BY <1>0, <1>1, <2>1, <2>4 DEF CrewTypes
  <2>7. Cr!Loaded' = Cr!Loaded \cup {c}
    BY <2>4, <2>5 DEF Cr!Loaded
  <2>8. Turns'
    BY <1>0, <1>1, <2>1, <2>3, <2>4, <2>5, <2>7 DEF Turns
  <2>9. Mirrored'
    <3>1. \A d \in Cr!Loaded : c \notin open[d].earlier
      BY <1>0, <2>3 DEF Turns
    <3>. QED
      BY <1>2, <2>3, <2>4, <2>5, <2>7, <3>1 DEF Mirrored
  <2>. QED
    BY <1>3, <2>6, <2>8, <2>9 DEF CrewInv
<1>5. CASE Cr!Publish(c)
  <2>1. PICK short \in {open[c].earlier, Cr!Loaded} :
          /\ open[c].at = "rename" /\ open' = Cr!Others(c, short)
          /\ \/ mirror' = open[c].shows /\ behind' = open[c].short /\ short = open[c].earlier
             \/ behind' = TRUE /\ short = Cr!Loaded
    BY <1>5 DEF Cr!Publish
  <2>2. c \in Cr!Loaded /\ behind' \in BOOLEAN
    BY <1>0, <2>1 DEF Cr!Loaded, OpenCall
  <2>3. open'[c] = Cr!Idle
    BY <2>1 DEF Cr!Others
  <2>4. ASSUME NEW d \in Calls \ {c}
        PROVE  /\ open'[d] \in OpenCall
               /\ open'[d].at = open[d].at /\ open'[d].name = open[d].name /\ open'[d].shows = open[d].shows
               /\ open'[d].short <=> open[d].short \/ d \in short
               /\ open'[d].earlier = open[d].earlier \ {c}
    <3>1. open[d] \in OpenCall
      BY <1>0 DEF CrewTypes
    <3>2. open'[d] = [open[d] EXCEPT !.short = open[d].short \/ d \in short, !.earlier = open[d].earlier \ {c}]
      BY <2>1 DEF Cr!Others
    <3>3. (open[d].short \/ d \in short) \in BOOLEAN /\ open[d].earlier \ {c} \subseteq Calls
      BY <3>1 DEF OpenCall
    <3>. QED
      BY <3>1, <3>2, <3>3 DEF OpenCall
  <2>5. CrewTypes'
    <3>1. open' \in [Calls -> OpenCall]
      BY <2>1, <2>3, <2>4, IdleCall DEF Cr!Others
    <3>. QED
      BY <1>0, <1>1, <2>2, <3>1 DEF CrewTypes
  <2>6. Cr!Loaded' = Cr!Loaded \ {c}
    BY <2>3, <2>4, IdleCall DEF Cr!Loaded
  <2>7. (Unloaded' <=> Unloaded) /\ ~Clearing'
    BY <1>1, <2>1, <2>3, <2>4, IdleCall DEF Unloaded, Clearing
  <2>8. Turns'
    <3>1. \A d \in Calls : open'[d].at # "idle" => d # c /\ open'[d].at = open[d].at /\ open'[d].name = open[d].name
      BY <2>3, <2>4, IdleCall
    <3>2. \A d \in Calls : open'[d].at # "clear"
      BY <2>7 DEF Clearing
    <3>3. \A d \in Calls : open'[d].earlier \subseteq Cr!Loaded' \ {d}
      BY <1>0, <2>3, <2>4, <2>6, IdleCall DEF Turns
    <3>4. \A d, f \in Cr!Loaded' : d # f => d \in open'[f].earlier \/ f \in open'[d].earlier
      BY <1>0, <2>4, <2>6 DEF Turns, Cr!Loaded
    <3>. QED
      BY <1>0, <1>1, <3>1, <3>2, <3>3, <3>4 DEF Turns
  <2>9. Mirrored'
    <3> SUFFICES ASSUME ~Unloaded
                 PROVE  /\ Cr!Loaded' = {} => behind' \/ mirror' = Cr!Shown
                        /\ \A d \in Cr!Loaded' : Cr!Loaded' \ {d} \subseteq open'[d].earlier =>
                             open'[d].shows = Cr!Shown \/ open'[d].short
      BY <1>2, <2>7 DEF Mirrored
    <3>1. ASSUME Cr!Loaded' = {}
          PROVE  behind' \/ mirror' = Cr!Shown
      <4>1. Cr!Loaded \ {c} \subseteq open[c].earlier
        BY <2>6, <3>1
      <4>. QED
        BY <1>0, <1>1, <2>1, <2>2, <4>1 DEF Mirrored
    <3>2. ASSUME NEW d \in Cr!Loaded', Cr!Loaded' \ {d} \subseteq open'[d].earlier
          PROVE  open'[d].shows = Cr!Shown \/ open'[d].short
      <4>1. d \in Cr!Loaded /\ d # c /\ d \in Calls
        BY <2>6 DEF Cr!Loaded
      <4>2. CASE d \in short
        BY <2>4, <4>1, <4>2
      <4>3. CASE d \notin short
        <5>1. c \in open[d].earlier
          BY <1>0, <2>1, <2>2, <4>1, <4>3 DEF Turns
        <5>2. Cr!Loaded \ {d} \subseteq open[d].earlier
          BY <2>4, <2>6, <3>2, <4>1, <5>1
        <5>. QED
          BY <1>0, <1>1, <2>4, <4>1, <5>2 DEF Mirrored
      <4>. QED
        BY <4>2, <4>3
    <3>. QED
      BY <3>1, <3>2
  <2>. QED
    BY <1>3, <2>5, <2>8, <2>9 DEF CrewInv
<1>. QED
  BY <1>4, <1>5

(* A call that asks, deletes the mirror or starts afresh keeps the crew     *)
(* sound.                                                                  *)
LEMMA CampStep ==
  ASSUME CrewInv, NEW c \in Calls,
         \/ \E n \in Names : Cr!AskSpawn(c, n)
         \/ Cr!DeleteMirror(c) \/ Cr!Clear(c)
  PROVE  CrewInv'
<1>0. CrewTypes /\ Turns /\ Mirrored /\ open[c] \in OpenCall /\ Cr!NamesDistinct /\ Cr!VerifiedIsChild
  BY DEF CrewInv, CrewTypes
<1>1. ASSUME NEW n \in Names, Cr!AskSpawn(c, n)
      PROVE  CrewInv'
  <2> DEFINE x == [Cr!Idle EXCEPT !.at = "enlist", !.name = n]
  <2>1. /\ open[c] = Cr!Idle /\ ~Clearing /\ open' = [open EXCEPT ![c] = x]
        /\ UNCHANGED <<manned, roster, mirror, behind>>
    BY <1>1 DEF Cr!AskSpawn, Cr!MayCall, Clearing
  <2>2. x \in OpenCall /\ x.at = "enlist" /\ x.name = n /\ x.earlier = {}
    BY DEF Cr!Idle, OpenCall
  <2> HIDE DEF x
  <2>3. open'[c] = x /\ \A d \in Calls \ {c} : open'[d] = open[d]
    BY <1>0, <2>1 DEF CrewTypes
  <2>4. CrewTypes'
    BY <1>0, <2>1, <2>2 DEF CrewTypes
  <2>5. Cr!Loaded' = Cr!Loaded
    BY <2>1, <2>2, <2>3, IdleCall DEF Cr!Loaded
  <2>6. (Unloaded <=> Unloaded') /\ ~Clearing'
    BY <2>1, <2>2, <2>3, IdleCall DEF Unloaded, Clearing
  <2>7. Turns'
    BY <1>0, <2>1, <2>2, <2>3, <2>5, <2>6 DEF Turns, Clearing, Cr!Loaded
  <2>8. Cr!Shown' = Cr!Shown /\ Cr!Members' = Cr!Members
    BY <2>1 DEF Cr!Shown, Cr!Members
  <2>9. Mirrored'
    <3>1. c \notin Cr!Loaded
      BY <2>1, IdleCall DEF Cr!Loaded
    <3>. QED
      BY <1>0, <2>1, <2>3, <2>5, <2>6, <2>8, <3>1 DEF Mirrored, Cr!Loaded
  <2>10. Cr!NamesDistinct' /\ Cr!VerifiedIsChild'
    BY <1>0, <2>1, <2>8 DEF Cr!NamesDistinct, Cr!VerifiedIsChild
  <2>. QED
    BY <2>4, <2>7, <2>9, <2>10 DEF CrewInv
<1>2. ASSUME Cr!DeleteMirror(c)
      PROVE  CrewInv'
  <2> DEFINE x == [open[c] EXCEPT !.at = "clear"]
  <2>1. /\ \A d \in Calls : open[d] = Cr!Idle
        /\ (mirror' = {} /\ behind' = FALSE) \/ behind' = TRUE
        /\ open' = [open EXCEPT ![c] = x] /\ UNCHANGED <<manned, roster>>
    BY <1>2 DEF Cr!DeleteMirror
  <2>2. x \in OpenCall /\ x.at = "clear" /\ x.earlier = {}
    <3>1. open[c].earlier = {}
      BY <2>1, IdleCall
    <3>. QED
      BY <1>0, <3>1 DEF OpenCall
  <2> HIDE DEF x
  <2>3. open'[c] = x /\ \A d \in Calls \ {c} : open'[d].at = "idle" /\ open'[d].earlier = {}
    BY <1>0, <2>1, IdleCall DEF CrewTypes
  <2>4. CrewTypes'
    BY <1>0, <2>1, <2>2 DEF CrewTypes
  <2>5. Cr!Loaded' = {}
    BY <2>2, <2>3 DEF Cr!Loaded
  <2>6. Turns'
    BY <2>1, <2>2, <2>3, <2>5 DEF Turns
  <2>7. Mirrored'
    BY <2>2, <2>3 DEF Mirrored, Clearing
  <2>8. Cr!Members' = Cr!Members
    BY <2>1 DEF Cr!Members
  <2>9. Cr!NamesDistinct' /\ Cr!VerifiedIsChild'
    BY <1>0, <2>1, <2>8 DEF Cr!NamesDistinct, Cr!VerifiedIsChild
  <2>. QED
    BY <2>4, <2>6, <2>7, <2>9 DEF CrewInv
<1>3. ASSUME Cr!Clear(c)
      PROVE  CrewInv'
  <2>1. /\ open[c].at = "clear" /\ (behind \/ mirror = {})
        /\ \A d \in Calls \ {c} : open[d].at = "idle"
        /\ manned' = FALSE /\ roster' = [n \in Names |-> None]
        /\ open' = [open EXCEPT ![c] = Cr!Idle] /\ UNCHANGED <<mirror, behind>>
    BY <1>0, <1>3 DEF Cr!Clear, Cr!Empty, Turns
  <2>2. \A d \in Calls : open'[d].at = "idle" /\ open'[d].earlier = {}
    <3>1. Cr!Loaded = {}
      BY <2>1 DEF Cr!Loaded
    <3>2. \A d \in Calls : open[d].earlier = {}
      BY <1>0, <3>1 DEF Turns
    <3>. QED
      BY <1>0, <2>1, <3>2, IdleCall DEF CrewTypes
  <2>3. CrewTypes'
    BY <1>0, <2>1, IdleCall DEF CrewTypes
  <2>4. Cr!Loaded' = {} /\ Cr!Members' = {}
    BY <2>1, <2>2 DEF Cr!Loaded, Cr!Members
  <2>5. Turns'
    BY <2>2, <2>4 DEF Turns
  <2>6. Mirrored'
    BY <2>1, <2>4 DEF Mirrored, Cr!Shown
  <2>7. Cr!NamesDistinct' /\ Cr!VerifiedIsChild'
    BY <2>4 DEF Cr!NamesDistinct, Cr!VerifiedIsChild
  <2>. QED
    BY <2>3, <2>5, <2>6, <2>7 DEF CrewInv
<1>. QED
  BY <1>1, <1>2, <1>3

(* What is no part of the crew may change.                                 *)
LEMMA CrewIdle ==
  ASSUME CrewInv,
         \/ Cr!Boot \/ Cr!Crash \/ UNCHANGED crewVars
         \/ \E n \in Names : Cr!Recheck(n)
  PROVE  CrewInv'
<1>0. CrewTypes /\ Turns /\ Mirrored /\ Cr!NamesDistinct /\ Cr!VerifiedIsChild
  BY DEF CrewInv
<1>1. ASSUME manned' \in BOOLEAN, UNCHANGED <<roster, mirror, open, behind>>
      PROVE  CrewInv'
  <2>1. Cr!Shown' = Cr!Shown /\ Cr!Members' = Cr!Members /\ Cr!Loaded' = Cr!Loaded
    BY <1>1 DEF Cr!Shown, Cr!Members, Cr!Loaded
  <2>2. CrewTypes' /\ Turns' /\ Mirrored'
    BY <1>0, <1>1, <2>1 DEF CrewTypes, Turns, Mirrored, Unloaded, Clearing
  <2>3. Cr!NamesDistinct' /\ Cr!VerifiedIsChild'
    BY <1>0, <1>1, <2>1 DEF Cr!NamesDistinct, Cr!VerifiedIsChild
  <2>. QED
    BY <2>2, <2>3 DEF CrewInv
<1>2. ASSUME Cr!Crash
      PROVE  CrewInv'
  <2>1. open' = [d \in Calls |-> Cr!Idle] /\ behind' = TRUE /\ UNCHANGED <<manned, roster, mirror>>
    BY <1>2 DEF Cr!Crash
  <2>2. \A d \in Calls : open'[d].at = "idle" /\ open'[d].earlier = {}
    BY <2>1, IdleCall
  <2>3. CrewTypes'
    BY <1>0, <2>1, IdleCall DEF CrewTypes
  <2>4. Cr!Loaded' = {} /\ Cr!Members' = Cr!Members
    BY <2>1, <2>2 DEF Cr!Loaded, Cr!Members
  <2>5. Turns' /\ Mirrored'
    BY <2>1, <2>2, <2>4 DEF Turns, Mirrored
  <2>6. Cr!NamesDistinct' /\ Cr!VerifiedIsChild'
    BY <1>0, <2>1, <2>4 DEF Cr!NamesDistinct, Cr!VerifiedIsChild
  <2>. QED
    BY <2>3, <2>5, <2>6 DEF CrewInv
<1>3. ASSUME NEW n \in Names, Cr!Recheck(n)
      PROVE  CrewInv'
  <2>1. roster[n] \in Member /\ Cr!Look(n) /\ UNCHANGED <<manned, mirror, open, behind>>
    BY <1>0, <1>3 DEF Cr!Recheck, Cr!Members, CrewTypes
  <2>2. /\ roster' \in [Names -> Member \cup {None}]
        /\ roster'[n] \in Member /\ \A k \in Names \ {n} : roster'[k] = roster[k]
        /\ Cr!Members' = Cr!Members /\ Cr!Shown' = Cr!Shown
        /\ Cr!NamesDistinct' /\ Cr!VerifiedIsChild'
    BY <1>0, <2>1, LookIs
  <2>3. Cr!Loaded' = Cr!Loaded
    BY <2>1 DEF Cr!Loaded
  <2>4. CrewTypes' /\ Mirrored'
    BY <1>0, <2>1, <2>2, <2>3 DEF CrewTypes, Mirrored, Unloaded, Clearing
  <2>5. Turns'
    BY <1>0, <2>1, <2>2, <2>3 DEF Turns
  <2>. QED
    BY <2>2, <2>4, <2>5 DEF CrewInv
<1>4. CASE Cr!Boot
  BY <1>1, <1>4 DEF Cr!Boot
<1>5. CASE UNCHANGED crewVars
  BY <1>0, <1>1, <1>5 DEF crewVars, CrewTypes
<1>. QED
  BY <1>2, <1>3, <1>4, <1>5

(* No two members share a slug, a member that is verified is one that the  *)
(* tower started, and with no call open the mirror shows the roster unless *)
(* it is known to be behind: for any names, agents and number of tool      *)
(* calls, wherever the server is killed.                                   *)
THEOREM CrewsAreSound == CampSpec => []CrewIsSound
<1>1. CampInit => CrewInv
  BY CrewStart DEF CampInit
<1>2. CrewInv /\ [CampNext]_campVars => CrewInv'
  <2> SUFFICES ASSUME CrewInv, [CampNext]_campVars PROVE CrewInv'
    OBVIOUS
  <2>1. CASE Cr!Next
    BY <2>1, RosterStep, MirrorStep, CampStep, CrewIdle DEF Cr!Next, Cr!CallStep
  <2>2. CASE UNCHANGED crewVars
    BY <2>2, CrewIdle
  <2>. QED
    BY <2>1, <2>2 DEF CampNext, campVars
<1>3. CrewInv => CrewIsSound
  <2> SUFFICES ASSUME CrewInv, \A c \in Calls : open[c] = Cr!Idle, ~behind
               PROVE  mirror = Cr!Shown
    BY DEF CrewInv, CrewIsSound, Cr!MirrorIsCurrent
  <2>1. ~Unloaded /\ ~Clearing /\ Cr!Loaded = {}
    BY IdleCall DEF Unloaded, Clearing, Cr!Loaded
  <2>. QED
    BY <2>1 DEF CrewInv, Mirrored
<1>. QED
  BY <1>1, <1>2, <1>3, PTL DEF CampSpec
=============================================================================
