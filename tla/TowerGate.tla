----------------------------- MODULE TowerGate -----------------------------
(***************************************************************************)
(* modules/tower/store.ts: how the work of a mission's branch gets into    *)
(* the base.  merge() is a chain of awaited reads (missions, reviews, the  *)
(* branch tip, its diff, the CI record) followed by `git merge' and by the *)
(* write of the mission's status; workers, reviewers, CI runs, the tower's *)
(* other calls and a killed server come between any two of them.           *)
(*                                                                         *)
(* A branch is a row of commits 1, 2, ..., of which 1..landed[m] are in    *)
(* the base.  Every board write is atomic (BoardStore: one process, one    *)
(* promise queue); a blocked merge leaves nothing but a log line.  All     *)
(* missions are planned and spawned; two concurrent merges are two tool    *)
(* calls of one tower.  The main checkout stays on the base branch, and an *)
(* edit that is never committed is in no worktree when CI executes.        *)
(*                                                                         *)
(* Discipline names the rules the code leaves to the agents: "review", a   *)
(* branch does not move between a reviewer's reading and its verdict;      *)
(* "merge", nor while it is being merged; "status", nobody but merge()     *)
(* marks a mission merged.                                                 *)
(*                                                                         *)
(* A definition X_Y is X as a plausible bug would have it.                 *)
(***************************************************************************)
EXTENDS Naturals, FiniteSets, Sequences

CONSTANTS
  Missions, Reviewers, None,
  Kinds,          (* the ways the missions may be planned: build or survey *)
  Calls,          (* merge calls the tower has in flight at a time         *)
  Deps,           (* mission.deps, for each mission                        *)
  Assigned,       (* the branches a reviewer may review (all: the tower)   *)
  Files,          (* the files no mission has in its scope                 *)
  Edited, Moved,  (* the <<m, n, f>> where, as of its commit n, branch m   *)
                  (* has changed f, or moved it to a place in its scope    *)
  Discipline,     (* which of the workflow's rules the agents keep         *)
  MaxCommits, MaxReviews, MaxRuns, MaxCrashes, MaxReopens     (* bounds    *)

ASSUME SetsAssumption ==
  /\ Kinds \subseteq [Missions -> {"build", "survey"}]
  /\ Deps \in [Missions -> SUBSET Missions]
  /\ Assigned \in [Reviewers -> SUBSET Missions]
  /\ Edited \cup Moved \subseteq Missions \X (Nat \ {0}) \X Files
  /\ None \notin Missions
ASSUME DisciplineAssumption == Discipline \subseteq {"review", "merge", "status"}
ASSUME BoundsAssumption ==
  {MaxCommits, MaxReviews, MaxRuns, MaxCrashes, MaxReopens} \subseteq Nat

VARIABLES
  kind, ciOn,     (* mission.kind, repoDoc.ciCommand: chosen at the start  *)
  status,         (* "open" stands for every status but "merged"           *)
  wide,           (* the tower has widened the scope                       *)
  tip, landed,    (* git: the branch's tip, the commit merged last         *)
  halfway,        (* git: the branch whose conflicting merge is open       *)
  reviews,        (* the review documents; .of is what the reviewer read   *)
  ci,             (* the ci/<branch> record                                *)
  runs,           (* CI runs chained on the worktree, by the tip captured  *)
  tested,         (* commits a green run has really executed               *)
  pc, job,        (* where a merge call is, and on which mission           *)
  scope,          (* mission.scope as the call loaded it                   *)
  latest,         (* the reviews of the highest round the call has read    *)
  seenTip,        (* the branch tip the call has read                      *)
  asked,          (* the rounds objected to when the call was made         *)
  started, crashes, reopens

fixed == <<kind, ciOn>>
repo == <<tip, landed, halfway>>
cis == <<ci, runs, tested, started>>
call == <<pc, job, scope, latest, seenTip, asked>>
vars == <<fixed, status, wide, repo, reviews, cis, call, crashes, reopens>>

Review == [by : Reviewers, m : Missions, round : Nat, clean : BOOLEAN,
           at : Nat, of : Nat]

Init ==
  /\ kind \in Kinds /\ ciOn \in BOOLEAN
  /\ status = [m \in Missions |-> "open"] /\ wide = [m \in Missions |-> FALSE]
  /\ tip = [m \in Missions |-> 0] /\ landed = [m \in Missions |-> 0] /\ halfway = None
  /\ reviews = {}
  /\ ci = [m \in Missions |-> None] /\ runs = [m \in Missions |-> <<>>]
  /\ tested = [m \in Missions |-> {}]
  /\ pc = [c \in Calls |-> "idle"] /\ job = [c \in Calls |-> None]
  /\ scope = [c \in Calls |-> FALSE] /\ latest = [c \in Calls |-> {}]
  /\ seenTip = [c \in Calls |-> 0] /\ asked = [c \in Calls |-> {}]
  /\ started = 0 /\ crashes = 0 /\ reopens = 0

(* What the branch holds of a file outside its scope as of commit n; a     *)
(* file is changed once, and may be put back.                              *)
Held(m, n, f) ==
  IF <<m, n, f>> \in Edited THEN "edited" ELSE IF <<m, n, f>> \in Moved THEN "moved" ELSE "kept"

(* diffNameOnly, base...branch: the net change since the merge base,       *)
(* whatever the commits between the two did; git lists a file it finds     *)
(* moved under its new name only.                                          *)
Listed(m) == {f \in Files : Held(m, tip[m], f) \notin {Held(m, landed[m], f), "moved"}}

Ahead(m) == landed[m] < tip[m]

OfBranch(m) == {v \in reviews : v.m = m}

(* The reviews of the highest round, whoever wrote them.                   *)
LatestRound(m) ==
  {v \in OfBranch(m) : \A w \in OfBranch(m) : w.round <= v.round}

Clean(vs) == \A v \in vs : v.clean

(* ---------------------------------------------------------------------- *)
(* Workers                                                                 *)

Pushed == {p \in Missions \X (1..MaxCommits) : p[2] <= tip[p[1]]}

(* A disciplined worker leaves a branch alone that is being merged.        *)
Commit(m) ==
  /\ "merge" \in Discipline => \A c \in Calls : job[c] # m
  /\ Cardinality(Pushed) < MaxCommits
  /\ tip' = [tip EXCEPT ![m] = @ + 1]
  /\ UNCHANGED <<fixed, status, wide, landed, halfway, reviews, cis, call, crashes, reopens>>

(* updateMission has no transition guard: a merged mission may be taken up *)
(* again, and a worker may declare its own mission merged.                 *)
Reopen(m) ==
  /\ status[m] = "merged" /\ reopens < MaxReopens
  /\ status' = [status EXCEPT ![m] = "open"] /\ reopens' = reopens + 1
  /\ UNCHANGED <<fixed, wide, repo, reviews, cis, call, crashes>>

Declare(m) ==
  /\ "status" \notin Discipline /\ status[m] = "open"
  /\ status' = [status EXCEPT ![m] = "merged"]
  /\ UNCHANGED <<fixed, wide, repo, reviews, cis, call, crashes, reopens>>

(* The tower replaces the scope; a replacement that narrows it is left out. *)
Widen(m) ==
  /\ ~wide[m] /\ m \in {e[1] : e \in Edited}
  /\ wide' = [wide EXCEPT ![m] = TRUE]
  /\ UNCHANGED <<fixed, status, repo, reviews, cis, call, crashes, reopens>>

(* ---------------------------------------------------------------------- *)
(* Reviewers                                                               *)

Round_Joined(r, m) ==
  IF OfBranch(m) = {} THEN 1 ELSE (CHOOSE v \in LatestRound(m) : TRUE).round
Round(r, m) == Cardinality({v \in OfBranch(m) : v.by = r}) + 1

(* The tool stamps the tip of the moment, whatever the reviewer has read;  *)
(* a branch that is left alone meanwhile makes the two the same.  Stamp,   *)
(* count of the earlier rounds and write of the document are one step.     *)
SubmitReview(r, m) ==
  /\ m \in Assigned[r] /\ kind[m] = "build" /\ Cardinality(reviews) < MaxReviews
  /\ \E ok \in BOOLEAN, read \in IF "review" \in Discipline THEN {tip[m]} ELSE 0..tip[m] :
       reviews' = reviews \cup {[by |-> r, m |-> m, round |-> Round(r, m), clean |-> ok,
                                 at |-> tip[m], of |-> read]}
  /\ UNCHANGED <<fixed, status, wide, repo, cis, call, crashes, reopens>>

(* ---------------------------------------------------------------------- *)
(* CI                                                                      *)

(* startCi captures the tip when the tool is called; a dirty worktree is   *)
(* recorded as a failure at once, otherwise the run is chained behind the  *)
(* runs of the same worktree.                                              *)
StartCi(m) ==
  /\ ciOn /\ kind[m] = "build" /\ started < MaxRuns
  /\ started' = started + 1
  /\ \/ /\ ci' = [ci EXCEPT ![m] = [commit |-> tip[m], green |-> FALSE]]
        /\ UNCHANGED runs
     \/ /\ runs' = [runs EXCEPT ![m] = Append(@, tip[m])]
        /\ UNCHANGED ci
  /\ UNCHANGED <<fixed, status, wide, repo, reviews, tested, call, crashes, reopens>>

(* The head of the chain executes on what the worktree then holds and      *)
(* records its verdict under the tip captured at the start.                *)
CompleteCi(m) ==
  /\ runs[m] # <<>>
  /\ \E green \in BOOLEAN :
       /\ ci' = [ci EXCEPT ![m] = [commit |-> Head(runs[m]), green |-> green]]
       /\ tested' = [tested EXCEPT ![m] = IF green THEN @ \cup {tip[m]} ELSE @]
  /\ runs' = [runs EXCEPT ![m] = Tail(@)]
  /\ UNCHANGED <<fixed, status, wide, repo, reviews, started, call, crashes, reopens>>

Green_AnyTip(m, commit) == ci[m] # None /\ ci[m].green
Green(m, commit) == ci[m] # None /\ ci[m].commit = commit /\ ci[m].green

(* ---------------------------------------------------------------------- *)
(* merge()                                                                 *)

(* The call returns or throws: its local state is gone.                    *)
Return(c) ==
  /\ pc' = [pc EXCEPT ![c] = "idle"] /\ job' = [job EXCEPT ![c] = None]
  /\ scope' = [scope EXCEPT ![c] = FALSE] /\ latest' = [latest EXCEPT ![c] = {}]
  /\ seenTip' = [seenTip EXCEPT ![c] = 0] /\ asked' = [asked EXCEPT ![c] = {}]

Goto(c, step) ==
  /\ pc' = [pc EXCEPT ![c] = step]
  /\ UNCHANGED <<job, scope, asked>>

board == <<fixed, status, wide, repo, reviews, cis, crashes, reopens>>

(* The rounds in which somebody objected.                                  *)
Objected(m) == {v.round : v \in {w \in OfBranch(m) : ~w.clean}}

DepsMerged_Underway(m) ==
  \A d \in Deps[m] : status[d] = "merged" \/ \E c \in Calls : job[c] = d
DepsMerged(m) == \A d \in Deps[m] : status[d] = "merged"

(* Missions are loaded once; the deps gate judges that snapshot, and so    *)
(* does the scope gate later.  (Unmerged deps: the call is blocked and     *)
(* nothing changes.)                                                       *)
Ask(c, m) ==
  /\ pc[c] = "idle" /\ DepsMerged(m)
  /\ pc' = [pc EXCEPT ![c] = IF kind[m] = "survey" THEN "diff" ELSE "reviews"]
  /\ job' = [job EXCEPT ![c] = m]
  /\ scope' = [scope EXCEPT ![c] = wide[m]]
  /\ asked' = [asked EXCEPT ![c] = Objected(m)]
  /\ UNCHANGED <<board, latest, seenTip>>

(* Commits within the scope may undo each other, or leave a change.        *)
SurveyDiff(c) ==
  /\ pc[c] = "diff"
  /\ \/ Ahead(job[c]) /\ Return(c)
     \/ Listed(job[c]) = {} /\ Goto(c, "save") /\ UNCHANGED <<latest, seenTip>>
  /\ UNCHANGED board

ReadReviews_AnyRound(c) ==
  /\ pc[c] = "reviews"
  /\ LET vs == {v \in OfBranch(job[c]) : v.clean}
     IN \/ vs = {} /\ Return(c)
        \/ /\ vs # {} /\ Goto(c, "tip")
           /\ latest' = [latest EXCEPT ![c] = vs] /\ UNCHANGED seenTip
  /\ UNCHANGED board
ReadReviews(c) ==
  /\ pc[c] = "reviews"
  /\ LET vs == LatestRound(job[c])
     IN \/ (vs = {} \/ ~Clean(vs)) /\ Return(c)
        \/ /\ vs # {} /\ Clean(vs) /\ Goto(c, "tip")
           /\ latest' = [latest EXCEPT ![c] = vs] /\ UNCHANGED seenTip
  /\ UNCHANGED board

CheckTip_Skipped(c) ==
  /\ pc[c] = "tip" /\ Goto(c, "scope")
  /\ latest' = [latest EXCEPT ![c] = {}]
  /\ seenTip' = [seenTip EXCEPT ![c] = tip[job[c]]]
  /\ UNCHANGED board
CheckTip(c) ==
  /\ pc[c] = "tip"
  /\ \/ (\E v \in latest[c] : v.at # tip[job[c]]) /\ Return(c)
     \/ /\ \A v \in latest[c] : v.at = tip[job[c]]
        /\ Goto(c, "scope")
        /\ latest' = [latest EXCEPT ![c] = {}]
        /\ seenTip' = [seenTip EXCEPT ![c] = tip[job[c]]]
  /\ UNCHANGED board

OutOfScope_LastCommit(c) ==
  LET m == job[c] IN
  /\ ~scope[c] /\ Ahead(m)
  /\ \E f \in Files : Held(m, tip[m], f) \notin {Held(m, tip[m] - 1, f), "moved"}
OutOfScope(c) == ~scope[c] /\ Listed(job[c]) # {}

CheckScope(c) ==
  /\ pc[c] = "scope"
  /\ \/ OutOfScope(c) /\ Return(c)
     \/ ~OutOfScope(c) /\ Goto(c, IF ciOn THEN "ci" ELSE "merge") /\ UNCHANGED <<latest, seenTip>>
  /\ UNCHANGED board

CheckCi(c) ==
  /\ pc[c] = "ci"
  /\ \/ ~Green(job[c], seenTip[c]) /\ Return(c)
     \/ Green(job[c], seenTip[c]) /\ Goto(c, "merge") /\ UNCHANGED <<latest, seenTip>>
  /\ UNCHANGED board

(* `git merge --no-ff' takes the tip it finds; a branch that is in already *)
(* is up to date.  It fails, and may leave the main checkout in the middle *)
(* of a conflicting merge; while that is open every other merge fails.     *)
MergeNoFf_Refused(c) ==
  /\ pc[c] = "merge" /\ halfway = None /\ Ahead(job[c])
  /\ landed' = [landed EXCEPT ![job[c]] = tip[job[c]]]
  /\ Goto(c, "save")
  /\ UNCHANGED <<fixed, status, wide, tip, halfway, reviews, cis, crashes, reopens, latest, seenTip>>
MergeNoFf(c) ==
  /\ pc[c] = "merge" /\ halfway = None
  /\ landed' = [landed EXCEPT ![job[c]] = tip[job[c]]]
  /\ Goto(c, "save")
  /\ UNCHANGED <<fixed, status, wide, tip, halfway, reviews, cis, crashes, reopens, latest, seenTip>>

MergeFails_Saves(c) ==
  /\ pc[c] = "merge" /\ Goto(c, "save") /\ UNCHANGED <<latest, seenTip>>
  /\ halfway = None /\ Ahead(job[c]) /\ halfway' = job[c]
  /\ UNCHANGED <<fixed, status, wide, tip, landed, reviews, cis, crashes, reopens>>
MergeFails(c) ==
  /\ pc[c] = "merge" /\ Return(c)
  /\ \/ halfway # None /\ UNCHANGED halfway
     \/ halfway = None /\ Ahead(job[c]) /\ halfway' \in {None, job[c]}
  /\ UNCHANGED <<fixed, status, wide, tip, landed, reviews, cis, crashes, reopens>>

(* saveMissionStatus reads the mission again inside its mutation.          *)
Save(c) ==
  /\ pc[c] = "save"
  /\ status' = [status EXCEPT ![job[c]] = "merged"]
  /\ Return(c)
  /\ UNCHANGED <<fixed, wide, repo, reviews, cis, crashes, reopens>>

MergeStep(c) ==
  \/ SurveyDiff(c) \/ ReadReviews(c) \/ CheckTip(c) \/ CheckScope(c) \/ CheckCi(c)
  \/ MergeNoFf(c) \/ MergeFails(c) \/ Save(c)

(* ---------------------------------------------------------------------- *)
(* The repository's owner and the server process                           *)

(* A half-way merge is aborted by hand.                                    *)
Abort ==
  /\ halfway # None /\ halfway' = None
  /\ UNCHANGED <<fixed, status, wide, tip, landed, reviews, cis, call, crashes, reopens>>

(* The server is killed: its calls and the CI runs it chained are gone.    *)
Crash ==
  /\ crashes < MaxCrashes /\ crashes' = crashes + 1
  /\ pc' = [c \in Calls |-> "idle"] /\ job' = [c \in Calls |-> None]
  /\ scope' = [c \in Calls |-> FALSE] /\ latest' = [c \in Calls |-> {}]
  /\ seenTip' = [c \in Calls |-> 0] /\ asked' = [c \in Calls |-> {}]
  /\ runs' = [m \in Missions |-> <<>>]
  /\ UNCHANGED <<fixed, status, wide, repo, reviews, ci, tested, started, reopens>>

Next ==
  \/ \E m \in Missions : \/ Commit(m) \/ Reopen(m) \/ Declare(m) \/ Widen(m)
                         \/ StartCi(m) \/ CompleteCi(m)
  \/ \E r \in Reviewers, m \in Missions : SubmitReview(r, m)
  \/ \E c \in Calls : MergeStep(c) \/ \E m \in Missions : Ask(c, m)
  \/ Abort \/ Crash

Spec == Init /\ [][Next]_vars

(* A call that runs goes on, a half-way merge is aborted in the end, and   *)
(* the tower asks again for a mission that is not merged yet.              *)
Fairness ==
  /\ \A c \in Calls : WF_vars(MergeStep(c))
  /\ \A m \in Missions : SF_vars(\E c \in Calls : Ask(c, m))
  /\ WF_vars(Abort)

FairSpec == Spec /\ Fairness

(* ---------------------------------------------------------------------- *)
(* Properties                                                              *)

Steps == {"idle", "diff", "reviews", "tip", "scope", "ci", "merge", "save"}

BoardType ==
  /\ kind \in [Missions -> {"build", "survey"}] /\ ciOn \in BOOLEAN
  /\ status \in [Missions -> {"open", "merged"}] /\ wide \in [Missions -> BOOLEAN]
  /\ reviews \subseteq Review
  /\ \A v, w \in reviews : <<v.by, v.m, v.round>> = <<w.by, w.m, w.round>> => v = w
  /\ ci \in [Missions -> [commit : Nat, green : BOOLEAN] \cup {None}]
  /\ runs \in [Missions -> Seq(Nat)]
  /\ tested \in [Missions -> SUBSET Nat]
  /\ {started, crashes, reopens} \subseteq Nat

RepoType ==
  /\ tip \in [Missions -> Nat] /\ landed \in [Missions -> Nat]
  /\ \A m \in Missions : landed[m] <= tip[m]
  /\ halfway \in Missions \cup {None}

CallType ==
  /\ pc \in [Calls -> Steps] /\ job \in [Calls -> Missions \cup {None}]
  /\ scope \in [Calls -> BOOLEAN] /\ latest \in [Calls -> SUBSET Review]
  /\ seenTip \in [Calls -> Nat] /\ asked \in [Calls -> SUBSET Nat]

(* The type invariant, and: a branch has no two reviews of one reviewer in *)
(* one round, so that no verdict replaces another.                         *)
TypeOK == BoardType /\ RepoType /\ CallType

(* Somebody has read what the base holds of the branch and found it clean. *)
Vouched(m) == \E v \in OfBranch(m) : v.clean /\ v.of = landed[m]

(* No commit reaches the base that a reviewer has not read and found clean *)
(* (tools.ts:801: the gate "latest round fully clean, branch tip unchanged *)
(* since the clean review").                                               *)
OnlyReviewedLands == \A m \in Missions : landed[m] # 0 => Vouched(m)

(* Where CI is configured no commit reaches the base that a green run has  *)
(* not executed, although a record names the tip captured when the run was *)
(* queued (store.ts:230-231, "the merge gate requires commit == current    *)
(* tip").                                                                  *)
OnlyTestedLands ==
  ciOn => \A m \in Missions : landed[m] # 0 => landed[m] \in tested[m]

(* What the base holds of a branch changes no file outside the mission's   *)
(* scope unless the tower has widened it, in however many commits and      *)
(* merges it came.  It may have moved such a file into the scope, and what *)
(* one commit did outside and a later one took back passes                 *)
(* (store.ts:2263, "or revert those changes").                             *)
OnlyScopedLands ==
  \A m \in Missions, f \in Files : Held(m, landed[m], f) = "edited" => wide[m]

(* A build mission is marked merged only with its work in the base.        *)
MergedMeansLanded ==
  \A m \in Missions : status[m] = "merged" /\ kind[m] = "build" => Vouched(m)

(* Work lands in dependency order, although the order is judged on a       *)
(* snapshot taken before all the other gates.                              *)
DepsLandFirst ==
  \A m \in Missions : landed[m] # 0 => \A d \in Deps[m] : kind[d] = "build" => Vouched(d)

(* What lands has passed every gate, and lands when it may.                *)
OnlyVettedLands == OnlyReviewedLands /\ OnlyTestedLands /\ OnlyScopedLands
LandsInOrder == MergedMeansLanded /\ DepsLandFirst

(* Every objection on record when the merge was asked for is answered by a *)
(* clean review of a later round, of the very commit that lands.           *)
ObjectionsAreAnswered ==
  [][\A c \in Calls : pc[c] = "merge" /\ pc'[c] = "save" =>
       \E v \in OfBranch(job[c]) :
         v.clean /\ (\A n \in asked[c] : n < v.round) /\ v.at = landed'[job[c]]]_vars

(* Whether merge() would let the branch pass as things stand.              *)
Passes(m) ==
  /\ DepsMerged(m) /\ OfBranch(m) # {}
  /\ \A v \in LatestRound(m) : v.clean /\ v.at = tip[m]
  /\ ciOn => Green(m, tip[m])

(* A merge whose server died, or whose mission was reopened, after the     *)
(* work had landed is completed by asking again, unless the branch moves   *)
(* on or a gate closes meanwhile.                                          *)
CrashedMergeIsFinished ==
  \A m \in Missions :
    kind[m] = "build" /\ landed[m] = tip[m] /\ Passes(m)
      ~> status[m] = "merged" \/ landed[m] # tip[m] \/ ~Passes(m)
=============================================================================
