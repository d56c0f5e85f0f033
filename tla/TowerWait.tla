----------------------------- MODULE TowerWait -----------------------------
(***************************************************************************)
(* modules/tower/store.ts: moa_tower_wait.  A member of the roster waits   *)
(* for the missions its own depends on, for a mission's status to change,  *)
(* for the CI record of a branch's tip, or for mail.  Each wait is a loop: *)
(* read what matters, one board or git call at a time, judge it, and park  *)
(* in the board on one key with the stamp that was read as the cursor, to  *)
(* be woken by the next write of that key (BoardStore's waits).            *)
(*                                                                         *)
(* One waiter is enough: waits do not see each other.  The writers are the *)
(* tower and its workers, who do what TowerPlan and TowerCi let them do;   *)
(* here they write what they please.                                       *)
(*                                                                         *)
(* A definition X_Y is X as a plausible bug would have it.                 *)
(***************************************************************************)
EXTENDS Naturals, FiniteSetsExt

CONSTANTS
  Missions,               (* numbered, in plan order                       *)
  Deps,                   (* mission.deps, for each                        *)
  MaxWrites, MaxCommits   (* bounds: writes of a key, commits              *)

VARIABLES
  status,     (* of a mission: open (any other status) or merged           *)
  record,     (* the commit of the ci record, if it has been written       *)
  tip,        (* the tip of the branch                                     *)
  mail,       (* the caller's inbox holds a message                        *)
  stamp,      (* how often a key of the board has been written             *)
  reopened,   (* a merged mission has been opened since the wait began     *)
  wait        (* the wait: its kind, mission and place; deps to be read,   *)
              (* deps found open; the first status, the first tip; the     *)
              (* commit and stamps it read; its key and the cursor it gave *)

vars == <<status, record, tip, mail, stamp, reopened, wait>>

Keys == Missions \cup {0}       (* 0 is the ci record                      *)

NoWait == [kind |-> "none", m |-> 0, at |-> "idle", todo |-> {}, open |-> {},
           base |-> "open", from |-> 0, got |-> 0, seen |-> [k \in Keys |-> 0], key |-> 0, since |-> 0]

Init ==
  /\ status = [m \in Missions |-> "open"]
  /\ record = 0 /\ tip = 0 /\ mail = FALSE
  /\ stamp = [k \in Keys |-> IF k = 0 THEN 0 ELSE 1]
  /\ reopened = FALSE /\ wait = NoWait

(* ---------------------------------------------------------------------- *)
(* The writers                                                             *)

Written(k) == stamp[k] < MaxWrites /\ stamp' = [stamp EXCEPT ![k] = @ + 1]

(* merge, spawn or an update: the status changes, or only a note is added. *)
WriteMission(m) ==
  /\ Written(m)
  /\ \E s \in {"open", "merged"} :
       /\ status' = [status EXCEPT ![m] = s]
       /\ reopened' = (reopened \/ (status[m] = "merged" /\ s = "open"))
  /\ UNCHANGED <<record, tip, mail, wait>>

(* A CI run ends: it captured some tip of the branch.                      *)
WriteRecord ==
  /\ Written(0)
  /\ \E c \in 0..tip : record' = c
  /\ UNCHANGED <<status, tip, mail, reopened, wait>>

Commit ==
  /\ tip < MaxCommits /\ tip' = tip + 1
  /\ UNCHANGED <<status, record, mail, stamp, reopened, wait>>

Mail ==
  /\ ~mail /\ mail' = TRUE
  /\ UNCHANGED <<status, record, tip, stamp, reopened, wait>>

(* ---------------------------------------------------------------------- *)
(* The waiter                                                              *)

world == <<status, record, tip, mail, stamp>>

Waiting == wait.at \notin {"idle", "answered"}

(* A wait for a mission takes its first status and stamp along.            *)
Ask ==
  /\ ~Waiting
  /\ \/ \E m \in Missions :
          \/ wait' = [NoWait EXCEPT !.kind = "deps", !.m = m, !.at = "read", !.todo = Deps[m]]
          \/ wait' = [NoWait EXCEPT !.kind = "mission", !.m = m, !.at = "parked",
                                    !.base = status[m], !.key = m, !.since = stamp[m]]
     \/ \E k \in {"ci", "inbox"} : wait' = [NoWait EXCEPT !.kind = k, !.at = "read", !.from = tip]
  /\ reopened' = FALSE
  /\ UNCHANGED world

Answer == wait' = [wait EXCEPT !.at = "answered"]

Cursor_Now(k) == stamp[k]
(* The cursor is the stamp that was judged, not one taken later.           *)
Cursor(k) == wait.seen[k]

Park(k) == wait' = [wait EXCEPT !.at = "parked", !.key = k, !.since = Cursor(k)]

(* waitForDeps *)
ReadDep ==
  LET d == Min(wait.todo) IN
  /\ wait.kind = "deps" /\ wait.at = "read" /\ wait.todo # {}
  /\ wait' = [wait EXCEPT !.todo = @ \ {d}, !.seen[d] = stamp[d],
                          !.open = IF status[d] = "merged" THEN @ ELSE @ \cup {d}]
  /\ UNCHANGED <<world, reopened>>

JudgeDeps ==
  /\ wait.kind = "deps" /\ wait.at = "read" /\ wait.todo = {}
  /\ IF wait.open = {} THEN Answer ELSE Park(Min(wait.open))
  /\ UNCHANGED <<world, reopened>>

(* waitForCi: the record, then the tip.                                    *)
ReadRecord ==
  /\ wait.kind = "ci" /\ wait.at = "read"
  /\ wait' = [wait EXCEPT !.at = "compare", !.got = record, !.seen[0] = stamp[0]]
  /\ UNCHANGED <<world, reopened>>

MatchesTip_Any == wait.seen[0] > 0
MatchesTip == wait.seen[0] > 0 /\ wait.got = tip

Compare ==
  /\ wait.at = "compare"
  /\ IF MatchesTip THEN Answer ELSE Park(0)
  /\ UNCHANGED <<world, reopened>>

(* waitForInbox: no key to park on, the inbox is polled.                   *)
Poll ==
  /\ wait.kind = "inbox" /\ wait.at = "read" /\ mail
  /\ Answer
  /\ UNCHANGED <<world, reopened>>

Again_OneDep == {wait.key}
(* After a wake-up all of the deps are read again.                         *)
Again == Deps[wait.m]

Woken ==
  CASE wait.kind = "deps" -> [wait EXCEPT !.at = "read", !.todo = Again, !.open = {}]
    [] wait.kind = "ci" -> [wait EXCEPT !.at = "read"]
    [] wait.kind = "mission" /\ status[wait.m] # wait.base -> [wait EXCEPT !.at = "answered"]
    [] OTHER -> [wait EXCEPT !.since = stamp[wait.m]]

Wake ==
  /\ wait.at = "parked" /\ stamp[wait.key] > wait.since
  /\ wait' = Woken
  /\ UNCHANGED <<world, reopened>>

(* The deadline; or the board closes the scope, which ends all waits but   *)
(* the one for a CI record, which reads again.                             *)
TimeOut ==
  /\ wait.at = "parked" \/ (wait.kind = "inbox" /\ Waiting)
  /\ wait' = NoWait
  /\ UNCHANGED <<world, reopened>>

Close ==
  /\ wait.at = "parked"
  /\ wait' = IF wait.kind = "ci" THEN [wait EXCEPT !.at = "read"] ELSE NoWait
  /\ UNCHANGED <<world, reopened>>

(* ---------------------------------------------------------------------- *)

Loop == ReadDep \/ JudgeDeps \/ ReadRecord \/ Compare \/ Poll \/ Wake

Next ==
  \/ \E m \in Missions : WriteMission(m)
  \/ WriteRecord \/ Commit \/ Mail
  \/ Ask \/ Loop \/ TimeOut \/ Close

Spec == Init /\ [][Next]_vars

(* A promise that is due is taken up.  Nobody owes a write or a commit,    *)
(* and no wait may count on its deadline.                                  *)
Fairness == WF_vars(Loop)

FairSpec == Spec /\ Fairness

(* ---------------------------------------------------------------------- *)
(* Properties                                                              *)

(* What the wait is for is there now.                                      *)
Satisfied ==
  CASE wait.kind = "deps" -> \A d \in Deps[wait.m] : status[d] = "merged"
    [] wait.kind = "mission" -> status[wait.m] # wait.base
    [] wait.kind = "ci" -> stamp[0] > 0 /\ record = tip
    [] wait.kind = "inbox" -> mail
    [] OTHER -> FALSE

(* waitForDeps reads the deps one by one and sleeps on a single one: when  *)
(* it answers, all of them are merged, unless one was opened again in the  *)
(* meantime.  waitForCi reads the record before the tip: it never answers  *)
(* for a tip that was gone when the wait began.                            *)
AnswersAreTrue ==
  wait.at = "answered" =>
    /\ wait.kind = "deps" /\ ~reopened => Satisfied
    /\ wait.kind = "ci" => wait.got >= wait.from

(* A write between the reading and the parking is not lost: a wait that    *)
(* could be answered is, without its deadline, or what it is for has gone. *)
WaitersHear == Waiting /\ Satisfied ~> ~Waiting \/ ~Satisfied
=============================================================================
