--------------------------- MODULE DebateSession ---------------------------
(***************************************************************************)
(* The debate hub driven by cooperative clients.  Debater a follows the    *)
(* SUBMISSION PROTOCOL the hub puts into every turn prompt (state.ts:28):  *)
(* wait, submit when it is its turn, wait again after every other answer,  *)
(* and stop when told the debate is over.  It may be dispatched before the *)
(* orchestrator starts the debate.  The orchestrator starts the debate     *)
(* once, and may complete the task at any time after that.                 *)
(***************************************************************************)
EXTENDS DebateHub

CONSTANT Orchestrator

ASSUME SessionClients == Clients = Agents \cup {Orchestrator}

Over == {"debate_complete", "closed"}

Ask(c, op, a, s) ==
  /\ Idle(c)
  /\ call' = [call EXCEPT ![c] = [op |-> op, agent |-> a, signoff |-> s]]
  /\ queue' = Append(queue, c)
  /\ answer' = [answer EXCEPT ![c] = "none"]
  /\ UNCHANGED <<debateVars, parked, archiveVars>>

DebaterWaits(a) ==
  /\ answer[a] \notin Over \cup {"your_turn"}
  /\ Ask(a, "wait", a, FALSE)

DebaterSpeaks(a) ==
  /\ answer[a] = "your_turn"
  /\ \E s \in BOOLEAN : Ask(a, "submit", a, s)

Starts ==
  /\ status = "initialized"
  /\ Ask(Orchestrator, "start", Stranger, FALSE)

Completes ==
  /\ status \in {"debating", "complete"}
  /\ Ask(Orchestrator, "complete", Stranger, FALSE)

Debater(a) == DebaterWaits(a) \/ DebaterSpeaks(a)

Hub ==
  \/ \E c \in Clients : Serve(c) \/ WaitTimeout(c) \/ CompleteFail(c)
  \/ ArchiveStep

SessionNext ==
  \/ InitTask \/ Starts \/ Completes
  \/ \E a \in Agents : Debater(a)
  \/ Hub

(* Debaters keep working and the orchestrator gets the debate started; it  *)
(* need not ever complete the task.                                        *)
SessionSpec ==
  /\ Init /\ [][SessionNext]_vars
  /\ Fairness
  /\ WF_vars(InitTask) /\ WF_vars(Starts)
  /\ \A a \in Agents : WF_vars(Debater(a))

(* Every session ends: each debater is told that the debate is over, even  *)
(* a first speaker whose wait was parked before moa_start_debate and is    *)
(* not woken by it, because its safety cap makes it ask again.             *)
EveryDebaterIsDismissed == <>(\A a \in Agents : answer[a] \in Over)

(* A debater that keeps to the protocol is never refused: the turn it was  *)
(* given is still its own when its submission is served, unless the        *)
(* orchestrator completed the task in between.                             *)
GrantedTurnIsHonoured ==
  \A a \in Agents :
    (call[a].op = "submit" \/ answer[a] = "your_turn") =>
       \/ status = "debating" /\ CurrentSpeaker = a
       \/ status = "closed"
=============================================================================
