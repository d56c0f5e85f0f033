----------------------------- MODULE DebateHub -----------------------------
(***************************************************************************)
(* modules/debate/state.ts: one debate task of the mailbox hub.            *)
(*                                                                         *)
(* Every tool call except moa_init goes through the task's promise queue   *)
(* (enqueue, state.ts:498).  start, wait and submit run to completion in   *)
(* one step once they are at the head; complete holds the head of the      *)
(* queue across its file writes (complete, state.ts:387), during which     *)
(* clients go on queueing calls, wait timers fire and board notes arrive.  *)
(* A wait that has to suspend leaves the queue and parks its client.       *)
(*                                                                         *)
(* Agents are their 0-based positions in preset.agents: init rejects an    *)
(* empty list and duplicate ids, so positions and ids correspond.          *)
(* Task-scope blackboard notes are anonymous: only their number matters.   *)
(*                                                                         *)
(* A definition X_Y is X as a plausible bug would have it.                 *)
(***************************************************************************)
EXTENDS Naturals, Sequences

CONSTANTS
  N,          (* number of agents in the preset                            *)
  Rounds,     (* preset.debate.rounds                                      *)
  Clients,    (* MCP sessions; a session has one call outstanding          *)
  MaxNotes    (* bound: blackboard notes written to the task's scope       *)

ASSUME NAssumption == N \in Nat \ {0}
ASSUME RoundsAssumption == Rounds \in Nat
ASSUME NotesAssumption == MaxNotes \in Nat

VARIABLES
  status,     (* task.status, or "absent" before moa_init                  *)
  round,      (* task.round, 1-based                                       *)
  turnIndex,  (* task.turnIndex, 0-based                                   *)
  turn,       (* task.turn, 1-based                                        *)
  transcript, (* task.transcript                                           *)
  signoffs,   (* the agents in task.signoffs                               *)
  early,      (* task.earlyClose is set                                    *)
  queue,      (* clients whose call is in the task's promise queue, FIFO   *)
  call,       (* the call each client has outstanding, or NoCall           *)
  parked,     (* clients in task.waiters                                   *)
  answer,     (* the reply each client got last                            *)
  job,        (* the step at which the running complete() is suspended     *)
  files,      (* <logsDir>/<taskId>: the layers that are whole, what they  *)
              (* say; anew: a complete of the closed task has begun to     *)
              (* rewrite them and has not ended                            *)
  notes,      (* records in the live task scope of the blackboard          *)
  posted,     (* history: notes ever acknowledged for this task            *)
  grabbed     (* archiveTask's view: had a scope, and the records it wrote *)

debateVars == <<status, round, turnIndex, turn, transcript, signoffs, early>>
clientVars == <<queue, call, parked, answer>>
archiveVars == <<job, files, notes, posted, grabbed>>
vars == <<debateVars, clientVars, archiveVars>>

Agents == 0..(N - 1)
Stranger == N              (* an agent_id that is not in the preset        *)

NoCall == [op |-> "none", agent |-> Stranger, signoff |-> FALSE]

Calls ==
  [op : {"start", "complete"}, agent : {Stranger}, signoff : {FALSE}]
    \cup [op : {"wait"}, agent : Agents \cup {Stranger}, signoff : {FALSE}]
    \cup [op : {"submit"}, agent : Agents \cup {Stranger}, signoff : BOOLEAN]

TurnRecords == [turn : Nat, round : Nat, speaker : Agents, signoff : BOOLEAN]

Answers == {"none", "error", "ok", "your_turn", "debate_complete", "closed",
            "timeout", "accepted", "accepted_last", "not_your_turn",
            "debate_not_active"}

Layers == {"probe", "events", "result", "board"}

Jobs == {"idle", "boardDir"} \cup Layers

Statuses == {"absent", "initialized", "debating", "complete", "closed"}

Results == [status : Statuses, rounds : Nat, turns : Nat, early : BOOLEAN]

NoResult == [status |-> "absent", rounds |-> 0, turns |-> 0, early |-> FALSE]

NoFiles ==
  [layers |-> {}, events |-> <<>>, result |-> NoResult, board |-> 0, anew |-> FALSE]

NoGrab == [scope |-> FALSE, records |-> 0]

Init ==
  /\ status = "absent"
  /\ round = 1 /\ turnIndex = 0 /\ turn = 1
  /\ transcript = <<>>
  /\ signoffs = {}
  /\ early = FALSE
  /\ queue = <<>>
  /\ call = [c \in Clients |-> NoCall]
  /\ parked = {}
  /\ answer = [c \in Clients |-> "none"]
  /\ job = "idle"
  /\ files = NoFiles
  /\ notes = 0 /\ posted = 0
  /\ grabbed = NoGrab

(* ---------------------------------------------------------------------- *)
(* Clients and the promise queue                                           *)

(* moa_init: not queued; a second init of the same task only throws.       *)
InitTask ==
  /\ status = "absent"
  /\ status' = "initialized"
  /\ UNCHANGED <<round, turnIndex, turn, transcript, signoffs, early,
                 clientVars, archiveVars>>

Idle(c) == call[c] = NoCall

Enqueue(c) ==
  /\ Idle(c)
  /\ \E k \in Calls : call' = [call EXCEPT ![c] = k]
  /\ queue' = Append(queue, c)
  /\ answer' = [answer EXCEPT ![c] = "none"]
  /\ UNCHANGED <<debateVars, parked, archiveVars>>

(* The client whose call runs next; complete() keeps the head busy.        *)
AtHead(c) == queue # <<>> /\ Head(queue) = c /\ job = "idle"

(* The head call returns `a`, and the waiters in W are resolved with `w`.  *)
ReplyAndWake(c, a, W, w) ==
  /\ queue' = Tail(queue)
  /\ parked' = parked \ W
  /\ answer' = [x \in Clients |-> IF x = c THEN a
                                  ELSE IF x \in W THEN w ELSE answer[x]]
  /\ call' = [x \in Clients |-> IF x = c \/ x \in W THEN NoCall ELSE call[x]]

Reply(c, a) == ReplyAndWake(c, a, {}, "none")

WaitersOf(a) == {x \in parked : call[x].agent = a}

CurrentSpeaker == turnIndex

HasTurn_AnyDebater(k) == status = "debating"
HasTurn(k) == status = "debating" /\ CurrentSpeaker = k.agent

(* getTask, the agentIds.includes checks and start's state check throw.    *)
Throw(c) ==
  /\ AtHead(c)
  /\ \/ status = "absent"
     \/ call[c].op \in {"wait", "submit"} /\ call[c].agent \notin Agents
     \/ call[c].op = "start" /\ status # "initialized"
  /\ Reply(c, "error")
  /\ UNCHANGED <<debateVars, archiveVars>>

(* ---------------------------------------------------------------------- *)
(* moa_start_debate: resets the turn counters, wakes nobody.               *)
StartDebate(c) ==
  /\ AtHead(c) /\ call[c].op = "start"
  /\ status = "initialized"
  /\ status' = "debating"
  /\ round' = 1 /\ turnIndex' = 0 /\ turn' = 1
  /\ signoffs' = {} /\ early' = FALSE
  /\ Reply(c, "ok")
  /\ UNCHANGED <<transcript, archiveVars>>

(* ---------------------------------------------------------------------- *)
(* moa_wait_turn                                                           *)
WaitNow(c) ==
  /\ AtHead(c) /\ call[c].op = "wait" /\ call[c].agent \in Agents
  /\ \/ HasTurn(call[c]) /\ Reply(c, "your_turn")
     \/ status = "complete" /\ Reply(c, "debate_complete")
     \/ status = "closed" /\ Reply(c, "closed")
  /\ UNCHANGED <<debateVars, archiveVars>>

MustSuspend_NoTurnCheck(k) == status \in {"initialized", "debating"}
MustSuspend_NoClosedCheck(k) ==
  status \in {"initialized", "closed"} \/ (status = "debating" /\ ~ HasTurn(k))
MustSuspend(k) ==
  status = "initialized" \/ (status = "debating" /\ ~ HasTurn(k))

WaitSuspend(c) ==
  /\ AtHead(c) /\ call[c].op = "wait" /\ call[c].agent \in Agents
  /\ MustSuspend(call[c])
  /\ queue' = Tail(queue)
  /\ parked' = parked \cup {c}
  /\ UNCHANGED <<call, answer, debateVars, archiveVars>>

(* The waitCapMs timer of a parked wait.                                   *)
WaitTimeout_NotResolved(c) ==
  /\ c \in parked
  /\ parked' = parked \ {c}
  /\ UNCHANGED <<queue, call, answer, debateVars, archiveVars>>
WaitTimeout(c) ==
  /\ c \in parked
  /\ parked' = parked \ {c}
  /\ answer' = [answer EXCEPT ![c] = "timeout"]
  /\ call' = [call EXCEPT ![c] = NoCall]
  /\ UNCHANGED <<queue, debateVars, archiveVars>>

(* ---------------------------------------------------------------------- *)
(* moa_submit_turn                                                         *)
SubmitRejected(c) ==
  /\ AtHead(c) /\ call[c].op = "submit" /\ call[c].agent \in Agents
  /\ \/ status \in {"initialized", "complete", "closed"}
        /\ Reply(c, "debate_not_active")
     \/ status = "debating" /\ ~ HasTurn(call[c]) /\ Reply(c, "not_your_turn")
  /\ UNCHANGED <<debateVars, archiveVars>>

Accepts(c) == AtHead(c) /\ call[c].op = "submit" /\ HasTurn(call[c])

(* A signoff adds a vote, any other turn is a dissent that clears them.    *)
Votes_DissentKeeps(k) == IF k.signoff THEN signoffs \cup {k.agent} ELSE signoffs
Votes(k) == IF k.signoff THEN signoffs \cup {k.agent} ELSE {}

RecordTurn(k) ==
  /\ transcript' = Append(transcript, [turn |-> turn, round |-> round,
                                       speaker |-> k.agent,
                                       signoff |-> k.signoff])
  /\ signoffs' = Votes(k)

(* signoffs.size = agentIds.length: early close, counters untouched.       *)
SubmitUnanimous(c) ==
  /\ Accepts(c)
  /\ RecordTurn(call[c])
  /\ Votes(call[c]) = Agents
  /\ status' = "complete" /\ early' = TRUE
  /\ ReplyAndWake(c, "accepted_last", parked, "debate_complete")
  /\ UNCHANGED <<round, turnIndex, turn, archiveVars>>

(* task.turnIndex >= task.agentIds.length after the increment.             *)
RoundEnds_Late == turnIndex = N
RoundEnds == turnIndex + 1 = N

(* task.round > task.rounds after the increment.                           *)
LastRound_OneMore == round > Rounds
LastRound == round + 1 > Rounds

SubmitAdvance(c) ==
  /\ Accepts(c)
  /\ RecordTurn(call[c])
  /\ Votes(call[c]) # Agents
  /\ turn' = turn + 1
  /\ \/ /\ ~ RoundEnds
        /\ turnIndex' = turnIndex + 1
        /\ ReplyAndWake(c, "accepted", WaitersOf(turnIndex + 1), "your_turn")
        /\ UNCHANGED <<round, status>>
     \/ /\ RoundEnds
        /\ turnIndex' = 0
        /\ round' = round + 1
        /\ \/ /\ LastRound
              /\ status' = "complete"
              /\ ReplyAndWake(c, "accepted_last", parked, "debate_complete")
           \/ /\ ~ LastRound
              /\ ReplyAndWake(c, "accepted", WaitersOf(0), "your_turn")
              /\ UNCHANGED status
  /\ UNCHANGED <<early, archiveVars>>

(* ---------------------------------------------------------------------- *)
(* moa_complete: the four archive layers, then closed.  Accepted in every  *)
(* status of an existing task, "closed" included.                          *)
CompleteBegin(c) ==
  /\ AtHead(c) /\ call[c].op = "complete"
  /\ status # "absent"
  /\ job' = "probe"
  /\ files' = [files EXCEPT !.anew = status = "closed"]
  /\ UNCHANGED <<debateVars, clientVars, notes, posted, grabbed>>

(* A layer that is there is emptied in place before it is written anew.    *)
Truncate ==
  /\ job \in files.layers
  /\ files' = [files EXCEPT !.layers = @ \ {job}]
  /\ UNCHANGED <<debateVars, clientVars, job, notes, posted, grabbed>>

Writes(layer) == job = layer /\ layer \notin files.layers

WriteProbe ==
  /\ Writes("probe")
  /\ job' = "events"
  /\ files' = [files EXCEPT !.layers = @ \cup {"probe"}]
  /\ UNCHANGED <<debateVars, clientVars, notes, posted, grabbed>>

WriteEvents ==
  /\ Writes("events")
  /\ job' = "result"
  /\ files' = [files EXCEPT !.layers = @ \cup {"events"},
                            !.events = transcript]
  /\ UNCHANGED <<debateVars, clientVars, notes, posted, grabbed>>

RoundsCompleted ==
  IF ~ early /\ status \in {"complete", "closed"} THEN Rounds ELSE round - 1

(* Right after result.json, archiveTask looks the task scope up; a read or *)
(* a wait may have created the scope before any note.                      *)
WriteResult ==
  /\ Writes("result")
  /\ job' = "boardDir"
  /\ files' = [files EXCEPT !.layers = @ \cup {"result"},
                            !.result = [status |-> status,
                                        rounds |-> RoundsCompleted,
                                        turns |-> Len(transcript),
                                        early |-> early]]
  /\ \E s \in BOOLEAN :
       /\ notes > 0 => s
       /\ grabbed' = [scope |-> s, records |-> 0]
  /\ UNCHANGED <<debateVars, clientVars, notes, posted>>

(* After its mkdir, archiveTask serialises the records it has a reference  *)
(* to; without a scope at lookup time it holds an empty list for good.     *)
SerialiseBoard ==
  /\ job = "boardDir"
  /\ job' = "board"
  /\ grabbed' = [grabbed EXCEPT !.records = IF grabbed.scope THEN notes ELSE 0]
  /\ UNCHANGED <<debateVars, clientVars, files, notes, posted>>

(* board.jsonl written: the scope seen at lookup is dropped, the task is   *)
(* closed and every remaining waiter is told.                              *)
CompleteEnd(c) ==
  /\ Writes("board") /\ Head(queue) = c
  /\ job' = "idle"
  /\ files' = [files EXCEPT !.layers = @ \cup {"board"}, !.anew = FALSE,
                            !.board = grabbed.records]
  /\ notes' = IF grabbed.scope THEN 0 ELSE notes
  /\ grabbed' = NoGrab
  /\ status' = "closed"
  /\ ReplyAndWake(c, "ok", parked, "closed")
  /\ UNCHANGED <<round, turnIndex, turn, transcript, signoffs, early, posted>>

(* Any mkdir or writeFile of complete may reject: what was written stays,  *)
(* and so does a layer that is half written; the status does not change,   *)
(* the queue goes on with the next call.                                   *)
CompleteFail_Closes(c) ==
  /\ job # "idle" /\ Head(queue) = c
  /\ job' = "idle" /\ status' = "closed"
  /\ grabbed' = NoGrab
  /\ ReplyAndWake(c, "error", parked, "closed")
  /\ UNCHANGED <<round, turnIndex, turn, transcript, signoffs, early,
                 files, notes, posted>>
CompleteFail(c) ==
  /\ job # "idle" /\ Head(queue) = c
  /\ job' = "idle"
  /\ grabbed' = NoGrab
  /\ Reply(c, "error")
  /\ UNCHANGED <<debateVars, files, notes, posted>>

(* A moa_board_write to task:<id> from any session: the scope is created   *)
(* on first use, also after the debate was archived.                       *)
PostNote ==
  /\ posted < MaxNotes
  /\ posted' = posted + 1
  /\ notes' = notes + 1
  /\ UNCHANGED <<debateVars, clientVars, job, files, grabbed>>

Serve(c) ==
  \/ Throw(c) \/ StartDebate(c)
  \/ WaitNow(c) \/ WaitSuspend(c)
  \/ SubmitRejected(c) \/ SubmitUnanimous(c) \/ SubmitAdvance(c)
  \/ CompleteBegin(c) \/ CompleteEnd(c)

ArchiveStep == Truncate \/ WriteProbe \/ WriteEvents \/ WriteResult \/ SerialiseBoard

Next ==
  \/ InitTask
  \/ \E c \in Clients : Enqueue(c)
  \/ \E c \in Clients : Serve(c)
  \/ \E c \in Clients : WaitTimeout(c)
  \/ ArchiveStep
  \/ \E c \in Clients : CompleteFail(c)
  \/ PostNote

Spec == Init /\ [][Next]_vars

(* The event loop runs what is runnable: the head of the queue is served,  *)
(* file writes settle, and every wait timer fires if nothing resolves the  *)
(* wait first.                                                             *)
Fairness ==
  /\ \A c \in Clients : WF_vars(Serve(c)) /\ WF_vars(WaitTimeout(c))
  /\ WF_vars(ArchiveStep)

FairSpec == Spec /\ Fairness

(* ---------------------------------------------------------------------- *)
(* Properties                                                              *)

TypeOK ==
  /\ status \in Statuses
  /\ round \in Nat \ {0} /\ turnIndex \in Agents /\ turn \in Nat
  /\ transcript \in Seq(TurnRecords)
  /\ signoffs \subseteq Agents
  /\ early \in BOOLEAN
  /\ queue \in Seq(Clients)
  /\ call \in [Clients -> Calls \cup {NoCall}]
  /\ parked \subseteq Clients
  /\ answer \in [Clients -> Answers]
  /\ job \in Jobs
  /\ files \in [layers : SUBSET Layers, events : Seq(TurnRecords),
                result : Results, board : Nat, anew : BOOLEAN]
  /\ notes \in Nat /\ posted \in Nat
  /\ grabbed \in [scope : BOOLEAN, records : Nat]

(* Strict rotation (README.md:5): the record after agent a's is agent      *)
(* a+1's in the same round, or agent 0's in the next round, whatever       *)
(* retries, strangers and completes are interleaved.                       *)
RoundRobin ==
  /\ transcript # <<>> => transcript[1].speaker = 0 /\ transcript[1].round = 1
  /\ \A i \in 1..(Len(transcript) - 1) :
       LET r == transcript[i]
           s == transcript[i + 1]
       IN  /\ s.turn = r.turn + 1
           /\ \/ s.speaker = r.speaker + 1 /\ s.round = r.round
              \/ r.speaker = N - 1 /\ s.speaker = 0 /\ s.round = r.round + 1

(* task.signoffs is exactly the set of agents whose turns end the          *)
(* transcript in an unbroken run of signoffs: a dissent clears the votes   *)
(* of everyone, and no vote survives one (state.ts:338-349).               *)
SignoffsAreTrailing ==
  signoffs = {a \in Agents : \E i \in 1..Len(transcript) :
                /\ transcript[i].speaker = a
                /\ \A j \in i..Len(transcript) : transcript[j].signoff}

(* A debate closes early only when every agent's latest turn is a signoff, *)
(* the last N turns in a row (state.ts:351).                               *)
EarlyIsUnanimous ==
  early => /\ Len(transcript) >= N
           /\ \A i \in (Len(transcript) - N + 1)..Len(transcript) :
                 transcript[i].signoff

(* Turns are taken, counted and ended on as the debaters were promised.    *)
TurnsAreFair == RoundRobin /\ SignoffsAreTrailing /\ EarlyIsUnanimous

(* Waiters of an ended debate are never left hanging: wakeAll reaches all  *)
(* of them and nobody parks afterwards (state.ts:362,374,427).             *)
NoWaiterAfterEnd == status \in {"complete", "closed"} => parked = {}

(* The long poll never sleeps through its turn once the debate has moved:  *)
(* only a wait issued before moa_start_debate can be parked while it is    *)
(* its agent's turn, and then nobody has spoken yet.                       *)
NoSleepThroughTurn ==
  (status = "debating" /\ transcript # <<>>) => WaitersOf(CurrentSpeaker) = {}

(* A parked call is one that has something to wait for.                    *)
WaitersAreServed == NoWaiterAfterEnd /\ NoSleepThroughTurn

(* What README.md:224 and debate/index.ts:48 say of moa_wait_turn: it      *)
(* polls until it is the agent's turn.                                     *)
WaitEndsAtTurn == status = "debating" => WaitersOf(CurrentSpeaker) = {}

(* A closed task's archive is whole, however many completes failed before  *)
(* one closed it; unless it is being written again, or the last to do so   *)
(* failed, which may leave a layer half written.  And whatever happens,    *)
(* what is whole of events.jsonl is all of the transcript, and result.json *)
(* counts the same turns, although other calls were queued and served      *)
(* between the writes of one complete or of several (state.ts:396-422).    *)
ArchiveAgrees ==
  status = "closed" =>
    /\ ~files.anew => files.layers = Layers
    /\ "events" \in files.layers => files.events = transcript
    /\ "result" \in files.layers => files.result.turns = Len(transcript)

(* docs/frontend-bus-contract.md:109: board.jsonl holds one line per note  *)
(* of the task: a note is either still in the scope or in the archive.     *)
NoNoteLost == posted <= notes + files.board

(* README.md:12: what moa_complete archived can be replayed afterwards: a  *)
(* later complete of the same task never shrinks board.jsonl.              *)
ArchiveOnlyGrows == [][files'.board >= files.board]_vars

(* docs/frontend-bus-contract.md:108: result.json's status is "complete"   *)
(* or "closed".                                                            *)
ResultStatusIsFinal ==
  "result" \in files.layers => files.result.status \in {"complete", "closed"}

(* ---------------------------------------------------------------------- *)
(* Refinement                                                              *)

Turns == INSTANCE TurnOrder WITH
  phase <- CASE status \in {"absent", "initialized"} -> "waiting"
             [] status = "debating" -> "open"
             [] OTHER -> "over",
  floor <- turnIndex,
  lap <- round,
  log <- [i \in 1..Len(transcript) |->
            [speaker |-> transcript[i].speaker,
             signoff |-> transcript[i].signoff]]

(* The hub implements the turn order it promises.                          *)
TurnOrderSpec == Turns!Spec
=============================================================================
