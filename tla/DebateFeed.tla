----------------------------- MODULE DebateFeed -----------------------------
(***************************************************************************)
(* How a debate reaches its audience: the hub's domain events, the bus     *)
(* that keeps a replay log and the run summary of each task, the debate    *)
(* card in a browser.  A hub in the bus's own process publishes with a     *)
(* call; one in another process posts each event as a request of its own,  *)
(* which may be lost or overtake an earlier one and is never repeated.  A  *)
(* stream replays the log and then follows; it may break and be opened     *)
(* again, and a new bus starts with nothing.  The card reads the archive   *)
(* when the task is closed.                                                *)
(*                                                                         *)
(* One task; a frame is known by its number n among the hub's events.      *)
(* Rounds, names, texts and the layout of the card are left out.           *)
(*                                                                         *)
(* A definition X_Y is X as a plausible bug would have it.                 *)
(***************************************************************************)
EXTENDS Naturals, FiniteSets, SequencesExt

CONSTANTS
  Debaters, Nobody,
  Preset,                 (* the debaters in the order of their turns      *)
  ReplayLimit,            (* frames that the bus keeps per task            *)
  MaxTurns,               (* the turns of all rounds of the preset         *)
  MaxBreaks, MaxArchives,                                     (* bounds    *)
  MaxWire                 (* bound: requests on their way when the hub     *)
                          (* emits the next events                         *)

VARIABLES
  hub,                    (* the task in the hub                           *)
  remote,                 (* the hub is not in the bus's process           *)
  emitted,                (* the hub's events so far                       *)
  wire,                   (* requests on their way to the bus              *)
  log, run,               (* the bus: frames to replay, the run summary    *)
  stream,                 (* the card's stream: frames not yet handled     *)
  card,                   (* what the card shows                           *)
  archived,               (* events.jsonl and result.json                  *)
  breaks,
  published, since        (* history: frames the bus has published, and    *)
                          (* those since the stream was opened             *)

debate == <<hub, emitted, archived>>
bus == <<log, run, published>>
page == <<stream, card, since>>
vars == <<debate, remote, wire, bus, page, breaks>>

NoRun == [status |-> "none", turns |-> 0, signed |-> {}, speaker |-> Nobody]
Closed == [open |-> FALSE, pipe |-> <<>>]
NoCard == [listed |-> FALSE, chosen |-> FALSE, lines |-> <<>>, turns |-> 0, spoken |-> 0,
           stage |-> 0, speaking |-> Nobody, verdict |-> "none", fresh |-> TRUE]

Init ==
  /\ hub = [status |-> "none", turn |-> 0, speaker |-> Nobody, signed |-> {}, writing |-> FALSE]
  /\ remote \in BOOLEAN
  /\ emitted = <<>> /\ wire = {} /\ log = <<>> /\ run = NoRun
  /\ stream = Closed /\ card = NoCard
  /\ archived = [turns |-> 0, result |-> "none", times |-> 0]
  /\ breaks = 0 /\ published = <<>> /\ since = 0

(* ---------------------------------------------------------------------- *)
(* The run summary                                                         *)

Bootstrapped(r) == IF r.status = "none" THEN [r EXCEPT !.status = "initialized"] ELSE r

Ingest_KeepsVotes(r, e) ==
  LET s == Bootstrapped(r)
  IN CASE e.type = "task_initialized" -> [s EXCEPT !.status = "initialized"]
       [] e.type = "debate_started"   -> [s EXCEPT !.status = "debating", !.speaker = e.who, !.signed = {}]
       [] e.type = "turn_submitted"   -> [s EXCEPT !.turns = @ + 1, !.signed = IF e.signoff THEN @ \cup {e.who} ELSE @]
       [] e.type = "turn_advanced"    -> [s EXCEPT !.speaker = e.who]
       [] e.type = "debate_complete"  -> [s EXCEPT !.status = "complete", !.speaker = Nobody]
       [] e.type = "task_closed"      -> [s EXCEPT !.status = "closed", !.speaker = Nobody]
       [] OTHER -> s
Ingest(r, e) ==
  LET s == Bootstrapped(r)
  IN CASE e.type = "task_initialized" -> [s EXCEPT !.status = "initialized"]
       [] e.type = "debate_started"   -> [s EXCEPT !.status = "debating", !.speaker = e.who, !.signed = {}]
       [] e.type = "turn_submitted"   -> [s EXCEPT !.turns = @ + 1, !.signed = IF e.signoff THEN @ \cup {e.who} ELSE @]
       [] e.type = "signoff_reset"    -> [s EXCEPT !.signed = {}]
       [] e.type = "turn_advanced"    -> [s EXCEPT !.speaker = e.who]
       [] e.type = "debate_complete"  -> [s EXCEPT !.status = "complete", !.speaker = Nobody]
       [] e.type = "task_closed"      -> [s EXCEPT !.status = "closed", !.speaker = Nobody]

(* ---------------------------------------------------------------------- *)
(* Publishing                                                              *)

(* The newest frames, as many as are kept.                                 *)
Newest(frames, n) ==
  IF Len(frames) > n THEN SubSeq(frames, Len(frames) - n + 1, Len(frames)) ELSE frames
Trim_Early(frames) == Newest(frames, ReplayLimit - 1)
Trim(frames) == Newest(frames, ReplayLimit)

(* The summary ingests one event after the other.                          *)
Ingested(r, events) ==
  LET after[i \in 0..Len(events)] == IF i = 0 THEN r ELSE Ingest(after[i - 1], events[i])
  IN  after[Len(events)]

(* A call of publish per event: the summary, the log, the subscribers.     *)
Publish(events) ==
  /\ run' = Ingested(run, events)
  /\ log' = Trim(log \o events)
  /\ stream' = IF stream.open THEN [stream EXCEPT !.pipe = @ \o events] ELSE stream
  /\ since' = IF stream.open THEN since + Len(events) ELSE since
  /\ published' = published \o events

(* The hub's event sink.                                                   *)
Event(type, who, signoff) ==
  [type |-> type, who |-> who, signoff |-> signoff, turn |-> hub'.turn, n |-> Len(emitted)]
Emit(events) ==
  LET numbered == [i \in DOMAIN events |-> [events[i] EXCEPT !.n = @ + i]]
  IN /\ emitted' = emitted \o numbered
     /\ IF remote
        THEN wire' = wire \cup ToSet(numbered) /\ UNCHANGED <<bus, stream, since>>
        ELSE Publish(numbered) /\ UNCHANGED wire
     /\ UNCHANGED <<remote, card, breaks>>

Deliver(e) ==
  /\ e \in wire
  /\ wire' = wire \ {e}
  /\ Publish(<<e>>)
  /\ UNCHANGED <<debate, remote, card, breaks>>

(* A request that times out, is refused or fails is dropped: the bus may   *)
(* have handled it all the same.                                           *)
Lose_Repeats(e) ==
  /\ e \in wire /\ breaks < MaxBreaks
  /\ UNCHANGED wire
  /\ Publish(<<e>>)
  /\ breaks' = breaks + 1
  /\ UNCHANGED <<debate, remote, card>>
Lose(e) ==
  /\ e \in wire /\ breaks < MaxBreaks
  /\ wire' = wire \ {e}
  /\ Publish(<<e>>) \/ UNCHANGED <<bus, stream, since>>
  /\ breaks' = breaks + 1
  /\ UNCHANGED <<debate, remote, card>>

(* ---------------------------------------------------------------------- *)
(* The hub: each operation emits its events in one go                      *)

First == Preset[1]
Successor(d) ==
  LET i == CHOOSE i \in DOMAIN Preset : Preset[i] = d IN Preset[(i % Len(Preset)) + 1]

InitTask ==
  /\ hub.status = "none"
  /\ hub' = [hub EXCEPT !.status = "initialized"]
  /\ Emit(<<Event("task_initialized", Nobody, FALSE)>>) /\ UNCHANGED archived

StartDebate ==
  /\ hub.status = "initialized" /\ ~hub.writing
  /\ hub' = [hub EXCEPT !.status = "debating", !.speaker = First]
  /\ Emit(<<Event("debate_started", First, FALSE)>>) /\ UNCHANGED archived

SubmitTurn(signoff) ==
  LET a == hub.speaker
      votes == IF signoff THEN hub.signed \cup {a} ELSE {}
      over == votes = Debaters \/ hub.turn + 1 = MaxTurns
      reset == IF ~signoff /\ hub.signed # {} THEN <<Event("signoff_reset", a, FALSE)>> ELSE <<>>
      then == IF over THEN Event("debate_complete", Nobody, FALSE)
              ELSE Event("turn_advanced", Successor(a), FALSE)
  IN /\ hub.status = "debating" /\ ~hub.writing
     /\ hub' = [hub EXCEPT !.status = IF over THEN "complete" ELSE @, !.turn = @ + 1, !.signed = votes,
                           !.speaker = IF over THEN Nobody ELSE Successor(a)]
     /\ Emit(<<Event("turn_submitted", a, signoff)>> \o reset \o <<then>>)
     /\ UNCHANGED archived

(* complete: events.jsonl, then result.json, both in place; then the task  *)
(* is closed, also a second time.  A write that fails leaves them torn.    *)
WriteArchive ==
  /\ hub.status # "none" /\ ~hub.writing /\ archived.times < MaxArchives
  /\ hub' = [hub EXCEPT !.writing = TRUE]
  /\ archived' = [turns |-> hub.turn, result |-> "torn", times |-> archived.times + 1]
  /\ UNCHANGED <<emitted, remote, wire, bus, page, breaks>>

CloseTask ==
  /\ hub.writing
  /\ hub' = [hub EXCEPT !.status = "closed", !.writing = FALSE, !.speaker = Nobody]
  /\ archived' = [archived EXCEPT !.result = "whole"]
  /\ Emit(<<Event("task_closed", Nobody, FALSE)>>)

FailArchive ==
  /\ hub.writing
  /\ hub' = [hub EXCEPT !.writing = FALSE]
  /\ UNCHANGED <<archived, emitted, remote, wire, bus, page, breaks>>

(* ---------------------------------------------------------------------- *)
(* The card                                                                *)

(* Without a task in its address the page offers those that have a log.    *)
ActiveTasks == IF log = <<>> THEN {} ELSE {"task"}
ListTasks ==
  /\ ~card.chosen /\ card.listed # (ActiveTasks # {})
  /\ card' = [card EXCEPT !.listed = ActiveTasks # {}]
  /\ UNCHANGED <<debate, remote, wire, bus, stream, since, breaks>>
ChooseTask ==
  /\ ~card.chosen /\ card.listed
  /\ card' = [card EXCEPT !.chosen = TRUE]
  /\ UNCHANGED <<debate, remote, wire, bus, stream, since, breaks>>

Subscribe_Once ==
  /\ card.chosen /\ ~stream.open /\ card.lines = <<>>
  /\ stream' = [open |-> TRUE, pipe |-> log]
  /\ since' = Len(log)
  /\ card' = [card EXCEPT !.fresh = @ /\ card.lines = <<>>]
  /\ UNCHANGED <<debate, remote, wire, bus, breaks>>
Subscribe ==
  /\ card.chosen /\ ~stream.open
  /\ stream' = [open |-> TRUE, pipe |-> log]
  /\ since' = Len(log)
  /\ card' = [card EXCEPT !.fresh = @ /\ card.lines = <<>>]
  /\ UNCHANGED <<debate, remote, wire, bus, breaks>>

(* The stream breaks; connectSSE opens it again and the replay is handled  *)
(* like news.                                                              *)
Disconnect ==
  /\ stream.open /\ breaks < MaxBreaks
  /\ stream' = Closed /\ since' = 0 /\ breaks' = breaks + 1
  /\ card' = [card EXCEPT !.fresh = FALSE]
  /\ UNCHANGED <<debate, remote, wire, bus>>

SetStage(c, n) == [c EXCEPT !.stage = n]
AddTurn(c, e) == [c EXCEPT !.lines = Append(@, e.turn), !.turns = @ + 1, !.spoken = @ + 1, !.speaking = Nobody]
OnClosed(c) == SetStage([c EXCEPT !.speaking = Nobody, !.verdict = "loading"], 5)

OnEvent_Counts(c, e) ==
  CASE e.type = "task_initialized" -> SetStage([c EXCEPT !.spoken = 0, !.speaking = Nobody], 1)
    [] e.type = "debate_started"   -> SetStage(c, 2)
    [] e.type = "turn_submitted"   -> AddTurn(c, [e EXCEPT !.turn = c.turns])
    [] e.type = "task_closed"      -> OnClosed(c)
    [] OTHER -> c
OnEvent(c, e) ==
  CASE e.type = "task_initialized" -> SetStage([c EXCEPT !.spoken = 0, !.speaking = Nobody], 1)
    [] e.type = "debate_started"   -> SetStage(c, 2)
    [] e.type = "turn_submitted"   -> AddTurn(c, e)
    [] e.type = "turn_advanced"    -> [c EXCEPT !.speaking = e.who]
    [] e.type = "debate_complete"  -> SetStage([c EXCEPT !.speaking = Nobody], 3)
    [] e.type = "task_closed"      -> OnClosed(c)
    [] e.type = "signoff_reset"    -> c

Receive ==
  /\ stream.pipe # <<>>
  /\ stream' = [stream EXCEPT !.pipe = Tail(@)]
  /\ card' = OnEvent(card, Head(stream.pipe))
  /\ UNCHANGED <<debate, remote, wire, bus, since, breaks>>

(* result.json arrives: a half written one does not parse and leaves the   *)
(* card as it is; a failed request shows a button that asks again.         *)
LoadVerdict ==
  /\ card.verdict = "loading" /\ archived.result # "none"
  /\ card' = [card EXCEPT !.verdict = IF archived.result = "whole" THEN "shown" ELSE "blank"]
  /\ UNCHANGED <<debate, remote, wire, bus, stream, since, breaks>>
FailToLoad ==
  /\ card.verdict = "loading" /\ breaks < MaxBreaks
  /\ card' = [card EXCEPT !.verdict = "error"]
  /\ breaks' = breaks + 1
  /\ UNCHANGED <<debate, remote, wire, bus, stream, since>>
Retry ==
  /\ card.verdict = "error"
  /\ card' = [card EXCEPT !.verdict = "loading"]
  /\ UNCHANGED <<debate, remote, wire, bus, stream, since, breaks>>

(* The full transcript replaces the lines by those of events.jsonl: the    *)
(* first ones, if it is torn.                                              *)
FullTranscript_Appends ==
  /\ card.verdict = "shown"
  /\ card' = [card EXCEPT !.lines = @ \o [i \in 1..archived.turns |-> i], !.verdict = "full",
                          !.fresh = TRUE]
  /\ UNCHANGED <<debate, remote, wire, bus, stream, since, breaks>>
FullTranscript ==
  /\ card.verdict = "shown"
  /\ \E k \in IF archived.result = "torn" THEN 0..archived.turns ELSE {archived.turns} :
       card' = [card EXCEPT !.lines = [i \in 1..k |-> i], !.verdict = "full",
                            !.fresh = k = archived.turns /\ wire = {} /\ stream.pipe = <<>>]
  /\ UNCHANGED <<debate, remote, wire, bus, stream, since, breaks>>

(* The port changes hands: the new bus has neither log nor summary.        *)
Takeover ==
  /\ breaks < MaxBreaks /\ published # <<>>
  /\ log' = <<>> /\ run' = NoRun /\ published' = <<>>
  /\ stream' = Closed /\ since' = 0 /\ breaks' = breaks + 1
  /\ card' = [card EXCEPT !.fresh = card.fresh /\ ~stream.open]
  /\ UNCHANGED <<debate, remote, wire>>

Hub ==
  /\ Cardinality(wire) <= MaxWire
  /\ \/ InitTask \/ StartDebate \/ \E s \in BOOLEAN : SubmitTurn(s)
     \/ WriteArchive \/ CloseTask \/ FailArchive
Card ==
  \/ ListTasks \/ ChooseTask \/ Subscribe \/ Receive
  \/ LoadVerdict \/ FailToLoad \/ Retry \/ FullTranscript
Next ==
  \/ Hub \/ Card \/ Disconnect \/ Takeover
  \/ \E e \in wire : Deliver(e) \/ Lose(e)

Spec == Init /\ [][Next]_vars

(* A card that stays gets every frame, its stream is opened again as often *)
(* as it breaks, and what it asks the bus for is answered in the end.      *)
Fairness == WF_vars(Subscribe) /\ WF_vars(Receive) /\ WF_vars(LoadVerdict) /\ WF_vars(CloseTask)
LiveSpec == Spec /\ Fairness

(* ---------------------------------------------------------------------- *)
(* Properties                                                              *)

(* While a stream is open, nothing that the bus publishes is missing from  *)
(* it or in it twice: it holds what was published last, in that order, and *)
(* it began with all that the replay limit allows (bus.ts:712-715: replay  *)
(* and registration are one turn of the event loop).                       *)
FeedIsGapless ==
  stream.open =>
    LET all == Len(published)
        left == Len(stream.pipe)
    IN /\ stream.pipe = SubSeq(published, all - left + 1, all)
       /\ since >= (IF all < ReplayLimit THEN all ELSE ReplayLimit)

(* The run summary of a bus that saw the whole debate agrees with the hub: *)
(* status, turns, speaker and the votes that still stand                   *)
(* (run-read-model.ts:180).                                                *)
RunFollowsDebate ==
  ~remote /\ published = emitted =>
    run = [status |-> hub.status, turns |-> hub.turn, signed |-> hub.signed, speaker |-> hub.speaker]

(* No turn is counted or shown twice, whatever requests are lost on their  *)
(* way to the bus: they are not repeated (server.ts:85-110).  A card that  *)
(* had to reconnect may repeat them, and so may one that loaded the full   *)
(* transcript while a request overtaken by the closing was on its way.     *)
NoTurnTwice ==
  /\ run.turns <= hub.turn
  /\ card.fresh => IsInjective(card.lines)

(* The transcript on a card that was never cut off, or whose full          *)
(* transcript was loaded since and whole, is the debate: one turn after    *)
(* the other, none left out (debate-card.ts:987, 1029).                    *)
TranscriptIsTheDebate ==
  /\ ~remote /\ card.fresh =>
       \A i \in 1..(Len(card.lines) - 1) : card.lines[i + 1] = card.lines[i] + 1
  /\ card.fresh /\ card.verdict = "full" /\ card.lines # <<>> => card.lines[1] = 1
  /\ \A i \in DOMAIN card.lines : card.lines[i] \in 1..hub.turn

(* A card that has chosen its task sees the end of a debate that closes,   *)
(* as long as the bus stays and every event reaches it.                    *)
CardSeesTheEnd == hub.status = "closed" ~> remote \/ published # emitted \/ ~card.chosen \/ card.stage = 5
=============================================================================
