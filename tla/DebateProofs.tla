---------------------------- MODULE DebateProofs ----------------------------
(***************************************************************************)
(* Proofs about a debate and those who look on: the hub under arbitrary    *)
(* clients, the debaters that keep to the submission protocol, the list of *)
(* archives, the feed to the debate card; for any number of agents,        *)
(* rounds, clients, files and frames.                                      *)
(***************************************************************************)
EXTENDS MCDebateAudience, FiniteSetTheorems, SequenceTheorems, TLAPS

(* ---------------------------------------------------------------------- *)
(* The hub                                                                 *)

(* Answering a call keeps the client side well typed.                      *)
LEMMA ReplyType ==
  ASSUME NEW c \in Clients, NEW a \in Answers, NEW w \in Answers,
         NEW W, TypeOK, queue # <<>>, ReplyAndWake(c, a, W, w)
  PROVE  /\ queue' \in Seq(Clients)
         /\ call' \in [Clients -> Calls \cup {NoCall}]
         /\ parked' \subseteq Clients
         /\ answer' \in [Clients -> Answers]
BY DEF ReplyAndWake, TypeOK

(* A recorded turn extends the transcript by a turn record.                *)
LEMMA RecordType ==
  ASSUME NEW c \in Clients, TypeOK, Accepts(c), RecordTurn(call[c])
  PROVE  /\ transcript' \in Seq(TurnRecords)
         /\ signoffs' \subseteq Agents
<1>1. /\ call[c].agent \in Agents
      /\ call[c].signoff \in BOOLEAN
  <2>1. call[c] \in Calls
    BY DEF TypeOK, Accepts, NoCall
  <2>2. call[c].agent = turnIndex
    BY DEF Accepts, HasTurn, CurrentSpeaker
  <2>3. call[c].signoff \in BOOLEAN
    BY <2>1 DEF Calls
  <2>. QED
    BY <2>2, <2>3 DEF TypeOK
<1>2. [turn |-> turn, round |-> round, speaker |-> call[c].agent,
       signoff |-> call[c].signoff] \in TurnRecords
  BY <1>1 DEF TypeOK, TurnRecords
<1>. QED
  BY <1>1, <1>2 DEF TypeOK, RecordTurn, Votes

(* While complete() runs its call is still at the head of the queue.       *)
Busy == job # "idle" => queue # <<>>

(* TypeOK is inductive together with Busy.                                 *)
LEMMA TypeInvariant == Spec => [](TypeOK /\ Busy)
<1> USE NAssumption, RoundsAssumption
<1>1. Init => TypeOK /\ Busy
  <2> SUFFICES ASSUME Init PROVE TypeOK /\ Busy
    OBVIOUS
  <2>1. NoFiles \in [layers : SUBSET Layers, events : Seq(TurnRecords),
                     result : Results, board : Nat, anew : BOOLEAN]
    BY DEF NoFiles, NoResult, Results, Statuses
  <2>2. NoGrab \in [scope : BOOLEAN, records : Nat]
    BY DEF NoGrab
  <2>3. 0 \in Agents
    BY DEF Agents
  <2>4. call \in [Clients -> Calls \cup {NoCall}]
    BY DEF Init
  <2>5. answer \in [Clients -> Answers]
    BY DEF Init, Answers
  <2>6. /\ transcript \in Seq(TurnRecords) /\ queue \in Seq(Clients)
        /\ round \in Nat \ {0} /\ turn \in Nat
        /\ notes \in Nat /\ posted \in Nat
    BY DEF Init
  <2>. QED
    BY <2>1, <2>2, <2>3, <2>4, <2>5, <2>6
    DEF Init, TypeOK, Busy, Statuses, Jobs
<1>2. TypeOK /\ Busy /\ [Next]_vars => TypeOK'
  <2> SUFFICES ASSUME TypeOK, Busy, [Next]_vars PROVE TypeOK'
    OBVIOUS
  <2>1. CASE InitTask
    BY <2>1 DEF InitTask, TypeOK, clientVars, archiveVars, Statuses
  <2>2. ASSUME NEW c \in Clients, Enqueue(c) PROVE TypeOK'
    BY <2>2 DEF Enqueue, TypeOK, debateVars, archiveVars, Answers
  <2>3. ASSUME NEW c \in Clients, Throw(c) PROVE TypeOK'
    <3>1. ReplyAndWake(c, "error", {}, "none") /\ queue # <<>>
      BY <2>3 DEF Throw, Reply, AtHead
    <3>. QED
      BY <2>3, <3>1, ReplyType DEF Throw, TypeOK, debateVars, archiveVars,
                                   Answers
  <2>4. ASSUME NEW c \in Clients, StartDebate(c) PROVE TypeOK'
    <3>1. ReplyAndWake(c, "ok", {}, "none") /\ queue # <<>>
      BY <2>4 DEF StartDebate, Reply, AtHead
    <3>2. 0 \in Agents
      BY DEF Agents
    <3>3. /\ queue' \in Seq(Clients)
          /\ call' \in [Clients -> Calls \cup {NoCall}]
          /\ parked' \subseteq Clients
          /\ answer' \in [Clients -> Answers]
      BY <3>1, ReplyType DEF Answers
    <3>4. round' \in Nat \ {0} /\ turn' \in Nat /\ signoffs' \subseteq Agents
      BY <2>4 DEF StartDebate
    <3>. QED
      BY <2>4, <3>2, <3>3, <3>4 DEF StartDebate, TypeOK, archiveVars, Statuses
  <2>5. ASSUME NEW c \in Clients, WaitNow(c) PROVE TypeOK'
    <3>1. /\ queue # <<>>
          /\ \E a \in {"your_turn", "debate_complete", "closed"} :
                ReplyAndWake(c, a, {}, "none")
      BY <2>5 DEF WaitNow, Reply, AtHead
    <3>2. /\ queue' \in Seq(Clients)
          /\ call' \in [Clients -> Calls \cup {NoCall}]
          /\ parked' \subseteq Clients
          /\ answer' \in [Clients -> Answers]
      <4>1. PICK a \in {"your_turn", "debate_complete", "closed"} :
                ReplyAndWake(c, a, {}, "none")
        BY <3>1
      <4>. QED
        BY <4>1, <3>1, ReplyType DEF Answers
    <3>. QED
      BY <2>5, <3>2 DEF WaitNow, TypeOK, debateVars, archiveVars
  <2>6. ASSUME NEW c \in Clients, WaitSuspend(c) PROVE TypeOK'
    BY <2>6 DEF WaitSuspend, AtHead, TypeOK, debateVars, archiveVars
  <2>7. ASSUME NEW c \in Clients, SubmitRejected(c) PROVE TypeOK'
    <3>1. /\ queue # <<>>
          /\ \E a \in {"debate_not_active", "not_your_turn"} :
                ReplyAndWake(c, a, {}, "none")
      BY <2>7 DEF SubmitRejected, Reply, AtHead
    <3>2. /\ queue' \in Seq(Clients)
          /\ call' \in [Clients -> Calls \cup {NoCall}]
          /\ parked' \subseteq Clients
          /\ answer' \in [Clients -> Answers]
      <4>1. PICK a \in {"debate_not_active", "not_your_turn"} :
                ReplyAndWake(c, a, {}, "none")
        BY <3>1
      <4>. QED
        BY <4>1, <3>1, ReplyType DEF Answers
    <3>. QED
      BY <2>7, <3>2 DEF SubmitRejected, TypeOK, debateVars, archiveVars
  <2>8. ASSUME NEW c \in Clients, SubmitUnanimous(c) PROVE TypeOK'
    <3>1. queue # <<>>
      BY <2>8 DEF SubmitUnanimous, Accepts, AtHead
    <3>2. /\ ReplyAndWake(c, "accepted_last", parked, "debate_complete")
          /\ Accepts(c) /\ RecordTurn(call[c])
      BY <2>8 DEF SubmitUnanimous
    <3>3. /\ transcript' \in Seq(TurnRecords)
          /\ signoffs' \subseteq Agents
      BY <3>2, RecordType
    <3>. QED
      BY <2>8, <3>1, <3>2, <3>3, ReplyType
      DEF SubmitUnanimous, TypeOK, archiveVars, Answers, Statuses
  <2>9. ASSUME NEW c \in Clients, SubmitAdvance(c) PROVE TypeOK'
    <3>1. /\ queue # <<>>
          /\ Accepts(c) /\ RecordTurn(call[c])
      BY <2>9 DEF SubmitAdvance, Accepts, AtHead
    <3>2. /\ transcript' \in Seq(TurnRecords)
          /\ signoffs' \subseteq Agents
      BY <3>1, RecordType
    <3>3. \E a \in Answers, w \in Answers, W \in SUBSET parked :
             ReplyAndWake(c, a, W, w)
      <4>1. \A a : WaitersOf(a) \in SUBSET parked
        BY DEF WaitersOf
      <4>. QED
        BY <2>9, <4>1 DEF SubmitAdvance, Answers
    <3>4. /\ queue' \in Seq(Clients)
          /\ call' \in [Clients -> Calls \cup {NoCall}]
          /\ parked' \subseteq Clients
          /\ answer' \in [Clients -> Answers]
      BY <3>1, <3>3, ReplyType
    <3>5. /\ turnIndex' \in Agents /\ round' \in Nat \ {0} /\ turn' \in Nat
          /\ status' \in Statuses
      BY <2>9 DEF SubmitAdvance, TypeOK, Agents, Statuses, RoundEnds
    <3>. QED
      BY <2>9, <3>2, <3>4, <3>5 DEF SubmitAdvance, TypeOK, archiveVars
  <2>10. ASSUME NEW c \in Clients, CompleteBegin(c) PROVE TypeOK'
    BY <2>10 DEF CompleteBegin, TypeOK, debateVars, clientVars, Jobs, Layers
  <2>20. CASE Truncate
    BY <2>20 DEF Truncate, TypeOK, debateVars, clientVars
  <2>11. CASE WriteProbe
    BY <2>11 DEF WriteProbe, TypeOK, debateVars, clientVars, Jobs, Layers
  <2>12. CASE WriteEvents
    BY <2>12 DEF WriteEvents, TypeOK, debateVars, clientVars, Jobs, Layers
  <2>13. CASE WriteResult
    <3>1. RoundsCompleted \in Nat /\ Len(transcript) \in Nat
      BY DEF RoundsCompleted, TypeOK
    <3>2. [status |-> status, rounds |-> RoundsCompleted,
           turns |-> Len(transcript), early |-> early] \in Results
      BY <3>1 DEF Results, TypeOK
    <3>3. grabbed' \in [scope : BOOLEAN, records : Nat]
      BY <2>13 DEF WriteResult
    <3>4. files' \in [layers : SUBSET Layers, events : Seq(TurnRecords),
                      result : Results, board : Nat, anew : BOOLEAN]
      <4>1. PICK r \in Results :
               files' = [files EXCEPT !.layers = @ \cup {"result"},
                                      !.result = r]
        BY <2>13, <3>2 DEF WriteResult
      <4>. QED
        BY <4>1 DEF TypeOK, Layers
    <3>5. job' \in Jobs
      BY <2>13 DEF WriteResult, Jobs, Layers
    <3>. QED
      BY <2>13, <3>3, <3>4, <3>5 DEF WriteResult, TypeOK, debateVars, clientVars
  <2>14. CASE SerialiseBoard
    BY <2>14 DEF SerialiseBoard, TypeOK, debateVars, clientVars, Jobs, Layers
  <2>15. ASSUME NEW c \in Clients, CompleteEnd(c) PROVE TypeOK'
    <3>0. queue # <<>>
      BY <2>15 DEF CompleteEnd, Writes, Busy
    <3>1. ReplyAndWake(c, "ok", parked, "closed")
      BY <2>15 DEF CompleteEnd
    <3>. QED
      BY <2>15, <3>0, <3>1, ReplyType DEF CompleteEnd, TypeOK, Jobs, Layers, NoGrab, Answers,
                                    Statuses
  <2>16. ASSUME NEW c \in Clients, CompleteFail(c) PROVE TypeOK'
    <3>0. queue # <<>>
      BY <2>16 DEF CompleteFail, Busy
    <3>1. ReplyAndWake(c, "error", {}, "none")
      BY <2>16 DEF CompleteFail, Reply
    <3>. QED
      BY <2>16, <3>0, <3>1, ReplyType DEF CompleteFail, TypeOK, Jobs, Layers, NoGrab, Answers,
                                    debateVars
  <2>17. CASE PostNote
    BY <2>17 DEF PostNote, TypeOK, debateVars, clientVars
  <2>18. ASSUME NEW c \in Clients, WaitTimeout(c) PROVE TypeOK'
    BY <2>18 DEF WaitTimeout, TypeOK, debateVars, archiveVars, Answers
  <2>19. CASE UNCHANGED vars
    BY <2>19 DEF vars, debateVars, clientVars, archiveVars, TypeOK
  <2>. QED
    BY <2>1, <2>2, <2>3, <2>4, <2>5, <2>6, <2>7, <2>8, <2>9, <2>10, <2>11,
       <2>12, <2>13, <2>14, <2>15, <2>16, <2>17, <2>18, <2>19, <2>20
    DEF Next, Serve, ArchiveStep
<1>3. TypeOK /\ Busy /\ [Next]_vars => Busy'
  <2> SUFFICES ASSUME TypeOK, Busy, [Next]_vars PROVE Busy'
    OBVIOUS
  <2>1. ASSUME NEW c \in Clients, Serve(c) PROVE Busy'
    BY <2>1 DEF Serve, Busy, AtHead, Throw, StartDebate, WaitNow, WaitSuspend,
                SubmitRejected, SubmitUnanimous, SubmitAdvance, Accepts,
                CompleteBegin, CompleteEnd, Writes, archiveVars, clientVars
  <2>2. ASSUME NEW c \in Clients, Enqueue(c) PROVE Busy'
    BY <2>2 DEF Enqueue, Busy, archiveVars, TypeOK
  <2>3. ASSUME NEW c \in Clients, WaitTimeout(c) \/ CompleteFail(c)
        PROVE  Busy'
    BY <2>3 DEF WaitTimeout, CompleteFail, Busy, archiveVars
  <2>4. CASE InitTask \/ ArchiveStep \/ PostNote \/ UNCHANGED vars
    BY <2>4 DEF InitTask, ArchiveStep, Truncate, WriteProbe, WriteEvents, WriteResult,
                SerialiseBoard, PostNote, Writes, Busy, clientVars, archiveVars, vars
  <2>. QED
    BY <2>1, <2>2, <2>3, <2>4 DEF Next
<1>. QED
  BY <1>1, <1>2, <1>3, PTL DEF Spec

(* Every state variable of the hub keeps its type, whatever the clients    *)
(* call and whichever archive write fails (state.ts:197-431).              *)
THEOREM TypeCorrect == Spec => []TypeOK
BY TypeInvariant, PTL

(* ---------------------------------------------------------------------- *)

(* Nobody is left parked once a debate has ended: wakeAll reaches every    *)
(* waiter, and a wait served later never parks (state.ts:280,362,374,427). *)
THEOREM WaitersDismissed == Spec => []NoWaiterAfterEnd
<1>1. Init => NoWaiterAfterEnd
  BY DEF Init, NoWaiterAfterEnd
<1>2. NoWaiterAfterEnd /\ [Next]_vars => NoWaiterAfterEnd'
  <2> SUFFICES ASSUME NoWaiterAfterEnd, [Next]_vars PROVE NoWaiterAfterEnd'
    OBVIOUS
  <2>1. ASSUME NEW c \in Clients, Serve(c) PROVE NoWaiterAfterEnd'
    <3>1. CASE Throw(c) \/ StartDebate(c) \/ WaitNow(c) \/ SubmitRejected(c)
      BY <3>1 DEF Throw, StartDebate, WaitNow, SubmitRejected, Reply,
                  ReplyAndWake, debateVars, NoWaiterAfterEnd
    <3>2. CASE WaitSuspend(c) \/ CompleteBegin(c)
      BY <3>2 DEF WaitSuspend, MustSuspend, CompleteBegin, debateVars, clientVars,
                  NoWaiterAfterEnd
    <3>3. CASE SubmitUnanimous(c) \/ CompleteEnd(c)
      BY <3>3 DEF SubmitUnanimous, CompleteEnd, ReplyAndWake, NoWaiterAfterEnd
    <3>4. CASE SubmitAdvance(c)
      BY <3>4 DEF SubmitAdvance, Accepts, HasTurn, ReplyAndWake, NoWaiterAfterEnd
    <3>. QED
      BY <2>1, <3>1, <3>2, <3>3, <3>4 DEF Serve
  <2>2. ASSUME NEW c \in Clients, Enqueue(c) \/ WaitTimeout(c) \/ CompleteFail(c)
        PROVE  NoWaiterAfterEnd'
    BY <2>2 DEF Enqueue, WaitTimeout, CompleteFail, Reply, ReplyAndWake,
                debateVars, NoWaiterAfterEnd
  <2>3. CASE InitTask \/ ArchiveStep \/ PostNote \/ UNCHANGED vars
    BY <2>3 DEF InitTask, ArchiveStep, Truncate, WriteProbe, WriteEvents, WriteResult,
                SerialiseBoard, PostNote, clientVars, debateVars, vars,
                NoWaiterAfterEnd
  <2>. QED
    BY <2>1, <2>2, <2>3 DEF Next
<1>. QED
  BY <1>1, <1>2, PTL DEF Spec

(* ---------------------------------------------------------------------- *)

(* A client with a call outstanding is in one place only: once in the      *)
(* queue, or parked.                                                       *)
OnePlace ==
  /\ \A c \in parked : call[c] # NoCall
  /\ \A i \in 1..Len(queue) : call[queue[i]] # NoCall /\ queue[i] \notin parked
  /\ \A i, j \in 1..Len(queue) : queue[i] = queue[j] => i = j

(* Serving the head and waking parked clients keeps everybody in place.    *)
LEMMA ReplyKeepsPlaces ==
  ASSUME TypeOK, OnePlace, NEW c \in Clients, NEW a, NEW w,
         NEW W \in SUBSET parked,
         queue # <<>>, Head(queue) = c, ReplyAndWake(c, a, W, w)
  PROVE  OnePlace'
<1>1. /\ Len(queue') = Len(queue) - 1
      /\ \A i \in 1..Len(queue') : queue'[i] = queue[i + 1]
      /\ Len(queue) \in Nat /\ Len(queue) > 0 /\ c = queue[1]
  BY DEF ReplyAndWake, TypeOK
<1>2. \A i \in 1..Len(queue') : /\ queue'[i] \in Clients
                                 /\ queue'[i] # c
                                 /\ queue'[i] \notin parked
                                 /\ call[queue'[i]] # NoCall
  <2> SUFFICES ASSUME NEW i \in 1..Len(queue')
               PROVE  /\ queue'[i] \in Clients
                      /\ queue'[i] # c
                      /\ queue'[i] \notin parked
                      /\ call[queue'[i]] # NoCall
    OBVIOUS
  <2>1. /\ queue'[i] = queue[i + 1]
        /\ i + 1 \in 1..Len(queue) /\ 1 \in 1..Len(queue) /\ i + 1 # 1
    BY <1>1
  <2>. QED
    BY <1>1, <2>1 DEF OnePlace, TypeOK
<1>3. c \notin parked
  BY <1>1 DEF OnePlace
<1>4. \A x \in Clients : x # c /\ x \notin W => call'[x] = call[x]
  BY DEF ReplyAndWake
<1>5. \A x \in parked' : call'[x] # NoCall
  BY <1>3, <1>4 DEF ReplyAndWake, OnePlace, TypeOK
<1>6. \A i \in 1..Len(queue') : call'[queue'[i]] # NoCall /\ queue'[i] \notin parked'
  BY <1>2, <1>4 DEF ReplyAndWake
<1>7. \A i, j \in 1..Len(queue') : queue'[i] = queue'[j] => i = j
  BY <1>1 DEF OnePlace
<1>. QED
  BY <1>5, <1>6, <1>7 DEF OnePlace

(* Every step of the hub keeps every client in one place.                  *)
LEMMA PlacesKept == TypeOK /\ Busy /\ OnePlace /\ [Next]_vars => OnePlace'
<1> SUFFICES ASSUME TypeOK, Busy, OnePlace, [Next]_vars PROVE OnePlace'
  OBVIOUS
<1>1. ASSUME NEW c \in Clients, Serve(c) \/ CompleteFail(c), ~ WaitSuspend(c),
             ~ CompleteBegin(c)
      PROVE  OnePlace'
  <2>1. queue # <<>> /\ Head(queue) = c
    BY <1>1 DEF Serve, Busy, AtHead, Throw, StartDebate, WaitNow, Accepts,
                SubmitRejected, SubmitUnanimous, SubmitAdvance, CompleteEnd,
                Writes, CompleteFail
  <2>2. \A a : WaitersOf(a) \in SUBSET parked
    BY DEF WaitersOf
  <2>3. \E a, w : \E W \in SUBSET parked : ReplyAndWake(c, a, W, w)
    <3>1. CASE Throw(c) \/ StartDebate(c) \/ CompleteFail(c)
      BY <3>1 DEF Throw, StartDebate, CompleteFail, Reply
    <3>2. CASE WaitNow(c) \/ SubmitRejected(c)
      BY <3>2 DEF WaitNow, SubmitRejected, Reply
    <3>3. CASE SubmitUnanimous(c) \/ CompleteEnd(c)
      BY <3>3 DEF SubmitUnanimous, CompleteEnd
    <3>4. CASE SubmitAdvance(c)
      BY <3>4, <2>2 DEF SubmitAdvance
    <3>. QED
      BY <1>1, <3>1, <3>2, <3>3, <3>4 DEF Serve
  <2>. QED
    BY <2>1, <2>3, ReplyKeepsPlaces
<1>2. ASSUME NEW c \in Clients, WaitSuspend(c) PROVE OnePlace'
  <2>1. /\ queue # <<>> /\ c = queue[1]
        /\ Len(queue') = Len(queue) - 1
        /\ \A i \in 1..Len(queue') : queue'[i] = queue[i + 1]
        /\ Len(queue) \in Nat
    BY <1>2 DEF WaitSuspend, AtHead, TypeOK
  <2>2. call[c] # NoCall
    BY <1>2 DEF WaitSuspend, NoCall
  <2>3. \A i \in 1..Len(queue') : /\ i + 1 \in 1..Len(queue)
                                   /\ queue'[i] # c /\ queue'[i] \notin parked
                                   /\ call[queue'[i]] # NoCall
    BY <2>1 DEF OnePlace
  <2>4. \A i, j \in 1..Len(queue') : queue'[i] = queue'[j] => i = j
    BY <2>1, <2>3 DEF OnePlace
  <2>. QED
    BY <1>2, <2>2, <2>3, <2>4 DEF WaitSuspend, OnePlace
<1>3. ASSUME NEW c \in Clients, Enqueue(c) PROVE OnePlace'
  <2>1. \A k \in Calls : k # NoCall
    <3>1. \A k \in Calls : k.op # "none"
      BY DEF Calls
    <3>2. NoCall.op = "none"
      BY DEF NoCall
    <3>. QED
      BY <3>1, <3>2
  <2>2. /\ call'[c] # NoCall
        /\ \A x \in Clients \ {c} : call'[x] = call[x]
        /\ c \notin parked
        /\ \A i \in 1..Len(queue) : queue[i] # c
    BY <1>3, <2>1 DEF Enqueue, Idle, OnePlace, TypeOK
  <2>3. /\ Len(queue') = Len(queue) + 1 /\ Len(queue) \in Nat
        /\ queue'[Len(queue) + 1] = c
        /\ \A i \in 1..Len(queue) : queue'[i] = queue[i] /\ queue[i] \in Clients
    BY <1>3 DEF Enqueue, TypeOK
  <2>. QED
    BY <1>3, <2>2, <2>3 DEF Enqueue, OnePlace, TypeOK
<1>4. ASSUME NEW c \in Clients, WaitTimeout(c) PROVE OnePlace'
  <2>1. \A i \in 1..Len(queue) : queue[i] # c /\ queue[i] \in Clients
    BY <1>4 DEF WaitTimeout, OnePlace, TypeOK
  <2>. QED
    BY <1>4, <2>1 DEF WaitTimeout, OnePlace, TypeOK
<1>5. ASSUME NEW c \in Clients, CompleteBegin(c) PROVE OnePlace'
  BY <1>5 DEF CompleteBegin, clientVars, OnePlace
<1>6. CASE InitTask \/ ArchiveStep \/ PostNote \/ UNCHANGED vars
  BY <1>6 DEF InitTask, ArchiveStep, Truncate, WriteProbe, WriteEvents, WriteResult,
              SerialiseBoard, PostNote, clientVars, vars, OnePlace
<1>. QED
  BY <1>1, <1>2, <1>3, <1>4, <1>5, <1>6 DEF Next, Serve

(* Nothing has been said before the debate starts.                         *)
NothingSaid == status \in {"absent", "initialized"} => transcript = <<>>

(* Every step keeps it so.                                                 *)
LEMMA NothingSaidKept == TypeOK /\ NothingSaid /\ [Next]_vars => NothingSaid'
<1> SUFFICES ASSUME TypeOK, NothingSaid, [Next]_vars PROVE NothingSaid'
  OBVIOUS
<1>1. ASSUME NEW c \in Clients, Serve(c) PROVE NothingSaid'
  BY <1>1 DEF Serve, Throw, StartDebate, WaitNow, WaitSuspend, SubmitRejected,
              SubmitUnanimous, SubmitAdvance, Accepts, HasTurn, CompleteBegin,
              CompleteEnd, debateVars, NothingSaid
<1>2. ASSUME NEW c \in Clients, Enqueue(c) \/ WaitTimeout(c) \/ CompleteFail(c)
      PROVE  NothingSaid'
  BY <1>2 DEF Enqueue, WaitTimeout, CompleteFail, debateVars, NothingSaid
<1>3. CASE InitTask \/ ArchiveStep \/ PostNote \/ UNCHANGED vars
  BY <1>3 DEF InitTask, ArchiveStep, Truncate, WriteProbe, WriteEvents, WriteResult,
              SerialiseBoard, PostNote, debateVars, vars, NothingSaid
<1>. QED
  BY <1>1, <1>2, <1>3 DEF Next

(* Once somebody has spoken, no wait sleeps through its agent's turn: each *)
(* accepted turn wakes the next speaker's waiters, and the check and the   *)
(* parking of a wait are one step of the task queue (state.ts:274-297,478).*)
THEOREM TurnIsAnnounced == Spec => []NoSleepThroughTurn
<1> DEFINE I == TypeOK /\ Busy /\ OnePlace /\ NothingSaid /\ NoSleepThroughTurn
<1>1. Init => OnePlace /\ NothingSaid /\ NoSleepThroughTurn
  BY DEF Init, OnePlace, NothingSaid, NoSleepThroughTurn
<1>2. I /\ [Next]_vars => NoSleepThroughTurn'
  <2> SUFFICES ASSUME I, [Next]_vars PROVE NoSleepThroughTurn'
    OBVIOUS
  <2> USE DEF NoSleepThroughTurn, CurrentSpeaker, WaitersOf
  <2>1. ASSUME NEW c \in Clients, queue # <<>>, Head(queue) = c,
               NEW a, Reply(c, a), UNCHANGED debateVars
        PROVE  NoSleepThroughTurn'
    <3>1. c \notin parked
      <4>1. c = queue[1] /\ 1 \in 1..Len(queue)
        BY <2>1 DEF TypeOK
      <4>. QED
        BY <4>1 DEF OnePlace
    <3>2. parked' = parked /\ \A x \in parked : call'[x] = call[x]
      BY <2>1, <3>1 DEF Reply, ReplyAndWake, TypeOK
    <3>. QED
      BY <2>1, <3>2 DEF debateVars
  <2>2. ASSUME NEW c \in Clients, Throw(c) \/ WaitNow(c) \/ SubmitRejected(c)
        PROVE  NoSleepThroughTurn'
    <3>1. /\ queue # <<>> /\ Head(queue) = c /\ UNCHANGED debateVars
          /\ \E a : Reply(c, a)
      BY <2>2 DEF Throw, WaitNow, SubmitRejected, AtHead
    <3>. QED
      BY <3>1, <2>1
  <2>3. ASSUME NEW c \in Clients, CompleteFail(c) PROVE NoSleepThroughTurn'
    BY <2>1, <2>3 DEF CompleteFail, Busy
  <2>4. ASSUME NEW c \in Clients, StartDebate(c) PROVE NoSleepThroughTurn'
    BY <2>4 DEF StartDebate, NothingSaid
  <2>5. ASSUME NEW c \in Clients, WaitSuspend(c) PROVE NoSleepThroughTurn'
    BY <2>5 DEF WaitSuspend, MustSuspend, HasTurn, debateVars
  <2>6. ASSUME NEW c \in Clients, SubmitUnanimous(c) \/ CompleteEnd(c)
        PROVE  NoSleepThroughTurn'
    BY <2>6 DEF SubmitUnanimous, CompleteEnd
  <2>7. ASSUME NEW c \in Clients, SubmitAdvance(c) PROVE NoSleepThroughTurn'
    <3>1. CASE status' = "debating"
      <4>1. \E a : ReplyAndWake(c, a, WaitersOf(turnIndex'), "your_turn")
        BY <2>7, <3>1 DEF SubmitAdvance, Accepts, HasTurn, RoundEnds
      <4>2. \A x \in parked' : x \in parked /\ x \notin WaitersOf(turnIndex')
        BY <4>1 DEF ReplyAndWake
      <4>3. c \notin parked
        <5>1. c = queue[1] /\ 1 \in 1..Len(queue)
          BY <2>7 DEF SubmitAdvance, Accepts, AtHead, TypeOK
        <5>. QED
          BY <5>1 DEF OnePlace
      <4>4. \A x \in parked' : call'[x] = call[x]
        BY <4>1, <4>2, <4>3 DEF ReplyAndWake, TypeOK
      <4>. QED
        BY <4>2, <4>4
    <3>2. CASE status' # "debating"
      BY <3>2
    <3>. QED
      BY <3>1, <3>2
  <2>8. ASSUME NEW c \in Clients, CompleteBegin(c) PROVE NoSleepThroughTurn'
    BY <2>8 DEF CompleteBegin, debateVars, clientVars
  <2>9. ASSUME NEW c \in Clients, Enqueue(c) PROVE NoSleepThroughTurn'
    <3>1. c \notin parked
      BY <2>9 DEF Enqueue, Idle, OnePlace
    <3>2. parked' = parked /\ \A x \in parked : call'[x] = call[x]
      BY <2>9, <3>1 DEF Enqueue, TypeOK
    <3>. QED
      BY <2>9, <3>2 DEF Enqueue, debateVars
  <2>10. ASSUME NEW c \in Clients, WaitTimeout(c) PROVE NoSleepThroughTurn'
    <3>1. parked' \subseteq parked /\ \A x \in parked' : call'[x] = call[x]
      BY <2>10 DEF WaitTimeout, TypeOK
    <3>. QED
      BY <2>10, <3>1 DEF WaitTimeout, debateVars
  <2>11. CASE InitTask \/ ArchiveStep \/ PostNote \/ UNCHANGED vars
    BY <2>11 DEF InitTask, ArchiveStep, Truncate, WriteProbe, WriteEvents, WriteResult,
                 SerialiseBoard, PostNote, debateVars, clientVars, vars
  <2>. QED
    BY <2>2, <2>3, <2>4, <2>5, <2>6, <2>7, <2>8, <2>9, <2>10, <2>11
    DEF Next, Serve
<1>. QED
  BY <1>1, <1>2, TypeInvariant, PlacesKept, NothingSaidKept, PTL DEF Spec

(* ---------------------------------------------------------------------- *)

(* While debating, the counters are those of the record that comes next.   *)
CountersFollow ==
  status = "debating" =>
    IF transcript = <<>> THEN round = 1 /\ turnIndex = 0 /\ turn = 1
    ELSE LET r == transcript[Len(transcript)]
         IN  /\ turn = r.turn + 1
             /\ \/ turnIndex = r.speaker + 1 /\ round = r.round
                \/ r.speaker = N - 1 /\ turnIndex = 0 /\ round = r.round + 1

(* Steps that record no turn and do not start the debate leave the         *)
(* transcript and the counters of a running debate alone.                  *)
LEMMA QuietSteps ==
  ASSUME [Next]_vars,
         ~ \E c \in Clients : StartDebate(c) \/ SubmitUnanimous(c)
                                            \/ SubmitAdvance(c)
  PROVE  /\ UNCHANGED <<transcript, signoffs, early>>
         /\ status' = "debating" =>
              status = "debating" /\ UNCHANGED <<round, turnIndex, turn>>
<1>1. ASSUME NEW c \in Clients,
             \/ Throw(c) \/ WaitNow(c) \/ WaitSuspend(c) \/ SubmitRejected(c)
             \/ CompleteBegin(c) \/ Enqueue(c) \/ WaitTimeout(c) \/ CompleteFail(c)
      PROVE  UNCHANGED debateVars
  BY <1>1 DEF Throw, WaitNow, WaitSuspend, SubmitRejected, CompleteBegin,
              Enqueue, WaitTimeout, CompleteFail
<1>2. ASSUME NEW c \in Clients, CompleteEnd(c)
      PROVE  /\ UNCHANGED <<transcript, signoffs, early>>
             /\ status' = "closed"
  BY <1>2 DEF CompleteEnd
<1>3. CASE ArchiveStep \/ PostNote \/ UNCHANGED vars
  BY <1>3 DEF ArchiveStep, Truncate, WriteProbe, WriteEvents, WriteResult,
              SerialiseBoard, PostNote, debateVars, vars
<1>4. CASE InitTask
  BY <1>4 DEF InitTask
<1>. QED
  BY <1>1, <1>2, <1>3, <1>4 DEF Next, Serve, debateVars

(* Turns are recorded in strict rotation for every number of agents,       *)
(* rounds and clients (state.ts:313-378; README.md:5).                     *)
THEOREM StrictRotation == Spec => []RoundRobin
<1> USE NAssumption
<1> DEFINE I == TypeOK /\ Busy /\ NothingSaid /\ CountersFollow /\ RoundRobin
<1>1. Init => NothingSaid /\ CountersFollow /\ RoundRobin
  BY DEF Init, NothingSaid, CountersFollow, RoundRobin
<1>2. I /\ [Next]_vars => CountersFollow' /\ RoundRobin'
  <2> SUFFICES ASSUME I, [Next]_vars PROVE CountersFollow' /\ RoundRobin'
    OBVIOUS
  <2>1. ASSUME NEW c \in Clients, StartDebate(c)
        PROVE  CountersFollow' /\ RoundRobin'
    BY <2>1 DEF StartDebate, NothingSaid, CountersFollow, RoundRobin
  <2>2. ASSUME NEW c \in Clients, Accepts(c), RecordTurn(call[c])
        PROVE  /\ RoundRobin'
               /\ transcript' # <<>>
               /\ transcript'[Len(transcript')].turn = turn
               /\ transcript'[Len(transcript')].round = round
               /\ transcript'[Len(transcript')].speaker = turnIndex
    <3> DEFINE r == [turn |-> turn, round |-> round, speaker |-> turnIndex,
                     signoff |-> call[c].signoff]
               n == Len(transcript)
    <3>1. transcript' = Append(transcript, r) /\ n \in Nat
      BY <2>2 DEF RecordTurn, Accepts, HasTurn, CurrentSpeaker, TypeOK
    <3>2. /\ Len(transcript') = n + 1
          /\ transcript'[n + 1] = r
          /\ \A i \in 1..n : transcript'[i] = transcript[i]
      BY <3>1 DEF TypeOK
    <3>3. transcript = <<>> => n = 0 /\ round = 1 /\ turnIndex = 0
      BY <2>2 DEF CountersFollow, Accepts, HasTurn
    <3>4. n > 0 =>
            /\ turn = transcript[n].turn + 1
            /\ \/ turnIndex = transcript[n].speaker + 1
                   /\ round = transcript[n].round
               \/ transcript[n].speaker = N - 1 /\ turnIndex = 0
                   /\ round = transcript[n].round + 1
      BY <2>2 DEF CountersFollow, Accepts, HasTurn
    <3>5. n = 0 => transcript = <<>>
      BY DEF TypeOK
    <3>6. transcript' # <<>> => transcript'[1].speaker = 0 /\ transcript'[1].round = 1
      <4>1. CASE n = 0
        BY <4>1, <3>2, <3>3, <3>5
      <4>2. CASE n > 0
        BY <4>2, <3>2 DEF RoundRobin
      <4>. QED
        BY <4>1, <4>2, <3>1
    <3>7. ASSUME NEW i \in 1..(Len(transcript') - 1)
          PROVE  LET p == transcript'[i]
                     s == transcript'[i + 1]
                 IN  /\ s.turn = p.turn + 1
                     /\ \/ s.speaker = p.speaker + 1 /\ s.round = p.round
                        \/ p.speaker = N - 1 /\ s.speaker = 0 /\ s.round = p.round + 1
      <4>1. CASE i = n
        BY <4>1, <3>1, <3>2, <3>4
      <4>2. CASE i < n
        <5>1. i \in 1..(Len(transcript) - 1) /\ i \in 1..n /\ i + 1 \in 1..n
          BY <4>2, <3>1
        <5>. QED
          BY <5>1, <3>2 DEF RoundRobin
      <4>. QED
        BY <4>1, <4>2, <3>1, <3>2
    <3>8. transcript' # <<>>
      BY <3>1 DEF TypeOK
    <3>. QED
      BY <3>2, <3>6, <3>7, <3>8 DEF RoundRobin
  <2>3. ASSUME NEW c \in Clients, SubmitUnanimous(c)
        PROVE  CountersFollow' /\ RoundRobin'
    BY <2>2, <2>3 DEF SubmitUnanimous, CountersFollow
  <2>4. ASSUME NEW c \in Clients, SubmitAdvance(c)
        PROVE  CountersFollow' /\ RoundRobin'
    <3>1. /\ RoundRobin' /\ transcript' # <<>>
          /\ transcript'[Len(transcript')].turn = turn
          /\ transcript'[Len(transcript')].round = round
          /\ transcript'[Len(transcript')].speaker = turnIndex
      BY <2>2, <2>4 DEF SubmitAdvance
    <3>2. /\ turn' = turn + 1
          /\ \/ turnIndex' = turnIndex + 1 /\ round' = round
             \/ turnIndex = N - 1 /\ turnIndex' = 0 /\ round' = round + 1
      BY <2>4 DEF SubmitAdvance, TypeOK, Agents, RoundEnds
    <3>. QED
      BY <3>1, <3>2 DEF CountersFollow
  <2>5. CASE ~ \E c \in Clients : StartDebate(c) \/ SubmitUnanimous(c)
                                              \/ SubmitAdvance(c)
    BY <2>5, QuietSteps DEF CountersFollow, RoundRobin
  <2>. QED
    BY <2>1, <2>3, <2>4, <2>5
<1>. QED
  BY <1>1, <1>2, TypeInvariant, NothingSaidKept, PTL DEF Spec

(* ---------------------------------------------------------------------- *)

(* The early-close tally is always the set of agents in the unbroken run   *)
(* of signoffs that ends the transcript (state.ts:338-349).                *)
THEOREM TallyIsTrailingRun == Spec => []SignoffsAreTrailing
<1> DEFINE I == TypeOK /\ Busy /\ NothingSaid /\ SignoffsAreTrailing
<1>1. Init => NothingSaid /\ SignoffsAreTrailing
  BY DEF Init, NothingSaid, SignoffsAreTrailing
<1>2. I /\ [Next]_vars => SignoffsAreTrailing'
  <2> SUFFICES ASSUME I, [Next]_vars PROVE SignoffsAreTrailing'
    OBVIOUS
  <2>1. ASSUME NEW c \in Clients, StartDebate(c) PROVE SignoffsAreTrailing'
    BY <2>1 DEF StartDebate, NothingSaid, SignoffsAreTrailing
  <2>2. ASSUME NEW c \in Clients, Accepts(c), RecordTurn(call[c])
        PROVE  SignoffsAreTrailing'
    <3> DEFINE k == call[c]
               n == Len(transcript)
    <3>1. k.agent \in Agents
      BY <2>2 DEF Accepts, HasTurn, CurrentSpeaker, TypeOK
    <3>2. /\ n \in Nat /\ Len(transcript') = n + 1
          /\ transcript'[n + 1].speaker = k.agent
          /\ transcript'[n + 1].signoff = k.signoff
          /\ \A i \in 1..n : transcript'[i] = transcript[i]
      BY <2>2 DEF RecordTurn, TypeOK
    <3>3. CASE k.signoff
      <4>1. signoffs' = signoffs \cup {k.agent}
        BY <2>2, <3>3 DEF RecordTurn, Votes
      <4>2. ASSUME NEW a \in Agents, a \in signoffs'
            PROVE  \E i \in 1..(n + 1) :
                      /\ transcript'[i].speaker = a
                      /\ \A j \in i..(n + 1) : transcript'[j].signoff
        <5>1. CASE a = k.agent
          <6>1. \A j \in (n + 1)..(n + 1) : transcript'[j].signoff
            <7>1. \A j \in (n + 1)..(n + 1) : j = n + 1
              BY <3>2
            <7>2. transcript'[n + 1].signoff
              BY <3>2, <3>3
            <7>. QED
              BY <7>1, <7>2
          <6>2. n + 1 \in 1..(n + 1) /\ transcript'[n + 1].speaker = a
            BY <5>1, <3>2
          <6>. QED
            BY <6>1, <6>2
        <5>2. CASE a \in signoffs
          <6>1. PICK i \in 1..n : /\ transcript[i].speaker = a
                                  /\ \A j \in i..n : transcript[j].signoff
            BY <5>2 DEF SignoffsAreTrailing
          <6>2. \A j \in i..(n + 1) : transcript'[j].signoff
            <7>1. \A j \in i..(n + 1) : (j \in i..n /\ j \in 1..n) \/ j = n + 1
              BY <3>2
            <7>. QED
              BY <7>1, <6>1, <3>2, <3>3
          <6>3. i \in 1..(n + 1) /\ transcript'[i].speaker = a
            BY <6>1, <3>2
          <6>. QED
            BY <6>2, <6>3
        <5>. QED
          BY <4>1, <4>2, <5>1, <5>2
      <4>3. ASSUME NEW a \in Agents, NEW i \in 1..(n + 1),
                   transcript'[i].speaker = a,
                   \A j \in i..(n + 1) : transcript'[j].signoff
            PROVE  a \in signoffs'
        <5>1. CASE i = n + 1
          BY <5>1, <4>1, <4>3, <3>2
        <5>2. CASE i # n + 1
          <6>1. i \in 1..n /\ transcript[i].speaker = a
            BY <5>2, <4>3, <3>2
          <6>2. \A j \in i..n : transcript[j].signoff
            BY <6>1, <4>3, <3>2
          <6>. QED
            BY <6>1, <6>2, <4>1 DEF SignoffsAreTrailing
        <5>. QED
          BY <5>1, <5>2
      <4>4. signoffs' \subseteq Agents
        BY <4>1, <3>1 DEF TypeOK
      <4>. QED
        BY <4>2, <4>3, <4>4, <3>2 DEF SignoffsAreTrailing
    <3>4. CASE ~ k.signoff
      <4>1. signoffs' = {}
        BY <2>2, <3>4 DEF RecordTurn, Votes
      <4>2. \A i \in 1..(n + 1) : ~ \A j \in i..(n + 1) : transcript'[j].signoff
        BY <3>2, <3>4
      <4>. QED
        BY <4>1, <4>2, <3>2 DEF SignoffsAreTrailing
    <3>. QED
      BY <3>3, <3>4
  <2>3. ASSUME NEW c \in Clients, SubmitUnanimous(c) \/ SubmitAdvance(c)
        PROVE  SignoffsAreTrailing'
    BY <2>2, <2>3 DEF SubmitUnanimous, SubmitAdvance
  <2>4. CASE ~ \E c \in Clients : StartDebate(c) \/ SubmitUnanimous(c)
                                              \/ SubmitAdvance(c)
    BY <2>4, QuietSteps DEF SignoffsAreTrailing
  <2>. QED
    BY <2>1, <2>3, <2>4
<1>. QED
  BY <1>1, <1>2, TypeInvariant, NothingSaidKept, PTL DEF Spec

(* ---------------------------------------------------------------------- *)

(* Every agent has a record in the run of signoffs at the end of t, so the *)
(* run is at least N records long: two agents cannot share one.            *)
LEMMA UnanimousTail ==
  ASSUME NEW t \in Seq(TurnRecords),
         \A a \in Agents : \E i \in 1..Len(t) :
            t[i].speaker = a /\ \A j \in i..Len(t) : t[j].signoff
  PROVE  /\ Len(t) >= N
         /\ \A i \in (Len(t) - N + 1)..Len(t) : t[i].signoff
<1> USE NAssumption
<1> DEFINE n == Len(t)
<1>1. n \in Nat
  OBVIOUS
<1>2. SUFFICES ASSUME NEW k \in 0..n, n - k < N,
                      k = 0 \/ ~ t[k].signoff
               PROVE  FALSE
  <2>1. CASE n < N
    BY <1>1, <1>2, <2>1
  <2>2. CASE n >= N
    BY <1>1, <1>2, <2>2
  <2>. QED
    BY <1>1, <2>1, <2>2
<1> DEFINE f == [a \in Agents |-> CHOOSE i \in 1..n :
                    t[i].speaker = a /\ \A j \in i..n : t[j].signoff]
<1>3. ASSUME NEW a \in Agents
      PROVE  f[a] \in (k + 1)..n /\ t[f[a]].speaker = a
  <2>1. /\ f[a] \in 1..n /\ t[f[a]].speaker = a
        /\ \A j \in f[a]..n : t[j].signoff
    BY <1>3
  <2> HIDE DEF f
  <2>2. k \notin f[a]..n \/ k = 0
    BY <2>1, <1>2
  <2>. QED
    BY <2>1, <2>2, <1>1
<1>4. f \in [Agents -> (k + 1)..n]
  BY <1>3
<1> HIDE DEF f
<1>5. IsFiniteSet(Agents) /\ Cardinality(Agents) = N
  BY FS_Interval DEF Agents
<1>6. IsFiniteSet((k + 1)..n) /\ Cardinality((k + 1)..n) < N
  <2>1. k + 1 \in Int /\ n \in Int
    BY <1>1
  <2>2. /\ IsFiniteSet((k + 1)..n)
        /\ Cardinality((k + 1)..n) = IF k + 1 > n THEN 0 ELSE n - (k + 1) + 1
    BY <2>1, FS_Interval
  <2>. QED
    BY <2>2, <1>1, <1>2
<1>7. \E a, b \in Agents : a # b /\ f[a] = f[b]
  BY <1>4, <1>5, <1>6, FS_PigeonHole
<1>. QED
  BY <1>3, <1>7

(* A debate that ended early ended by the votes of everybody, given in its *)
(* last N turns (state.ts:350-364).                                        *)
LEMMA EarlyMeansAgreed == Spec => []EarlyIsUnanimous
<1> DEFINE Ended == early => status # "debating"
           I == TypeOK /\ SignoffsAreTrailing /\ Ended /\ EarlyIsUnanimous
<1>1. Init => Ended /\ EarlyIsUnanimous
  BY DEF Init, EarlyIsUnanimous
<1>2. I /\ TypeOK' /\ SignoffsAreTrailing' /\ [Next]_vars
         => Ended' /\ EarlyIsUnanimous'
  <2> SUFFICES ASSUME I, TypeOK', SignoffsAreTrailing', [Next]_vars
               PROVE  Ended' /\ EarlyIsUnanimous'
    OBVIOUS
  <2>1. ASSUME NEW c \in Clients, StartDebate(c)
        PROVE  ~ early'
    BY <2>1 DEF StartDebate
  <2>2. ASSUME NEW c \in Clients, SubmitUnanimous(c)
        PROVE  Ended' /\ EarlyIsUnanimous'
    <3>1. status' = "complete" /\ signoffs' = Agents
      BY <2>2 DEF SubmitUnanimous, RecordTurn
    <3>2. /\ transcript' \in Seq(TurnRecords)
          /\ \A a \in Agents : \E i \in 1..Len(transcript') :
                /\ transcript'[i].speaker = a
                /\ \A j \in i..Len(transcript') : transcript'[j].signoff
      BY <3>1 DEF TypeOK, SignoffsAreTrailing
    <3>3. /\ Len(transcript') >= N
          /\ \A i \in (Len(transcript') - N + 1)..Len(transcript') :
                transcript'[i].signoff
      BY <3>2, UnanimousTail
    <3>. QED
      BY <3>1, <3>3 DEF EarlyIsUnanimous
  <2>3. ASSUME NEW c \in Clients, SubmitAdvance(c)
        PROVE  ~ early'
    BY <2>3 DEF SubmitAdvance, Accepts, HasTurn
  <2>4. CASE ~ \E c \in Clients : StartDebate(c) \/ SubmitUnanimous(c)
                                              \/ SubmitAdvance(c)
    BY <2>4, QuietSteps DEF EarlyIsUnanimous
  <2>. QED
    BY <2>1, <2>2, <2>3, <2>4 DEF EarlyIsUnanimous
<1>. QED
  BY <1>1, <1>2, TypeInvariant, TallyIsTrailingRun, PTL DEF Spec

(* For every number of agents, rounds and clients turns rotate strictly,   *)
(* the tally is the trailing run of signoffs, and an early end is          *)
(* unanimous.                                                              *)
THEOREM FairTurns == Spec => []TurnsAreFair
<1>1. RoundRobin /\ SignoffsAreTrailing /\ EarlyIsUnanimous => TurnsAreFair
  BY DEF TurnsAreFair
<1>. QED
  BY <1>1, StrictRotation, TallyIsTrailingRun, EarlyMeansAgreed, PTL

(* A parked wait has something to wait for: the debate goes on, and once   *)
(* somebody has spoken it is another agent's turn.                         *)
THEOREM ServedWaiters == Spec => []WaitersAreServed
<1>1. NoWaiterAfterEnd /\ NoSleepThroughTurn => WaitersAreServed
  BY DEF WaitersAreServed
<1>. QED
  BY <1>1, WaitersDismissed, TurnIsAnnounced, PTL
(* ---------------------------------------------------------------------- *)
(* The archive                                                             *)

(* What complete() has written when it has come to a step: the transcript  *)
(* does not move while it runs, and not at all once the task is closed.    *)
ArchiveInStep ==
  /\ job \in {"events", "result", "boardDir", "board"} => "probe" \in files.layers
  /\ job \in {"result", "boardDir", "board"} =>
       "events" \in files.layers /\ files.events = transcript
  /\ job \in {"boardDir", "board"} =>
       "result" \in files.layers /\ files.result.turns = Len(transcript)
  /\ job # "idle" /\ status = "closed" => files.anew

(* When a task is closed its four archive files are there, unless a later  *)
(* complete is writing them again or has failed; and what is whole of      *)
(* events.jsonl and result.json tells of all the turns, whatever was       *)
(* queued, served or failed while they were written (state.ts:387-431).    *)
THEOREM ArchiveIsWhole == Spec => []ArchiveAgrees
<1> DEFINE I == TypeOK /\ Busy /\ ArchiveInStep /\ ArchiveAgrees
<1>1. Init => ArchiveInStep /\ ArchiveAgrees
  BY DEF Init, ArchiveInStep, ArchiveAgrees, Layers
<1>2. I /\ [Next]_vars => ArchiveInStep' /\ ArchiveAgrees'
  <2> SUFFICES ASSUME I, [Next]_vars PROVE ArchiveInStep' /\ ArchiveAgrees'
    OBVIOUS
  <2>1. files \in [layers : SUBSET Layers, events : Seq(TurnRecords),
                   result : Results, board : Nat, anew : BOOLEAN]
    BY DEF TypeOK
  <2>2. ASSUME NEW c \in Clients,
               \/ Throw(c) \/ WaitNow(c) \/ WaitSuspend(c) \/ SubmitRejected(c)
               \/ Enqueue(c) \/ WaitTimeout(c)
        PROVE  UNCHANGED <<debateVars, archiveVars>>
    BY <2>2 DEF Throw, WaitNow, WaitSuspend, SubmitRejected, Enqueue, WaitTimeout
  <2>3. ASSUME UNCHANGED <<debateVars, archiveVars>>
        PROVE  ArchiveInStep' /\ ArchiveAgrees'
    BY <2>3 DEF debateVars, archiveVars, ArchiveInStep, ArchiveAgrees
  <2>4. ASSUME NEW c \in Clients, StartDebate(c) \/ SubmitUnanimous(c) \/ SubmitAdvance(c)
        PROVE  ArchiveInStep' /\ ArchiveAgrees'
    BY <2>4 DEF StartDebate, SubmitUnanimous, SubmitAdvance, Accepts, HasTurn, AtHead,
                archiveVars, ArchiveInStep, ArchiveAgrees
  <2>5. ASSUME NEW c \in Clients, CompleteBegin(c) \/ CompleteFail(c)
        PROVE  ArchiveInStep' /\ ArchiveAgrees'
    BY <2>1, <2>5 DEF CompleteBegin, CompleteFail, AtHead, debateVars, ArchiveInStep,
                      ArchiveAgrees
  <2>6. ASSUME NEW c \in Clients, CompleteEnd(c)
        PROVE  ArchiveInStep' /\ ArchiveAgrees'
    BY <2>1, <2>6 DEF CompleteEnd, Writes, ArchiveInStep, ArchiveAgrees, Layers
  <2>7. CASE WriteProbe
    BY <2>1, <2>7 DEF WriteProbe, Writes, debateVars, ArchiveInStep, ArchiveAgrees, Layers
  <2>8. CASE WriteEvents
    BY <2>1, <2>8 DEF WriteEvents, Writes, debateVars, ArchiveInStep, ArchiveAgrees, Layers
  <2>9. CASE WriteResult
    <3>1. files'.layers = files.layers \cup {"result"} /\ files'.events = files.events
          /\ files'.result.turns = Len(transcript)
      BY <2>1, <2>9 DEF WriteResult
    <3>. QED
      BY <2>1, <2>9, <3>1 DEF WriteResult, Writes, debateVars, ArchiveInStep, ArchiveAgrees, Layers
  <2>10. CASE SerialiseBoard
    BY <2>10 DEF SerialiseBoard, debateVars, ArchiveInStep, ArchiveAgrees
  <2>12. CASE Truncate
    BY <2>1, <2>12 DEF Truncate, debateVars, ArchiveInStep, ArchiveAgrees, Layers
  <2>11. CASE InitTask \/ PostNote \/ UNCHANGED vars
    BY <2>11 DEF InitTask, PostNote, vars, debateVars, archiveVars, ArchiveInStep, ArchiveAgrees
  <2>. QED
    BY <2>2, <2>3, <2>4, <2>5, <2>6, <2>7, <2>8, <2>9, <2>10, <2>11, <2>12
    DEF Next, Serve, ArchiveStep
<1>. QED
  BY <1>1, <1>2, TypeInvariant, PTL DEF Spec

(* ---------------------------------------------------------------------- *)
(* The refinement of TurnOrder                                             *)

(* Nothing moves before the debate starts.                                 *)
NotStarted == status \in {"absent", "initialized"} => turnIndex = 0 /\ round = 1

(* Counted back from the next turn, the last N speakers are the agents in  *)
(* the reverse of their order, around the table.                           *)
LastLap ==
  status = "debating" =>
    \A i \in 1..Len(transcript) :
      Len(transcript) + 1 - i <= N =>
        \/ transcript[i].speaker = turnIndex - (Len(transcript) + 1 - i)
        \/ transcript[i].speaker = turnIndex - (Len(transcript) + 1 - i) + N

(* One more turn moves the reference point of the lap by one, around the   *)
(* table.                                                                  *)
LEMMA LapShifts ==
  ASSUME NEW n \in Nat, NEW i \in Nat, n + 2 - i <= N,
         NEW t \in 0..N - 1, NEW t2, NEW s \in 0..N - 1, NEW s2, s2 = s,
         \/ t2 = t + 1 /\ t + 1 < N
         \/ t2 = 0 /\ t + 1 = N,
         s = t - (n + 1 - i) \/ s = t - (n + 1 - i) + N
  PROVE  s2 = t2 - (n + 2 - i) \/ s2 = t2 - (n + 2 - i) + N
BY NAssumption

(* The last lap, by every step of the hub.                                 *)
LEMMA LastLapKept ==
  TypeOK /\ NothingSaid /\ NotStarted /\ LastLap /\ [Next]_vars => NotStarted' /\ LastLap'
<1> SUFFICES ASSUME TypeOK, NothingSaid, NotStarted, LastLap, [Next]_vars
             PROVE  NotStarted' /\ LastLap'
  OBVIOUS
<1> USE NAssumption
<1>1. ASSUME NEW c \in Clients, StartDebate(c) PROVE NotStarted' /\ LastLap'
  BY <1>1 DEF StartDebate, NothingSaid, NotStarted, LastLap
<1>2. ASSUME NEW c \in Clients, SubmitUnanimous(c) PROVE NotStarted' /\ LastLap'
  BY <1>2 DEF SubmitUnanimous, NotStarted, LastLap
<1>3. ASSUME NEW c \in Clients, SubmitAdvance(c) PROVE NotStarted' /\ LastLap'
  <2> DEFINE n == Len(transcript)
  <2>1. /\ n \in Nat /\ Len(transcript') = n + 1 /\ transcript'[n + 1].speaker = turnIndex
        /\ \A i \in 1..n : transcript'[i] = transcript[i] /\ transcript[i].speaker \in 0..N - 1
        /\ turnIndex \in 0..N - 1 /\ status = "debating"
    <3>1. call[c].agent = turnIndex /\ status = "debating"
      BY <1>3 DEF SubmitAdvance, Accepts, HasTurn, CurrentSpeaker
    <3>2. transcript \in Seq(TurnRecords) /\ turnIndex \in 0..N - 1
      BY DEF TypeOK, Agents
    <3>3. \A r \in TurnRecords : r.speaker \in 0..N - 1
      BY DEF TurnRecords, Agents
    <3>. QED
      BY <1>3, <3>1, <3>2, <3>3 DEF SubmitAdvance, RecordTurn
  <2>2. \/ turnIndex' = turnIndex + 1 /\ turnIndex + 1 < N
        \/ turnIndex' = 0 /\ turnIndex + 1 = N
    BY <1>3, <2>1 DEF SubmitAdvance, RoundEnds
  <2>3. NotStarted'
    BY <1>3, <2>1 DEF SubmitAdvance, NotStarted
  <2>4. ASSUME NEW i \in 1 .. n + 1, n + 2 - i <= N
        PROVE  \/ transcript'[i].speaker = turnIndex' - (n + 2 - i)
               \/ transcript'[i].speaker = turnIndex' - (n + 2 - i) + N
    <3>1. CASE i = n + 1
      BY <2>1, <2>2, <3>1
    <3>2. CASE i # n + 1
      <4>1. i \in 1..n /\ n + 1 - i <= N
        BY <2>1, <2>4, <3>2
      <4>2. \/ transcript[i].speaker = turnIndex - (n + 1 - i)
            \/ transcript[i].speaker = turnIndex - (n + 1 - i) + N
        BY <2>1, <4>1 DEF LastLap
      <4>3. transcript'[i].speaker = transcript[i].speaker /\ transcript[i].speaker \in 0..N - 1
        BY <2>1, <4>1
      <4>4. n \in Nat /\ turnIndex \in 0..N - 1 /\ i \in Nat /\ n + 2 - i <= N
        BY <2>1, <2>4, <4>1
      <4>. QED
        BY <2>2, <4>2, <4>3, <4>4, LapShifts
    <3>. QED
      BY <3>1, <3>2
  <2>5. LastLap'
    BY <2>1, <2>4 DEF LastLap
  <2>. QED
    BY <2>3, <2>5
<1>4. CASE ~ \E c \in Clients : StartDebate(c) \/ SubmitUnanimous(c) \/ SubmitAdvance(c)
  <2>1. LastLap'
    BY <1>4, QuietSteps DEF LastLap
  <2>2. NotStarted'
    <3>1. ASSUME NEW c \in Clients,
                 \/ Throw(c) \/ WaitNow(c) \/ WaitSuspend(c) \/ SubmitRejected(c)
                 \/ CompleteBegin(c) \/ Enqueue(c) \/ WaitTimeout(c) \/ CompleteFail(c)
          PROVE  UNCHANGED debateVars
      BY <3>1 DEF Throw, WaitNow, WaitSuspend, SubmitRejected, CompleteBegin,
                  Enqueue, WaitTimeout, CompleteFail
    <3>2. ASSUME NEW c \in Clients, CompleteEnd(c) PROVE status' = "closed"
      BY <3>2 DEF CompleteEnd
    <3>3. CASE ArchiveStep \/ PostNote \/ UNCHANGED vars
      BY <3>3 DEF ArchiveStep, Truncate, WriteProbe, WriteEvents, WriteResult,
                  SerialiseBoard, PostNote, debateVars, vars, NotStarted
    <3>4. CASE InitTask
      BY <3>4 DEF InitTask, NotStarted
    <3>. QED
      BY <1>4, <3>1, <3>2, <3>3, <3>4 DEF Next, Serve, debateVars, NotStarted
  <2>. QED
    BY <2>1, <2>2
<1>. QED
  BY <1>1, <1>2, <1>3, <1>4

(* The abstract log of a transcript.                                       *)
LogOf(t) == [i \in 1..Len(t) |-> [speaker |-> t[i].speaker, signoff |-> t[i].signoff]]

(* Recording a turn extends the abstract log by that turn.                 *)
LEMMA LogGrows ==
  ASSUME NEW t \in Seq(TurnRecords), NEW r \in TurnRecords
  PROVE  LogOf(Append(t, r)) = Append(LogOf(t), [speaker |-> r.speaker, signoff |-> r.signoff])
<1> DEFINE u == Append(t, r)
           a == LogOf(t)
           e == [speaker |-> r.speaker, signoff |-> r.signoff]
<1>1. Len(t) \in Nat /\ Len(u) = Len(t) + 1 /\ u[Len(t) + 1] = r
      /\ \A i \in 1..Len(t) : u[i] = t[i]
  OBVIOUS
<1>2. a \in Seq([speaker : Agents, signoff : BOOLEAN]) /\ Len(a) = Len(t)
      /\ \A i \in 1..Len(t) : a[i] = [speaker |-> t[i].speaker, signoff |-> t[i].signoff]
  <2> DEFINE S == [speaker : Agents, signoff : BOOLEAN]
  <2>1. \A i \in 1..Len(t) : [speaker |-> t[i].speaker, signoff |-> t[i].signoff] \in S
    <3>1. \A i \in 1..Len(t) : t[i] \in TurnRecords
      OBVIOUS
    <3>. QED
      BY <3>1 DEF TurnRecords
  <2>2. a \in [1..Len(t) -> S]
        /\ \A i \in 1..Len(t) : a[i] = [speaker |-> t[i].speaker, signoff |-> t[i].signoff]
    BY <2>1 DEF LogOf
  <2> HIDE DEF S, a
  <2>3. a \in Seq(S) /\ Len(a) = Len(t)
    BY <1>1, <2>2
  <2>. QED
    BY <2>2, <2>3 DEF S
<1>3. e \in [speaker : Agents, signoff : BOOLEAN]
  BY DEF TurnRecords
<1>4. /\ DOMAIN Append(a, e) = 1..Len(t) + 1
      /\ Append(a, e)[Len(t) + 1] = e
      /\ \A i \in 1..Len(t) : Append(a, e)[i] = a[i]
      /\ Append(a, e) = [i \in DOMAIN Append(a, e) |-> Append(a, e)[i]]
  BY <1>1, <1>2, <1>3
<1>5. \A i \in 1..Len(t) + 1 :
        Append(a, e)[i] = [speaker |-> u[i].speaker, signoff |-> u[i].signoff]
  BY <1>1, <1>2, <1>4
<1>. QED
  BY <1>1, <1>4, <1>5 DEF LogOf

(* The abstract state, named.                                              *)
LEMMA TurnsState ==
  /\ Turns!Init <=> status \in {"absent", "initialized"} /\ turnIndex = 0 /\ round = 1
                    /\ LogOf(transcript) = <<>>
  /\ UNCHANGED debateVars => UNCHANGED Turns!turnVars
BY DEF Turns!Init, Turns!turnVars, LogOf, debateVars

(* The hub counts a set of votes, the abstract machine looks at the last N *)
(* turns of the log: after a turn both agree on who is unanimous.          *)
LEMMA VotesAreTheLastLap ==
  ASSUME TypeOK, TypeOK', LastLap, SignoffsAreTrailing', status = "debating",
         NEW k \in Calls, k.agent = turnIndex, RecordTurn(k)
  PROVE  Turns!Unanimous(LogOf(transcript')) <=> signoffs' = Agents
<1> USE NAssumption
<1> DEFINE n == Len(transcript)
<1>1. /\ n \in Nat /\ Len(transcript') = n + 1 /\ transcript'[n + 1].speaker = turnIndex
      /\ \A i \in 1..n : transcript'[i] = transcript[i] /\ transcript[i].speaker \in 0..N - 1
      /\ turnIndex \in 0..N - 1
  <2>1. \A r \in TurnRecords : r.speaker \in 0..N - 1
    BY DEF TurnRecords, Agents
  <2>2. transcript \in Seq(TurnRecords) /\ turnIndex \in 0..N - 1
    BY DEF TypeOK, Agents
  <2>. QED
    BY <2>1, <2>2 DEF RecordTurn
<1>2. Turns!Unanimous(LogOf(transcript')) <=>
        /\ n + 1 >= N
        /\ \A i \in (n + 2 - N)..n + 1 : transcript'[i].signoff
  <2>1. LogOf(transcript') \in
          [1..n + 1 -> [speaker : {transcript'[i].speaker : i \in 1..n + 1},
                        signoff : {transcript'[i].signoff : i \in 1..n + 1}]]
        /\ \A i \in 1..n + 1 : LogOf(transcript')[i].signoff = transcript'[i].signoff
    BY <1>1 DEF LogOf
  <2>2. Len(LogOf(transcript')) = n + 1
    BY <1>1, <2>1
  <2>3. n \in Nat /\ N \in Nat \ {0}
    BY <1>1
  <2> HIDE DEF n
  <2>4. n + 1 - N + 1 = n + 2 - N
    BY <2>3
  <2>5. n + 1 >= N => (n + 2 - N)..n + 1 \subseteq 1..n + 1
    BY <2>3
  <2> DEFINE l == LogOf(transcript')
  <2>6. Turns!Unanimous(l) <=> Len(l) >= N /\ \A i \in (Len(l) - N + 1)..Len(l) : l[i].signoff
    BY DEF Turns!Unanimous
  <2>7. \A i \in 1..n + 1 : l[i].signoff <=> transcript'[i].signoff
    BY <2>1
  <2>8. Len(l) = n + 1
    BY <2>2
  <2> HIDE DEF l
  <2>9. Turns!Unanimous(l) <=> n + 1 >= N /\ \A i \in (n + 2 - N)..n + 1 : transcript'[i].signoff
    <3>1. Turns!Unanimous(l) <=> n + 1 >= N /\ \A i \in (n + 2 - N)..n + 1 : l[i].signoff
      <4>1. Len(l) - N + 1 = n + 2 - N
        BY <2>3, <2>8
      <4>. QED
        BY <2>6, <2>8, <4>1, Zenon
    <3>. QED
      BY <2>5, <2>7, <3>1, Zenon
  <2>. QED
    BY <2>9 DEF l
<1>3. ASSUME signoffs' = Agents PROVE Turns!Unanimous(LogOf(transcript'))
  <2>1. \A a \in Agents : \E i \in 1..Len(transcript') :
          transcript'[i].speaker = a /\ \A j \in i..Len(transcript') : transcript'[j].signoff
    BY <1>3 DEF SignoffsAreTrailing
  <2>2. transcript' \in Seq(TurnRecords)
    BY DEF TypeOK
  <2>. QED
    BY <1>1, <1>2, <2>1, <2>2, UnanimousTail
<1>4. ASSUME Turns!Unanimous(LogOf(transcript')) PROVE signoffs' = Agents
  <2>1. n + 1 >= N /\ \A i \in (n + 2 - N)..n + 1 : transcript'[i].signoff
    BY <1>2, <1>4
  <2>2. ASSUME NEW a \in 0..N - 1
        PROVE  \E i \in 1..n + 1 : /\ transcript'[i].speaker = a
                                   /\ \A j \in i..n + 1 : transcript'[j].signoff
    <3> DEFINE i == IF a <= turnIndex THEN n + 1 - (turnIndex - a)
                                      ELSE n + 1 - (turnIndex - a + N)
    <3>1. i \in 1..n + 1 /\ i >= n + 2 - N
      BY <1>1, <2>1
    <3>2. transcript'[i].speaker = a
      <4>1. CASE i = n + 1
        BY <1>1, <4>1
      <4>2. CASE i # n + 1
        <5>1. i \in 1..n /\ n + 1 - i <= N
          BY <1>1, <3>1, <4>2
        <5>2. \/ transcript[i].speaker = turnIndex - (n + 1 - i)
              \/ transcript[i].speaker = turnIndex - (n + 1 - i) + N
          BY <5>1 DEF LastLap
        <5>3. transcript'[i].speaker = transcript[i].speaker
              /\ transcript[i].speaker \in 0..N - 1
          BY <1>1, <5>1
        <5>4. /\ a <= turnIndex => turnIndex - (n + 1 - i) = a
              /\ a > turnIndex => turnIndex - (n + 1 - i) = a - N
          BY <1>1
        <5> HIDE DEF i, n
        <5>. QED
          BY <1>1, <5>2, <5>3, <5>4
      <4>. QED
        BY <4>1, <4>2
    <3>3. \A j \in i..n + 1 : transcript'[j].signoff
      <4> HIDE DEF i
      <4>. QED
        BY <1>1, <2>1, <3>1
    <3>. QED
      BY <3>1, <3>2, <3>3
  <2>. QED
    BY <1>1, <2>2 DEF SignoffsAreTrailing, Agents
<1>. QED
  BY <1>3, <1>4

(* Every step of the hub is a step of the turn order, or none.             *)
LEMMA StepsTakeTurns ==
  ASSUME TypeOK, TypeOK', NothingSaid, NotStarted, LastLap, SignoffsAreTrailing',
         [Next]_vars
  PROVE  [Turns!Next]_Turns!turnVars
<1> USE NAssumption
<1>1. ASSUME NEW c \in Clients,
             \/ Throw(c) \/ WaitNow(c) \/ WaitSuspend(c) \/ SubmitRejected(c)
             \/ CompleteBegin(c) \/ Enqueue(c) \/ WaitTimeout(c) \/ CompleteFail(c)
      PROVE  UNCHANGED Turns!turnVars
  BY <1>1, TurnsState DEF Throw, WaitNow, WaitSuspend, SubmitRejected, CompleteBegin,
                          Enqueue, WaitTimeout, CompleteFail
<1>2. CASE ArchiveStep \/ PostNote \/ UNCHANGED vars
  <2>1. UNCHANGED debateVars
    BY <1>2 DEF ArchiveStep, Truncate, WriteProbe, WriteEvents, WriteResult, SerialiseBoard,
                PostNote, vars
  <2>. QED
    BY <2>1, TurnsState
<1>3. CASE InitTask
  BY <1>3 DEF InitTask, Turns!turnVars
<1>4. ASSUME NEW c \in Clients, StartDebate(c) PROVE Turns!Open
  BY <1>4 DEF StartDebate, NotStarted, Turns!Open
<1>5. ASSUME NEW c \in Clients, CompleteEnd(c)
      PROVE  Turns!Dismiss \/ UNCHANGED Turns!turnVars
  BY <1>5 DEF CompleteEnd, Turns!Dismiss, Turns!turnVars, TypeOK, Statuses
<1>6. ASSUME NEW c \in Clients, Accepts(c), RecordTurn(call[c])
      PROVE  /\ LogOf(transcript') = Append(LogOf(transcript),
                                           [speaker |-> turnIndex, signoff |-> call[c].signoff])
             /\ call[c].signoff \in BOOLEAN
             /\ Turns!Unanimous(LogOf(transcript')) <=> signoffs' = Agents
             /\ status = "debating" /\ signoffs' = Votes(call[c])
  <2> DEFINE r == [turn |-> turn, round |-> round, speaker |-> call[c].agent,
                   signoff |-> call[c].signoff]
  <2>1. call[c] \in Calls /\ call[c].agent = turnIndex /\ status = "debating"
    BY <1>6 DEF Accepts, HasTurn, CurrentSpeaker, TypeOK, NoCall
  <2>2. call[c].signoff \in BOOLEAN
    BY <1>6, <2>1 DEF Accepts, Calls
  <2>3. transcript \in Seq(TurnRecords) /\ r \in TurnRecords
    BY <2>1, <2>2 DEF TypeOK, TurnRecords
  <2>4. transcript' = Append(transcript, r)
    BY <1>6 DEF RecordTurn
  <2>5. LogOf(transcript') = Append(LogOf(transcript),
                                    [speaker |-> turnIndex, signoff |-> call[c].signoff])
    BY <2>1, <2>3, <2>4, LogGrows
  <2>. QED
    BY <1>6, <2>1, <2>2, <2>5, VotesAreTheLastLap DEF RecordTurn
<1>7. ASSUME NEW c \in Clients, SubmitUnanimous(c) PROVE Turns!FinalVote
  <2>1. call[c].signoff = TRUE
    BY <1>6, <1>7 DEF SubmitUnanimous, Votes, Agents
  <2>. QED
    BY <1>6, <1>7, <2>1 DEF SubmitUnanimous, Turns!FinalVote, LogOf
<1>8. ASSUME NEW c \in Clients, SubmitAdvance(c) PROVE Turns!Speak \/ Turns!EndRound
  <2>1. /\ status = "debating" /\ ~ Turns!Unanimous(LogOf(transcript'))
        /\ \E s \in BOOLEAN : LogOf(transcript') = Append(LogOf(transcript),
                                                      [speaker |-> turnIndex, signoff |-> s])
    BY <1>6, <1>8 DEF SubmitAdvance
  <2>2. turnIndex \in 0..N - 1
    BY DEF TypeOK, Agents
  <2>3. CASE ~ RoundEnds
    <3>1. turnIndex + 1 < N /\ turnIndex' = turnIndex + 1 /\ round' = round
          /\ status' = "debating"
      BY <1>8, <2>1, <2>2, <2>3 DEF SubmitAdvance, RoundEnds
    <3>. QED
      BY <2>1, <3>1 DEF Turns!Speak, LogOf
  <2>4. CASE RoundEnds
    <3>1. /\ turnIndex + 1 = N /\ turnIndex' = 0 /\ round' = round + 1
          /\ \/ round + 1 > Rounds /\ status' = "complete"
             \/ ~ (round + 1 > Rounds) /\ status' = "debating"
      BY <1>8, <2>1, <2>4 DEF SubmitAdvance, RoundEnds, LastRound
    <3>2. CASE round + 1 > Rounds
      BY <2>1, <3>1, <3>2 DEF Turns!EndRound, LogOf
    <3>3. CASE ~ (round + 1 > Rounds)
      BY <2>1, <3>1, <3>3 DEF Turns!EndRound, LogOf
    <3>. QED
      BY <3>2, <3>3
  <2>. QED
    BY <2>3, <2>4
<1>. QED
  BY <1>1, <1>2, <1>3, <1>4, <1>5, <1>7, <1>8 DEF Next, Serve, Turns!Next

(* The hub implements the turn order it promises its debaters, for every   *)
(* number of agents, rounds and clients (state.ts:265-436; README.md:5).   *)
THEOREM HubTakesTurns == Spec => TurnOrderSpec
<1> DEFINE I == NothingSaid /\ NotStarted /\ LastLap
<1>1. Init => I /\ Turns!Init
  <2>1. Init => LogOf(transcript) = <<>>
    BY DEF Init, LogOf
  <2>2. Init => NothingSaid /\ NotStarted /\ LastLap
    BY DEF Init, NothingSaid, NotStarted, LastLap
  <2>. QED
    BY <2>1, <2>2, TurnsState DEF Init
<1>2. TypeOK /\ I /\ [Next]_vars => I'
  BY NothingSaidKept, LastLapKept
<1>3. TypeOK /\ TypeOK' /\ I /\ SignoffsAreTrailing' /\ [Next]_vars => [Turns!Next]_Turns!turnVars
  BY StepsTakeTurns
<1>. QED
  BY <1>1, <1>2, <1>3, TypeCorrect, TallyIsTrailingRun, PTL DEF Spec, TurnOrderSpec, Turns!Spec

(* ---------------------------------------------------------------------- *)
(* The session                                                             *)

(* The protocol uses the hub as any client may: a session is a behaviour   *)
(* of the hub, and all that is proved of the hub holds in it.              *)
LEMMA SessionStepsAreHubSteps ==
  ASSUME [SessionNext]_vars PROVE [Next]_vars
<1> USE SessionClients
<1>1. ASSUME NEW c \in Clients, NEW k \in Calls, Ask(c, k.op, k.agent, k.signoff)
      PROVE  Enqueue(c)
  <2>1. k = [op |-> k.op, agent |-> k.agent, signoff |-> k.signoff]
    BY DEF Calls
  <2>. QED
    BY <1>1, <2>1 DEF Ask, Enqueue
<1>2. ASSUME NEW a \in Agents, Debater(a) PROVE \E c \in Clients : Enqueue(c)
  <2>1. [op |-> "wait", agent |-> a, signoff |-> FALSE] \in Calls
    BY DEF Calls
  <2>2. \A s \in BOOLEAN : [op |-> "submit", agent |-> a, signoff |-> s] \in Calls
    BY DEF Calls
  <2>3. ASSUME DebaterWaits(a) PROVE Enqueue(a)
    BY <1>1, <2>1, <2>3 DEF DebaterWaits
  <2>4. ASSUME DebaterSpeaks(a) PROVE Enqueue(a)
    BY <1>1, <2>2, <2>4 DEF DebaterSpeaks
  <2>. QED
    BY <1>2, <2>3, <2>4 DEF Debater
<1>3. ASSUME Starts \/ Completes PROVE Enqueue(Orchestrator)
  <2>1. /\ [op |-> "start", agent |-> Stranger, signoff |-> FALSE] \in Calls
        /\ [op |-> "complete", agent |-> Stranger, signoff |-> FALSE] \in Calls
    BY DEF Calls
  <2>. QED
    BY <1>1, <1>3, <2>1 DEF Starts, Completes
<1>. QED
  BY <1>2, <1>3 DEF SessionNext, Next, Hub

(* A debate by the protocol is a behaviour of the hub.                     *)
THEOREM SessionIsHub == SessionSpec => Spec
BY SessionStepsAreHubSteps, PTL DEF SessionSpec, Spec

(* Debaters wait and submit in their own name.                             *)
OwnName == \A c \in Clients :
  call[c].op \in {"wait", "submit"} => c \in Agents /\ call[c].agent = c

(* Answering keeps the names, and only the clients woken with `w` are      *)
(* given anything new.                                                     *)
LEMMA ReplyKeepsNames ==
  ASSUME TypeOK, OwnName, NEW c \in Clients, NEW a, NEW w, NEW W, ReplyAndWake(c, a, W, w)
  PROVE  /\ OwnName'
         /\ \A x \in Clients : call'[x].op = "submit" => x # c /\ call[x].op = "submit"
         /\ answer'[c] = a
         /\ \A x \in Clients \ {c} : answer'[x] = IF x \in W THEN w ELSE answer[x]
<1>1. \A x \in Clients : call'[x] = IF x = c \/ x \in W THEN NoCall ELSE call[x]
  BY DEF ReplyAndWake
<1>2. \A x \in Clients : answer'[x] = IF x = c THEN a ELSE IF x \in W THEN w ELSE answer[x]
  BY DEF ReplyAndWake
<1>3. NoCall.op \notin {"wait", "submit"}
  BY DEF NoCall
<1>. QED
  BY <1>1, <1>2, <1>3 DEF OwnName

(* Nobody takes a turn that was granted to another agent: between the      *)
(* answer "your_turn" and the service of the submission only the           *)
(* orchestrator's complete can move the debate (state.ts:274-378).         *)
THEOREM TurnsAreHonoured == SessionSpec => []GrantedTurnIsHonoured
<1> DEFINE I == TypeOK /\ OwnName /\ GrantedTurnIsHonoured
<1> USE SessionClients, NAssumption DEF GrantedTurnIsHonoured, CurrentSpeaker
<1>1. Init => OwnName /\ GrantedTurnIsHonoured
  BY DEF Init, OwnName, NoCall
<1>2. I /\ [SessionNext]_vars => OwnName' /\ GrantedTurnIsHonoured'
  <2> SUFFICES ASSUME I, [SessionNext]_vars PROVE OwnName' /\ GrantedTurnIsHonoured'
    OBVIOUS
  <2>0. Agents \subseteq Clients /\ turnIndex \in Agents
        /\ \A a \in Agents : a # Stranger
        /\ \A c \in Clients : call[c].agent \in Agents => call[c].op \in {"wait", "submit"}
    <3>1. \A a \in Agents : a # Stranger
      BY DEF Agents, Stranger
    <3>2. \A k \in Calls \cup {NoCall} : k.agent # Stranger => k.op \in {"wait", "submit"}
      <4>1. \A k \in [op : {"start", "complete"}, agent : {Stranger}, signoff : {FALSE}] :
              k.agent = Stranger
        OBVIOUS
      <4>2. \A k \in [op : {"wait"}, agent : Agents \cup {Stranger}, signoff : {FALSE}] :
              k.op \in {"wait", "submit"}
        OBVIOUS
      <4>3. \A k \in [op : {"submit"}, agent : Agents \cup {Stranger}, signoff : BOOLEAN] :
              k.op \in {"wait", "submit"}
        OBVIOUS
      <4>4. NoCall.agent = Stranger
        BY DEF NoCall
      <4>. QED
        BY <4>1, <4>2, <4>3, <4>4, Zenon DEF Calls
    <3>. QED
      BY <3>1, <3>2 DEF TypeOK
  <2>1. ASSUME NEW c \in Clients, NEW k \in Calls, Ask(c, k.op, k.agent, k.signoff),
               k.op \in {"wait", "submit"} => c \in Agents /\ k.agent = c,
               k.op = "submit" => answer[c] = "your_turn"
        PROVE  OwnName' /\ GrantedTurnIsHonoured'
    <3>1. \A x \in Clients : x # c => call'[x] = call[x] /\ answer'[x] = answer[x]
      BY <2>1 DEF Ask, TypeOK
    <3>2. call'[c].op = k.op /\ call'[c].agent = k.agent /\ answer'[c] = "none"
      BY <2>1 DEF Ask, TypeOK
    <3>3. status' = status /\ turnIndex' = turnIndex
      BY <2>1 DEF Ask, debateVars
    <3>. QED
      BY <2>0, <2>1, <3>1, <3>2, <3>3 DEF OwnName
  <2>2. ASSUME NEW a \in Agents, Debater(a) PROVE OwnName' /\ GrantedTurnIsHonoured'
    <3>1. [op |-> "wait", agent |-> a, signoff |-> FALSE] \in Calls
      BY DEF Calls
    <3>2. \A s \in BOOLEAN : [op |-> "submit", agent |-> a, signoff |-> s] \in Calls
      BY DEF Calls
    <3>3. CASE DebaterWaits(a)
      BY <2>0, <2>1, <3>1, <3>3 DEF DebaterWaits
    <3>4. CASE DebaterSpeaks(a)
      BY <2>0, <2>1, <3>2, <3>4 DEF DebaterSpeaks
    <3>. QED
      BY <2>2, <3>3, <3>4 DEF Debater
  <2>3. CASE Starts \/ Completes
    <3>1. /\ [op |-> "start", agent |-> Stranger, signoff |-> FALSE] \in Calls
          /\ [op |-> "complete", agent |-> Stranger, signoff |-> FALSE] \in Calls
      BY DEF Calls
    <3>. QED
      BY <2>1, <2>3, <3>1 DEF Starts, Completes
  <2>4. ASSUME NEW c \in Clients, NEW a, Reply(c, a), a # "your_turn", UNCHANGED debateVars
        PROVE  OwnName' /\ GrantedTurnIsHonoured'
    BY <2>0, <2>4, ReplyKeepsNames DEF Reply, debateVars
  <2>5. ASSUME NEW c \in Clients, Throw(c) \/ SubmitRejected(c)
        PROVE  OwnName' /\ GrantedTurnIsHonoured'
    BY <2>4, <2>5 DEF Throw, SubmitRejected
  <2>6. ASSUME NEW c \in Clients, CompleteFail(c)
        PROVE  OwnName' /\ GrantedTurnIsHonoured'
    BY <2>4, <2>6 DEF CompleteFail
  <2>7. ASSUME NEW c \in Clients, WaitNow(c)
        PROVE  OwnName' /\ GrantedTurnIsHonoured'
    <3>1. CASE HasTurn(call[c]) /\ Reply(c, "your_turn")
      <4>1. status = "debating" /\ turnIndex = c /\ UNCHANGED debateVars
        BY <2>7, <3>1 DEF WaitNow, HasTurn, OwnName
      <4>. QED
        BY <2>0, <3>1, <4>1, ReplyKeepsNames DEF Reply, debateVars
    <3>. QED
      BY <2>4, <2>7, <3>1 DEF WaitNow
  <2>8. ASSUME NEW c \in Clients, StartDebate(c)
        PROVE  OwnName' /\ GrantedTurnIsHonoured'
    BY <2>0, <2>8, ReplyKeepsNames DEF StartDebate, Reply
  <2>9. ASSUME NEW c \in Clients, SubmitUnanimous(c)
        PROVE  OwnName' /\ GrantedTurnIsHonoured'
    <3>1. status = "debating" /\ turnIndex = c
      BY <2>9 DEF SubmitUnanimous, Accepts, HasTurn, OwnName
    <3>. QED
      BY <2>0, <2>9, <3>1, ReplyKeepsNames DEF SubmitUnanimous
  <2>10. ASSUME NEW c \in Clients, SubmitAdvance(c)
        PROVE  OwnName' /\ GrantedTurnIsHonoured'
    <3>1. status = "debating" /\ turnIndex = c
      BY <2>10 DEF SubmitAdvance, Accepts, HasTurn, OwnName
    <3>2. CASE status' = "complete" /\ ReplyAndWake(c, "accepted_last", parked, "debate_complete")
      BY <2>0, <3>1, <3>2, ReplyKeepsNames
    <3>3. CASE status' = "debating" /\ ReplyAndWake(c, "accepted", WaitersOf(turnIndex'), "your_turn")
      <4>1. turnIndex' \in Agents
        BY <2>0, <2>10 DEF SubmitAdvance, RoundEnds, Agents
      <4>2. \A x \in WaitersOf(turnIndex') \cap Clients : x = turnIndex'
        BY <2>0, <4>1 DEF WaitersOf, OwnName
      <4>. QED
        BY <2>0, <3>1, <3>3, <4>2, ReplyKeepsNames
    <3>. QED
      BY <2>10, <3>1, <3>2, <3>3 DEF SubmitAdvance
  <2>11. ASSUME NEW c \in Clients, CompleteEnd(c)
        PROVE  OwnName' /\ GrantedTurnIsHonoured'
    BY <2>11, ReplyKeepsNames DEF CompleteEnd
  <2>12. ASSUME NEW c \in Clients, WaitSuspend(c) \/ CompleteBegin(c)
        PROVE  OwnName' /\ GrantedTurnIsHonoured'
    BY <2>12 DEF WaitSuspend, CompleteBegin, debateVars, clientVars, OwnName
  <2>13. ASSUME NEW c \in Clients, WaitTimeout(c)
        PROVE  OwnName' /\ GrantedTurnIsHonoured'
    <3>1. \A x \in Clients : x # c => call'[x] = call[x] /\ answer'[x] = answer[x]
      BY <2>13 DEF WaitTimeout, TypeOK
    <3>2. call'[c].op = "none" /\ answer'[c] = "timeout"
      BY <2>13 DEF WaitTimeout, TypeOK, NoCall
    <3>. QED
      BY <2>0, <2>13, <3>1, <3>2 DEF WaitTimeout, debateVars, OwnName
  <2>14. CASE InitTask
    BY <2>14 DEF InitTask, clientVars, OwnName
  <2>15. CASE ArchiveStep \/ UNCHANGED vars
    BY <2>15 DEF ArchiveStep, Truncate, WriteProbe, WriteEvents, WriteResult, SerialiseBoard,
                 vars, debateVars, clientVars, OwnName
  <2>. QED
    BY <2>2, <2>3, <2>5, <2>6, <2>7, <2>8, <2>9, <2>10, <2>11, <2>12, <2>13, <2>14, <2>15
    DEF SessionNext, Hub, Serve
<1>. QED
  BY <1>1, <1>2, SessionIsHub, TypeCorrect, PTL DEF SessionSpec

(* ---------------------------------------------------------------------- *)
(* The index of archives                                                   *)

(* What of the file system and the scan is typed.                          *)
FileRecords == [version : Nat, blocks : 0..2]
StatRecords == [on : 0..MaxNodes, version : Nat, blocks : 0..2]
ScanRecords == [step : {"idle", "lstat", "open", "done"}, stat : StatRecords, error : BOOLEAN]
ReaderRecords == [step : {"wait", "read", "check", "failed"}, stat : StatRecords, buffer : Seq(Nat)]

IndexTypes ==
  /\ dir \in [Index!Files -> 0..MaxNodes]
  /\ node \in [Index!Nodes -> FileRecords]
  /\ used \in 0..MaxNodes /\ version \in Nat
  /\ writer \in [next : Index!Files, on : 0..MaxNodes]
  /\ scan \in [Index!Files -> ScanRecords]
  /\ reader \in ReaderRecords
  /\ numbered \in BOOLEAN

(* Files are numbered in the order they are made, no number is used twice, *)
(* and only the file that the writer has open is not whole.                *)
DiskInvariant ==
  /\ \A f \in Index!Files : dir[f] <= used
  /\ writer.on <= used
  /\ dir["events"] # 0 => dir["events"] # dir["result"]
  /\ writer.on # 0 => /\ dir[writer.next] \in {0, writer.on}
                      /\ \A f \in Index!Files \ {writer.next} : dir[f] # writer.on
                      /\ node[writer.on].blocks < 2
  /\ \A f \in Index!Files : dir[f] # 0 /\ dir[f] # writer.on => node[dir[f]].blocks = 2

(* Each version of the results is written once: the writer moves to the    *)
(* next version before it opens result.json again.                         *)
BeforeResult == \/ writer.next = "result" /\ writer.on = 0
                \/ writer.next = "events" /\ writer.on # 0

VersionInvariant ==
  /\ dir["result"] # 0 =>
       /\ node[dir["result"]].version <= version
       /\ BeforeResult => node[dir["result"]].version < version
  /\ reader.step \in {"read", "check"} =>
       /\ reader.stat.version <= version
       /\ BeforeResult => reader.stat.version < version
       /\ dir["result"] \notin {0, reader.stat.on} =>
            reader.stat.version < node[dir["result"]].version

(* What the reader has read was whole in its place since the scan began,   *)
(* or it is what is being written there now, from the first block read of  *)
(* it to the last.                                                         *)
ReaderInvariant ==
  /\ dir["result"] # 0 /\ node[dir["result"]].blocks = 2 => node[dir["result"]].version \in inPlace
  /\ reader.step = "wait" => reader.buffer = <<>>
  /\ reader.step # "wait" => \A f \in Index!Files : scan[f].step = "done"
  /\ reader.step \in {"read", "check"} =>
       /\ reader.stat.on \in 1..used
       /\ Index!SameFile(scan["result"].stat, reader.stat)
       /\ dir["result"] = reader.stat.on =>
            \A k \in 1..Len(reader.buffer) :
              \/ reader.buffer[k] \in inPlace
              \/ /\ reader.buffer[k] = node[reader.stat.on].version
                 /\ node[reader.stat.on].blocks >= Len(reader.buffer)

IndexInvariant ==
  IndexTypes /\ DiskInvariant /\ VersionInvariant /\ ReaderInvariant /\ Index!SummaryWasInPlace

(* The types, by every step of the index and the archive.                  *)
LEMMA IndexTypesKept ==
  ASSUME IndexTypes, DiskInvariant, ReaderInvariant, Index!Next PROVE IndexTypes'
<1> USE IndexAssumption DEF Index!Files, Index!Nodes, Index!None
<1>0. /\ \A r \in FileRecords : r.version \in Nat /\ r.blocks \in 0..2
      /\ \A v \in Nat, n \in 0..2 : [version |-> v, blocks |-> n] \in FileRecords
  BY DEF FileRecords
<1>1. ASSUME NEW f \in Index!Files, Index!Truncate(f) PROVE IndexTypes'
  <2> DEFINE i == IF dir[f] = 0 THEN used' ELSE dir[f]
  <2>1. /\ version' \in Nat /\ used' \in 0..MaxNodes
        /\ i \in 1..MaxNodes
    BY <1>1 DEF Index!Truncate, IndexTypes
  <2>2. /\ dir' = [dir EXCEPT ![f] = i]
        /\ node' = [node EXCEPT ![i] = [version |-> version', blocks |-> 0]]
        /\ writer' = [writer EXCEPT !.on = i]
        /\ UNCHANGED <<numbered, scan, reader>>
    BY <1>1 DEF Index!Truncate, Index!index
  <2>3. [version |-> version', blocks |-> 0] \in FileRecords
    BY <2>1 DEF FileRecords
  <2> HIDE DEF i
  <2>4. dir' \in [Index!Files -> 0..MaxNodes] /\ node' \in [Index!Nodes -> FileRecords]
        /\ writer' \in [next : Index!Files, on : 0..MaxNodes]
    <3>1. dir' \in [Index!Files -> 0..MaxNodes]
      BY <2>1, <2>2 DEF IndexTypes
    <3>2. node' \in [Index!Nodes -> FileRecords]
      <4> HIDE DEF FileRecords
      <4>. QED
        BY <2>1, <2>2, <2>3 DEF IndexTypes
    <3>3. writer' \in [next : Index!Files, on : 0..MaxNodes]
      BY <2>1, <2>2 DEF IndexTypes
    <3>. QED
      BY <3>1, <3>2, <3>3
  <2>. QED
    BY <2>1, <2>2, <2>4 DEF IndexTypes
<1>2. ASSUME NEW f \in Index!Files, Index!Delete(f) PROVE IndexTypes'
  BY <1>2 DEF Index!Delete, IndexTypes, Index!index
<1>3. CASE Index!WriteBlock
  <2>1. writer.on \in 1..MaxNodes /\ node[writer.on] \in FileRecords
    BY <1>3 DEF Index!WriteBlock, IndexTypes
  <2>2. [node[writer.on] EXCEPT !.blocks = node[writer.on].blocks + 1] \in FileRecords
    <3>1. node[writer.on].blocks < 2
      BY <2>1 DEF DiskInvariant
    <3>. QED
      BY <2>1, <3>1 DEF FileRecords
  <2>3. writer' \in [next : Index!Files, on : 0..MaxNodes]
    BY <1>3 DEF Index!WriteBlock, IndexTypes
  <2>4. node' \in [Index!Nodes -> FileRecords]
    BY <1>3, <2>1, <2>2 DEF Index!WriteBlock, IndexTypes
  <2>. QED
    BY <1>3, <2>3, <2>4 DEF Index!WriteBlock, IndexTypes, Index!index
<1>4. Index!NoStat \in StatRecords /\ Index!Idle \in ScanRecords
      /\ [Index!Idle EXCEPT !.step = "lstat"] \in ScanRecords
      /\ Index!NoReader \in ReaderRecords
  <2>1. Index!NoStat \in StatRecords
    BY DEF Index!NoStat, StatRecords
  <2>2. Index!Idle \in ScanRecords /\ [Index!Idle EXCEPT !.step = "lstat"] \in ScanRecords
    BY <2>1 DEF Index!Idle, ScanRecords
  <2>3. Index!NoReader \in ReaderRecords
    BY <2>1 DEF Index!NoReader, ReaderRecords
  <2>. QED
    BY <2>2, <2>3, <2>1
<1>5. ASSUME NEW f \in Index!Files, dir[f] # 0 PROVE Index!Stat(dir[f]) \in StatRecords
  <2>1. dir[f] \in 1..MaxNodes /\ node[dir[f]] \in FileRecords
    BY <1>5 DEF IndexTypes
  <2>. QED
    BY <1>0, <2>1 DEF Index!Stat, StatRecords
<1>6. CASE Index!List
  BY <1>4, <1>6 DEF Index!List, IndexTypes, Index!disk
<1>7. ASSUME NEW f \in Index!Files, Index!Lstat(f) \/ Index!Open(f) PROVE IndexTypes'
  <2>1. \E r : scan' = [scan EXCEPT ![f] = r] /\ r \in ScanRecords
    <3>1. scan[f] \in ScanRecords
      BY DEF IndexTypes
    <3>2. CASE Index!Lstat(f)
      <4> DEFINE r == IF dir[f] = 0 THEN [scan[f] EXCEPT !.step = "done"]
                      ELSE [scan[f] EXCEPT !.step = "open", !.stat = Index!Stat(dir[f])]
      <4>1. r \in ScanRecords
        BY <1>5, <3>1 DEF ScanRecords
      <4>2. scan' = [scan EXCEPT ![f] = r]
        BY <3>2 DEF Index!Lstat, IndexTypes
      <4>. QED
        BY <4>1, <4>2
    <3>3. CASE Index!Open(f)
      <4> DEFINE e == ~ Index!There(f, scan[f].stat)
                 r == [scan[f] EXCEPT !.step = "done", !.error = e]
      <4>1. e \in BOOLEAN
        OBVIOUS
      <4>2. scan' = [scan EXCEPT ![f] = r]
        BY <3>3 DEF Index!Open, IndexTypes
      <4> HIDE DEF e
      <4>3. r \in ScanRecords
        BY <3>1, <4>1 DEF ScanRecords
      <4>. QED
        BY <4>2, <4>3
    <3>. QED
      BY <1>7, <3>2, <3>3
  <2>2. UNCHANGED <<numbered, dir, node, used, writer, version, reader>>
    BY <1>7 DEF Index!Lstat, Index!Open, Index!disk
  <2>. QED
    BY <2>1, <2>2 DEF IndexTypes
<1>8. CASE Index!OpenResult
  <2>1. Index!There("result", scan["result"].stat) => dir["result"] # 0
    BY DEF Index!There
  <2>2. reader' \in ReaderRecords
    BY <1>5, <1>8, <2>1 DEF Index!OpenResult, IndexTypes, ReaderRecords
  <2>. QED
    BY <1>8, <2>2 DEF Index!OpenResult, IndexTypes, Index!disk
<1>9. CASE Index!ReadBlocks
  <2> DEFINE file == node[reader.stat.on]
             b == reader.buffer \o [k \in 1..(file.blocks - Len(reader.buffer)) |-> file.version]
  <2>0. reader \in ReaderRecords /\ reader.buffer \in Seq(Nat) /\ file.version \in Nat
        /\ file.blocks \in 0..2
    <3>1. reader \in ReaderRecords /\ reader.stat.on \in 1..MaxNodes
      BY <1>9 DEF Index!ReadBlocks, IndexTypes, ReaderInvariant
    <3>. QED
      BY <1>0, <3>1 DEF IndexTypes, ReaderRecords
  <2>1. file.blocks > Len(reader.buffer) => b \in Seq(Nat)
    <3> HIDE DEF file
    <3>1. file.blocks > Len(reader.buffer) =>
            [k \in 1..(file.blocks - Len(reader.buffer)) |-> file.version] \in Seq(Nat)
      BY <2>0
    <3>. QED
      BY <2>0, <3>1
  <2>2. reader' \in ReaderRecords
    <3>1. \/ file.blocks > Len(reader.buffer) /\ reader' = [reader EXCEPT !.buffer = b]
          \/ reader' = [reader EXCEPT !.step = "check"]
      <4>1. Len(reader.buffer) \in Nat /\ file.blocks \in Nat
        BY <2>0
      <4>2. file.blocks - Len(reader.buffer) > 0 => file.blocks > Len(reader.buffer)
        BY <4>1
      <4>. QED
        BY <1>9, <4>2 DEF Index!ReadBlocks, ReaderRecords
    <3> HIDE DEF b, file
    <3>. QED
      BY <2>0, <2>1, <3>1 DEF ReaderRecords
  <2>. QED
    BY <1>9, <2>2 DEF Index!ReadBlocks, IndexTypes, Index!disk
<1>10. ASSUME NEW s, NEW d, Index!ListEntry(s, d) PROVE IndexTypes'
  BY <1>4, <1>10 DEF Index!ListEntry, IndexTypes, Index!disk
<1>. QED
  BY <1>1, <1>2, <1>3, <1>6, <1>7, <1>8, <1>9, <1>10
  DEF Index!Next, Index!Scan, Index!Summarize

(* What is in place on the disk, by every step.                            *)
LEMMA DiskKept ==
  ASSUME IndexTypes, DiskInvariant, Index!Next PROVE DiskInvariant'
<1> USE IndexAssumption DEF Index!Files, Index!Nodes, Index!None
<1>1. ASSUME NEW f \in Index!Files, Index!Truncate(f) PROVE DiskInvariant'
  <2> DEFINE i == IF dir[f] = 0 THEN used' ELSE dir[f]
  <2>1. /\ dir' = [dir EXCEPT ![f] = i]
        /\ node' = [node EXCEPT ![i] = [version |-> version', blocks |-> 0]]
        /\ writer' = [next |-> f, on |-> i]
        /\ used' = IF dir[f] = 0 THEN used + 1 ELSE used
    BY <1>1 DEF Index!Truncate
  <2>2. i \in 1..used' /\ used' <= MaxNodes /\ \A g \in Index!Files \ {f} : dir[g] # i
    BY <1>1 DEF Index!Truncate, IndexTypes, DiskInvariant
  <2>3. writer.on = 0
    BY <1>1 DEF Index!Truncate
  <2> HIDE DEF i
  <2>. QED
    BY <2>1, <2>2, <2>3 DEF IndexTypes, DiskInvariant
<1>2. ASSUME NEW f \in Index!Files, Index!Delete(f) PROVE DiskInvariant'
  BY <1>2 DEF Index!Delete, IndexTypes, DiskInvariant
<1>3. CASE Index!WriteBlock
  <2>1. writer.on \in 1..MaxNodes /\ node[writer.on] \in FileRecords
        /\ node[writer.on].blocks \in 0..1
    <3>1. writer.on \in 1..MaxNodes /\ node[writer.on] \in FileRecords
      BY <1>3 DEF Index!WriteBlock, IndexTypes
    <3>2. node[writer.on].blocks < 2 /\ \A r \in FileRecords : r.blocks \in 0..2
      BY <3>1 DEF DiskInvariant, FileRecords
    <3>. QED
      BY <3>1, <3>2
  <2>2. /\ node'[writer.on].blocks = node[writer.on].blocks + 1
        /\ \A i \in Index!Nodes \ {writer.on} : node'[i] = node[i]
    BY <1>3, <2>1 DEF Index!WriteBlock, IndexTypes, FileRecords
  <2>3. IF node[writer.on].blocks = 0 THEN writer' = writer ELSE writer'.on = 0
    BY <1>3, <2>1, <2>2 DEF Index!WriteBlock
  <2>. QED
    BY <1>3, <2>1, <2>2, <2>3 DEF Index!WriteBlock, IndexTypes, DiskInvariant
<1>4. ASSUME UNCHANGED Index!disk PROVE DiskInvariant'
  BY <1>4 DEF Index!disk, DiskInvariant
<1>. QED
  BY <1>1, <1>2, <1>3, <1>4
  DEF Index!Next, Index!Scan, Index!Summarize, Index!List, Index!Lstat, Index!Open,
      Index!OpenResult, Index!ReadBlocks, Index!ListEntry

(* What a truncation does to the disk: file f is empty, of the version     *)
(* being written, and no other name leads to it.                           *)
LEMMA Truncated ==
  ASSUME IndexTypes, DiskInvariant, NEW f \in Index!Files, Index!Truncate(f)
  PROVE  /\ writer = [next |-> f, on |-> 0]
         /\ version' = IF f = "events" THEN version + 1 ELSE version
         /\ dir'[f] \in 1..MaxNodes /\ dir'[f] \in {dir[f], used + 1} /\ dir[f] \in {0, dir'[f]}
         /\ writer' = [next |-> f, on |-> dir'[f]]
         /\ \A g \in Index!Files \ {f} : dir'[g] = dir[g] /\ dir[g] # dir'[f]
         /\ node'[dir'[f]] = [version |-> version', blocks |-> 0]
         /\ \A i \in Index!Nodes \ {dir'[f]} : node'[i] = node[i]
         /\ used' >= used
         /\ UNCHANGED <<numbered, scan, reader, entry>>
         /\ inPlace' = inPlace \cup Index!Whole("result")
<1> USE IndexAssumption DEF Index!Files, Index!Nodes, Index!None
<1> DEFINE i == IF dir[f] = 0 THEN used' ELSE dir[f]
<1>1. /\ dir' = [dir EXCEPT ![f] = i]
      /\ node' = [node EXCEPT ![i] = [version |-> version', blocks |-> 0]]
      /\ writer' = [next |-> f, on |-> i]
      /\ used' = IF dir[f] = 0 THEN used + 1 ELSE used
      /\ writer = [next |-> f, on |-> 0]
      /\ version' = IF f = "events" THEN version + 1 ELSE version
  BY DEF Index!Truncate
<1>2. i \in 1..MaxNodes /\ \A g \in Index!Files \ {f} : dir[g] # i
  BY DEF Index!Truncate, IndexTypes, DiskInvariant
<1>3. /\ UNCHANGED <<numbered, scan, reader, entry>>
      /\ inPlace' = inPlace \cup Index!Whole("result")
  BY DEF Index!Truncate, Index!index, Index!Witness
<1>4. dir'[f] = i /\ \A g \in Index!Files \ {f} : dir'[g] = dir[g]
  BY <1>1 DEF IndexTypes
<1>5. node'[i] = [version |-> version', blocks |-> 0]
      /\ \A j \in Index!Nodes \ {i} : node'[j] = node[j]
  BY <1>1, <1>2 DEF IndexTypes
<1>6. i \in {dir[f], used + 1} /\ dir[f] \in {0, i} /\ used' >= used
  BY <1>1 DEF IndexTypes
<1> HIDE DEF i
<1>. QED
  BY <1>1, <1>2, <1>3, <1>4, <1>5, <1>6

(* What the writing of a block does.                                       *)
LEMMA BlockWritten ==
  ASSUME IndexTypes, DiskInvariant, Index!WriteBlock
  PROVE  /\ writer.on \in 1..MaxNodes
         /\ node[writer.on].blocks \in 0..1
         /\ node'[writer.on].blocks = node[writer.on].blocks + 1
         /\ node'[writer.on].version = node[writer.on].version
         /\ \A i \in Index!Nodes \ {writer.on} : node'[i] = node[i]
         /\ IF node[writer.on].blocks = 0 THEN writer' = writer
            ELSE writer'.on = 0 /\ writer'.next # writer.next
         /\ UNCHANGED <<numbered, dir, used, version, scan, reader, entry>>
         /\ inPlace' = inPlace \cup Index!Whole("result")
<1> USE IndexAssumption DEF Index!Files, Index!Nodes, Index!None
<1>1. writer.on \in 1..MaxNodes /\ node[writer.on] \in FileRecords
  BY DEF Index!WriteBlock, IndexTypes
<1>2. node[writer.on].blocks \in 0..1
  <2>1. node[writer.on].blocks < 2 /\ \A r \in FileRecords : r.blocks \in 0..2
    BY <1>1 DEF DiskInvariant, FileRecords
  <2>. QED
    BY <1>1, <2>1
<1>3. node'[writer.on] = [node[writer.on] EXCEPT !.blocks = node[writer.on].blocks + 1]
      /\ \A i \in Index!Nodes \ {writer.on} : node'[i] = node[i]
  BY <1>1 DEF Index!WriteBlock, IndexTypes
<1>4. node'[writer.on].blocks = node[writer.on].blocks + 1
      /\ node'[writer.on].version = node[writer.on].version
  BY <1>1, <1>3 DEF FileRecords
<1>5. IF node[writer.on].blocks = 0 THEN writer' = writer
      ELSE writer'.on = 0 /\ writer'.next # writer.next
  BY <1>1, <1>2, <1>4 DEF Index!WriteBlock
<1>. QED
  BY <1>1, <1>2, <1>3, <1>4, <1>5 DEF Index!WriteBlock, Index!index, Index!Witness

(* What the reader opened.                                                 *)
LEMMA ResultOpened ==
  ASSUME IndexTypes, Index!OpenResult
  PROVE  /\ reader'.step \in {"read", "failed"}
         /\ reader'.buffer = reader.buffer
         /\ reader'.step = "read" =>
              /\ dir["result"] # 0
              /\ reader'.stat = Index!Stat(dir["result"])
              /\ Index!SameFile(scan["result"].stat, reader'.stat)
         /\ UNCHANGED <<numbered, Index!disk, scan, entry, inPlace>>
<1> USE DEF Index!None
<1>1. reader \in ReaderRecords
  BY DEF IndexTypes
<1>2. CASE Index!There("result", scan["result"].stat)
  <2>1. reader' = [reader EXCEPT !.step = "read", !.stat = Index!Stat(dir["result"])]
    BY <1>2 DEF Index!OpenResult
  <2>2. reader'.step = "read" /\ reader'.stat = Index!Stat(dir["result"])
        /\ reader'.buffer = reader.buffer
    BY <1>1, <2>1 DEF ReaderRecords
  <2>3. dir["result"] # 0 /\ Index!SameFile(scan["result"].stat, Index!Stat(dir["result"]))
    BY <1>2 DEF Index!There
  <2>. QED
    BY <2>2, <2>3 DEF Index!OpenResult
<1>3. CASE ~ Index!There("result", scan["result"].stat)
  BY <1>1, <1>3 DEF Index!OpenResult, ReaderRecords
<1>. QED
  BY <1>2, <1>3

(* What is in place is never ahead of the version, by every step.          *)
LEMMA VersionKept ==
  ASSUME IndexTypes, DiskInvariant, ReaderInvariant, VersionInvariant, Index!Next
  PROVE  VersionInvariant'
<1> USE IndexAssumption DEF Index!Files, Index!Nodes, Index!None
<1>0. /\ dir["result"] \in 0..MaxNodes /\ dir["events"] \in 0..MaxNodes /\ version \in Nat
      /\ used \in 0..MaxNodes
      /\ \A i \in 1..MaxNodes : node[i].version \in Nat
      /\ reader.stat.version \in Nat /\ reader.stat.on \in 0..MaxNodes
  <2>1. (\A r \in FileRecords : r.version \in Nat)
        /\ (\A r \in ReaderRecords : r.stat.version \in Nat /\ r.stat.on \in 0..MaxNodes)
    BY DEF FileRecords, ReaderRecords, StatRecords
  <2>. QED
    BY <2>1 DEF IndexTypes
<1>1. ASSUME Index!Truncate("events") PROVE VersionInvariant'
  BY <1>0, <1>1, Truncated DEF VersionInvariant, BeforeResult
<1>2. ASSUME Index!Truncate("result") PROVE VersionInvariant'
  BY <1>0, <1>2, Truncated DEF VersionInvariant, BeforeResult
<1>3. ASSUME NEW f \in Index!Files, Index!Delete(f) PROVE VersionInvariant'
  BY <1>0, <1>3 DEF Index!Delete, Index!index, IndexTypes, VersionInvariant, BeforeResult
<1>4. CASE Index!WriteBlock
  <2>1. \A i \in 1..MaxNodes : node'[i].version = node[i].version
    BY <1>4, BlockWritten
  <2>2. BeforeResult' <=> BeforeResult
    <3>1. writer.next \in {"events", "result"} /\ writer'.next \in {"events", "result"}
      BY <1>4, IndexTypesKept DEF IndexTypes
    <3>. QED
      BY <1>4, <3>1, BlockWritten DEF BeforeResult
  <2>. QED
    BY <1>0, <1>4, <2>1, <2>2, BlockWritten DEF VersionInvariant
<1>5. ASSUME UNCHANGED <<Index!disk, reader>> PROVE VersionInvariant'
  BY <1>5 DEF Index!disk, VersionInvariant, BeforeResult
<1>6. CASE Index!OpenResult
  <2>1. Index!Stat(dir["result"]).version = node[dir["result"]].version
        /\ Index!Stat(dir["result"]).on = dir["result"]
    BY DEF Index!Stat
  <2>. QED
    BY <1>0, <1>6, <2>1, ResultOpened DEF VersionInvariant, BeforeResult, Index!disk
<1>7. CASE Index!ReadBlocks
  <2>1. reader'.stat = reader.stat
    BY <1>7 DEF Index!ReadBlocks, IndexTypes, ReaderRecords
  <2>. QED
    BY <1>7, <2>1 DEF Index!ReadBlocks, VersionInvariant, BeforeResult, Index!disk
<1>8. ASSUME NEW s, NEW d, Index!ListEntry(s, d) PROVE VersionInvariant'
  BY <1>8 DEF Index!ListEntry, Index!NoReader, Index!disk, VersionInvariant, BeforeResult
<1>. QED
  BY <1>1, <1>2, <1>3, <1>4, <1>5, <1>6, <1>7, <1>8
  DEF Index!Next, Index!Scan, Index!Summarize, Index!List, Index!Lstat, Index!Open

(* What a whole result adds to the history.                                *)
LEMMA WholeResult ==
  Index!Whole("result") =
    IF dir'["result"] # 0 /\ node'[dir'["result"]].blocks = 2
    THEN {node'[dir'["result"]].version} ELSE {}
BY DEF Index!Whole, Index!None

(* What stands where in two sequences put together.                        *)
LEMMA Glued ==
  ASSUME NEW S, NEW a \in Seq(S), NEW b \in Seq(S), NEW k \in 1..Len(a \o b)
  PROVE  /\ Len(a \o b) = Len(a) + Len(b)
         /\ k <= Len(a) => (a \o b)[k] = a[k]
         /\ k > Len(a) => (a \o b)[k] = b[k - Len(a)] /\ k - Len(a) \in 1..Len(b)
OBVIOUS

(* What a reader has in hand was in place, by every step.                  *)
LEMMA ReaderKept ==
  ASSUME IndexTypes, DiskInvariant, ReaderInvariant, VersionInvariant, Index!Next
  PROVE  ReaderInvariant'
<1> USE IndexAssumption DEF Index!Files, Index!Nodes, Index!None
<1>0. /\ dir["result"] \in 0..MaxNodes /\ used \in 0..MaxNodes
      /\ \A i \in 1..MaxNodes : node[i].version \in Nat /\ node[i].blocks \in 0..2
      /\ reader.stat.on \in 0..MaxNodes
      /\ reader.buffer \in Seq(Nat) /\ Len(reader.buffer) \in Nat
  <2>1. (\A r \in FileRecords : r.version \in Nat /\ r.blocks \in 0..2)
        /\ (\A r \in ReaderRecords : r.buffer \in Seq(Nat) /\ r.stat.on \in 0..MaxNodes)
    BY DEF FileRecords, ReaderRecords, StatRecords
  <2>. QED
    BY <2>1 DEF IndexTypes
<1>a. ASSUME UNCHANGED <<numbered, scan, reader>>, used' >= used,
             inPlace' = inPlace \cup Index!Whole("result"),
             reader.step \in {"read", "check"} /\ dir'["result"] = reader.stat.on =>
               \A k \in 1..Len(reader.buffer) :
                 \/ reader.buffer[k] \in inPlace'
                 \/ /\ reader.buffer[k] = node'[reader.stat.on].version
                    /\ node'[reader.stat.on].blocks >= Len(reader.buffer)
      PROVE  ReaderInvariant'
  <2>1. used' \in 0..MaxNodes
    BY IndexTypesKept DEF IndexTypes
  <2>2. Index!SameFile(scan["result"].stat, reader.stat)' <=> Index!SameFile(scan["result"].stat, reader.stat)
    BY <1>a DEF Index!SameFile
  <2>. QED
    BY <1>0, <1>a, <2>1, <2>2, WholeResult DEF ReaderInvariant
<1>1. ASSUME NEW f \in Index!Files, Index!Truncate(f) PROVE ReaderInvariant'
  <2>1. ASSUME reader.step \in {"read", "check"}, dir'["result"] = reader.stat.on,
               NEW k \in 1..Len(reader.buffer)
        PROVE  \/ reader.buffer[k] \in inPlace
               \/ /\ reader.buffer[k] = node'[reader.stat.on].version
                  /\ node'[reader.stat.on].blocks >= Len(reader.buffer)
    <3>1. reader.stat.on \in 1..used
      BY <2>1 DEF ReaderInvariant
    <3>2. dir["result"] = reader.stat.on
      BY <1>0, <1>1, <2>1, <3>1, Truncated
    <3>3. node[dir["result"]].blocks = 2
      BY <1>0, <1>1, <3>1, <3>2, Truncated DEF DiskInvariant
    <3>4. node[dir["result"]].version \in inPlace
      BY <1>0, <3>1, <3>2, <3>3 DEF ReaderInvariant
    <3>. QED
      BY <2>1, <3>2, <3>4 DEF ReaderInvariant
  <2>. QED
    BY <1>1, <1>a, <2>1, Truncated
<1>2. ASSUME NEW f \in Index!Files, Index!Delete(f) PROVE ReaderInvariant'
  <2>1. UNCHANGED <<numbered, scan, reader, used, node>>
        /\ inPlace' = inPlace \cup Index!Whole("result")
        /\ dir'["result"] \in {0, dir["result"]}
    BY <1>2 DEF Index!Delete, Index!index, Index!Witness, IndexTypes
  <2>2. reader.step \in {"read", "check"} => reader.stat.on # 0
    BY <1>0 DEF ReaderInvariant
  <2>. QED
    BY <1>0, <1>a, <2>1, <2>2 DEF ReaderInvariant
<1>3. CASE Index!WriteBlock
  <2>1. \A i \in 1..MaxNodes : node'[i].version = node[i].version
                               /\ node'[i].blocks >= node[i].blocks /\ node'[i].blocks \in Nat
    BY <1>0, <1>3, BlockWritten
  <2>2. reader.step \in {"read", "check"} => reader.stat.on \in 1..MaxNodes
    BY <1>0 DEF ReaderInvariant
  <2>3. ASSUME reader.step \in {"read", "check"}, dir["result"] = reader.stat.on,
               NEW k \in 1..Len(reader.buffer)
        PROVE  \/ reader.buffer[k] \in inPlace
               \/ /\ reader.buffer[k] = node'[reader.stat.on].version
                  /\ node'[reader.stat.on].blocks >= Len(reader.buffer)
    <3> DEFINE i == reader.stat.on
    <3>1. i \in 1..MaxNodes
      BY <2>2, <2>3
    <3>2. node'[i].version = node[i].version /\ node'[i].blocks >= node[i].blocks
          /\ node'[i].blocks \in Nat /\ node[i].blocks \in 0..2
      BY <1>0, <2>1, <3>1
    <3>3. \/ reader.buffer[k] \in inPlace
          \/ reader.buffer[k] = node[i].version /\ node[i].blocks >= Len(reader.buffer)
      BY <2>3 DEF ReaderInvariant
    <3>4. Len(reader.buffer) \in Nat
      BY <1>0
    <3> HIDE DEF i
    <3>5. node[i].blocks >= Len(reader.buffer) => node'[i].blocks >= Len(reader.buffer)
      BY <3>2, <3>4
    <3>6. \/ reader.buffer[k] \in inPlace
          \/ reader.buffer[k] = node'[i].version /\ node'[i].blocks >= Len(reader.buffer)
      BY <3>2, <3>3, <3>5
    <3>. QED
      BY <3>6 DEF i
  <2>. QED
    BY <1>0, <1>3, <1>a, <2>3, BlockWritten
<1>4. CASE Index!List
  <2>1. reader.step = "wait"
    BY <1>4 DEF Index!List, ReaderInvariant
  <2>2. UNCHANGED <<reader, dir, node, used>> /\ inPlace' = Index!Whole("result")
    BY <1>4 DEF Index!List, Index!disk
  <2>. QED
    BY <2>1, <2>2, WholeResult DEF ReaderInvariant
<1>5. ASSUME NEW f \in Index!Files, Index!Lstat(f) \/ Index!Open(f) PROVE ReaderInvariant'
  <2>1. scan[f].step \in {"lstat", "open"}
    BY <1>5 DEF Index!Lstat, Index!Open
  <2>2. reader.step = "wait"
    BY <2>1 DEF ReaderInvariant
  <2>3. UNCHANGED <<reader, dir, node, used, inPlace>>
    BY <1>5 DEF Index!Lstat, Index!Open, Index!disk
  <2>. QED
    BY <2>2, <2>3 DEF ReaderInvariant
<1>6. CASE Index!OpenResult
  <2>1. reader.step = "wait" /\ \A f \in Index!Files : scan[f].step = "done"
    BY <1>6 DEF Index!OpenResult
  <2>2. Index!Stat(dir["result"]).on = dir["result"]
    BY DEF Index!Stat
  <2>3. Index!SameFile(scan["result"].stat, reader.stat)' <=> Index!SameFile(scan["result"].stat, reader'.stat)
    BY <1>6, ResultOpened DEF Index!SameFile
  <2>4. reader'.buffer = <<>>
    BY <1>6, <2>1, ResultOpened DEF ReaderInvariant
  <2>5. dir["result"] <= used
    BY DEF DiskInvariant
  <2>. QED
    BY <1>0, <1>6, <2>1, <2>2, <2>3, <2>4, <2>5, ResultOpened DEF ReaderInvariant, Index!disk
<1>7. CASE Index!ReadBlocks
  <2> DEFINE file == node[reader.stat.on]
             more == file.blocks - Len(reader.buffer)
             new == [k \in 1..more |-> file.version]
  <2>1. reader.stat.on \in 1..used /\ file.blocks \in 0..2 /\ file.version \in Nat
        /\ reader \in ReaderRecords
    BY <1>0, <1>7 DEF Index!ReadBlocks, ReaderInvariant, IndexTypes
  <2>2. UNCHANGED <<numbered, dir, node, used, scan, inPlace>>
    BY <1>7 DEF Index!ReadBlocks, Index!disk
  <2>3. reader'.step \in {"read", "check"} /\ reader'.stat = reader.stat
        /\ reader'.buffer = IF more > 0 THEN reader.buffer \o new ELSE reader.buffer
    BY <1>7, <2>1 DEF Index!ReadBlocks, ReaderRecords
  <2>4. Index!SameFile(scan["result"].stat, reader.stat)' <=> Index!SameFile(scan["result"].stat, reader.stat)
    BY <2>2, <2>3 DEF Index!SameFile
  <2>5. ASSUME dir["result"] = reader.stat.on, NEW k \in 1..Len(reader'.buffer)
        PROVE  \/ reader'.buffer[k] \in inPlace
               \/ /\ reader'.buffer[k] = file.version
                  /\ file.blocks >= Len(reader'.buffer)
    <3>1. \A j \in 1..Len(reader.buffer) :
            \/ reader.buffer[j] \in inPlace
            \/ reader.buffer[j] = file.version /\ file.blocks >= Len(reader.buffer)
      BY <1>7, <2>5 DEF Index!ReadBlocks, ReaderInvariant
    <3>2. CASE more > 0
      <4>1. new \in Seq(Nat) /\ Len(new) = more /\ \A j \in 1..more : new[j] = file.version
        <5> HIDE DEF file
        <5>. QED
          BY <1>0, <2>1, <3>2
      <4>2. more \in Nat /\ Len(reader.buffer) + more = file.blocks
        <5> HIDE DEF file
        <5>. QED
          BY <1>0, <2>1, <3>2
      <4> HIDE DEF new, more, file
      <4>3. reader'.buffer = reader.buffer \o new
        BY <2>3, <3>2
      <4>4. k \in 1..Len(reader.buffer \o new)
        BY <2>5, <4>3
      <4>5. /\ Len(reader.buffer \o new) = Len(reader.buffer) + Len(new)
            /\ k <= Len(reader.buffer) => (reader.buffer \o new)[k] = reader.buffer[k]
            /\ k > Len(reader.buffer) =>
                 /\ (reader.buffer \o new)[k] = new[k - Len(reader.buffer)]
                 /\ k - Len(reader.buffer) \in 1..Len(new)
        BY <1>0, <4>1, <4>4, Glued
      <4>6. Len(reader'.buffer) = file.blocks
        BY <4>1, <4>2, <4>3, <4>5
      <4>7. CASE k <= Len(reader.buffer)
        <5>1. k \in 1..Len(reader.buffer) /\ reader'.buffer[k] = reader.buffer[k]
          BY <1>0, <4>3, <4>4, <4>5, <4>7
        <5>. QED
          BY <2>1, <3>1, <4>6, <5>1
      <4>8. CASE k > Len(reader.buffer)
        BY <2>1, <4>1, <4>3, <4>5, <4>6, <4>8
      <4>9. k \in Nat /\ Len(reader.buffer) \in Nat
        BY <1>0, <4>4
      <4>. QED
        BY <4>7, <4>8, <4>9
    <3>3. CASE ~ (more > 0)
      BY <2>3, <2>5, <3>1, <3>3
    <3>. QED
      BY <3>2, <3>3
  <2> HIDE DEF file, more, new
  <2>6. reader.step # "wait" /\ reader'.step # "wait"
    BY <1>7, <2>3 DEF Index!ReadBlocks
  <2>7. ReaderInvariant
    OBVIOUS
  <2>. QED
    BY <1>7, <2>1, <2>2, <2>3, <2>4, <2>5, <2>6, <2>7 DEF ReaderInvariant, Index!ReadBlocks, file
<1>8. ASSUME NEW s, NEW d, Index!ListEntry(s, d) PROVE ReaderInvariant'
  <2>1. reader'.step = "wait" /\ reader'.buffer = <<>> /\ UNCHANGED <<dir, node, used, inPlace>>
    BY <1>8 DEF Index!ListEntry, Index!NoReader, Index!disk
  <2>. QED
    BY <2>1 DEF ReaderInvariant
<1>. QED
  BY <1>1, <1>2, <1>3, <1>4, <1>5, <1>6, <1>7, <1>8
  DEF Index!Next, Index!Scan, Index!Summarize

(* A summary of the index comes from results that were whole and in their  *)
(* place while the scan ran, whatever moa_complete writes, and whoever     *)
(* deletes files, between its system calls (archive-index.ts:299, 305).    *)
THEOREM IndexIsSound == Index!Spec => []Index!SummaryWasInPlace
<1> USE IndexAssumption DEF Index!Files, Index!Nodes, Index!None
<1>1. Index!Init => IndexInvariant
  <2> SUFFICES ASSUME Index!Init PROVE IndexInvariant
    OBVIOUS
  <2>1. IndexTypes
    <3>1. [version |-> 0, blocks |-> 0] \in FileRecords /\ Index!NoStat \in StatRecords
      BY DEF FileRecords, StatRecords, Index!NoStat
    <3>2. Index!Idle \in ScanRecords /\ Index!NoReader \in ReaderRecords
      BY <3>1 DEF Index!Idle, ScanRecords, Index!NoReader, ReaderRecords
    <3>. QED
      BY <3>1, <3>2 DEF Index!Init, IndexTypes
  <2>2. reader.step = "wait" /\ reader.buffer = <<>> /\ entry.summary = {}
    BY DEF Index!Init, Index!NoReader, Index!NoEntry
  <2>. QED
    BY <2>1, <2>2 DEF Index!Init, IndexInvariant, DiskInvariant, VersionInvariant,
                      ReaderInvariant, Index!SummaryWasInPlace
<1>2. ASSUME IndexInvariant, Index!Next PROVE Index!SummaryWasInPlace'
  <2> USE <1>2 DEF IndexInvariant
  <2>1. ASSUME UNCHANGED <<numbered, entry>>, inPlace \subseteq inPlace'
        PROVE  Index!SummaryWasInPlace'
    BY <2>1 DEF Index!SummaryWasInPlace, Index!SameFile
  <2>2. ASSUME NEW f \in Index!Files, Index!Truncate(f) \/ Index!Delete(f) \/ Index!WriteBlock
        PROVE  Index!SummaryWasInPlace'
    BY <2>1, <2>2 DEF Index!Truncate, Index!Delete, Index!WriteBlock, Index!index, Index!Witness
  <2>3. CASE Index!List
    BY <2>3 DEF Index!List, Index!NoEntry, Index!SummaryWasInPlace
  <2>4. ASSUME NEW f \in Index!Files, Index!Lstat(f) \/ Index!Open(f)
        PROVE  Index!SummaryWasInPlace'
    BY <2>1, <2>4 DEF Index!Lstat, Index!Open
  <2>5. CASE Index!OpenResult \/ Index!ReadBlocks
    BY <2>1, <2>5 DEF Index!OpenResult, Index!ReadBlocks
  <2>6. ASSUME NEW d, Index!ListEntry({}, d) PROVE Index!SummaryWasInPlace'
    <3>1. entry'.summary = {}
      BY <2>6 DEF Index!ListEntry
    <3>. QED
      BY <3>1 DEF Index!SummaryWasInPlace
  <2>7. ASSUME Index!CheckResult, Index!ListEntry({reader.buffer[k] : k \in 1..2}, FALSE)
        PROVE  Index!SummaryWasInPlace'
    <3>1. /\ entry'.summary = {reader.buffer[k] : k \in 1..2}
          /\ entry'.stat = scan["result"].stat /\ entry'.read = reader.stat
          /\ UNCHANGED <<numbered, inPlace>>
      BY <2>7 DEF Index!ListEntry
    <3>2. reader.step = "check" /\ Len(reader.buffer) = 2 /\ dir["result"] # 0
          /\ Index!SameFile(reader.stat, Index!Stat(dir["result"]))
      BY <2>7 DEF Index!CheckResult, Index!There
    <3>3. dir["result"] = reader.stat.on
      <4>1. reader.stat.version \in Nat /\ node[dir["result"]].version \in Nat
        <5>1. reader.stat \in StatRecords /\ dir["result"] \in 1..MaxNodes
          BY <3>2 DEF IndexTypes, ReaderRecords
        <5>. QED
          BY <5>1 DEF IndexTypes, StatRecords, FileRecords
      <4>. QED
        BY <3>2, <4>1 DEF Index!SameFile, Index!Stat, VersionInvariant
    <3>4. node[reader.stat.on].blocks \in 0..2
      BY <3>2, <3>3 DEF IndexTypes, FileRecords
    <3>5. \A k \in 1..2 : reader.buffer[k] \in inPlace
      BY <3>2, <3>3, <3>4 DEF ReaderInvariant
    <3>6. Index!SameFile(scan["result"].stat, reader.stat)
      BY <3>2 DEF ReaderInvariant
    <3>. QED
      BY <3>1, <3>5, <3>6 DEF Index!SummaryWasInPlace, Index!SameFile
  <2>. QED
    BY <2>2, <2>3, <2>4, <2>5, <2>6, <2>7 DEF Index!Next, Index!Scan, Index!Summarize
<1>3. IndexInvariant /\ UNCHANGED Index!vars => IndexInvariant'
  BY DEF Index!vars, Index!disk, Index!index, IndexInvariant, IndexTypes, DiskInvariant,
         VersionInvariant, ReaderInvariant, BeforeResult, Index!SummaryWasInPlace, Index!SameFile
<1>4. IndexInvariant /\ [Index!Next]_Index!vars => IndexInvariant'
  BY <1>2, <1>3, IndexTypesKept, DiskKept, VersionKept, ReaderKept DEF IndexInvariant
<1>. QED
  BY <1>1, <1>4, PTL DEF Index!Spec, IndexInvariant

(* A debate and its audience side by side.                                 *)
AudienceSpec == MCInit /\ [][MCNext]_allVars

(* A listed summary is of results that were whole under their name during  *)
(* the scan, and its file data are of the same file (archive-index.ts:299, *)
(* 305).                                                                   *)
THEOREM SummariesAreOfWholeResults == AudienceSpec => []SummaryWasInPlace
<1> DEFINE InIndex == part = "index"
<1>1. MCInit => Index!Init
  BY DEF MCInit
<1>2. InIndex /\ [MCNext]_allVars => InIndex' /\ [Index!Next]_Index!vars
  BY DEF MCNext, allVars, indexVars, Index!vars, Index!disk, Index!index
<1>3. ~InIndex /\ [MCNext]_allVars => ~InIndex'
  BY DEF MCNext, allVars
<1>4. AudienceSpec /\ InIndex => Index!Spec
  BY <1>1, <1>2, PTL DEF AudienceSpec, Index!Spec
<1>5. AudienceSpec /\ ~InIndex => []SummaryWasInPlace
  <2>1. ~InIndex => SummaryWasInPlace
    BY DEF SummaryWasInPlace
  <2>. QED
    BY <1>3, <2>1, PTL DEF AudienceSpec
<1>6. []Index!SummaryWasInPlace => []SummaryWasInPlace
  <2>1. Index!SummaryWasInPlace => SummaryWasInPlace
    BY DEF SummaryWasInPlace
  <2>. QED
    BY <2>1, PTL
<1>. QED
  BY <1>4, <1>5, <1>6, IndexIsSound, PTL

(* ---------------------------------------------------------------------- *)
(* The feed: frames, run summary and card                                  *)

Names == Debaters \cup {Nobody}
Kinds == {"task_initialized", "debate_started", "turn_submitted", "signoff_reset", "turn_advanced",
          "debate_complete", "task_closed"}
Frames == [type : Kinds, who : Names, signoff : BOOLEAN, turn : Nat, n : Nat]
Stages == {"none", "initialized", "debating", "complete", "closed"}
RunType == [status : Stages, turns : Nat, signed : SUBSET Names, speaker : Names]
CardType == [listed : BOOLEAN, chosen : BOOLEAN, lines : Seq(Nat), turns : Nat, spoken : Nat, stage : Nat,
             speaking : Names, verdict : {"none", "loading", "error", "blank", "shown", "full"}, fresh : BOOLEAN]

FeedTypes ==
  /\ hub \in [status : Stages, turn : Nat, speaker : Names, signed : SUBSET Names, writing : BOOLEAN]
  /\ remote \in BOOLEAN /\ wire \in SUBSET Frames
  /\ emitted \in Seq(Frames) /\ published \in Seq(Frames) /\ log \in Seq(Frames)
  /\ run \in RunType /\ stream \in [open : BOOLEAN, pipe : Seq(Frames)] /\ card \in CardType
  /\ archived \in [turns : Nat, result : {"none", "torn", "whole"}, times : Nat] /\ since \in Nat

(* What the bus keeps and what a stream still holds are the end of what    *)
(* was published.                                                          *)
Ends(s, t) == Len(s) <= Len(t) /\ \A i \in 1..Len(s) : s[i] = t[Len(t) - Len(s) + i]
Kept(n) == IF n < ReplayLimit THEN n ELSE ReplayLimit
GaplessInv ==
  /\ Ends(log, published) /\ Len(log) = Kept(Len(published))
  /\ IF stream.open THEN Ends(stream.pipe, published) /\ since >= Kept(Len(published))
                    ELSE stream.pipe = <<>>

(* A bus that has seen everything holds the hub's summary.                 *)
Summary(h) == [status |-> h.status, turns |-> h.turn, signed |-> h.signed, speaker |-> h.speaker]
AgreeInv ==
  /\ ~remote => Len(published) <= Len(emitted) /\ (published = emitted => run = Summary(hub))
  /\ hub.status \in {"none", "initialized"} => hub.signed = {} /\ hub.speaker = Nobody /\ hub.turn = 0
  /\ hub.status = "debating" => hub.speaker \in Debaters

(* A turn is submitted by one frame, which is on its way, published or     *)
(* lost, and the summary counts those that were published.                 *)
Said(e) == e.type = "turn_submitted"
Spoken == {i \in 1..Len(published) : Said(published[i])}
CountInv ==
  /\ \A e \in wire : Said(e) => e.turn \in 1..hub.turn
  /\ \A i \in Spoken : published[i].turn \in 1..hub.turn
  /\ \A e, f \in wire : Said(e) /\ Said(f) /\ e.turn = f.turn => e = f
  /\ \A i, j \in Spoken : published[i].turn = published[j].turn => i = j
  /\ \A e \in wire : \A i \in Spoken : Said(e) => e.turn # published[i].turn
  /\ run.turns = Cardinality(Spoken)

(* The archive counts the hub's turns once it is written, and nothing asks *)
(* for it before the task is closed.                                       *)
ArchiveInv ==
  /\ archived.turns <= hub.turn
  /\ hub.writing \/ hub.status = "closed" => archived.turns = hub.turn
  /\ \A e \in wire : e.type = "task_closed" => hub.status = "closed"
  /\ \A i \in 1..Len(published) : published[i].type = "task_closed" => hub.status = "closed"
  /\ card.verdict # "none" => hub.status = "closed"
  /\ card.verdict = "full" /\ card.fresh => IF card.lines = <<>> THEN hub.turn = 0 ELSE card.lines[1] = 1

(* A card that was never cut off shows each turn once and none that is     *)
(* still to come.                                                          *)
LinesInv ==
  /\ \A i \in 1..Len(card.lines) : card.lines[i] \in 1..hub.turn
  /\ card.fresh =>
       /\ \A i, j \in 1..Len(card.lines) : card.lines[i] = card.lines[j] => i = j
       /\ \A i \in 1..Len(card.lines) :
            /\ \A e \in wire : Said(e) => e.turn # card.lines[i]
            /\ \A k \in 1..Len(stream.pipe) : Said(stream.pipe[k]) => stream.pipe[k].turn # card.lines[i]

(* Without a network between hub and bus frames come in the order of their *)
(* turns, and what a stream still holds goes on where the card ends.       *)
Step(e) == IF Said(e) THEN 1 ELSE 0
OrderInv ==
  ~remote =>
    /\ wire = {}
    /\ \A i \in 1..(Len(published) - 1) : published[i + 1].turn = published[i].turn + Step(published[i + 1])
    /\ published # <<>> => published[Len(published)].turn = hub.turn
    /\ card.fresh =>
         /\ \A i \in 1..(Len(card.lines) - 1) : card.lines[i + 1] = card.lines[i] + 1
         /\ stream.open /\ card.lines # <<>> =>
              IF stream.pipe = <<>> THEN card.lines[Len(card.lines)] = hub.turn
              ELSE stream.pipe[1].turn = card.lines[Len(card.lines)] + Step(stream.pipe[1])

FeedInv == FeedTypes /\ GaplessInv /\ AgreeInv /\ CountInv /\ ArchiveInv /\ LinesInv /\ OrderInv

(* What ends a sequence is a subsequence of it.                            *)
LEMMA EndIsSubSeq ==
  ASSUME NEW S, NEW s \in Seq(S), NEW t \in Seq(S), Ends(s, t)
  PROVE  s = SubSeq(t, Len(t) - Len(s) + 1, Len(t))
<1> DEFINE m == Len(t) - Len(s) + 1
           u == SubSeq(t, m, Len(t))
<1>1. m \in Int /\ Len(t) \in Int /\ m >= 1 /\ Len(s) \in Nat /\ Len(t) - m + 1 = Len(s)
  BY DEF Ends
<1>2. \A i \in m..Len(t) : t[i] \in S
  BY <1>1
<1>3. m <= Len(t) + 1
  BY <1>1
<1>4. u \in Seq(S) /\ Len(u) = Len(s) /\ \A i \in 1..Len(s) : u[i] = t[m + i - 1]
  <2> HIDE DEF m
  <2>1. Len(u) = IF m <= Len(t) THEN Len(t) - m + 1 ELSE 0
    BY <1>1, <1>2, SubSeqProperties
  <2>2. u \in Seq(S) /\ \A i \in 1..(Len(t) - m + 1) : u[i] = t[m + i - 1]
    BY <1>1, <1>2, SubSeqProperties
  <2>. QED
    BY <1>1, <1>3, <2>1, <2>2
<1>5. \A i \in 1..Len(s) : m + i - 1 = Len(t) - Len(s) + i
  BY <1>1
<1>6. \A i \in 1..Len(s) : u[i] = s[i]
  <2> HIDE DEF u, m
  <2>. QED
    BY <1>4, <1>5 DEF Ends
<1> HIDE DEF u
<1>. QED
  BY <1>4, <1>6, SeqEqual DEF u

(* It stays its end when both grow.                                        *)
LEMMA EndsGrow ==
  ASSUME NEW S, NEW s \in Seq(S), NEW t \in Seq(S), NEW e \in Seq(S), Ends(s, t)
  PROVE  Ends(s \o e, t \o e)
<1>1. /\ Len(s \o e) = Len(s) + Len(e) /\ Len(t \o e) = Len(t) + Len(e)
      /\ \A i \in 1..(Len(s) + Len(e)) : (s \o e)[i] = IF i <= Len(s) THEN s[i] ELSE e[i - Len(s)]
      /\ \A i \in 1..(Len(t) + Len(e)) : (t \o e)[i] = IF i <= Len(t) THEN t[i] ELSE e[i - Len(t)]
  BY ConcatProperties
<1>2. ASSUME NEW i \in 1..(Len(s) + Len(e))
      PROVE  (s \o e)[i] = (t \o e)[(Len(t) + Len(e)) - (Len(s) + Len(e)) + i]
  <2> DEFINE k == Len(t) - Len(s) + i
  <2>1. /\ (Len(t) + Len(e)) - (Len(s) + Len(e)) + i = k /\ k \in 1..(Len(t) + Len(e))
        /\ i <= Len(s) <=> k <= Len(t)
        /\ k - Len(t) = i - Len(s)
    BY DEF Ends
  <2>2. i <= Len(s) => s[i] = t[k]
    BY DEF Ends
  <2> HIDE DEF k
  <2>3. (t \o e)[k] = IF k <= Len(t) THEN t[k] ELSE e[k - Len(t)]
    BY <1>1, <2>1
  <2>. QED
    BY <1>1, <2>1, <2>2, <2>3
<1>. QED
  BY <1>1, <1>2 DEF Ends

(* So does what it has without its first element.                          *)
LEMMA EndsTail ==
  ASSUME NEW S, NEW s \in Seq(S), NEW t \in Seq(S), s # <<>>, Ends(s, t)
  PROVE  Ends(Tail(s), t)
<1>1. Len(Tail(s)) = Len(s) - 1 /\ Len(s) > 0 /\ \A i \in 1..Len(Tail(s)) : Tail(s)[i] = s[i + 1]
  BY HeadTailProperties
<1>2. ASSUME NEW i \in 1..(Len(s) - 1) PROVE s[i + 1] = t[Len(t) - (Len(s) - 1) + i]
  <2>1. i + 1 \in 1..Len(s) /\ Len(t) - Len(s) + (i + 1) = Len(t) - (Len(s) - 1) + i
    OBVIOUS
  <2>. QED
    BY <2>1 DEF Ends
<1>. QED
  BY <1>1, <1>2 DEF Ends

(* The newest frames of a log that ends what was published.                *)
LEMMA TrimEnds ==
  ASSUME NEW S, NEW s \in Seq(S), NEW t \in Seq(S), Ends(s, t)
  PROVE  Feed!Trim(s) \in Seq(S) /\ Ends(Feed!Trim(s), t) /\ Len(Feed!Trim(s)) = Kept(Len(s))
<1> USE FeedAssumption
<1>1. CASE Len(s) > ReplayLimit
  <2> DEFINE m == Len(s) - ReplayLimit + 1
             u == SubSeq(s, m, Len(s))
  <2>1. Feed!Trim(s) = u
    BY <1>1 DEF Feed!Trim, Feed!Newest
  <2>2. m \in Int /\ Len(s) \in Int /\ Len(s) - m + 1 = ReplayLimit /\ \A i \in m..Len(s) : s[i] \in S
    BY <1>1
  <2>3. m <= Len(s) + 1
    BY <1>1
  <2>4. u \in Seq(S) /\ Len(u) = ReplayLimit /\ \A i \in 1..ReplayLimit : u[i] = s[m + i - 1]
    <3> HIDE DEF m
    <3>1. Len(u) = IF m <= Len(s) THEN Len(s) - m + 1 ELSE 0
      BY <2>2, SubSeqProperties
    <3>2. u \in Seq(S) /\ \A i \in 1..(Len(s) - m + 1) : u[i] = s[m + i - 1]
      BY <2>2, SubSeqProperties
    <3>. QED
      BY <2>2, <2>3, <3>1, <3>2
  <2>5. ASSUME NEW i \in 1..ReplayLimit PROVE s[m + i - 1] = t[Len(t) - ReplayLimit + i]
    <3>1. m + i - 1 \in 1..Len(s) /\ Len(t) - Len(s) + (m + i - 1) = Len(t) - ReplayLimit + i
      BY <1>1
    <3>. QED
      BY <3>1 DEF Ends
  <2>6. Len(u) <= Len(t) /\ Len(u) = Kept(Len(s))
    BY <1>1, <2>4 DEF Ends, Kept
  <2> HIDE DEF u, m
  <2>7. Ends(u, t)
    BY <2>4, <2>5, <2>6 DEF Ends
  <2>. QED
    BY <2>1, <2>4, <2>6, <2>7
<1>2. CASE ~(Len(s) > ReplayLimit)
  BY <1>2 DEF Feed!Trim, Feed!Newest, Kept
<1>. QED
  BY <1>1, <1>2

(* The summary of one, two or three events, one after the other.           *)
LEMMA IngestedIs ==
  ASSUME NEW r, NEW ev, Len(ev) \in 1..3
  PROVE  LET one == Feed!Ingest(r, ev[1])
             two == Feed!Ingest(one, ev[2])
         IN  Feed!Ingested(r, ev) = IF Len(ev) = 1 THEN one
                                    ELSE IF Len(ev) = 2 THEN two ELSE Feed!Ingest(two, ev[3])
<1> DEFINE one == Feed!Ingest(r, ev[1])
           two == Feed!Ingest(one, ev[2])
           w == [i \in 0..Len(ev) |-> IF i = 0 THEN r ELSE IF i = 1 THEN one
                                      ELSE IF i = 2 THEN two ELSE Feed!Ingest(two, ev[3])]
           Is(f) == f = [i \in 0..Len(ev) |-> IF i = 0 THEN r ELSE Feed!Ingest(f[i - 1], ev[i])]
           f == CHOOSE f : Is(f)
<1>1. Is(w)
  <2>1. \A i \in 0..Len(ev) : w[i] = IF i = 0 THEN r ELSE Feed!Ingest(w[i - 1], ev[i])
    OBVIOUS
  <2>. QED
    BY <2>1
<1>2. Is(f)
  <2> HIDE DEF w, Is
  <2>. QED
    BY <1>1
<1>3. Feed!Ingested(r, ev) = f[Len(ev)]
  BY Zenon DEF Feed!Ingested
<1> HIDE DEF f
<1>4. \A i \in 0..Len(ev) : f[i] = IF i = 0 THEN r ELSE Feed!Ingest(f[i - 1], ev[i])
  BY <1>2
<1>5. f[1] = one
  BY <1>4
<1>6. Len(ev) > 1 => f[2] = two
  BY <1>4, <1>5
<1>7. Len(ev) > 2 => f[3] = Feed!Ingest(two, ev[3])
  BY <1>4, <1>6
<1>8. Feed!Ingested(r, ev) = IF Len(ev) = 1 THEN one ELSE IF Len(ev) = 2 THEN two ELSE Feed!Ingest(two, ev[3])
  <2> HIDE DEF Is, w, one, two
  <2>. QED
    <3>1. CASE Len(ev) = 1
      BY <1>3, <1>5, <3>1
    <3>2. CASE Len(ev) = 2
      BY <1>3, <1>6, <3>2
    <3>3. CASE Len(ev) = 3
      BY <1>3, <1>7, <3>3
    <3>4. Len(ev) = 1 \/ Len(ev) = 2 \/ Len(ev) = 3
      OBVIOUS
    <3>. QED
      BY <3>1, <3>2, <3>3, <3>4
<1>. QED
  BY <1>8

(* What the hub emits at once: of its frames only the first can be a turn. *)
Batch(ev) == ev \in Seq(Frames) /\ Len(ev) \in 1..3 /\ \A i \in 2..Len(ev) : ~Said(ev[i])

(* The summary counts the turns it is told of.                             *)
LEMMA IngestCounts ==
  ASSUME NEW r \in RunType, NEW e \in Frames
  PROVE  Feed!Ingest(r, e) \in RunType /\ Feed!Ingest(r, e).turns = r.turns + Step(e)
<1> DEFINE s == Feed!Bootstrapped(r)
           Is(a, n, v, w) == Feed!Ingest(r, e) = [status |-> a, turns |-> n, signed |-> v, speaker |-> w]
<1>1. s \in RunType /\ s.turns = r.turns /\ r.turns \in Nat
  BY DEF Feed!Bootstrapped, RunType, Stages
<1>2. e.type \in Kinds /\ e.who \in Names
  BY DEF Frames
<1> HIDE DEF s
<1>3. /\ s = [status |-> s.status, turns |-> s.turns, signed |-> s.signed, speaker |-> s.speaker]
      /\ s.status \in Stages /\ s.signed \in SUBSET Names /\ s.speaker \in Names
  BY <1>1 DEF RunType
<1>4. \E a \in Stages, v \in SUBSET Names, w \in Names : Is(a, r.turns + Step(e), v, w)
  <2>1. {"initialized", "debating", "complete", "closed"} \subseteq Stages /\ Nobody \in Names
        /\ {} \in SUBSET Names /\ s.signed \cup {e.who} \in SUBSET Names
    BY <1>2, <1>3 DEF Stages, Names
  <2>2. Step(e) = IF e.type = "turn_submitted" THEN 1 ELSE 0
    BY DEF Step, Said
  <2>3. CASE e.type = "task_initialized"
    <3>1. Is("initialized", s.turns, s.signed, s.speaker)
      BY <1>3, <2>3 DEF Feed!Ingest, s
    <3>2. s.turns = r.turns + Step(e)
      BY <1>1, <2>2, <2>3
    <3>3. Is("initialized", r.turns + Step(e), s.signed, s.speaker)
      BY <3>1, <3>2
    <3> HIDE DEF Is
    <3>. QED
      BY <1>3, <1>2, <2>1, <3>3
  <2>4. CASE e.type = "debate_started"
    <3>1. Is("debating", s.turns, {}, e.who)
      BY <1>3, <2>4 DEF Feed!Ingest, s
    <3>2. s.turns = r.turns + Step(e)
      BY <1>1, <2>2, <2>4
    <3>3. Is("debating", r.turns + Step(e), {}, e.who)
      BY <3>1, <3>2
    <3> HIDE DEF Is
    <3>. QED
      BY <1>3, <1>2, <2>1, <3>3
  <2>5. CASE e.type = "turn_submitted"
    <3>1. Is(s.status, s.turns + 1, IF e.signoff THEN s.signed \cup {e.who} ELSE s.signed, s.speaker)
      BY <1>3, <2>5 DEF Feed!Ingest, s
    <3>2. s.turns + 1 = r.turns + Step(e)
      BY <1>1, <2>2, <2>5
    <3>3. Is(s.status, r.turns + Step(e), IF e.signoff THEN s.signed \cup {e.who} ELSE s.signed, s.speaker)
      BY <3>1, <3>2
    <3> HIDE DEF Is
    <3>. QED
      BY <1>3, <1>2, <2>1, <3>3
  <2>6. CASE e.type = "signoff_reset"
    <3>1. Is(s.status, s.turns, {}, s.speaker)
      BY <1>3, <2>6 DEF Feed!Ingest, s
    <3>2. s.turns = r.turns + Step(e)
      BY <1>1, <2>2, <2>6
    <3>3. Is(s.status, r.turns + Step(e), {}, s.speaker)
      BY <3>1, <3>2
    <3> HIDE DEF Is
    <3>. QED
      BY <1>3, <1>2, <2>1, <3>3
  <2>7. CASE e.type = "turn_advanced"
    <3>1. Is(s.status, s.turns, s.signed, e.who)
      BY <1>3, <2>7 DEF Feed!Ingest, s
    <3>2. s.turns = r.turns + Step(e)
      BY <1>1, <2>2, <2>7
    <3>3. Is(s.status, r.turns + Step(e), s.signed, e.who)
      BY <3>1, <3>2
    <3> HIDE DEF Is
    <3>. QED
      BY <1>3, <1>2, <2>1, <3>3
  <2>8. CASE e.type = "debate_complete"
    <3>1. Is("complete", s.turns, s.signed, Nobody)
      BY <1>3, <2>8 DEF Feed!Ingest, s
    <3>2. s.turns = r.turns + Step(e)
      BY <1>1, <2>2, <2>8
    <3>3. Is("complete", r.turns + Step(e), s.signed, Nobody)
      BY <3>1, <3>2
    <3> HIDE DEF Is
    <3>. QED
      BY <1>3, <1>2, <2>1, <3>3
  <2>9. CASE e.type = "task_closed"
    <3>1. Is("closed", s.turns, s.signed, Nobody)
      BY <1>3, <2>9 DEF Feed!Ingest, s
    <3>2. s.turns = r.turns + Step(e)
      BY <1>1, <2>2, <2>9
    <3>3. Is("closed", r.turns + Step(e), s.signed, Nobody)
      BY <3>1, <3>2
    <3> HIDE DEF Is
    <3>. QED
      BY <1>3, <1>2, <2>1, <3>3
  <2>. QED
    BY <1>2, <2>3, <2>4, <2>5, <2>6, <2>7, <2>8, <2>9 DEF Kinds
<1>5. ASSUME NEW a \in Stages, NEW v \in SUBSET Names, NEW w \in Names, NEW n \in Nat, Is(a, n, v, w)
      PROVE  Feed!Ingest(r, e) \in RunType /\ Feed!Ingest(r, e).turns = n
  BY <1>5 DEF RunType
<1>6. r.turns + Step(e) \in Nat
  BY <1>1 DEF Step
<1> HIDE DEF Is
<1>. QED
  BY <1>4, <1>5, <1>6

(* The same of what is emitted at once.                                    *)
LEMMA BatchCounts ==
  ASSUME NEW r \in RunType, NEW ev, Batch(ev)
  PROVE  Feed!Ingested(r, ev) \in RunType /\ Feed!Ingested(r, ev).turns = r.turns + Step(ev[1])
<1> DEFINE one == Feed!Ingest(r, ev[1])
           two == Feed!Ingest(one, ev[2])
           three == Feed!Ingest(two, ev[3])
<1>1. \A i \in 1..Len(ev) : ev[i] \in Frames /\ (i > 1 => Step(ev[i]) = 0)
  BY DEF Batch, Step
<1>2. one \in RunType /\ one.turns = r.turns + Step(ev[1]) /\ one.turns \in Nat
  BY <1>1, IngestCounts DEF Batch, RunType
<1> HIDE DEF one
<1>3. Len(ev) > 1 => two \in RunType /\ two.turns = one.turns
  BY <1>1, <1>2, IngestCounts DEF Batch
<1> HIDE DEF two
<1>4. Len(ev) > 2 => three \in RunType /\ three.turns = one.turns
  <2> SUFFICES ASSUME Len(ev) > 2 PROVE three \in RunType /\ three.turns = one.turns
    OBVIOUS
  <2>1. ev[3] \in Frames /\ Step(ev[3]) = 0 /\ two \in RunType /\ two.turns = one.turns
    BY <1>1, <1>3 DEF Batch
  <2>. QED
    BY <1>2, <2>1, IngestCounts
<1> HIDE DEF three
<1>5. Feed!Ingested(r, ev) = IF Len(ev) = 1 THEN one ELSE IF Len(ev) = 2 THEN two ELSE three
  BY IngestedIs DEF Batch, one, two, three
<1>. QED
  BY <1>2, <1>3, <1>4, <1>5 DEF Batch

(* Publishing a batch: everything that holds of the bus and the stream.    *)
LEMMA PublishTypes ==
  ASSUME FeedTypes, GaplessInv, NEW ev, Batch(ev), Feed!Publish(ev)
  PROVE  /\ GaplessInv'
         /\ published' \in Seq(Frames) /\ log' \in Seq(Frames) /\ run' \in RunType
         /\ stream' \in [open : BOOLEAN, pipe : Seq(Frames)] /\ since' \in Nat
         /\ stream'.open = stream.open
         /\ stream'.pipe = IF stream.open THEN stream.pipe \o ev ELSE stream.pipe
         /\ Len(published') = Len(published) + Len(ev)
         /\ \A i \in 1..Len(published) : published'[i] = published[i]
         /\ \A i \in 1..Len(ev) : published'[Len(published) + i] = ev[i]
         /\ run'.turns = run.turns + Step(ev[1])
<1> USE FeedAssumption
<1>1. /\ ev \in Seq(Frames) /\ published \in Seq(Frames) /\ log \in Seq(Frames) /\ run \in RunType
      /\ stream \in [open : BOOLEAN, pipe : Seq(Frames)] /\ since \in Nat /\ Len(ev) \in Nat
  BY DEF Batch, FeedTypes
<1>2. /\ published' = published \o ev /\ published' \in Seq(Frames)
      /\ Len(published') = Len(published) + Len(ev)
      /\ \A i \in 1..Len(published) : published'[i] = published[i]
      /\ \A i \in 1..Len(ev) : published'[Len(published) + i] = ev[i]
  BY <1>1 DEF Feed!Publish
<1>3. run' \in RunType /\ run'.turns = run.turns + Step(ev[1])
  BY <1>1, BatchCounts DEF Feed!Publish
<1>4. log \o ev \in Seq(Frames) /\ Len(log \o ev) = Len(log) + Len(ev) /\ Ends(log \o ev, published')
  <2>1. Ends(log \o ev, published \o ev)
    BY <1>1, EndsGrow DEF GaplessInv
  <2>. QED
    BY <1>1, <1>2, <2>1
<1>5. log' \in Seq(Frames) /\ Ends(log', published') /\ Len(log') = Kept(Len(published'))
  <2>1. log' = Feed!Trim(log \o ev)
    BY DEF Feed!Publish
  <2>2. log' \in Seq(Frames) /\ Ends(log', published') /\ Len(log') = Kept(Len(log) + Len(ev))
    BY <1>2, <1>4, <2>1, TrimEnds
  <2>3. Len(log) = Kept(Len(published))
    BY DEF GaplessInv
  <2>. QED
    BY <1>1, <1>2, <2>2, <2>3 DEF Kept
<1>6. /\ stream' \in [open : BOOLEAN, pipe : Seq(Frames)] /\ since' \in Nat /\ stream'.open = stream.open
      /\ stream'.pipe = IF stream.open THEN stream.pipe \o ev ELSE stream.pipe
      /\ since' = IF stream.open THEN since + Len(ev) ELSE since
  <2>1. stream = [open |-> stream.open, pipe |-> stream.pipe] /\ stream.pipe \o ev \in Seq(Frames)
        /\ stream.open \in BOOLEAN /\ stream.pipe \in Seq(Frames)
    BY <1>1
  <2>2. stream' = [open |-> stream.open, pipe |-> IF stream.open THEN stream.pipe \o ev ELSE stream.pipe]
    BY <2>1 DEF Feed!Publish
  <2>3. since' = (IF stream.open THEN since + Len(ev) ELSE since) /\ since' \in Nat
    BY <1>1 DEF Feed!Publish
  <2>. QED
    BY <2>1, <2>2, <2>3
<1>7. stream.open => Ends(stream'.pipe, published') /\ since' >= Kept(Len(published'))
  <2>1. stream.open => Ends(stream.pipe \o ev, published \o ev)
    BY <1>1, EndsGrow DEF GaplessInv
  <2>. QED
    BY <1>1, <1>2, <1>6, <2>1 DEF GaplessInv, Kept
<1>. QED
  BY <1>2, <1>3, <1>5, <1>6, <1>7 DEF GaplessInv

(* A published batch is counted, if its turn is a new one.                 *)
LEMMA PublishCounts ==
  ASSUME FeedTypes, GaplessInv, CountInv, NEW ev, Batch(ev), Feed!Publish(ev), wire' \in SUBSET wire,
         hub'.turn \in Nat, hub'.turn >= hub.turn,
         Said(ev[1]) => /\ ev[1].turn \in 1..hub'.turn
                        /\ \A i \in Spoken : ev[1].turn # published[i].turn
                        /\ \A e \in wire' : Said(e) => e.turn # ev[1].turn
  PROVE  CountInv'
<1> DEFINE p == Len(published)
<1>1. /\ published \in Seq(Frames) /\ p \in Nat /\ Len(ev) \in 1..3 /\ hub.turn \in Nat
      /\ \A i \in 2..Len(ev) : ~Said(ev[i])
  BY DEF FeedTypes, Batch
<1>2. /\ Len(published') = p + Len(ev)
      /\ \A i \in 1..p : published'[i] = published[i]
      /\ \A i \in 1..Len(ev) : published'[p + i] = ev[i]
      /\ run'.turns = run.turns + Step(ev[1])
  BY PublishTypes
<1> HIDE DEF p
<1>3. published'[p + 1] = ev[1]
  BY <1>1, <1>2
<1>4. Spoken' = IF Said(ev[1]) THEN Spoken \cup {p + 1} ELSE Spoken
  <2>1. \A i \in 1..(p + Len(ev)) : i \in 1..p \/ i = p + 1 \/ \E k \in 2..Len(ev) : i = p + k
    <3> SUFFICES ASSUME NEW i \in 1..(p + Len(ev)), i \notin 1..p, i # p + 1 PROVE \E k \in 2..Len(ev) : i = p + k
      OBVIOUS
    <3>1. i - p \in 2..Len(ev) /\ i = p + (i - p)
      BY <1>1
    <3>. QED
      BY <3>1
  <2>2. \A i \in 1..(p + Len(ev)) : Said(published'[i]) <=> (i \in 1..p /\ Said(published[i])) \/ (i = p + 1 /\ Said(ev[1]))
    <3> TAKE i \in 1..(p + Len(ev))
    <3>1. CASE i \in 1..p
      BY <1>1, <1>2, <3>1
    <3>2. CASE i = p + 1
      BY <1>1, <1>3, <3>2
    <3>3. ASSUME NEW k \in 2..Len(ev), i = p + k PROVE i \notin 1..p /\ i # p + 1 /\ ~Said(published'[i])
      BY <1>1, <1>2, <3>3
    <3>. QED
      BY <2>1, <3>1, <3>2, <3>3
  <2>3. p + 1 \in 1..(p + Len(ev)) /\ 1..p \subseteq 1..(p + Len(ev))
    BY <1>1
  <2>4. Spoken' = {i \in 1..(p + Len(ev)) : Said(published'[i])} /\ Spoken = {i \in 1..p : Said(published[i])}
    BY <1>2 DEF Spoken, p, Said
  <2> HIDE DEF Said
  <2>. QED
    BY <2>2, <2>3, <2>4
<1>5. Spoken \in SUBSET (1..p) /\ p + 1 \notin Spoken
  BY <1>1 DEF Spoken, p
<1>6. IsFiniteSet(Spoken)
  <2>1. IsFiniteSet(1..p)
    BY <1>1, FS_Interval
  <2>. QED
    BY <1>5, <2>1, FS_Subset
<1>7. run'.turns = Cardinality(Spoken')
  BY <1>2, <1>4, <1>5, <1>6, FS_AddElement, FS_CardinalityType DEF Step, CountInv
<1>8. \A i \in Spoken : published'[i] = published[i]
  BY <1>2, <1>5
<1>9. \A i \in Spoken' : published'[i].turn \in 1..hub'.turn
  BY <1>1, <1>3, <1>4, <1>8 DEF CountInv
<1>10. \A i, j \in Spoken' : published'[i].turn = published'[j].turn => i = j
  BY <1>3, <1>4, <1>8 DEF CountInv
<1>11. \A e \in wire' : \A i \in Spoken' : Said(e) => e.turn # published'[i].turn
  BY <1>3, <1>4, <1>8 DEF CountInv
<1>12. \A e \in wire' : Said(e) => e.turn \in 1..hub'.turn
  BY <1>1 DEF CountInv
<1>. QED
  BY <1>7, <1>9, <1>10, <1>11, <1>12 DEF CountInv

(* The card's lines stay what they are as frames reach its stream.         *)
LEMMA PublishLines ==
  ASSUME FeedTypes, GaplessInv, LinesInv, NEW ev, Batch(ev), Feed!Publish(ev), wire' \in SUBSET wire,
         hub'.turn \in Nat, hub'.turn >= hub.turn, card' = card,
         Said(ev[1]) /\ card.fresh => \A i \in 1..Len(card.lines) : ev[1].turn # card.lines[i]
  PROVE  LinesInv'
<1>1. /\ hub.turn \in Nat /\ \A i \in 2..Len(ev) : ~Said(ev[i])
      /\ stream.pipe \in Seq(Frames) /\ ev \in Seq(Frames)
  BY DEF FeedTypes, Batch
<1>2. \A k \in 1..Len(stream'.pipe) :
        Said(stream'.pipe[k]) => \/ k \in 1..Len(stream.pipe) /\ stream'.pipe[k] = stream.pipe[k]
                                 \/ stream'.pipe[k] = ev[1]
  <2>1. CASE stream.open
    <3>1. stream'.pipe = stream.pipe \o ev
      BY <2>1, PublishTypes
    <3>2. /\ Len(stream'.pipe) = Len(stream.pipe) + Len(ev)
          /\ \A i \in 1..(Len(stream.pipe) + Len(ev)) :
               stream'.pipe[i] = IF i <= Len(stream.pipe) THEN stream.pipe[i] ELSE ev[i - Len(stream.pipe)]
      BY <1>1, <3>1, ConcatProperties
    <3> SUFFICES ASSUME NEW k \in 1..(Len(stream.pipe) + Len(ev)), Said(stream'.pipe[k]), ~(k <= Len(stream.pipe))
                 PROVE  stream'.pipe[k] = ev[1]
      BY <3>2
    <3>3. stream'.pipe[k] = ev[k - Len(stream.pipe)] /\ k - Len(stream.pipe) \in 1..Len(ev)
      BY <1>1, <3>2
    <3>4. k - Len(stream.pipe) \notin 2..Len(ev)
      BY <1>1, <3>3
    <3>5. k - Len(stream.pipe) = 1
      BY <1>1, <3>3, <3>4
    <3>. QED
      BY <3>3, <3>5
  <2>2. CASE ~stream.open
    <3>1. stream'.pipe = stream.pipe
      BY <2>2, PublishTypes
    <3>. QED
      BY <3>1
  <2>. QED
    BY <2>1, <2>2
<1>3. \A i \in 1..Len(card.lines) : card.lines[i] \in 1..hub'.turn
  BY <1>1 DEF LinesInv
<1>. QED
  BY <1>2, <1>3 DEF LinesInv

(* A request of the hub reaches the bus, or what became of it is unknown.  *)
Arrives(e) ==
  /\ e \in wire /\ wire' = wire \ {e} /\ Feed!Publish(<<e>>)
  /\ UNCHANGED <<hub, emitted, archived, remote, card>>

(* What a frame that arrives does keeps everything.                        *)
LEMMA ArriveKeeps ==
  ASSUME FeedInv, NEW e, Arrives(e) PROVE FeedInv'
<1> USE DEF FeedInv
<1>1. e \in Frames /\ hub.turn \in Nat /\ wire' \in SUBSET wire /\ hub'.turn = hub.turn
  BY DEF Arrives, FeedTypes
<1>2. Batch(<<e>>) /\ <<e>>[1] = e /\ Feed!Publish(<<e>>)
  BY <1>1 DEF Batch, Arrives
<1>3. FeedTypes' /\ GaplessInv'
  BY <1>1, <1>2, PublishTypes DEF Arrives, FeedTypes
<1>4. CountInv'
  <2>1. Said(e) => /\ e.turn \in 1..hub'.turn
                   /\ \A i \in Spoken : e.turn # published[i].turn
                   /\ \A f \in wire' : Said(f) => f.turn # e.turn
    BY <1>1 DEF Arrives, CountInv
  <2>. QED
    BY <1>1, <1>2, <2>1, PublishCounts
<1>5. LinesInv'
  <2>1. Said(e) /\ card.fresh => \A i \in 1..Len(card.lines) : e.turn # card.lines[i]
    BY DEF Arrives, LinesInv
  <2>. QED
    BY <1>1, <1>2, <2>1, PublishLines DEF Arrives
<1>6. remote /\ remote'
  BY DEF OrderInv, Arrives, FeedTypes
<1>7. AgreeInv'
  BY <1>6 DEF AgreeInv, Arrives
<1>8. ArchiveInv'
  <2>1. \A i \in 1..Len(published') : published'[i].type = "task_closed" => hub.status = "closed"
    <3>1. Len(published') = Len(published) + 1 /\ Len(published) \in Nat
          /\ (\A i \in 1..Len(published) : published'[i] = published[i]) /\ published'[Len(published) + 1] = e
      <4>1. Len(<<e>>) = 1 /\ 1 \in 1..Len(<<e>>)
        OBVIOUS
      <4>2. /\ Len(published') = Len(published) + Len(<<e>>)
            /\ \A i \in 1..Len(published) : published'[i] = published[i]
            /\ \A i \in 1..Len(<<e>>) : published'[Len(published) + i] = <<e>>[i]
        BY <1>2, PublishTypes
      <4>3. Len(published) \in Nat
        BY DEF FeedTypes
      <4>. QED
        BY <1>2, <4>1, <4>2, <4>3
    <3>. QED
      BY <3>1 DEF ArchiveInv, Arrives
  <2>. QED
    BY <1>1, <2>1 DEF ArchiveInv, Arrives
<1>9. OrderInv'
  BY <1>6 DEF OrderInv
<1>. QED
  BY <1>3, <1>4, <1>5, <1>7, <1>8, <1>9

(* The hub's own steps: some frames go out, of the turn that the hub is    *)
(* at, and the first may be the one that submits it.                       *)
Emits(ev) ==
  /\ Batch(ev) /\ emitted' = emitted \o ev /\ UNCHANGED <<remote, card>>
  /\ IF remote THEN /\ wire' = wire \cup {ev[i] : i \in 1..Len(ev)}
                    /\ UNCHANGED <<log, run, published, stream, since>>
               ELSE Feed!Publish(ev) /\ wire' = wire
  /\ \A i \in 1..Len(ev) : ev[i].turn = hub'.turn /\ (ev[i].type = "task_closed" => hub'.status = "closed")
  /\ hub'.turn = hub.turn + Step(ev[1])
  /\ hub.status = "closed" => hub'.status = "closed" /\ hub'.turn = hub.turn
  /\ ~remote /\ run = Summary(hub) => Feed!Ingested(run, ev) = Summary(hub')
HubTypes ==
  /\ hub \in [status : Stages, turn : Nat, speaker : Names, signed : SUBSET Names, writing : BOOLEAN]
  /\ archived \in [turns : Nat, result : {"none", "torn", "whole"}, times : Nat]
  /\ hub.status \in {"none", "initialized"} => hub.signed = {} /\ hub.speaker = Nobody /\ hub.turn = 0
  /\ hub.status = "debating" => hub.speaker \in Debaters
  /\ archived.turns <= hub.turn
  /\ hub.writing \/ hub.status = "closed" => archived.turns = hub.turn

(* What goes out is typed; without a network it is published.              *)
LEMMA EmitTypes ==
  ASSUME FeedInv, NEW ev, Emits(ev), HubTypes'
  PROVE  FeedTypes' /\ GaplessInv' /\ hub.turn \in Nat /\ hub'.turn \in Nat /\ Step(ev[1]) \in Nat
<1> USE DEF FeedInv
<1>1. ev \in Seq(Frames) /\ Batch(ev) /\ emitted' \in Seq(Frames) /\ \A i \in 1..Len(ev) : ev[i] \in Frames
  <2>1. Batch(ev) /\ ev \in Seq(Frames) /\ emitted' = emitted \o ev
    BY DEF Emits, Batch
  <2>2. emitted \in Seq(Frames)
    BY DEF FeedTypes
  <2>3. emitted' \in Seq(Frames)
    BY <2>1, <2>2
  <2>. QED
    BY <2>1, <2>3
<1>2. CASE remote
  <2>1. wire' \in SUBSET Frames
    BY <1>1, <1>2 DEF Emits, FeedTypes
  <2>2. UNCHANGED <<log, run, published, stream, since, card, remote>>
    BY <1>2 DEF Emits
  <2>. QED
    BY <1>1, <2>1, <2>2 DEF FeedTypes, HubTypes, GaplessInv, Step
<1>3. CASE ~remote
  <2>1. Feed!Publish(ev) /\ wire' = wire /\ UNCHANGED <<card, remote>>
    BY <1>3 DEF Emits
  <2>2. GaplessInv' /\ published' \in Seq(Frames) /\ log' \in Seq(Frames) /\ run' \in RunType
        /\ stream' \in [open : BOOLEAN, pipe : Seq(Frames)] /\ since' \in Nat
    BY <1>1, <2>1, PublishTypes
  <2>. QED
    BY <1>1, <2>1, <2>2 DEF FeedTypes, HubTypes, Step
<1>. QED
  BY <1>2, <1>3

(* A new turn is of a higher number than those before.                     *)
LEMMA EmitCounts ==
  ASSUME FeedInv, NEW ev, Emits(ev), HubTypes'
  PROVE  CountInv' /\ LinesInv'
<1> USE DEF FeedInv
<1>1. /\ Batch(ev) /\ hub.turn \in Nat /\ hub'.turn \in Nat /\ hub'.turn = hub.turn + Step(ev[1])
      /\ 1 \in 1..Len(ev) /\ ev[1].turn = hub'.turn /\ card' = card
      /\ \A i \in 2..Len(ev) : ~Said(ev[i])
  <2>1. hub.turn \in Nat /\ hub'.turn \in Nat
    BY EmitTypes
  <2>2. 1 \in 1..Len(ev)
    BY DEF Emits, Batch
  <2>. QED
    BY <2>1, <2>2 DEF Emits, Batch
<1>2. hub'.turn >= hub.turn /\ (Said(ev[1]) => hub'.turn = hub.turn + 1 /\ ev[1].turn \in 1..hub'.turn)
  BY <1>1 DEF Step
<1>3. Said(ev[1]) => /\ \A i \in Spoken : ev[1].turn # published[i].turn
                     /\ \A e \in wire : Said(e) => e.turn # ev[1].turn
                     /\ \A i \in 1..Len(card.lines) : ev[1].turn # card.lines[i]
  BY <1>1, <1>2 DEF CountInv, LinesInv
<1>4. CASE ~remote
  <2>1. Feed!Publish(ev) /\ wire' = wire
    BY <1>4 DEF Emits
  <2>. QED
    BY <1>1, <1>2, <1>3, <2>1, PublishCounts, PublishLines
<1>5. CASE remote
  <2>1. wire' = wire \cup {ev[i] : i \in 1..Len(ev)} /\ UNCHANGED <<run, published, stream>>
    BY <1>5 DEF Emits
  <2>2. \A e \in wire' : Said(e) => e \in wire \/ e = ev[1]
    <3>1. \A i \in 1..Len(ev) : i = 1 \/ i \in 2..Len(ev)
      BY <1>1 DEF Batch
    <3>. QED
      BY <1>1, <2>1, <3>1
  <2>3. Spoken' = Spoken
    BY <2>1 DEF Spoken
  <2>4. CountInv'
    BY <1>1, <1>2, <1>3, <2>1, <2>2, <2>3 DEF CountInv
  <2>5. LinesInv'
    BY <1>1, <1>2, <1>3, <2>1, <2>2 DEF LinesInv
  <2>. QED
    BY <2>4, <2>5
<1>. QED
  BY <1>4, <1>5

(* Sequences that end alike and are equal began alike.                     *)
LEMMA SameStart ==
  ASSUME NEW S, NEW s \in Seq(S), NEW t \in Seq(S), NEW e \in Seq(S), s \o e = t \o e
  PROVE  s = t
<1>1. Len(s) = Len(t)
  BY ConcatProperties
<1>2. ASSUME NEW i \in 1..Len(s) PROVE s[i] = t[i]
  <2>1. /\ i \in 1..(Len(s) + Len(e)) /\ i \in 1..(Len(t) + Len(e)) /\ i <= Len(s) /\ i <= Len(t)
    BY <1>1
  <2>2. (s \o e)[i] = s[i] /\ (t \o e)[i] = t[i]
    BY <2>1, ConcatProperties
  <2>. QED
    BY <2>2
<1>. QED
  BY <1>1, <1>2, SeqEqual

(* A bus that had seen everything has seen what goes out now.              *)
LEMMA EmitAgrees ==
  ASSUME FeedInv, NEW ev, Emits(ev), HubTypes'
  PROVE  AgreeInv' /\ ArchiveInv'
<1> USE DEF FeedInv
<1>1. /\ ev \in Seq(Frames) /\ Batch(ev) /\ emitted \in Seq(Frames) /\ published \in Seq(Frames)
      /\ emitted' = emitted \o ev /\ remote' = remote /\ card' = card
  BY DEF Emits, Batch, FeedTypes
<1>2. ~remote => /\ Feed!Publish(ev) /\ wire' = wire /\ published' = published \o ev
                 /\ run' = Feed!Ingested(run, ev)
  BY DEF Emits, Feed!Publish
<1>3. ~remote => Len(published') <= Len(emitted') /\ (published' = emitted' => run' = Summary(hub)')
  <2> SUFFICES ASSUME ~remote
               PROVE  Len(published') <= Len(emitted') /\ (published' = emitted' => run' = Summary(hub)')
    OBVIOUS
  <2>1. Len(published') = Len(published) + Len(ev) /\ Len(emitted') = Len(emitted) + Len(ev)
    BY <1>1, <1>2
  <2>2. published' = emitted' => published = emitted
    BY <1>1, <1>2, SameStart
  <2>3. published = emitted => run = Summary(hub)
    BY DEF AgreeInv
  <2>4. run = Summary(hub) => run' = Summary(hub')
    BY <1>2 DEF Emits
  <2>5. Summary(hub)' = Summary(hub')
    BY DEF Summary
  <2>6. Len(published') <= Len(emitted')
    BY <1>1, <2>1 DEF AgreeInv
  <2>. QED
    BY <2>2, <2>3, <2>4, <2>5, <2>6
<1>4. AgreeInv'
  BY <1>1, <1>3 DEF AgreeInv, HubTypes
<1>5. /\ hub.status = "closed" => hub'.status = "closed" /\ hub'.turn = hub.turn
      /\ \A i \in 1..Len(ev) : ev[i].type = "task_closed" => hub'.status = "closed"
  BY DEF Emits
<1>6. \A e \in wire' : e.type = "task_closed" => hub'.status = "closed"
  BY <1>5 DEF Emits, ArchiveInv
<1>7. \A i \in 1..Len(published') : published'[i].type = "task_closed" => hub'.status = "closed"
  <2>1. CASE remote
    BY <1>5, <2>1 DEF Emits, ArchiveInv
  <2>2. CASE ~remote
    <3>1. /\ Len(published') = Len(published) + Len(ev) /\ Len(published) \in Nat /\ Len(ev) \in Nat
          /\ \A i \in 1..Len(published) : published'[i] = published[i]
          /\ \A i \in 1..Len(ev) : published'[Len(published) + i] = ev[i]
      BY <1>1, <1>2, <2>2, PublishTypes
    <3> SUFFICES ASSUME NEW i \in 1..Len(published'), published'[i].type = "task_closed"
                 PROVE  hub'.status = "closed"
      OBVIOUS
    <3>2. CASE i \in 1..Len(published)
      BY <1>5, <3>1, <3>2 DEF ArchiveInv
    <3>3. CASE i \notin 1..Len(published)
      <4>1. i - Len(published) \in 1..Len(ev) /\ i = Len(published) + (i - Len(published))
        BY <3>1, <3>3
      <4>. QED
        BY <1>5, <3>1, <4>1
    <3>. QED
      BY <3>2, <3>3
  <2>. QED
    BY <2>1, <2>2
<1>8. ArchiveInv'
  BY <1>1, <1>5, <1>6, <1>7 DEF ArchiveInv, HubTypes
<1>. QED
  BY <1>4, <1>8

(* Without a network the frames that go out follow those before.           *)
LEMMA EmitOrders ==
  ASSUME FeedInv, NEW ev, Emits(ev), HubTypes'
  PROVE  OrderInv'
<1> USE DEF FeedInv
<1> SUFFICES ASSUME ~remote PROVE OrderInv'
  BY DEF OrderInv, Emits
<1> DEFINE p == Len(published)
<1>1. /\ Feed!Publish(ev) /\ wire' = wire /\ card' = card /\ remote' = remote /\ Batch(ev)
      /\ \A i \in 1..Len(ev) : ev[i].turn = hub'.turn
      /\ hub'.turn = hub.turn + Step(ev[1]) /\ hub.turn \in Nat
  BY EmitTypes DEF Emits
<1>2. /\ ev \in Seq(Frames) /\ Len(ev) \in 1..3 /\ p \in Nat /\ \A i \in 2..Len(ev) : Step(ev[i]) = 0
  BY <1>1 DEF Batch, Step, FeedTypes
<1>3. /\ Len(published') = p + Len(ev)
      /\ \A i \in 1..p : published'[i] = published[i]
      /\ \A i \in 1..Len(ev) : published'[p + i] = ev[i]
      /\ stream'.open = stream.open
      /\ stream'.pipe = IF stream.open THEN stream.pipe \o ev ELSE stream.pipe
  BY <1>1, PublishTypes
<1>4. /\ wire = {}
      /\ \A i \in 1..(p - 1) : published[i + 1].turn = published[i].turn + Step(published[i + 1])
      /\ published # <<>> => published[p].turn = hub.turn
  BY DEF OrderInv
<1> HIDE DEF p
<1>5. ASSUME NEW i \in 1..(Len(published') - 1)
      PROVE  published'[i + 1].turn = published'[i].turn + Step(published'[i + 1])
  <2>1. CASE i \in 1..(p - 1)
    <3>1. i \in 1..p /\ i + 1 \in 1..p
      BY <1>2, <2>1
    <3>. QED
      BY <1>3, <1>4, <2>1, <3>1 DEF Step
  <2>2. CASE i = p
    <3>1. i \in 1..p /\ published # <<>> /\ 1 \in 1..Len(ev)
      <4>1. i \in 1..p /\ 1 \in 1..Len(ev)
        BY <1>2, <1>3, <2>2
      <4>. QED
        BY <4>1 DEF p
    <3>2. published'[i] = published[p] /\ published'[i + 1] = ev[1]
      BY <1>3, <2>2, <3>1
    <3>. QED
      BY <1>1, <1>4, <3>1, <3>2
  <2>3. CASE i > p
    <3>1. i - p \in 1..Len(ev) /\ i + 1 - p \in 2..Len(ev) /\ i = p + (i - p) /\ i + 1 = p + (i + 1 - p)
      BY <1>2, <1>3, <2>3
    <3>2. published'[i] = ev[i - p] /\ published'[i + 1] = ev[i + 1 - p]
      BY <1>3, <3>1
    <3>3. ev[i - p].turn = hub'.turn /\ ev[i + 1 - p].turn = hub'.turn /\ Step(ev[i + 1 - p]) = 0
      BY <1>1, <1>2, <3>1
    <3>4. hub'.turn \in Nat
      BY EmitTypes
    <3>. QED
      BY <3>2, <3>3, <3>4
  <2>. QED
    BY <1>2, <2>1, <2>2, <2>3
<1>6. published'[Len(published')].turn = hub'.turn
  BY <1>1, <1>2, <1>3
<1>7. ASSUME card.fresh, stream.open, card.lines # <<>>
      PROVE  /\ stream'.pipe # <<>>
             /\ stream'.pipe[1].turn = card.lines[Len(card.lines)] + Step(stream'.pipe[1])
  <2>1. stream.pipe \in Seq(Frames) /\ stream'.pipe = stream.pipe \o ev
    BY <1>3, <1>7 DEF FeedTypes
  <2>2. /\ Len(stream'.pipe) = Len(stream.pipe) + Len(ev) /\ Len(stream'.pipe) > 0
        /\ stream'.pipe[1] = IF 1 <= Len(stream.pipe) THEN stream.pipe[1] ELSE ev[1 - Len(stream.pipe)]
    BY <1>2, <2>1, ConcatProperties
  <2>3. CASE stream.pipe = <<>>
    <3>1. stream'.pipe[1] = ev[1] /\ card.lines[Len(card.lines)] = hub.turn
      BY <1>7, <2>2, <2>3 DEF OrderInv
    <3>. QED
      BY <1>1, <1>2, <2>2, <3>1
  <2>4. CASE stream.pipe # <<>>
    <3>1. stream'.pipe[1] = stream.pipe[1]
      BY <2>1, <2>2, <2>4
    <3>. QED
      BY <1>7, <2>2, <2>4, <3>1 DEF OrderInv
  <2>. QED
    BY <2>3, <2>4
<1>. QED
  BY <1>1, <1>3, <1>4, <1>5, <1>6, <1>7 DEF OrderInv

(* The hub's steps keep everything.                                        *)
LEMMA EmitKeeps ==
  ASSUME FeedInv, NEW ev, Emits(ev), HubTypes' PROVE FeedInv'
BY EmitTypes, EmitCounts, EmitAgrees, EmitOrders DEF FeedInv

(* The frames of an operation, numbered.                                   *)
LEMMA EmitIs ==
  ASSUME FeedTypes, NEW es \in Seq(Frames), Len(es) \in 1..3, \A i \in 2..Len(es) : ~Said(es[i]), Feed!Emit(es)
  PROVE  \E ev : /\ Batch(ev) /\ Len(ev) = Len(es) /\ emitted' = emitted \o ev /\ UNCHANGED <<remote, card>>
                 /\ \A i \in 1..Len(es) : /\ ev[i].type = es[i].type /\ ev[i].who = es[i].who
                                          /\ ev[i].signoff = es[i].signoff /\ ev[i].turn = es[i].turn
                 /\ IF remote THEN /\ wire' = wire \cup {ev[i] : i \in 1..Len(ev)}
                                   /\ UNCHANGED <<log, run, published, stream, since>>
                              ELSE Feed!Publish(ev) /\ wire' = wire
<1> DEFINE ev == [i \in DOMAIN es |-> [es[i] EXCEPT !.n = @ + i]]
<1>1. DOMAIN es = 1..Len(es) /\ Len(es) \in Nat /\ \A i \in 1..Len(es) : es[i] \in Frames
  OBVIOUS
<1>2. ASSUME NEW i \in 1..Len(es)
      PROVE  /\ ev[i] \in Frames /\ ev[i].type = es[i].type /\ ev[i].who = es[i].who
             /\ ev[i].signoff = es[i].signoff /\ ev[i].turn = es[i].turn
  <2>1. es[i] \in Frames /\ es[i].n + i \in Nat
    BY <1>1 DEF Frames
  <2>2. ev[i] = [es[i] EXCEPT !.n = es[i].n + i]
    BY <1>1
  <2>. QED
    BY <2>1, <2>2 DEF Frames
<1>3. ev = [i \in 1..Len(es) |-> ev[i]]
  BY <1>1
<1>4. /\ emitted' = emitted \o ev /\ UNCHANGED <<remote, card>>
      /\ IF remote THEN /\ wire' = wire \cup {ev[i] : i \in DOMAIN ev}
                        /\ UNCHANGED <<log, run, published, stream, since>>
                   ELSE Feed!Publish(ev) /\ wire' = wire
  BY DEF Feed!Emit, Feed!bus, Feed!ToSet
<1> HIDE DEF ev
<1>5. ev \in Seq(Frames) /\ Len(ev) = Len(es) /\ DOMAIN ev = 1..Len(ev)
  BY <1>1, <1>2, <1>3
<1>6. Batch(ev)
  BY <1>2, <1>5 DEF Batch, Said
<1>. QED
  BY <1>2, <1>4, <1>5, <1>6

(* The hub names an event and the turn it is at.                           *)
LEMMA EventIs ==
  ASSUME FeedTypes, hub'.turn \in Nat, NEW t \in Kinds, NEW w \in Names, NEW s \in BOOLEAN
  PROVE  /\ Feed!Event(t, w, s) \in Frames
         /\ Feed!Event(t, w, s).type = t /\ Feed!Event(t, w, s).who = w
         /\ Feed!Event(t, w, s).signoff = s /\ Feed!Event(t, w, s).turn = hub'.turn
<1>1. Len(emitted) \in Nat
  BY DEF FeedTypes
<1>. QED
  BY <1>1 DEF Feed!Event, Frames

(* An operation of one event.                                              *)
LEMMA OneEvent ==
  ASSUME FeedInv, HubTypes', NEW t \in Kinds, t # "turn_submitted", NEW w \in Names,
         Feed!Emit(<<Feed!Event(t, w, FALSE)>>), hub'.turn = hub.turn,
         t = "task_closed" => hub'.status = "closed",
         hub.status = "closed" => hub'.status = "closed",
         \A e : e.type = t /\ e.who = w /\ ~remote /\ run = Summary(hub) => Feed!Ingest(run, e) = Summary(hub')
  PROVE  \E ev : Emits(ev)
<1> DEFINE e == Feed!Event(t, w, FALSE)
           es == <<e>>
<1>1. FeedTypes /\ hub'.turn \in Nat /\ hub.turn \in Nat
  BY DEF FeedInv, HubTypes, FeedTypes
<1>2. e \in Frames /\ e.type = t /\ e.who = w /\ e.turn = hub'.turn
  BY <1>1, EventIs
<1>a. Feed!Emit(es)
  OBVIOUS
<1> HIDE DEF e
<1>3. es \in Seq(Frames) /\ Len(es) \in 1..3 /\ Len(es) = 1 /\ es[1] = e /\ \A i \in 2..Len(es) : ~Said(es[i])
  BY <1>2
<1> HIDE DEF es
<1>4. PICK ev : /\ Batch(ev) /\ Len(ev) = Len(es) /\ emitted' = emitted \o ev /\ UNCHANGED <<remote, card>>
                /\ \A i \in 1..Len(es) : /\ ev[i].type = es[i].type /\ ev[i].who = es[i].who
                                         /\ ev[i].signoff = es[i].signoff /\ ev[i].turn = es[i].turn
                /\ IF remote THEN /\ wire' = wire \cup {ev[i] : i \in 1..Len(ev)}
                                  /\ UNCHANGED <<log, run, published, stream, since>>
                             ELSE Feed!Publish(ev) /\ wire' = wire
  BY <1>1, <1>3, <1>a, EmitIs
<1>5. Len(ev) = 1 /\ ev[1].type = t /\ ev[1].who = w /\ ev[1].turn = hub'.turn
  BY <1>2, <1>3, <1>4
<1>6. Step(ev[1]) = 0
  BY <1>5 DEF Step, Said
<1>7. ~remote /\ run = Summary(hub) => Feed!Ingested(run, ev) = Summary(hub')
  BY <1>5, IngestedIs
<1>. QED
  BY <1>1, <1>4, <1>5, <1>6, <1>7 DEF Emits

(* What the hub is, from the invariant.                                    *)
LEMMA HubIs ==
  ASSUME FeedInv
  PROVE  /\ HubTypes /\ Names # {} /\ Nobody \in Names
         /\ Feed!First \in Debaters /\ Feed!First \in Names
         /\ \A a \in Debaters : Feed!Successor(a) \in Debaters /\ Feed!Successor(a) \in Names
         /\ hub = [status |-> hub.status, turn |-> hub.turn, speaker |-> hub.speaker,
                   signed |-> hub.signed, writing |-> hub.writing]
<1>1. HubTypes
  BY DEF FeedInv, FeedTypes, AgreeInv, ArchiveInv, HubTypes
<1>2. Preset \in Seq(Debaters) /\ Len(Preset) \in Nat \ {0} /\ Feed!First \in Debaters
  <2>1. PICK d \in Debaters : TRUE
    BY FeedAssumption
  <2>2. PICK i \in DOMAIN Preset : Preset[i] = d
    BY FeedAssumption
  <2>3. Preset \in Seq(Debaters) /\ Len(Preset) \in Nat /\ i \in 1..Len(Preset)
    BY <2>2, FeedAssumption
  <2>4. Len(Preset) >= 1 /\ Preset[1] \in Debaters
    BY <2>3
  <2>. QED
    BY <2>3, <2>4 DEF Feed!First
<1>3. ASSUME NEW a \in Debaters PROVE Feed!Successor(a) \in Debaters
  <2> DEFINE i == CHOOSE i \in DOMAIN Preset : Preset[i] = a
  <2>1. i \in DOMAIN Preset
    BY FeedAssumption
  <2> HIDE DEF i
  <2>2. i \in Nat /\ (i % Len(Preset)) + 1 \in 1..Len(Preset)
    BY <1>2, <2>1
  <2>3. Preset[(i % Len(Preset)) + 1] \in Debaters
    BY <1>2, <2>2
  <2>. QED
    BY <2>3 DEF Feed!Successor, i
<1>4. hub = [status |-> hub.status, turn |-> hub.turn, speaker |-> hub.speaker,
             signed |-> hub.signed, writing |-> hub.writing]
  BY <1>1 DEF HubTypes
<1>. QED
  BY <1>1, <1>2, <1>3, <1>4 DEF Names

(* moa_init.                                                               *)
LEMMA FeedInit ==
  ASSUME FeedInv, Feed!InitTask PROVE FeedInv'
<1>1. HubTypes /\ Nobody \in Names
  BY HubIs
<1>2. hub.status = "none" /\ hub' = [hub EXCEPT !.status = "initialized"] /\ archived' = archived
  BY DEF Feed!InitTask
<1>3. /\ hub'.status = "initialized" /\ hub'.turn = hub.turn /\ hub'.speaker = hub.speaker
      /\ hub'.signed = hub.signed /\ hub'.writing = hub.writing
      /\ hub' \in [status : Stages, turn : Nat, speaker : Names, signed : SUBSET Names, writing : BOOLEAN]
  BY <1>1, <1>2 DEF HubTypes, Stages
<1>4. HubTypes'
  BY <1>1, <1>2, <1>3 DEF HubTypes
<1>5. ASSUME NEW e, e.type = "task_initialized", run = Summary(hub)
      PROVE  Feed!Ingest(run, e) = Summary(hub')
  BY <1>1, <1>2, <1>3, <1>5 DEF Feed!Ingest, Feed!Bootstrapped, Summary
<1>6. \E ev : Emits(ev)
  <2>1. Feed!Emit(<<Feed!Event("task_initialized", Nobody, FALSE)>>) /\ "task_initialized" \in Kinds
    BY DEF Feed!InitTask, Kinds
  <2>. QED
    BY <1>1, <1>2, <1>3, <1>4, <1>5, <2>1, OneEvent
<1>. QED
  BY <1>4, <1>6, EmitKeeps

(* moa_start_debate.                                                       *)
LEMMA FeedStart ==
  ASSUME FeedInv, Feed!StartDebate PROVE FeedInv'
<1>1. HubTypes /\ Feed!First \in Names /\ Feed!First \in Debaters
  BY HubIs
<1>2. /\ hub.status = "initialized" /\ ~hub.writing /\ archived' = archived
      /\ hub' = [hub EXCEPT !.status = "debating", !.speaker = Feed!First]
  BY DEF Feed!StartDebate
<1>3. /\ hub'.status = "debating" /\ hub'.turn = hub.turn /\ hub'.speaker = Feed!First
      /\ hub'.signed = hub.signed /\ hub'.writing = hub.writing
      /\ hub' \in [status : Stages, turn : Nat, speaker : Names, signed : SUBSET Names, writing : BOOLEAN]
  BY <1>1, <1>2 DEF HubTypes, Stages
<1>4. HubTypes'
  BY <1>1, <1>2, <1>3 DEF HubTypes
<1>5. ASSUME NEW e, e.type = "debate_started", e.who = Feed!First, run = Summary(hub)
      PROVE  Feed!Ingest(run, e) = Summary(hub')
  <2>1. hub.signed = {}
    BY <1>1, <1>2 DEF HubTypes
  <2>. QED
    BY <1>2, <1>3, <1>5, <2>1 DEF Feed!Ingest, Feed!Bootstrapped, Summary
<1>6. \E ev : Emits(ev)
  <2>1. Feed!Emit(<<Feed!Event("debate_started", Feed!First, FALSE)>>) /\ "debate_started" \in Kinds
    BY DEF Feed!StartDebate, Kinds
  <2>. QED
    BY <1>1, <1>2, <1>3, <1>4, <1>5, <2>1, OneEvent
<1>. QED
  BY <1>4, <1>6, EmitKeeps

(* The end of moa_complete.                                                *)
LEMMA FeedClose ==
  ASSUME FeedInv, Feed!CloseTask PROVE FeedInv'
<1>1. HubTypes /\ Nobody \in Names
  BY HubIs
<1>2. /\ hub.writing /\ archived' = [archived EXCEPT !.result = "whole"]
      /\ hub' = [hub EXCEPT !.status = "closed", !.writing = FALSE, !.speaker = Nobody]
  BY DEF Feed!CloseTask
<1>3. /\ hub'.status = "closed" /\ hub'.turn = hub.turn /\ hub'.speaker = Nobody
      /\ hub'.signed = hub.signed /\ hub'.writing = FALSE
      /\ hub' \in [status : Stages, turn : Nat, speaker : Names, signed : SUBSET Names, writing : BOOLEAN]
  BY <1>1, <1>2 DEF HubTypes, Stages
<1>4. HubTypes'
  BY <1>1, <1>2, <1>3 DEF HubTypes
<1>5. ASSUME NEW e, e.type = "task_closed", run = Summary(hub)
      PROVE  Feed!Ingest(run, e) = Summary(hub')
  BY <1>1, <1>2, <1>3, <1>5 DEF Feed!Ingest, Feed!Bootstrapped, Summary
<1>6. \E ev : Emits(ev)
  <2>1. Feed!Emit(<<Feed!Event("task_closed", Nobody, FALSE)>>) /\ "task_closed" \in Kinds
    BY DEF Feed!CloseTask, Kinds
  <2>. QED
    BY <1>1, <1>2, <1>3, <1>4, <1>5, <2>1, OneEvent
<1>. QED
  BY <1>4, <1>6, EmitKeeps

(* A turn, perhaps a reset of the votes, what follows.                     *)
LEMMA TurnFrames ==
  ASSUME NEW S, NEW a \in S, NEW b \in S, NEW c \in S
  PROVE  /\ <<a>> \o <<>> \o <<c>> \in Seq(S) /\ Len(<<a>> \o <<>> \o <<c>>) = 2
         /\ (<<a>> \o <<>> \o <<c>>)[1] = a /\ (<<a>> \o <<>> \o <<c>>)[2] = c
         /\ <<a>> \o <<b>> \o <<c>> \in Seq(S) /\ Len(<<a>> \o <<b>> \o <<c>>) = 3
         /\ (<<a>> \o <<b>> \o <<c>>)[1] = a /\ (<<a>> \o <<b>> \o <<c>>)[2] = b
         /\ (<<a>> \o <<b>> \o <<c>>)[3] = c
<1>1. /\ <<>> \in Seq(S) /\ Len(<<>>) = 0
      /\ \A x \in S : <<x>> \in Seq(S) /\ Len(<<x>>) = 1 /\ <<x>>[1] = x
  OBVIOUS
<1>2. ASSUME NEW x \in Seq(S)
      PROVE  LET y == <<a>> \o x
             IN  /\ y \in Seq(S) /\ Len(y) = 1 + Len(x) /\ y[1] = a
                 /\ \A i \in 1..Len(x) : y[1 + i] = x[i]
  <2>1. \A i \in 1..(1 + Len(x)) : (<<a>> \o x)[i] = IF i <= 1 THEN <<a>>[i] ELSE x[i - 1]
    BY <1>1, ConcatProperties
  <2>. QED
    BY <1>1, <2>1, ConcatProperties
<1>3. ASSUME NEW y \in Seq(S)
      PROVE  LET z == y \o <<c>>
             IN  /\ z \in Seq(S) /\ Len(z) = Len(y) + 1 /\ z[Len(y) + 1] = c
                 /\ \A i \in 1..Len(y) : z[i] = y[i]
  <2>1. \A i \in 1..(Len(y) + 1) : (y \o <<c>>)[i] = IF i <= Len(y) THEN y[i] ELSE <<c>>[i - Len(y)]
    BY <1>1, ConcatProperties
  <2>. QED
    BY <1>1, <2>1, ConcatProperties
<1>4. LET y == <<a>> \o <<>>
      IN  y \in Seq(S) /\ Len(y) = 1 /\ y[1] = a
  BY <1>1, <1>2
<1>5. LET y == <<a>> \o <<b>>
      IN  y \in Seq(S) /\ Len(y) = 2 /\ y[1] = a /\ y[2] = b
  <2>1. 1 \in 1..Len(<<b>>) /\ <<b>> \in Seq(S) /\ <<b>>[1] = b
    BY <1>1
  <2>. QED
    BY <1>1, <1>2, <2>1
<1>6. /\ <<a>> \o <<>> \o <<c>> \in Seq(S) /\ Len(<<a>> \o <<>> \o <<c>>) = 2
      /\ (<<a>> \o <<>> \o <<c>>)[1] = a /\ (<<a>> \o <<>> \o <<c>>)[2] = c
  BY <1>3, <1>4
<1>7. /\ <<a>> \o <<b>> \o <<c>> \in Seq(S) /\ Len(<<a>> \o <<b>> \o <<c>>) = 3
      /\ (<<a>> \o <<b>> \o <<c>>)[1] = a /\ (<<a>> \o <<b>> \o <<c>>)[2] = b
      /\ (<<a>> \o <<b>> \o <<c>>)[3] = c
  BY <1>3, <1>5
<1>. QED
  BY <1>6, <1>7

(* moa_submit_turn.                                                        *)
LEMMA FeedSubmit ==
  ASSUME FeedInv, NEW s \in BOOLEAN, Feed!SubmitTurn(s) PROVE FeedInv'
<1> DEFINE a == hub.speaker
           votes == IF s THEN hub.signed \cup {a} ELSE {}
           over == votes = Debaters \/ hub.turn + 1 = MaxTurns
           resets == ~s /\ hub.signed # {}
           one == Feed!Event("turn_submitted", a, s)
           reset == Feed!Event("signoff_reset", a, FALSE)
           then == IF over THEN Feed!Event("debate_complete", Nobody, FALSE)
                   ELSE Feed!Event("turn_advanced", Feed!Successor(a), FALSE)
           es == <<one>> \o (IF resets THEN <<reset>> ELSE <<>>) \o <<then>>
<1>1. /\ HubTypes /\ FeedTypes /\ Nobody \in Names /\ a \in Names
      /\ Feed!Successor(a) \in Names /\ Feed!Successor(a) \in Debaters
  <2>1. hub.status = "debating" /\ HubTypes
    BY HubIs DEF Feed!SubmitTurn
  <2>2. a \in Debaters
    BY <2>1 DEF HubTypes
  <2>. QED
    BY <2>2, HubIs DEF HubTypes, FeedInv
<1>2. /\ hub.status = "debating" /\ ~hub.writing /\ archived' = archived
      /\ hub' = [hub EXCEPT !.status = IF over THEN "complete" ELSE @, !.turn = @ + 1, !.signed = votes,
                            !.speaker = IF over THEN Nobody ELSE Feed!Successor(a)]
      /\ Feed!Emit(es)
  BY DEF Feed!SubmitTurn
<1>3. /\ hub'.status = (IF over THEN "complete" ELSE "debating") /\ hub'.turn = hub.turn + 1
      /\ hub'.speaker = (IF over THEN Nobody ELSE Feed!Successor(a))
      /\ hub'.signed = votes /\ hub'.writing = hub.writing
      /\ hub' \in [status : Stages, turn : Nat, speaker : Names, signed : SUBSET Names, writing : BOOLEAN]
  <2>1. votes \in SUBSET Names
    BY <1>1 DEF HubTypes
  <2> HIDE DEF votes, over
  <2>2. hub \in [status : Stages, turn : Nat, speaker : Names, signed : SUBSET Names, writing : BOOLEAN]
    BY <1>1 DEF HubTypes
  <2>3. /\ (IF over THEN "complete" ELSE "debating") \in Stages /\ hub.turn + 1 \in Nat
        /\ (IF over THEN Nobody ELSE Feed!Successor(a)) \in Names
    BY <1>1, <2>2 DEF Stages
  <2>4. hub' = [status |-> IF over THEN "complete" ELSE "debating", turn |-> hub.turn + 1,
                speaker |-> IF over THEN Nobody ELSE Feed!Successor(a), signed |-> votes,
                writing |-> hub.writing]
    BY <1>2, <2>2
  <2>. QED
    BY <2>1, <2>2, <2>3, <2>4
<1> HIDE DEF over, votes
<1>4. HubTypes'
  BY <1>1, <1>2, <1>3 DEF HubTypes
<1>5. hub'.turn \in Nat /\ {"turn_submitted", "signoff_reset", "debate_complete", "turn_advanced"} \subseteq Kinds
  BY <1>4 DEF HubTypes, Kinds
<1>6. /\ one \in Frames /\ one.type = "turn_submitted" /\ one.who = a /\ one.signoff = s /\ one.turn = hub'.turn
      /\ reset \in Frames /\ reset.type = "signoff_reset" /\ reset.turn = hub'.turn
      /\ then \in Frames /\ then.turn = hub'.turn
      /\ then.type = (IF over THEN "debate_complete" ELSE "turn_advanced")
      /\ ~over => then.who = Feed!Successor(a)
  <2>1. one \in Frames /\ one.type = "turn_submitted" /\ one.who = a /\ one.signoff = s /\ one.turn = hub'.turn
    BY <1>1, <1>5, EventIs
  <2>2. reset \in Frames /\ reset.type = "signoff_reset" /\ reset.turn = hub'.turn
    BY <1>1, <1>5, EventIs
  <2>3. CASE over
    BY <1>1, <1>5, <2>1, <2>2, <2>3, EventIs
  <2>4. CASE ~over
    BY <1>1, <1>5, <2>1, <2>2, <2>4, EventIs
  <2>. QED
    BY <2>3, <2>4
<1> HIDE DEF one, reset, then
<1>7. /\ es \in Seq(Frames) /\ Len(es) = (IF resets THEN 3 ELSE 2) /\ es[1] = one
      /\ es[Len(es)] = then /\ (resets => es[2] = reset)
  BY <1>6, TurnFrames
<1> HIDE DEF es, resets
<1>8. \A i \in 2..Len(es) : es[i] = then \/ es[i] = reset
  <2>1. Len(es) = 3 \/ Len(es) = 2
    BY <1>7
  <2>2. \A n \in {2, 3} : \A i \in 2..n : i = n \/ (i = 2 /\ n = 3)
    OBVIOUS
  <2>. QED
    BY <1>7, <2>1, <2>2
<1>9. \A i \in 2..Len(es) : ~Said(es[i]) /\ es[i].type # "task_closed" /\ es[i].turn = hub'.turn
  BY <1>6, <1>8 DEF Said
<1>10. Len(es) \in 1..3
  BY <1>7
<1>11. PICK ev : /\ Batch(ev) /\ Len(ev) = Len(es) /\ emitted' = emitted \o ev /\ UNCHANGED <<remote, card>>
                 /\ \A i \in 1..Len(es) : /\ ev[i].type = es[i].type /\ ev[i].who = es[i].who
                                          /\ ev[i].signoff = es[i].signoff /\ ev[i].turn = es[i].turn
                 /\ IF remote THEN /\ wire' = wire \cup {ev[i] : i \in 1..Len(ev)}
                                   /\ UNCHANGED <<log, run, published, stream, since>>
                              ELSE Feed!Publish(ev) /\ wire' = wire
  BY <1>1, <1>2, <1>7, <1>9, <1>10, EmitIs
<1>12. /\ 1 \in 1..Len(es) /\ ev[1].type = "turn_submitted" /\ ev[1].who = a /\ ev[1].signoff = s
       /\ ev[Len(es)].type = then.type /\ ev[Len(es)].who = then.who
       /\ (resets => ev[2].type = "signoff_reset")
  <2>1. 1 \in 1..Len(es) /\ 2 \in 1..Len(es) /\ Len(es) \in 1..Len(es)
    BY <1>7
  <2>. QED
    BY <1>6, <1>7, <1>11, <2>1
<1>13. \A i \in 1..Len(ev) : ev[i].turn = hub'.turn /\ ev[i].type # "task_closed"
  <2>1. \A i \in 1..Len(es) : i = 1 \/ i \in 2..Len(es)
    BY <1>10
  <2>2. \A i \in 1..Len(es) : es[i].turn = hub'.turn /\ es[i].type # "task_closed"
    BY <1>6, <1>7, <1>9, <2>1
  <2>. QED
    BY <1>11, <2>2
<1>14. hub'.turn = hub.turn + Step(ev[1])
  BY <1>3, <1>12 DEF Step, Said
<1>15. ASSUME run = Summary(hub) PROVE Feed!Ingested(run, ev) = Summary(hub')
  <2> DEFINE r1 == Feed!Ingest(run, ev[1])
             r2 == Feed!Ingest(r1, ev[2])
             r3 == Feed!Ingest(r2, ev[3])
             cast == IF s THEN hub.signed \cup {a} ELSE hub.signed
  <2>1. r1 = [status |-> "debating", turns |-> hub.turn + 1, signed |-> cast, speaker |-> a]
    BY <1>2, <1>12, <1>15 DEF Feed!Ingest, Feed!Bootstrapped, Summary
  <2>2. ASSUME NEW r, NEW e, r = [status |-> "debating", turns |-> hub.turn + 1, signed |-> votes, speaker |-> a],
               e.type = then.type, e.who = then.who
        PROVE  Feed!Ingest(r, e) = Summary(hub')
    <3>1. Feed!Bootstrapped(r) = r
      BY <2>2 DEF Feed!Bootstrapped
    <3>2. CASE over
      <4>1. e.type = "debate_complete"
        BY <1>6, <2>2, <3>2
      <4>2. Feed!Ingest(r, e) = [r EXCEPT !.status = "complete", !.speaker = Nobody]
        BY <3>1, <4>1 DEF Feed!Ingest
      <4>. QED
        BY <1>3, <2>2, <3>2, <4>2 DEF Summary
    <3>3. CASE ~over
      <4>1. e.type = "turn_advanced" /\ e.who = Feed!Successor(a)
        BY <1>6, <2>2, <3>3
      <4>2. Feed!Ingest(r, e) = [r EXCEPT !.speaker = Feed!Successor(a)]
        BY <3>1, <4>1 DEF Feed!Ingest
      <4>. QED
        BY <1>3, <2>2, <3>3, <4>2 DEF Summary
    <3>. QED
      BY <3>2, <3>3
  <2>3. CASE resets
    <3>1. votes = {} /\ Len(ev) = 3 /\ ev[3].type = then.type /\ ev[3].who = then.who /\ ev[2].type = "signoff_reset"
      BY <1>7, <1>11, <1>12, <2>3 DEF resets, votes
    <3> HIDE DEF r1
    <3>2. r2 = [status |-> "debating", turns |-> hub.turn + 1, signed |-> votes, speaker |-> a]
      BY <2>1, <3>1 DEF Feed!Ingest, Feed!Bootstrapped
    <3> HIDE DEF r2
    <3>3. r3 = Summary(hub')
      BY <2>2, <3>1, <3>2
    <3>4. Feed!Ingested(run, ev) = r3
      BY <3>1, IngestedIs DEF r3, r2, r1
    <3>. QED
      BY <3>3, <3>4
  <2>4. CASE ~resets
    <3>1. votes = cast /\ Len(ev) = 2 /\ ev[2].type = then.type /\ ev[2].who = then.who
      BY <1>7, <1>11, <1>12, <2>4 DEF resets, votes
    <3>2. r1 = [status |-> "debating", turns |-> hub.turn + 1, signed |-> votes, speaker |-> a]
      BY <2>1, <3>1
    <3> HIDE DEF r1
    <3>3. r2 = Summary(hub')
      BY <2>2, <3>1, <3>2
    <3>4. Feed!Ingested(run, ev) = r2
      BY <3>1, IngestedIs DEF r2, r1
    <3>. QED
      BY <3>3, <3>4
  <2>. QED
    BY <2>3, <2>4
<1>16. Emits(ev)
  BY <1>2, <1>11, <1>13, <1>14, <1>15 DEF Emits
<1>. QED
  BY <1>4, <1>16, EmitKeeps

(* moa_complete begins: events.jsonl counts the hub's turns.               *)
LEMMA FeedWrite ==
  ASSUME FeedInv, Feed!WriteArchive PROVE FeedInv'
<1> USE DEF FeedInv
<1>1. /\ hub' = [hub EXCEPT !.writing = TRUE]
      /\ archived' = [turns |-> hub.turn, result |-> "torn", times |-> archived.times + 1]
      /\ UNCHANGED <<emitted, remote, wire, log, run, published, stream, card, since>>
  BY DEF Feed!WriteArchive, Feed!bus, Feed!page
<1>2. /\ hub'.status = hub.status /\ hub'.turn = hub.turn /\ hub'.speaker = hub.speaker
      /\ hub'.signed = hub.signed /\ hub.turn \in Nat /\ archived.times \in Nat
      /\ hub' \in [status : Stages, turn : Nat, speaker : Names, signed : SUBSET Names, writing : BOOLEAN]
  BY <1>1 DEF FeedTypes
<1>3. archived'.turns = hub.turn /\ archived' \in [turns : Nat, result : {"none", "torn", "whole"}, times : Nat]
  BY <1>1, <1>2
<1>4. FeedTypes'
  BY <1>1, <1>2, <1>3 DEF FeedTypes
<1>5. GaplessInv' /\ AgreeInv' /\ CountInv'
  BY <1>1, <1>2 DEF GaplessInv, AgreeInv, Summary, CountInv, Spoken
<1>6. ArchiveInv'
  BY <1>1, <1>2, <1>3 DEF ArchiveInv
<1>7. LinesInv' /\ OrderInv'
  BY <1>1, <1>2 DEF LinesInv, OrderInv
<1>. QED
  BY <1>4, <1>5, <1>6, <1>7

(* moa_complete fails: the archive stays as it was left.                   *)
LEMMA FeedFail ==
  ASSUME FeedInv, Feed!FailArchive PROVE FeedInv'
<1> USE DEF FeedInv
<1>1. /\ hub' = [hub EXCEPT !.writing = FALSE] /\ hub.writing
      /\ UNCHANGED <<archived, emitted, remote, wire, log, run, published, stream, card, since>>
  BY DEF Feed!FailArchive, Feed!bus, Feed!page
<1>2. /\ hub'.status = hub.status /\ hub'.turn = hub.turn /\ hub'.speaker = hub.speaker
      /\ hub'.signed = hub.signed
      /\ hub' \in [status : Stages, turn : Nat, speaker : Names, signed : SUBSET Names, writing : BOOLEAN]
  BY <1>1 DEF FeedTypes
<1>3. FeedTypes'
  BY <1>1, <1>2 DEF FeedTypes
<1>4. GaplessInv' /\ AgreeInv' /\ CountInv'
  BY <1>1, <1>2 DEF GaplessInv, AgreeInv, Summary, CountInv, Spoken
<1>5. ArchiveInv'
  BY <1>1, <1>2 DEF ArchiveInv
<1>6. LinesInv' /\ OrderInv'
  BY <1>1, <1>2 DEF LinesInv, OrderInv
<1>. QED
  BY <1>3, <1>4, <1>5, <1>6

(* A step of the card that leaves its lines alone.                         *)
LEMMA CardKeeps ==
  ASSUME FeedInv, card' \in CardType, card'.lines = card.lines, card'.fresh = card.fresh,
         card'.verdict # "none" => card.verdict # "none", card'.verdict = "full" => card.verdict = "full",
         UNCHANGED <<hub, emitted, archived, remote, wire, log, run, published, stream, since>>
  PROVE  FeedInv'
<1> USE DEF FeedInv
<1>1. FeedTypes' /\ GaplessInv' /\ AgreeInv' /\ CountInv'
  BY DEF FeedTypes, GaplessInv, AgreeInv, Summary, CountInv, Spoken
<1>2. ArchiveInv'
  BY DEF ArchiveInv
<1>3. LinesInv' /\ OrderInv'
  BY DEF LinesInv, OrderInv
<1>. QED
  BY <1>1, <1>2, <1>3

(* The page's list of tasks, and the verdict when the task is closed.      *)
LEMMA FeedCard ==
  ASSUME FeedInv, Feed!ListTasks \/ Feed!ChooseTask \/ Feed!LoadVerdict \/ Feed!FailToLoad \/ Feed!Retry
  PROVE  FeedInv'
<1> USE DEF Feed!debate, Feed!bus
<1>1. card \in CardType
  BY DEF FeedInv, FeedTypes
<1>2. UNCHANGED <<hub, emitted, archived, remote, wire, log, run, published, stream, since>>
  BY DEF Feed!ListTasks, Feed!ChooseTask, Feed!LoadVerdict, Feed!FailToLoad, Feed!Retry
<1>3. \/ \E l \in BOOLEAN : card' = [card EXCEPT !.listed = l]
      \/ card' = [card EXCEPT !.chosen = TRUE]
      \/ /\ card.verdict # "none"
         /\ \E v \in {"shown", "blank", "error", "loading"} : card' = [card EXCEPT !.verdict = v]
  <2>1. CASE Feed!ListTasks
    BY <2>1 DEF Feed!ListTasks
  <2>2. CASE Feed!ChooseTask
    BY <2>2 DEF Feed!ChooseTask
  <2>3. CASE Feed!LoadVerdict
    BY <2>3 DEF Feed!LoadVerdict
  <2>4. CASE Feed!FailToLoad
    BY <2>4 DEF Feed!FailToLoad
  <2>5. CASE Feed!Retry
    BY <2>5 DEF Feed!Retry
  <2>. QED
    BY <2>1, <2>2, <2>3, <2>4, <2>5
<1>4. /\ card' \in CardType /\ card'.lines = card.lines /\ card'.fresh = card.fresh
      /\ card'.verdict # "none" => card.verdict # "none"
      /\ card'.verdict = "full" => card.verdict = "full"
  <2>1. CASE \E l \in BOOLEAN : card' = [card EXCEPT !.listed = l]
    BY <1>1, <2>1 DEF CardType
  <2>2. CASE card' = [card EXCEPT !.chosen = TRUE]
    BY <1>1, <2>2 DEF CardType
  <2>3. ASSUME NEW v \in {"shown", "blank", "error", "loading"}, card.verdict # "none",
               card' = [card EXCEPT !.verdict = v]
        PROVE  /\ card' \in CardType /\ card'.lines = card.lines /\ card'.fresh = card.fresh
               /\ card'.verdict = v
    BY <1>1, <2>3 DEF CardType
  <2>. QED
    BY <1>3, <2>1, <2>2, <2>3
<1>. QED
  BY <1>2, <1>4, CardKeeps

(* A stream opens with the log; one that broke is not a fresh card's.      *)
LEMMA FeedSubscribe ==
  ASSUME FeedInv, Feed!Subscribe PROVE FeedInv'
<1> USE DEF FeedInv
<1>1. /\ stream' = [open |-> TRUE, pipe |-> log] /\ since' = Len(log)
      /\ card' = [card EXCEPT !.fresh = @ /\ card.lines = <<>>]
      /\ UNCHANGED <<hub, emitted, archived, remote, wire, log, run, published>>
  BY DEF Feed!Subscribe, Feed!debate, Feed!bus
<1>2. card \in CardType /\ log \in Seq(Frames)
  BY DEF FeedTypes
<1>3. /\ card' \in CardType /\ card'.lines = card.lines /\ card'.verdict = card.verdict
      /\ card'.fresh = (card.fresh /\ card.lines = <<>>)
  <2>1. (card.fresh /\ card.lines = <<>>) \in BOOLEAN
    OBVIOUS
  <2>. QED
    BY <1>1, <1>2, <2>1 DEF CardType
<1>4. stream'.open /\ stream'.pipe = log /\ stream' \in [open : BOOLEAN, pipe : Seq(Frames)]
  BY <1>1, <1>2
<1>5. FeedTypes'
  BY <1>1, <1>2, <1>3, <1>4 DEF FeedTypes
<1>6. GaplessInv'
  <2>1. Ends(log, published) /\ Len(log) = Kept(Len(published)) /\ Kept(Len(published)) \in Nat
    BY <1>2 DEF GaplessInv
  <2>. QED
    BY <1>1, <1>4, <2>1 DEF GaplessInv
<1>7. AgreeInv' /\ CountInv'
  BY <1>1, <1>3 DEF AgreeInv, Summary, CountInv, Spoken
<1>a. card'.fresh => card.fresh
  BY <1>3, Zenon
<1>b. ArchiveInv'
  BY <1>1, <1>3, <1>a DEF ArchiveInv
<1>8. card'.fresh => card.lines = <<>> /\ Len(card.lines) = 0
  <2>1. card'.fresh => card.lines = <<>>
    BY <1>3, Zenon
  <2>. QED
    BY <2>1
<1>9. (\A i \in 1..Len(card'.lines) : card'.lines[i] \in 1..hub'.turn) /\ LinesInv'
  BY <1>1, <1>3, <1>8 DEF LinesInv
<1>10. OrderInv'
  BY <1>1, <1>3, <1>8 DEF OrderInv
<1>. QED
  BY <1>5, <1>6, <1>7, <1>b, <1>9, <1>10

(* The stream breaks.                                                      *)
LEMMA FeedDisconnect ==
  ASSUME FeedInv, Feed!Disconnect PROVE FeedInv'
<1> USE DEF FeedInv
<1>1. /\ stream' = [open |-> FALSE, pipe |-> <<>>] /\ since' = 0 /\ card' = [card EXCEPT !.fresh = FALSE]
      /\ UNCHANGED <<hub, emitted, archived, remote, wire, log, run, published>>
  BY DEF Feed!Disconnect, Feed!Closed, Feed!debate, Feed!bus
<1>2. /\ card' \in CardType /\ card'.lines = card.lines /\ card'.verdict = card.verdict /\ card'.fresh = FALSE
      /\ ~stream'.open /\ stream'.pipe = <<>> /\ stream' \in [open : BOOLEAN, pipe : Seq(Frames)]
  <2>1. card \in CardType /\ FALSE \in BOOLEAN
    BY DEF FeedTypes
  <2>2. card' \in CardType /\ card'.lines = card.lines /\ card'.verdict = card.verdict /\ card'.fresh = FALSE
    BY <1>1, <2>1 DEF CardType
  <2>. QED
    BY <1>1, <2>2
<1>3. FeedTypes' /\ GaplessInv'
  BY <1>1, <1>2 DEF FeedTypes, GaplessInv
<1>4. AgreeInv' /\ CountInv' /\ ArchiveInv'
  BY <1>1, <1>2 DEF AgreeInv, Summary, CountInv, Spoken, ArchiveInv
<1>5. LinesInv' /\ OrderInv'
  BY <1>1, <1>2 DEF LinesInv, OrderInv
<1>. QED
  BY <1>3, <1>4, <1>5

(* A new bus begins with nothing.                                          *)
LEMMA FeedTakeover ==
  ASSUME FeedInv, Feed!Takeover PROVE FeedInv'
<1> USE DEF FeedInv
<1>1. /\ stream' = [open |-> FALSE, pipe |-> <<>>] /\ since' = 0 /\ published # <<>>
      /\ card' = [card EXCEPT !.fresh = card.fresh /\ ~stream.open]
      /\ log' = <<>> /\ published' = <<>>
      /\ run' = [status |-> "none", turns |-> 0, signed |-> {}, speaker |-> Nobody]
      /\ UNCHANGED <<hub, emitted, archived, remote, wire>>
  BY DEF Feed!Takeover, Feed!Closed, Feed!debate, Feed!NoRun
<1>2. card \in CardType /\ stream \in [open : BOOLEAN, pipe : Seq(Frames)] /\ published \in Seq(Frames)
      /\ emitted \in Seq(Frames)
  BY DEF FeedTypes
<1>3. /\ card' \in CardType /\ card'.lines = card.lines /\ card'.verdict = card.verdict
      /\ card'.fresh = (card.fresh /\ ~stream.open)
      /\ ~stream'.open /\ stream'.pipe = <<>> /\ stream' \in [open : BOOLEAN, pipe : Seq(Frames)]
  <2>1. (card.fresh /\ ~stream.open) \in BOOLEAN
    OBVIOUS
  <2>2. card' \in CardType /\ card'.lines = card.lines /\ card'.verdict = card.verdict
        /\ card'.fresh = (card.fresh /\ ~stream.open)
    BY <1>1, <1>2, <2>1 DEF CardType
  <2>. QED
    BY <1>1, <2>2
<1>4. run' \in RunType /\ run'.turns = 0
  BY <1>1 DEF RunType, Stages, Names
<1>5. FeedTypes'
  BY <1>1, <1>3, <1>4 DEF FeedTypes
<1>6. GaplessInv'
  BY <1>1, <1>3, FeedAssumption DEF GaplessInv, Ends, Kept
<1>7. AgreeInv'
  <2>1. ~remote => emitted # <<>>
    BY <1>1, <1>2 DEF AgreeInv
  <2>2. Len(published') = 0 /\ Len(emitted) \in Nat
    BY <1>1, <1>2
  <2>. QED
    BY <1>1, <2>1, <2>2 DEF AgreeInv
<1>8. CountInv'
  <2>1. Spoken' = {}
    BY <1>1 DEF Spoken
  <2>. QED
    BY <1>1, <1>4, <2>1, FS_EmptySet DEF CountInv
<1>a. card'.fresh => card.fresh
  BY <1>3, Zenon
<1>9. ArchiveInv'
  BY <1>1, <1>3, <1>a DEF ArchiveInv
<1>10. LinesInv'
  BY <1>1, <1>3, <1>a DEF LinesInv
<1>11. OrderInv'
  BY <1>1, <1>3, <1>a DEF OrderInv
<1>. QED
  BY <1>5, <1>6, <1>7, <1>8, <1>9, <1>10, <1>11

(* The full transcript is asked for when a verdict is shown; a torn file   *)
(* gives the first turns only.                                             *)
LEMMA FeedFullTranscript ==
  ASSUME FeedInv, Feed!FullTranscript PROVE FeedInv'
<1> USE DEF FeedInv
<1>0. PICK k \in IF archived.result = "torn" THEN 0..archived.turns ELSE {archived.turns} :
         card' = [card EXCEPT !.lines = [i \in 1..k |-> i], !.verdict = "full",
                              !.fresh = k = archived.turns /\ wire = {} /\ stream.pipe = <<>>]
  BY DEF Feed!FullTranscript
<1> DEFINE l == [i \in 1..k |-> i]
           goes == k = archived.turns /\ wire = {} /\ stream.pipe = <<>>
<1>1. /\ card' = [card EXCEPT !.lines = l, !.verdict = "full", !.fresh = goes]
      /\ card.verdict = "shown"
      /\ UNCHANGED <<hub, emitted, archived, remote, wire, log, run, published, stream, since>>
  BY <1>0 DEF Feed!FullTranscript, Feed!debate, Feed!bus
<1>2. /\ hub.turn \in Nat /\ archived.turns = hub.turn /\ hub.status = "closed"
      /\ k \in 0..hub.turn
  <2>1. hub.turn \in Nat /\ archived.turns = hub.turn /\ hub.status = "closed"
    BY <1>1 DEF ArchiveInv, FeedTypes
  <2>. QED
    BY <1>0, <2>1
<1>3. l \in Seq(Nat) /\ Len(l) = k /\ \A i \in 1..k : l[i] = i
  BY <1>2
<1>a. goes \in BOOLEAN /\ (goes => k = hub.turn /\ wire = {} /\ stream.pipe = <<>>)
  BY <1>2
<1> HIDE DEF l, goes
<1>4. /\ card' \in CardType /\ card'.lines = l /\ card'.verdict = "full"
      /\ card'.fresh = goes
  <2>1. card \in CardType
    BY DEF FeedTypes
  <2>. QED
    BY <1>1, <1>3, <1>a, <2>1 DEF CardType
<1>5. FeedTypes' /\ GaplessInv' /\ AgreeInv' /\ CountInv'
  BY <1>1, <1>4 DEF FeedTypes, GaplessInv, AgreeInv, Summary, CountInv, Spoken
<1>b. card'.fresh => k = hub.turn /\ wire = {} /\ stream.pipe = <<>>
  BY <1>4, <1>a, Zenon
<1>6. ArchiveInv'
  <2>1. card'.fresh => IF l = <<>> THEN hub.turn = 0 ELSE l[1] = 1
    BY <1>2, <1>3, <1>b
  <2>. QED
    BY <1>1, <1>2, <1>4, <2>1 DEF ArchiveInv
<1>7. LinesInv'
  <2>1. \A i \in 1..Len(card'.lines) : card'.lines[i] \in 1..hub'.turn
    BY <1>1, <1>2, <1>3, <1>4
  <2>2. \A i, j \in 1..Len(card'.lines) : card'.lines[i] = card'.lines[j] => i = j
    BY <1>3, <1>4
  <2>3. card'.fresh => wire' = {} /\ Len(stream'.pipe) = 0
    BY <1>1, <1>b
  <2>. QED
    BY <2>1, <2>2, <2>3 DEF LinesInv
<1>8. OrderInv'
  <2>1. \A i \in 1..(Len(l) - 1) : l[i + 1] = l[i] + 1
    BY <1>2, <1>3
  <2>2. card'.fresh /\ l # <<>> => l[Len(l)] = hub.turn
    BY <1>2, <1>3, <1>b
  <2>. QED
    BY <1>1, <1>4, <1>b, <2>1, <2>2 DEF OrderInv
<1>. QED
  BY <1>5, <1>6, <1>7, <1>8

(* A request is lost.                                                      *)
LEMMA FeedLose ==
  ASSUME FeedInv, NEW e \in wire, wire' = wire \ {e},
         UNCHANGED <<hub, emitted, archived, remote, card, log, run, published, stream, since>>
  PROVE  FeedInv'
<1> USE DEF FeedInv
<1>1. FeedTypes' /\ GaplessInv' /\ AgreeInv' /\ CountInv'
  <2>1. FeedTypes'
    BY DEF FeedTypes
  <2>2. GaplessInv' /\ AgreeInv'
    BY DEF GaplessInv, AgreeInv, Summary
  <2>3. Spoken' = Spoken
    BY DEF Spoken
  <2>4. CountInv'
    BY <2>3 DEF CountInv
  <2>. QED
    BY <2>1, <2>2, <2>4
<1>2. ArchiveInv' /\ LinesInv' /\ OrderInv'
  BY DEF ArchiveInv, LinesInv, OrderInv
<1>. QED
  BY <1>1, <1>2

(* What a frame does to the card.                                          *)
LEMMA OnEventIs ==
  ASSUME NEW c \in CardType, NEW e \in Frames
  PROVE  LET d == Feed!OnEvent(c, e)
         IN  /\ d \in CardType /\ d.fresh = c.fresh
             /\ d.lines = IF Said(e) THEN Append(c.lines, e.turn) ELSE c.lines
             /\ d.verdict = IF e.type = "task_closed" THEN "loading" ELSE c.verdict
<1> DEFINE d == Feed!OnEvent(c, e)
           Alike(x, y) == x \in CardType /\ x.fresh = y.fresh /\ x.lines = y.lines /\ x.verdict = y.verdict
           Is(x, l, v) == x \in CardType /\ x.fresh = c.fresh /\ x.lines = l /\ x.verdict = v
<1>1. e.type \in Kinds /\ e.who \in Names /\ e.turn \in Nat /\ Nobody \in Names
  BY DEF Frames, Names
<1>2. c.turns \in Nat /\ c.spoken \in Nat /\ c.lines \in Seq(Nat) /\ Append(c.lines, e.turn) \in Seq(Nat)
  BY <1>1 DEF CardType
<1>3. /\ \A x \in CardType : \A n \in Nat : Alike([x EXCEPT !.stage = n], x)
      /\ \A x \in CardType : \A w \in Names : Alike([x EXCEPT !.speaking = w], x)
      /\ Alike([c EXCEPT !.spoken = 0, !.speaking = Nobody], c)
  BY <1>1 DEF CardType
<1>5. \A x : Alike(x, c) => Is(x, c.lines, c.verdict)
  OBVIOUS
<1>6. CASE e.type = "task_initialized"
  <2> DEFINE x == [c EXCEPT !.spoken = 0, !.speaking = Nobody]
  <2>1. d = [x EXCEPT !.stage = 1]
    BY <1>6 DEF Feed!OnEvent, Feed!SetStage
  <2>a. Alike(x, c)
    BY <1>3
  <2> HIDE DEF x
  <2>b. Alike(d, x)
    BY <1>3, <2>1, <2>a
  <2>2. Alike(d, c)
    BY <2>a, <2>b
  <2> HIDE DEF d
  <2>. QED
    BY <1>6, <2>2 DEF Said, d
<1>7. CASE e.type = "debate_started"
  <2>1. d = [c EXCEPT !.stage = 2]
    BY <1>7 DEF Feed!OnEvent, Feed!SetStage
  <2>2. Alike(d, c)
    BY <1>3, <2>1
  <2> HIDE DEF d
  <2>. QED
    BY <1>7, <2>2 DEF Said, d
<1>8. CASE e.type = "turn_submitted"
  <2>1. d = [c EXCEPT !.lines = Append(c.lines, e.turn), !.turns = c.turns + 1, !.spoken = c.spoken + 1,
                      !.speaking = Nobody]
    BY <1>8 DEF Feed!OnEvent, Feed!AddTurn
  <2> HIDE DEF d
  <2>a. c.turns + 1 \in Nat /\ c.spoken + 1 \in Nat
    BY <1>2
  <2> DEFINE l == Append(c.lines, e.turn)
             t == c.turns + 1
             p == c.spoken + 1
  <2> HIDE DEF l, t, p
  <2>b. l \in Seq(Nat) /\ t \in Nat /\ p \in Nat
    BY <1>2, <2>a DEF l, t, p
  <2>c. d = [c EXCEPT !.lines = l, !.turns = t, !.spoken = p, !.speaking = Nobody]
    BY <2>1 DEF l, t, p
  <2>d. Is(d, l, c.verdict)
    BY <1>1, <2>b, <2>c DEF CardType
  <2>2. Is(d, Append(c.lines, e.turn), c.verdict)
    BY <2>d DEF l
  <2>. QED
    BY <1>8, <2>2 DEF Said, d
<1>9. CASE e.type = "turn_advanced"
  <2>1. d = [c EXCEPT !.speaking = e.who]
    BY <1>9 DEF Feed!OnEvent
  <2>2. Alike(d, c)
    BY <1>1, <1>3, <2>1
  <2> HIDE DEF d
  <2>. QED
    BY <1>9, <2>2 DEF Said, d
<1>10. CASE e.type = "debate_complete"
  <2> DEFINE x == [c EXCEPT !.speaking = Nobody]
  <2>1. d = [x EXCEPT !.stage = 3]
    BY <1>10 DEF Feed!OnEvent, Feed!SetStage
  <2>a. Alike(x, c)
    BY <1>1, <1>3
  <2> HIDE DEF x
  <2>b. Alike(d, x)
    BY <1>3, <2>1, <2>a
  <2>2. Alike(d, c)
    BY <2>a, <2>b
  <2> HIDE DEF d
  <2>. QED
    BY <1>10, <2>2 DEF Said, d
<1>11. CASE e.type = "task_closed"
  <2> DEFINE x == [c EXCEPT !.speaking = Nobody, !.verdict = "loading"]
  <2>1. d = [x EXCEPT !.stage = 5]
    BY <1>11 DEF Feed!OnEvent, Feed!OnClosed, Feed!SetStage
  <2>2. Is(x, c.lines, "loading")
    BY <1>1 DEF CardType
  <2> HIDE DEF x
  <2>3. Alike(d, x)
    BY <1>3, <2>1, <2>2
  <2> HIDE DEF d
  <2>. QED
    BY <1>11, <2>2, <2>3 DEF Said, d
<1>12. CASE e.type = "signoff_reset"
  <2>1. d = c
    BY <1>12 DEF Feed!OnEvent
  <2> HIDE DEF d
  <2>. QED
    BY <1>12, <2>1 DEF Said, d
<1>. QED
  BY <1>1, <1>6, <1>7, <1>8, <1>9, <1>10, <1>11, <1>12 DEF Kinds

(* The card handles the next frame of its stream.                          *)
LEMMA FeedReceive ==
  ASSUME FeedInv, Feed!Receive PROVE FeedInv'
<1> USE DEF FeedInv
<1> DEFINE q == stream.pipe
           e == q[1]
           m == Len(published) - Len(q)
           l == card.lines
           k == Len(l)
<1>1. /\ q # <<>> /\ stream' = [stream EXCEPT !.pipe = Tail(q)] /\ card' = Feed!OnEvent(card, Head(q))
      /\ UNCHANGED <<hub, emitted, archived, remote, wire, log, run, published, since>>
  BY DEF Feed!Receive, Feed!debate, Feed!bus
<1>2. /\ stream \in [open : BOOLEAN, pipe : Seq(Frames)] /\ q \in Seq(Frames) /\ published \in Seq(Frames)
      /\ card \in CardType /\ l \in Seq(Nat) /\ k \in Nat /\ hub.turn \in Nat
  BY DEF FeedTypes, CardType
<1>3. stream.open /\ Ends(q, published) /\ since >= Kept(Len(published))
  BY <1>1 DEF GaplessInv
<1>4. m \in Nat /\ \A i \in 1..Len(q) : q[i] = published[m + i] /\ m + i \in 1..Len(published)
  BY <1>2, <1>3 DEF Ends
<1>5. Len(q) > 0 /\ Head(q) = e /\ e \in Frames /\ e.turn \in Nat
  <2>1. Len(q) > 0 /\ 1 \in 1..Len(q) /\ Head(q) = e
    BY <1>1, <1>2
  <2>2. q[1] \in Frames
    BY <1>2, <2>1
  <2>. QED
    BY <2>1, <2>2 DEF Frames
<1>6. /\ Tail(q) \in Seq(Frames) /\ Len(Tail(q)) = Len(q) - 1 /\ Ends(Tail(q), published)
      /\ \A i \in 1..(Len(q) - 1) : Tail(q)[i] = q[i + 1]
  BY <1>1, <1>2, <1>3, EndsTail, HeadTailProperties
<1>7. /\ stream'.open = stream.open /\ stream'.pipe = Tail(q) /\ stream' \in [open : BOOLEAN, pipe : Seq(Frames)]
  BY <1>1, <1>2, <1>6
<1>8. /\ card' \in CardType /\ card'.fresh = card.fresh
      /\ card'.lines = (IF Said(e) THEN Append(l, e.turn) ELSE l)
      /\ card'.verdict = (IF e.type = "task_closed" THEN "loading" ELSE card.verdict)
  BY <1>1, <1>2, <1>5, OnEventIs
<1>9. /\ e = published[m + 1] /\ m + 1 \in 1..Len(published)
      /\ Said(e) => m + 1 \in Spoken /\ e.turn \in 1..hub.turn
  <2>1. e = published[m + 1] /\ m + 1 \in 1..Len(published)
    <3>1. 1 \in 1..Len(q)
      BY <1>2, <1>5
    <3> HIDE DEF m
    <3>. QED
      BY <1>4, <3>1
  <2>. QED
    BY <2>1 DEF Spoken, CountInv
<1> HIDE DEF e, m
<1>10. /\ Append(l, e.turn) \in Seq(Nat) /\ Len(Append(l, e.turn)) = k + 1
       /\ \A i \in 1..k : Append(l, e.turn)[i] = l[i]
       /\ Append(l, e.turn)[k + 1] = e.turn
  BY <1>2, <1>5
<1>11. FeedTypes'
  BY <1>1, <1>7, <1>8 DEF FeedTypes
<1>12. GaplessInv'
  BY <1>1, <1>3, <1>6, <1>7 DEF GaplessInv
<1>13. AgreeInv' /\ CountInv'
  BY <1>1 DEF AgreeInv, Summary, CountInv, Spoken
<1>14. ArchiveInv'
  <2>1. e.type = "task_closed" => hub.status = "closed"
    BY <1>9 DEF ArchiveInv
  <2>2. card'.verdict = "full" /\ card'.fresh =>
          IF card'.lines = <<>> THEN hub.turn = 0 ELSE card'.lines[1] = 1
    <3> SUFFICES ASSUME card'.verdict = "full", card'.fresh
                 PROVE  IF card'.lines = <<>> THEN hub.turn = 0 ELSE card'.lines[1] = 1
      OBVIOUS
    <3>1. card.verdict = "full" /\ (IF l = <<>> THEN hub.turn = 0 ELSE l[1] = 1)
      BY <1>8 DEF ArchiveInv
    <3>2. CASE Said(e)
      <4>1. l # <<>> /\ k > 0 /\ 1 \in 1..k
        BY <1>2, <1>9, <3>1, <3>2
      <4>2. Append(l, e.turn)[1] = 1 /\ Append(l, e.turn) # <<>>
        BY <1>2, <1>10, <3>1, <4>1
      <4>. QED
        BY <1>8, <3>2, <4>2
    <3>3. CASE ~Said(e)
      BY <1>8, <3>1, <3>3
    <3>. QED
      BY <3>2, <3>3
  <2>. QED
    BY <1>1, <1>8, <2>1, <2>2 DEF ArchiveInv
<1>15. LinesInv'
  <2>1. \A i \in 1..Len(card'.lines) : \/ i \in 1..k /\ card'.lines[i] = l[i]
                                       \/ i = k + 1 /\ Said(e) /\ card'.lines[i] = e.turn
    BY <1>2, <1>8, <1>10
  <2>2. \A i \in 1..Len(card'.lines) : card'.lines[i] \in 1..hub.turn
    BY <1>9, <2>1 DEF LinesInv
  <2>3. ASSUME card.fresh
        PROVE  /\ \A i, j \in 1..Len(card'.lines) : card'.lines[i] = card'.lines[j] => i = j
               /\ \A i \in 1..Len(card'.lines) :
                    /\ \A f \in wire : Said(f) => f.turn # card'.lines[i]
                    /\ \A j \in 1..Len(Tail(q)) : Said(Tail(q)[j]) => Tail(q)[j].turn # card'.lines[i]
    <3>1. Said(e) => \A i \in 1..k : e.turn # l[i]
      BY <1>5, <2>3 DEF LinesInv, e
    <3>2. \A i, j \in 1..Len(card'.lines) : card'.lines[i] = card'.lines[j] => i = j
      BY <2>1, <2>3, <3>1 DEF LinesInv
    <3>3. \A i \in 1..k : \A f \in wire : Said(f) => f.turn # l[i]
      BY <2>3 DEF LinesInv
    <3>4. Said(e) => \A f \in wire : Said(f) => f.turn # e.turn
      BY <1>9 DEF CountInv
    <3>5. \A j \in 1..Len(Tail(q)) : Tail(q)[j] = q[j + 1] /\ j + 1 \in 1..Len(q) /\ j + 1 # 1
      BY <1>2, <1>6
    <3>6. \A i \in 1..k : \A j \in 1..Len(Tail(q)) : Said(Tail(q)[j]) => Tail(q)[j].turn # l[i]
      BY <2>3, <3>5 DEF LinesInv
    <3>7. Said(e) => \A j \in 1..Len(Tail(q)) : Said(Tail(q)[j]) => Tail(q)[j].turn # e.turn
      <4> SUFFICES ASSUME Said(e), NEW j \in 1..Len(Tail(q)), Said(Tail(q)[j])
                   PROVE  Tail(q)[j].turn # e.turn
        OBVIOUS
      <4>1. Tail(q)[j] = published[m + (j + 1)] /\ m + (j + 1) \in 1..Len(published)
        BY <1>4, <3>5 DEF m
      <4>2. m + (j + 1) \in Spoken /\ m + (j + 1) # m + 1
        <5>1. m \in Nat
          BY <1>4 DEF m
        <5>. QED
          BY <3>5, <4>1, <5>1 DEF Spoken
      <4>. QED
        BY <1>9, <4>1, <4>2 DEF CountInv
    <3>. QED
      BY <2>1, <3>2, <3>3, <3>4, <3>6, <3>7
  <2>. QED
    BY <1>1, <1>7, <1>8, <2>2, <2>3 DEF LinesInv
<1>16. OrderInv'
  <2> SUFFICES ASSUME ~remote PROVE OrderInv'
    BY <1>1 DEF OrderInv
  <2>1. /\ wire' = {}
        /\ \A i \in 1..(Len(published) - 1) : published[i + 1].turn = published[i].turn + Step(published[i + 1])
        /\ published # <<>> => published[Len(published)].turn = hub.turn
    BY <1>1 DEF OrderInv
  <2>2. ASSUME card.fresh, card'.lines # <<>>
        PROVE  /\ card'.lines[Len(card'.lines)] = e.turn
               /\ \A i \in 1..(Len(card'.lines) - 1) : card'.lines[i + 1] = card'.lines[i] + 1
    <3>1. /\ \A i \in 1..(k - 1) : l[i + 1] = l[i] + 1
          /\ l # <<>> => e.turn = l[k] + Step(e)
      BY <1>1, <1>3, <2>2 DEF OrderInv, e
    <3>2. CASE Said(e)
      <4>1. card'.lines = Append(l, e.turn) /\ Len(card'.lines) = k + 1 /\ card'.lines[k + 1] = e.turn
        BY <1>8, <1>10, <3>2
      <4>2. ASSUME NEW i \in 1..k PROVE card'.lines[i + 1] = card'.lines[i] + 1
        <5>1. CASE i = k
          <6>1. l # <<>> /\ e.turn = l[k] + 1
            BY <1>2, <3>1, <3>2, <5>1 DEF Step
          <6>. QED
            BY <1>10, <4>1, <5>1, <6>1
        <5>2. CASE i # k
          <6>1. i \in 1..(k - 1) /\ i + 1 \in 1..k
            BY <1>2, <5>2
          <6>. QED
            BY <1>10, <3>1, <4>1, <6>1
        <5>. QED
          BY <5>1, <5>2
      <4>. QED
        BY <1>2, <4>1, <4>2
    <3>3. CASE ~Said(e)
      <4>1. card'.lines = l /\ Step(e) = 0
        BY <1>8, <3>3 DEF Step
      <4>2. l # <<>> /\ l[k] \in Nat
        BY <1>2, <2>2, <4>1
      <4>. QED
        BY <3>1, <4>1, <4>2
    <3>. QED
      BY <3>2, <3>3
  <2>3. IF Tail(q) = <<>> THEN e.turn = hub.turn ELSE Tail(q)[1].turn = e.turn + Step(Tail(q)[1])
    <3>0. m \in Nat /\ m = Len(published) - Len(q) /\ Len(published) \in Nat /\ Len(q) \in Nat
      BY <1>2, <1>4 DEF m
    <3>1. CASE Tail(q) = <<>>
      <4>1. m + 1 = Len(published) /\ published # <<>>
        <5>a. Len(q) - 1 = 0
          BY <1>6, <3>1
        <5>b. \A n \in Nat : n - 1 = 0 => n = 1
          OBVIOUS
        <5>1. Len(q) = 1
          BY <3>0, <5>a, <5>b
        <5>2. m + 1 = Len(published) /\ Len(published) > 0
          BY <3>0, <5>1
        <5>. QED
          BY <1>2, <5>2
      <4>. QED
        BY <1>9, <2>1, <3>1, <4>1
    <3>2. CASE Tail(q) # <<>>
      <4>1. Len(q) > 1 /\ Tail(q)[1] = q[2] /\ 2 \in 1..Len(q)
        BY <1>6, <3>0, <3>2
      <4>2. q[2] = published[m + 2] /\ m + 1 \in 1..(Len(published) - 1) /\ m + 2 = (m + 1) + 1
        <5>1. q[2] = published[m + 2]
          BY <1>4, <4>1 DEF m
        <5>. QED
          BY <3>0, <4>1, <5>1
      <4>3. published[m + 2].turn = published[m + 1].turn + Step(published[m + 2])
        BY <2>1, <4>2
      <4>. QED
        BY <1>9, <3>2, <4>1, <4>2, <4>3
    <3>. QED
      BY <3>1, <3>2
  <2>4. card.fresh => \A i \in 1..(Len(card'.lines) - 1) : card'.lines[i + 1] = card'.lines[i] + 1
    BY <2>2
  <2>. QED
    BY <1>1, <1>7, <1>8, <2>1, <2>2, <2>3, <2>4 DEF OrderInv
<1>. QED
  BY <1>11, <1>12, <1>13, <1>14, <1>15, <1>16

(* Every step of the feed keeps the invariant.                             *)
LEMMA FeedKept == FeedInv /\ [Feed!Next]_feedVars => FeedInv'
<1> SUFFICES ASSUME FeedInv, [Feed!Next]_feedVars PROVE FeedInv'
  OBVIOUS
<1>1. CASE Feed!InitTask
  BY <1>1, FeedInit
<1>2. CASE Feed!StartDebate
  BY <1>2, FeedStart
<1>3. CASE Feed!WriteArchive
  BY <1>3, FeedWrite
<1>4. CASE Feed!CloseTask
  BY <1>4, FeedClose
<1>5. ASSUME NEW s \in BOOLEAN, Feed!SubmitTurn(s) PROVE FeedInv'
  BY <1>5, FeedSubmit
<1>6. CASE Feed!ListTasks \/ Feed!ChooseTask \/ Feed!LoadVerdict \/ Feed!FailToLoad \/ Feed!Retry
  BY <1>6, FeedCard
<1>7. CASE Feed!Subscribe
  BY <1>7, FeedSubscribe
<1>8. CASE Feed!Receive
  BY <1>8, FeedReceive
<1>9. CASE Feed!FullTranscript
  BY <1>9, FeedFullTranscript
<1>10. CASE Feed!Disconnect
  BY <1>10, FeedDisconnect
<1>11. CASE Feed!Takeover
  BY <1>11, FeedTakeover
<1>12. ASSUME NEW e \in wire, Feed!Deliver(e) PROVE FeedInv'
  <2>1. Arrives(e)
    BY <1>12 DEF Arrives, Feed!Deliver, Feed!debate
  <2>. QED
    BY <2>1, ArriveKeeps
<1>13. ASSUME NEW e \in wire, Feed!Lose(e) PROVE FeedInv'
  <2>1. CASE Feed!Publish(<<e>>)
    <3>1. Arrives(e)
      BY <1>13, <2>1 DEF Arrives, Feed!Lose, Feed!debate
    <3>. QED
      BY <3>1, ArriveKeeps
  <2>2. CASE UNCHANGED <<log, run, published, stream, since>>
    <3>1. wire' = wire \ {e} /\ UNCHANGED <<hub, emitted, archived, remote, card>>
      BY <1>13 DEF Feed!Lose, Feed!debate
    <3>. QED
      BY <2>2, <3>1, FeedLose
  <2>3. Feed!Publish(<<e>>) \/ UNCHANGED <<log, run, published, stream, since>>
    BY <1>13 DEF Feed!Lose, Feed!bus
  <2>. QED
    BY <2>1, <2>2, <2>3
<1>15. CASE Feed!FailArchive
  BY <1>15, FeedFail
<1>14. CASE UNCHANGED feedVars
  <2>1. UNCHANGED <<hub, emitted, archived, remote, wire, log, run, published, stream, since, card>>
    BY <1>14 DEF feedVars
  <2>2. card' \in CardType
    BY <2>1 DEF FeedInv, FeedTypes
  <2>. QED
    BY <2>1, <2>2, CardKeeps
<1>. QED
  BY <1>1, <1>2, <1>3, <1>4, <1>5, <1>6, <1>7, <1>8, <1>9, <1>10, <1>11, <1>12, <1>13, <1>14, <1>15
     DEF Feed!Next, Feed!Hub, Feed!Card

(* It holds at the start.                                                  *)
LEMMA FeedBegins == Feed!Init => FeedInv
<1> SUFFICES ASSUME Feed!Init PROVE FeedInv
  OBVIOUS
<1>1. /\ hub = [status |-> "none", turn |-> 0, speaker |-> Nobody, signed |-> {}, writing |-> FALSE]
      /\ remote \in BOOLEAN
      /\ emitted = <<>> /\ wire = {} /\ log = <<>> /\ published = <<>> /\ since = 0
      /\ run = [status |-> "none", turns |-> 0, signed |-> {}, speaker |-> Nobody]
      /\ stream = [open |-> FALSE, pipe |-> <<>>]
      /\ card = [listed |-> FALSE, chosen |-> FALSE, lines |-> <<>>, turns |-> 0, spoken |-> 0,
                 stage |-> 0, speaking |-> Nobody, verdict |-> "none", fresh |-> TRUE]
      /\ archived = [turns |-> 0, result |-> "none", times |-> 0]
  BY DEF Feed!Init, Feed!NoRun, Feed!Closed, Feed!NoCard
<1>2. Nobody \in Names /\ {} \in SUBSET Names /\ "none" \in Stages
  BY DEF Names, Stages
<1>3. FeedTypes
  <2>1. hub \in [status : Stages, turn : Nat, speaker : Names, signed : SUBSET Names, writing : BOOLEAN]
    BY <1>1, <1>2
  <2>2. run \in RunType
    BY <1>1, <1>2 DEF RunType
  <2>3. card \in CardType
    BY <1>1, <1>2 DEF CardType
  <2>4. stream \in [open : BOOLEAN, pipe : Seq(Frames)]
    BY <1>1
  <2>5. archived \in [turns : Nat, result : {"none", "torn", "whole"}, times : Nat]
    BY <1>1
  <2>. QED
    BY <1>1, <2>1, <2>2, <2>3, <2>4, <2>5 DEF FeedTypes
<1>4. GaplessInv
  BY <1>1, FeedAssumption DEF GaplessInv, Ends, Kept
<1>5. AgreeInv
  BY <1>1 DEF AgreeInv, Summary
<1>6. CountInv
  <2>1. Spoken = {}
    BY <1>1 DEF Spoken
  <2>. QED
    BY <1>1, <2>1, FS_EmptySet DEF CountInv
<1>7. ArchiveInv
  BY <1>1 DEF ArchiveInv
<1>8. LinesInv
  BY <1>1 DEF LinesInv
<1>9. OrderInv
  BY <1>1 DEF OrderInv
<1>. QED
  BY <1>3, <1>4, <1>5, <1>6, <1>7, <1>8, <1>9 DEF FeedInv

(* The summary counts no more turns than the hub: the published ones are   *)
(* of different numbers.                                                   *)
LEMMA SpokenAreTurns ==
  ASSUME FeedInv PROVE run.turns <= hub.turn
<1>1. hub.turn \in Nat /\ run.turns = Cardinality(Spoken)
  BY DEF FeedInv, FeedTypes, CountInv
<1> DEFINE f == [i \in Spoken |-> published[i].turn]
<1>2. f \in [Spoken -> 1..hub.turn] /\ DOMAIN f = Spoken /\ \A i \in Spoken : f[i] = published[i].turn
  BY DEF FeedInv, CountInv
<1>3. \A i, j \in Spoken : published[i].turn = published[j].turn => i = j
  BY DEF FeedInv, CountInv
<1> HIDE DEF f
<1>4. \A i, j \in Spoken : f[i] = f[j] => i = j
  BY <1>2, <1>3
<1>5. f \in Injection(Spoken, 1..hub.turn)
  BY <1>2, <1>4 DEF Injection, IsInjective
<1>6. IsFiniteSet(1..hub.turn) /\ Cardinality(1..hub.turn) = hub.turn
  BY <1>1, FS_Interval
<1>. QED
  BY <1>1, <1>5, <1>6, FS_Injection

(* What the invariant says of the feed's properties.                       *)
LEMMA FeedHolds ==
  ASSUME FeedInv
  PROVE  Feed!FeedIsGapless /\ Feed!RunFollowsDebate /\ Feed!NoTurnTwice /\ Feed!TranscriptIsTheDebate
<1> USE DEF FeedInv
<1>1. Feed!FeedIsGapless
  <2>1. ASSUME stream.open
        PROVE  /\ stream.pipe = SubSeq(published, Len(published) - Len(stream.pipe) + 1, Len(published))
               /\ since >= (IF Len(published) < ReplayLimit THEN Len(published) ELSE ReplayLimit)
    <3>1. Ends(stream.pipe, published) /\ since >= Kept(Len(published))
      BY <2>1 DEF GaplessInv
    <3>2. stream.pipe \in Seq(Frames) /\ published \in Seq(Frames)
      BY DEF FeedTypes
    <3>. QED
      BY <3>1, <3>2, EndIsSubSeq DEF Kept
  <2>. QED
    BY <2>1 DEF Feed!FeedIsGapless
<1>2. Feed!RunFollowsDebate
  BY DEF Feed!RunFollowsDebate, AgreeInv, Summary
<1>3. card.lines \in Seq(Nat) /\ DOMAIN card.lines = 1..Len(card.lines)
  BY DEF FeedTypes, CardType
<1>4. Feed!NoTurnTwice
  BY <1>3, SpokenAreTurns DEF Feed!NoTurnTwice, LinesInv, Feed!IsInjective
<1>5. Feed!TranscriptIsTheDebate
  BY <1>3 DEF Feed!TranscriptIsTheDebate, LinesInv, OrderInv, ArchiveInv
<1>. QED
  BY <1>1, <1>2, <1>4, <1>5

(* The feed's part of the run that also checks the session and the index.  *)
LEMMA AudienceFeed == AudienceSpec => [](part = "feed" => FeedInv)
<1> DEFINE Inv == part = "feed" => FeedInv
<1>1. MCInit => Inv
  BY FeedBegins DEF MCInit
<1>2. Inv /\ [MCNext]_allVars => Inv'
  <2> SUFFICES ASSUME Inv, [MCNext]_allVars, part' = "feed" PROVE FeedInv'
    OBVIOUS
  <2>1. CASE part = "feed" /\ Feed!Next /\ UNCHANGED <<part, vars, indexVars>>
    BY <2>1, FeedKept
  <2>2. CASE UNCHANGED <<part, feedVars>>
    BY <2>2, FeedKept
  <2>3. CASE part # "feed" /\ UNCHANGED part
    BY <2>3
  <2>. QED
    BY <2>1, <2>2, <2>3 DEF MCNext, allVars
<1>. QED
  BY <1>1, <1>2, PTL DEF AudienceSpec

(* Nothing that the bus publishes is missing from an open stream or in it  *)
(* twice, and a bus that saw the whole debate agrees with the hub, for any *)
(* replay limit, any debaters, any number of breaks and lost requests      *)
(* (bus.ts:712-715, run-read-model.ts:180).                                *)
THEOREM FeedsAgree == AudienceSpec => []FeedAndRunAgree
<1>1. (part = "feed" => FeedInv) => FeedAndRunAgree
  BY FeedHolds DEF FeedAndRunAgree
<1>. QED
  BY <1>1, AudienceFeed, PTL

(* No turn is counted twice, none is shown twice on a card that was never  *)
(* cut off, and without a network between hub and bus its lines are the    *)
(* debate's turns one after the other (debate-card.ts:987, 1029).          *)
THEOREM TranscriptsAreDebates == AudienceSpec => []TranscriptIsTheDebate
<1>1. (part = "feed" => FeedInv) => TranscriptIsTheDebate
  BY FeedHolds DEF TranscriptIsTheDebate
<1>. QED
  BY <1>1, AudienceFeed, PTL
=============================================================================
