------------------------- MODULE StatusStreamProofs -------------------------
(***************************************************************************)
(* Proofs about what a page shows of its server: the rows of the status    *)
(* fold and the entries of a board; for any number of agents, records,     *)
(* boards, keys, requests and users' acts.                                 *)
(***************************************************************************)
EXTENDS MCStatusStream, SequenceTheorems, TLAPS

(* The run, without the instance's choice of names.                        *)
ViewSpec == MCInit /\ [][MCNext]_<<part, vars, boardVars>>

(* ---------------------------------------------------------------------- *)
(* The board page                                                          *)

IsView(v) == v = [f \in {"scope", "workspace", "selected", "rows", "detail"} |-> v[f]]
IsForm(x) ==
  x = [f \in {"mode", "scope", "workspace", "key", "expected", "text", "external", "conflict"} |-> x[f]]
IsRequest(r) ==
  r = [f \in {"kind", "board", "key", "expected", "text", "answer", "rows"} |-> r[f]]
BoardShape == IsView(view) /\ IsForm(form) /\ asked = [s \in Slots |-> asked[s]]

(* A request replaces just the version whose text it carries, and so it is *)
(* with what the form holds and with an entry that the pane shows whole.   *)
Paired(r) == IsRequest(r) /\ (r.kind \in {"save", "delete"} => r.text = r.expected)
PaneIsWhole == view.detail.state = "full" => view.detail.text = view.detail.ts
FormIsWhole == form.text = form.expected
BoardInv == BoardShape /\ (\A s \in Slots : Paired(asked[s])) /\ PaneIsWhole /\ FormIsWhole /\ ~unseen

(* The requests that ask for nothing to be replaced.                       *)
LEMMA HarmlessRequests ==
  /\ Paired(Board!NoRequest)
  /\ \A v : Paired(Board!ListOf(v))
  /\ \A v, k : Paired(Board!Fetch(v, k))
BY DEF Paired, IsRequest, Board!NoRequest, Board!ListOf, Board!Fetch, Board!Unset

(* Sending and settling keep the requests paired.                          *)
LEMMA SendKeeps ==
  ASSUME BoardInv, NEW r, Paired(r), NEW s \in Slots, asked' = [asked EXCEPT ![s] = r]
  PROVE  asked' = [t \in Slots |-> asked'[t]] /\ \A t \in Slots : Paired(asked'[t])
BY DEF BoardInv, BoardShape

(* Handling a request changes neither what it asks for nor anything that   *)
(* the page shows, and replaces what the request's text says.              *)
LEMMA ServeKeeps ==
  ASSUME BoardInv, NEW s \in Slots, Board!Serve(s) PROVE BoardInv'
<1> USE DEF BoardInv, BoardShape
<1> DEFINE r == asked[s]
<1>1. \E a, list : Board!Answered(s, a, list)
  BY DEF Board!Serve
<1>2. UNCHANGED <<view, form>>
  BY DEF Board!Serve
<1>3. Paired(r)
  OBVIOUS
<1>4. \A t \in Slots : Paired(asked'[t])
  BY <1>1, <1>3 DEF Paired, IsRequest, Board!Answered
<1>5. asked' = [t \in Slots |-> asked'[t]]
  BY <1>1 DEF Board!Answered
<1>6. ~unseen'
  <2>1. CASE UNCHANGED unseen
    BY <2>1
  <2>2. CASE r.kind \in {"save", "delete"} /\ Board!Matches(r)
             /\ unseen' = (unseen \/ r.text # store[r.board][r.key])
    BY <1>3, <2>2 DEF Paired, Board!Matches
  <2>. QED
    BY <2>1, <2>2 DEF Board!Serve
<1>. QED
  BY <1>2, <1>4, <1>5, <1>6 DEF PaneIsWhole, FormIsWhole

(* An answer that arrives shows versions with their own texts.             *)
LEMMA ArriveKeeps ==
  ASSUME BoardInv, NEW s \in Slots, Board!Arrive(s) PROVE BoardInv'
<1> USE DEF BoardInv, BoardShape
<1>1. ASSUME Board!ListArrives(s) PROVE BoardInv'
  <2>1. \/ /\ \E list : view' = [view EXCEPT !.rows = list, !.selected = Board!Unset, !.detail = Board!NoDetail]
           /\ asked' = [asked EXCEPT ![s] = Board!NoRequest]
        \/ \E k, list :
             /\ view' = Board!Looking([view EXCEPT !.rows = list], k)
             /\ asked' = [asked EXCEPT ![s] = Board!Fetch(view, k)]
    BY <1>1 DEF Board!ListArrives, Board!RenderList
  <2>2. /\ asked' = [t \in Slots |-> asked'[t]] /\ \A t \in Slots : Paired(asked'[t])
    BY <2>1, HarmlessRequests, SendKeeps
  <2>3. IsView(view') /\ view'.detail.state # "full"
    <3>1. ASSUME NEW list,
                 view' = [view EXCEPT !.rows = list, !.selected = Board!Unset, !.detail = Board!NoDetail]
          PROVE  IsView(view') /\ view'.detail.state # "full"
      BY <3>1 DEF IsView, Board!NoDetail, Board!Unset
    <3>2. ASSUME NEW list, NEW k, view' = Board!Looking([view EXCEPT !.rows = list], k)
          PROVE  IsView(view') /\ view'.detail.state # "full"
      BY <3>2 DEF IsView, Board!Looking, Board!NoDetail, Board!Unset
    <3>. QED
      BY <2>1, <3>1, <3>2
  <2>. QED
    BY <1>1, <2>2, <2>3 DEF Board!ListArrives, PaneIsWhole, FormIsWhole
<1>2. ASSUME Board!DetailArrives(s) PROVE BoardInv'
  <2>1. \A t \in Slots : Paired(asked'[t])
    BY <1>2, HarmlessRequests, SendKeeps DEF Board!DetailArrives, Board!Settle
  <2>2. IsView(view') /\ PaneIsWhole'
    BY <1>2 DEF Board!DetailArrives, Board!RenderDetail, IsView, PaneIsWhole
  <2>. QED
    BY <1>2, <2>1, <2>2 DEF Board!DetailArrives, Board!Settle, FormIsWhole
<1>3. ASSUME Board!SaveArrives(s) PROVE BoardInv'
  <2>1. \A t \in Slots : Paired(asked'[t])
    BY <1>3, HarmlessRequests, SendKeeps DEF Board!SaveArrives, Board!Settle
  <2>2. asked' = [t \in Slots |-> asked'[t]]
    BY <1>3 DEF Board!SaveArrives, Board!Settle
  <2>3. IsView(view') /\ PaneIsWhole'
    BY <1>3 DEF Board!SaveArrives, IsView, PaneIsWhole
  <2>4. IsForm(form') /\ FormIsWhole'
    BY <1>3 DEF Board!SaveArrives, Board!NoForm, IsForm, FormIsWhole
  <2>. QED
    BY <1>3, <2>1, <2>2, <2>3, <2>4 DEF Board!SaveArrives
<1>4. ASSUME Board!DeleteArrives(s) PROVE BoardInv'
  <2>1. \A t \in Slots : Paired(asked'[t])
    BY <1>4, HarmlessRequests, SendKeeps DEF Board!DeleteArrives, Board!Settle
  <2>2. asked' = [t \in Slots |-> asked'[t]]
    BY <1>4 DEF Board!DeleteArrives, Board!Settle
  <2>3. IsView(view') /\ PaneIsWhole'
    BY <1>4 DEF Board!DeleteArrives, IsView, PaneIsWhole
  <2>. QED
    BY <1>4, <2>1, <2>2, <2>3 DEF Board!DeleteArrives, FormIsWhole
<1>5. ASSUME Board!ReloadArrives(s) PROVE BoardInv'
  <2>1. \A t \in Slots : Paired(asked'[t])
    BY <1>5, HarmlessRequests, SendKeeps DEF Board!ReloadArrives, Board!Settle
  <2>2. IsForm(form') /\ FormIsWhole'
    BY <1>5 DEF Board!ReloadArrives, IsForm, FormIsWhole
  <2>. QED
    BY <1>5, <2>1, <2>2 DEF Board!ReloadArrives, Board!Settle, PaneIsWhole
<1>. QED
  BY <1>1, <1>2, <1>3, <1>4, <1>5 DEF Board!Arrive

(* What the user does: a form is filled from the pane, a request from the  *)
(* form or the pane.                                                       *)
LEMMA UserKeeps ==
  ASSUME BoardInv, Board!User PROVE BoardInv'
<1> USE DEF BoardInv, BoardShape
<1>1. ASSUME NEW r, Paired(r), Board!Send(r)
      PROVE  asked' = [t \in Slots |-> asked'[t]] /\ \A t \in Slots : Paired(asked'[t])
  BY <1>1, SendKeeps DEF Board!Send
<1>2. CASE Board!ChangeScope
  <2>1. IsView(view') /\ PaneIsWhole'
    BY <1>2 DEF Board!ChangeScope, IsView, PaneIsWhole
  <2>. QED
    BY <1>1, <1>2, <2>1, HarmlessRequests DEF Board!ChangeScope, FormIsWhole
<1>3. ASSUME NEW w \in Workspaces, Board!ApplyWorkspace(w) PROVE BoardInv'
  <2>1. IsView(view') /\ PaneIsWhole'
    BY <1>3 DEF Board!ApplyWorkspace, IsView, PaneIsWhole
  <2>. QED
    BY <1>1, <1>3, <2>1, HarmlessRequests DEF Board!ApplyWorkspace, FormIsWhole
<1>4. ASSUME NEW k \in Keys, Board!Select(k) PROVE BoardInv'
  <2>1. IsView(view') /\ PaneIsWhole'
    BY <1>4 DEF Board!Select, Board!Looking, Board!NoDetail, IsView, PaneIsWhole
  <2>. QED
    BY <1>1, <1>4, <2>1, HarmlessRequests DEF Board!Select, FormIsWhole
<1>5. CASE Board!OpenForm
  <2>1. IsForm(form') /\ FormIsWhole'
    BY <1>5 DEF Board!OpenForm, Board!NoForm, IsForm, FormIsWhole, PaneIsWhole
  <2>. QED
    BY <1>5, <2>1 DEF Board!OpenForm, PaneIsWhole
<1>6. CASE Board!CloseForm
  BY <1>6 DEF Board!CloseForm, Board!NoForm, IsForm, FormIsWhole, PaneIsWhole
<1>7. CASE Board!Save
  <2>1. PICK b, k :
          Board!Send([Board!NoRequest EXCEPT !.kind = "save", !.board = b, !.key = k,
                                             !.expected = form.expected, !.text = form.text])
    BY <1>7 DEF Board!Save
  <2>2. Paired([Board!NoRequest EXCEPT !.kind = "save", !.board = b, !.key = k,
                                       !.expected = form.expected, !.text = form.text])
    BY DEF Paired, IsRequest, Board!NoRequest, FormIsWhole
  <2>. QED
    BY <1>1, <1>7, <2>1, <2>2 DEF Board!Save, FormIsWhole, PaneIsWhole
<1>8. CASE Board!Reload
  <2>1. PICK b, k : Board!Send([Board!NoRequest EXCEPT !.kind = "reload", !.board = b, !.key = k])
    BY <1>8 DEF Board!Reload
  <2>2. Paired([Board!NoRequest EXCEPT !.kind = "reload", !.board = b, !.key = k])
    BY DEF Paired, IsRequest, Board!NoRequest
  <2>. QED
    BY <1>1, <1>8, <2>1, <2>2 DEF Board!Reload, FormIsWhole, PaneIsWhole
<1>9. CASE Board!DeleteEntry
  <2>1. /\ view.detail.state = "full"
        /\ \E b, k : Board!Send([Board!NoRequest EXCEPT !.kind = "delete", !.board = b, !.key = k,
                                    !.expected = view.detail.ts, !.text = view.detail.text])
    BY <1>9 DEF Board!DeleteEntry
  <2>2. ASSUME NEW b, NEW k
        PROVE  Paired([Board!NoRequest EXCEPT !.kind = "delete", !.board = b, !.key = k,
                                    !.expected = view.detail.ts, !.text = view.detail.text])
    BY <2>1 DEF Paired, IsRequest, Board!NoRequest, PaneIsWhole
  <2>. QED
    BY <1>1, <1>9, <2>1, <2>2 DEF Board!DeleteEntry, FormIsWhole, PaneIsWhole
<1>. QED
  BY <1>2, <1>3, <1>4, <1>5, <1>6, <1>7, <1>8, <1>9 DEF Board!User

(* Every step of the page and of the agents.                               *)
LEMMA BoardStep ==
  ASSUME BoardInv, [Board!Next]_boardVars PROVE BoardInv'
<1> USE DEF BoardInv, BoardShape, FormIsWhole, PaneIsWhole
<1>1. ASSUME UNCHANGED <<view, form, asked, unseen>> PROVE BoardInv'
  BY <1>1
<1>2. ASSUME NEW b, NEW k, Board!AgentWrites(b, k) \/ Board!AgentDeletes(b, k) PROVE BoardInv'
  BY <1>1, <1>2 DEF Board!AgentWrites, Board!AgentDeletes
<1>3. ASSUME NEW s \in Slots, Board!Fail(s) PROVE BoardInv'
  BY <1>3, HarmlessRequests, SendKeeps DEF Board!Fail, Board!Settle
<1>4. CASE Board!EventArrives
  <2>1. IsForm(form') /\ form'.text = form'.expected
    BY <1>4 DEF Board!EventArrives, Board!Warned, IsForm
  <2>. QED
    BY <1>4, <2>1 DEF Board!EventArrives
<1>5. CASE Board!Refresh
  BY <1>5, HarmlessRequests, SendKeeps DEF Board!Refresh, Board!Send
<1>6. CASE UNCHANGED boardVars
  BY <1>1, <1>6 DEF boardVars
<1>. QED
  BY <1>2, <1>3, <1>4, <1>5, <1>6, ServeKeeps, ArriveKeeps, UserKeeps DEF Board!Next

(* A save or a deletion from the page replaces the version whose text its  *)
(* form or the pane showed, whatever was written, selected, closed or      *)
(* reloaded since (pages/board.ts:106-110, 214; control-plane.ts:1163).    *)
THEOREM OnlyTheSeenIsReplaced == ViewSpec => []NothingUnseenIsReplaced
<1>1. MCInit => (part = "board" => BoardInv)
  <2>1. ASSUME Board!Init PROVE BoardInv
    <3>1. IsView(view) /\ view.detail.state # "full" /\ form = Board!NoForm /\ ~unseen
      BY <2>1 DEF Board!Init, IsView, Board!NoDetail, Board!Unset
    <3>2. asked = [s \in Slots |-> asked[s]] /\ \A s \in Slots : Paired(asked[s])
      BY <2>1, HarmlessRequests DEF Board!Init
    <3>. QED
      BY <3>1, <3>2 DEF BoardInv, BoardShape, PaneIsWhole, FormIsWhole, IsForm, Board!NoForm
  <2>. QED
    BY <2>1 DEF MCInit
<1>2. (part = "board" => BoardInv) /\ [MCNext]_<<part, vars, boardVars>> => (part = "board" => BoardInv)'
  BY BoardStep DEF MCNext
<1>3. (part = "board" => BoardInv) => NothingUnseenIsReplaced
  BY DEF BoardInv, NothingUnseenIsReplaced, Board!NothingUnseenIsReplaced
<1>. QED
  BY <1>1, <1>2, <1>3, PTL DEF ViewSpec

(* ---------------------------------------------------------------------- *)
(* The status stream: types                                                *)

RecordType == [busy : BOOLEAN, at : Nat]

StreamTypes ==
  /\ now \in Nat /\ wire \in [Agents -> Seq(RecordType)]
  /\ meta \in [ver : Nat, at : Nat, torn : BOOLEAN]
  /\ tail \in [Agents -> TailType \cup {None}]
  /\ scan \in [phase : {"idle", "tails", "read"}, todo : SUBSET Agents]
  /\ pump \in [todo : SUBSET Agents, at : Agents \cup {None}]
  /\ stateKey \in KeyType \cup {None}
  /\ fold \in [Agents -> RowType \cup {None}] /\ sess \in Nat \cup {None}
  /\ dirty \in SUBSET Agents /\ missed \in SUBSET Agents
  /\ conn = [open |-> conn.open, late |-> conn.late] /\ conn.open \in BOOLEAN
  /\ page = [a \in Agents |-> page[a]]
  /\ folded \in Nat /\ due \in [Agents -> Nat]

(* The pump goes to agents that have a tail.                               *)
Pumped == \A a \in Agents : a \in pump.todo \/ a = pump.at => tail[a] # None

(* The engine's clock only goes forward.                                   *)
Timed ==
  \A a \in Agents : \A i, j \in 1..Len(wire[a]) : i <= j => wire[a][i].at <= wire[a][j].at
Past == \A a \in Agents : \A i \in 1..Len(wire[a]) : wire[a][i].at <= now

(* What was read was there, and a file does not become empty again.        *)
Read == \A a \in Agents : tail[a] # None /\ tail[a].off > 0 => wire[a] # <<>>

StreamBase == StreamTypes /\ Pumped /\ Timed /\ Past /\ Read

(* The newest of some times, when one of them is.                          *)
LEMMA NewestTime ==
  ASSUME NEW S \in SUBSET Nat, NEW m \in S, \A y \in S : m >= y
  PROVE  Max(S) \in S /\ \A y \in S : Max(S) >= y
BY DEF Max

(* The newest of a time and those of some records that are in order.       *)
LEMMA NewestRecord ==
  ASSUME NEW s \in Seq(RecordType), NEW x \in Nat,
         \A i, j \in 1..Len(s) : i <= j => s[i].at <= s[j].at
  PROVE  LET m == Max({x} \cup {r.at : r \in Range(s)})
         IN  /\ m \in Nat /\ m >= x
             /\ \A i \in 1..Len(s) : m >= s[i].at
             /\ m = x \/ \E i \in 1..Len(s) : m = s[i].at
<1> DEFINE S == {x} \cup {r.at : r \in Range(s)}
           m == Max(S)
<1>1. \A i \in 1..Len(s) : s[i] \in RecordType /\ s[i].at \in Nat
  <2>1. \A i \in 1..Len(s) : s[i] \in RecordType
    OBVIOUS
  <2>. QED
    BY <2>1 DEF RecordType
<1>2. S = {x} \cup {s[i].at : i \in 1..Len(s)}
  BY DEF Range
<1>3. S \in SUBSET Nat
  BY <1>1, <1>2
<1>4. \E y \in S : \A z \in S : y >= z
  <2>1. CASE Len(s) = 0
    <3>1. x \in S /\ \A z \in S : x >= z
      BY <1>2, <2>1
    <3>. QED
      BY <3>1
  <2>2. CASE Len(s) # 0
    <3>1. Len(s) \in 1..Len(s)
      BY <2>2
    <3>2. \A i \in 1..Len(s) : s[i].at <= s[Len(s)].at
      BY <3>1
    <3>3. CASE x >= s[Len(s)].at
      <4>1. \A i \in 1..Len(s) : x >= s[i].at
        BY <1>1, <3>1, <3>2, <3>3
      <4>2. ASSUME NEW z \in S PROVE x >= z
        <5>1. z = x \/ \E i \in 1..Len(s) : z = s[i].at
          BY <1>2
        <5>. QED
          BY <4>1, <5>1
      <4>. QED
        BY <4>2
    <3>4. CASE s[Len(s)].at >= x
      <4>1. s[Len(s)].at \in S /\ \A z \in S : s[Len(s)].at >= z
        BY <1>1, <1>2, <3>1, <3>2, <3>4
      <4>. QED
        BY <4>1
    <3>5. x >= s[Len(s)].at \/ s[Len(s)].at >= x
      BY <1>1, <3>1
    <3>. QED
      BY <3>3, <3>4, <3>5
  <2>. QED
    BY <2>1, <2>2
<1>5. m \in S /\ \A y \in S : m >= y
  BY <1>3, <1>4, NewestTime
<1>. QED
  BY <1>2, <1>3, <1>5

(* A chunk is what stands there.                                           *)
LEMMA ChunkIs ==
  ASSUME NEW w \in Seq(RecordType), NEW o \in Nat, NEW n \in Nat, n > 0, o + n <= Len(w)
  PROVE  LET s == SubSeq(w, o + 1, o + n)
         IN  s \in Seq(RecordType) /\ Len(s) = n /\ \A i \in 1..n : s[i] = w[o + i]
<1>1. \A i \in (o + 1)..(o + n) : w[i] \in RecordType
  OBVIOUS
<1>2. /\ SubSeq(w, o + 1, o + n) \in Seq(RecordType)
      /\ Len(SubSeq(w, o + 1, o + n)) = (o + n) - (o + 1) + 1
      /\ \A i \in 1 .. (o + n) - (o + 1) + 1 : SubSeq(w, o + 1, o + n)[i] = w[o + 1 + i - 1]
  BY <1>1, SubSeqProperties
<1>3. (o + n) - (o + 1) + 1 = n /\ \A i \in 1..n : o + 1 + i - 1 = o + i
  OBVIOUS
<1>. QED
  BY <1>2, <1>3

(* Reading a chunk: the row exists afterwards and has been seen at the     *)
(* latest of the records, and no other row changes.                        *)
LEMMA ChunkFolds ==
  ASSUME StreamBase, NEW a \in Agents, NEW o \in Nat, NEW n \in Nat, n > 0, o + n <= Len(wire[a]),
         fold' = ApplyWire(fold, a, SubSeq(wire[a], o + 1, o + n))
  PROVE  /\ fold' \in [Agents -> RowType \cup {None}] /\ fold'[a] \in RowType
         /\ \A b \in Agents \ {a} : fold'[b] = fold[b]
         /\ fold[a] # None => fold'[a].seen >= fold[a].seen
         /\ fold'[a].seen >= wire[a][o + n].at
<1> DEFINE s == SubSeq(wire[a], o + 1, o + n)
           e == Ensure(fold[a], s[1].at)
<1>1. /\ wire[a] \in Seq(RecordType) /\ fold \in [Agents -> RowType \cup {None}]
      /\ \A i, j \in 1..Len(wire[a]) : i <= j => wire[a][i].at <= wire[a][j].at
  BY DEF StreamBase, StreamTypes, Timed
<1>2. s \in Seq(RecordType) /\ Len(s) = n /\ \A i \in 1..n : s[i] = wire[a][o + i]
  BY <1>1, ChunkIs
<1>3. \A i, j \in 1..Len(s) : i <= j => s[i].at <= s[j].at
  <2> HIDE DEF s
  <2>1. \A i \in 1..n : o + i \in 1..Len(wire[a])
    BY <1>1
  <2>. QED
    BY <1>1, <1>2, <2>1
<1>4. s[1] \in RecordType /\ s[n] \in RecordType /\ s[n] = wire[a][o + n]
  <2> HIDE DEF s
  <2>. QED
    BY <1>2
<1>5. e \in RowType /\ (fold[a] # None => e = fold[a])
  <2> HIDE DEF s
  <2>1. s[1].at \in Nat
    BY <1>4 DEF RecordType
  <2>. QED
    BY <1>1, <2>1 DEF Ensure, RowType
<1> DEFINE m == Max({e.seen} \cup {r.at : r \in Range(s)})
<1>6. m \in Nat /\ m >= e.seen /\ m >= s[n].at
  <2> HIDE DEF s, e
  <2>1. e.seen \in Nat
    BY <1>5 DEF RowType
  <2>2. m \in Nat /\ m >= e.seen /\ \A i \in 1..Len(s) : m >= s[i].at
    BY <1>2, <1>3, <2>1, NewestRecord DEF m
  <2>3. n \in 1..Len(s)
    BY <1>2
  <2>. QED
    BY <2>2, <2>3
<1>7. Last(s) = s[n] /\ s[n].busy \in BOOLEAN
  <2> HIDE DEF s
  <2>. QED
    BY <1>2, <1>4 DEF Last, RecordType
<1>8. fold' = [fold EXCEPT ![a] = [e EXCEPT !.seen = m, !.busy = IF OmkcOwns(e) THEN e.busy ELSE s[n].busy]]
  BY <1>7 DEF ApplyWire
<1> HIDE DEF s, e, m
<1>9. [e EXCEPT !.seen = m, !.busy = IF OmkcOwns(e) THEN e.busy ELSE s[n].busy] \in RowType
  BY <1>5, <1>6, <1>7 DEF RowType
<1>. QED
  BY <1>1, <1>4, <1>5, <1>6, <1>8, <1>9 DEF RowType

(* Registering or measuring a tail keeps what is owed a time: the one      *)
(* before or that of a record that is still to be read.                    *)
LEMMA SizedTo ==
  ASSUME StreamBase, NEW a \in Agents, Sized(a), tail'[a].off \in Nat
  PROVE  /\ due' \in [Agents -> Nat] /\ \A b \in Agents \ {a} : due'[b] = due[b]
         /\ \/ due'[a] = due[a]
            \/ \E i \in 1..Len(wire[a]) : tail'[a].off < i /\ due'[a] = wire[a][i].at
<1>0. PICK o \in Nat : o = tail'[a].off
  OBVIOUS
<1> DEFINE s == SubSeq(wire[a], o + 1, Len(wire[a]))
           m == Max({due[a]} \cup {r.at : r \in Range(s)})
<1>1. /\ wire[a] \in Seq(RecordType) /\ due \in [Agents -> Nat] /\ due[a] \in Nat
      /\ \A i, j \in 1..Len(wire[a]) : i <= j => wire[a][i].at <= wire[a][j].at
  BY DEF StreamBase, StreamTypes, Timed
<1>2. due' = [due EXCEPT ![a] = m]
  BY <1>0 DEF Sized
<1>3. CASE Len(wire[a]) > o
  <2>1. PICK n \in Nat : n > 0 /\ o + n = Len(wire[a])
    <3>1. Len(wire[a]) - o \in Nat /\ Len(wire[a]) - o > 0 /\ o + (Len(wire[a]) - o) = Len(wire[a])
      BY <1>1, <1>3
    <3>. QED
      BY <3>1
  <2>2. s \in Seq(RecordType) /\ Len(s) = n /\ \A i \in 1..n : s[i] = wire[a][o + i]
    <3>1. s = SubSeq(wire[a], o + 1, o + n)
      BY <2>1
    <3>2. wire[a] \in Seq(RecordType)
      BY <1>1
    <3>3. o + n <= Len(wire[a])
      BY <2>1
    <3> DEFINE w == wire[a]
               t == SubSeq(w, o + 1, o + n)
    <3>4. t \in Seq(RecordType) /\ Len(t) = n /\ \A i \in 1..n : t[i] = w[o + i]
      <4> HIDE DEF s, m
      <4>. QED
        BY <2>1, <3>2, <3>3, ChunkIs
    <3>. QED
      BY <3>1, <3>4
  <2>3. \A i \in 1..n : o + i \in 1..Len(wire[a]) /\ o < o + i
    BY <1>1, <2>1
  <2>4. \A i, j \in 1..Len(s) : i <= j => s[i].at <= s[j].at
    <3> HIDE DEF s
    <3>. QED
      BY <1>1, <2>1, <2>2, <2>3
  <2>5. m \in Nat /\ (m = due[a] \/ \E i \in 1..Len(s) : m = s[i].at)
    <3> HIDE DEF s
    <3>. QED
      BY <1>1, <2>2, <2>4, NewestRecord DEF m
  <2> HIDE DEF m, s
  <2>. QED
    BY <1>0, <1>1, <1>2, <2>2, <2>3, <2>5
<1>4. CASE ~(Len(wire[a]) > o)
  <2>1. s = <<>>
    BY <1>1, <1>4, SubSeqEmpty
  <2>2. {due[a]} \cup {r.at : r \in Range(s)} = {due[a]}
    BY <2>1 DEF Range
  <2>3. m = due[a]
    <3>1. Max({due[a]}) \in {due[a]}
      BY <1>1, NewestTime
    <3>. QED
      BY <2>2, <3>1
  <2> HIDE DEF m
  <2>. QED
    BY <1>1, <1>2, <2>3
<1>. QED
  BY <1>3, <1>4

(* The fold keeps its rows well typed, and seen times do not go back.      *)
LEMMA OmkcFolds ==
  ASSUME StreamBase, NEW a \in Agents, NEW b \in BOOLEAN, fold' = ApplyOmkcEvent(fold, a, b)
  PROVE  /\ fold' \in [Agents -> RowType \cup {None}] /\ fold'[a] \in RowType
         /\ \A c \in Agents \ {a} : fold'[c] = fold[c]
         /\ fold[a] # None => fold'[a].seen >= fold[a].seen
<1> DEFINE e == Ensure(fold[a], now)
<1>1. now \in Nat /\ fold \in [Agents -> RowType \cup {None}]
  BY DEF StreamBase, StreamTypes
<1>2. e \in RowType /\ (fold[a] # None => e = fold[a])
  BY <1>1 DEF Ensure, RowType
<1>3. fold' = [fold EXCEPT ![a] = [e EXCEPT !.busy = b, !.seen = Later(e.seen, now), !.omkc = now]]
  BY DEF ApplyOmkcEvent
<1>4. e.seen \in Nat /\ Later(e.seen, now) \in Nat /\ Later(e.seen, now) >= e.seen
  BY <1>1, <1>2 DEF Later, RowType
<1> HIDE DEF e
<1>5. [e EXCEPT !.busy = b, !.seen = Later(e.seen, now), !.omkc = now] \in RowType
  BY <1>1, <1>2, <1>4 DEF RowType
<1>. QED
  BY <1>1, <1>2, <1>3, <1>4, <1>5 DEF RowType

(* The agents table makes a row of every agent, and seen times do not      *)
(* go back.                                                                *)
LEMMA StateFolds ==
  ASSUME StreamBase, NEW ts \in Nat, fold' = ApplySessionState(fold, ts)
  PROVE  /\ fold' \in [Agents -> RowType]
         /\ \A a \in Agents : fold[a] # None => fold'[a].seen >= fold[a].seen
<1> USE StreamAssumption
<1>1. fold \in [Agents -> RowType \cup {None}]
  BY DEF StreamBase, StreamTypes
<1>2. ASSUME NEW a \in Agents
      PROVE  fold'[a] \in RowType /\ (fold[a] # None => fold'[a].seen >= fold[a].seen)
  <2> DEFINE e == Ensure(fold[a], ts)
  <2>1. e \in RowType /\ (fold[a] # None => e = fold[a])
    BY <1>1 DEF Ensure, RowType
  <2>2. fold'[a] = [e EXCEPT !.parent = Parent[a], !.seen = IF OmkcOwns(e) THEN e.seen ELSE Later(e.seen, ts)]
    BY DEF ApplySessionState
  <2> DEFINE t == IF OmkcOwns(e) THEN e.seen ELSE Later(e.seen, ts)
  <2>3. t \in Nat /\ t >= e.seen
    BY <2>1 DEF Later, RowType
  <2> HIDE DEF e, t
  <2>4. [e EXCEPT !.parent = Parent[a], !.seen = t] \in RowType
    BY <2>1, <2>3 DEF RowType
  <2>5. [e EXCEPT !.parent = Parent[a], !.seen = t].seen = t
    BY <2>1 DEF RowType
  <2>. QED
    BY <2>1, <2>2, <2>3, <2>4, <2>5 DEF t
<1>3. fold' = [a \in Agents |-> fold'[a]]
  BY DEF ApplySessionState
<1>. QED
  BY <1>2, <1>3

(* Marks and frames concern agents, and change neither rows nor tails.     *)
LEMMA MarkTypes ==
  ASSUME StreamBase, NEW K \in SUBSET Agents, Mark(K)
  PROVE  dirty' \in SUBSET Agents /\ missed' \in SUBSET Agents
BY DEF StreamBase, StreamTypes, Mark

ClientTypes ==
  /\ conn = [open |-> conn.open, late |-> conn.late] /\ conn.open \in BOOLEAN
  /\ page = [a \in Agents |-> page[a]]

(* What a client is after frames, a hang-up or nothing.                    *)
LEMMA FrameTypes ==
  ASSUME StreamBase, NEW K, NEW f, SendFrames(K, f) \/ Hangup \/ UNCHANGED client
  PROVE  ClientTypes'
<1>1. ClientTypes
  BY DEF StreamBase, StreamTypes, ClientTypes
<1>2. CASE Hangup
  BY <1>2 DEF Hangup, Blank, ClientTypes
<1>3. CASE UNCHANGED client
  BY <1>1, <1>3 DEF client, ClientTypes
<1>4. ASSUME conn' = [conn EXCEPT !.late = @ + Cardinality(K)],
             page' = [a \in Agents |-> IF a \in K THEN View(f, a) ELSE page[a]]
      PROVE  ClientTypes'
  BY <1>1, <1>4 DEF ClientTypes
<1>. QED
  BY <1>2, <1>3, <1>4 DEF SendFrames

(* Appending to a sequence of records.                                     *)
LEMMA AppendIs ==
  ASSUME NEW w \in Seq(RecordType), NEW r \in RecordType
  PROVE  /\ Append(w, r) \in Seq(RecordType) /\ Len(Append(w, r)) = Len(w) + 1
         /\ \A i \in 1..Len(Append(w, r)) :
              Append(w, r)[i] = IF i \in 1..Len(w) THEN w[i] ELSE r
OBVIOUS

(* The engine's own steps.                                                 *)
LEMMA EngineKeepsBase ==
  ASSUME StreamBase, Engine PROVE StreamBase'
<1> USE DEF StreamBase
<1>1. ASSUME NEW a \in Agents, AppendRecord(a) PROVE StreamBase'
  <2>1. PICK r \in RecordType : r.at = now /\ wire' = [wire EXCEPT ![a] = Append(wire[a], r)]
    <3>1. [busy |-> Len(wire[a]) % 2 = 0, at |-> now] \in RecordType
      BY DEF RecordType, StreamTypes
    <3>. QED
      BY <1>1, <3>1 DEF AppendRecord
  <2>2. wire \in [Agents -> Seq(RecordType)] /\ wire[a] \in Seq(RecordType) /\ Len(wire[a]) \in Nat
    BY DEF StreamTypes
  <2>3. /\ wire'[a] \in Seq(RecordType) /\ Len(wire'[a]) = Len(wire[a]) + 1
        /\ \A i \in 1..Len(wire'[a]) : wire'[a][i] = IF i \in 1..Len(wire[a]) THEN wire[a][i] ELSE r
    BY <2>1, <2>2, AppendIs
  <2>4. wire' \in [Agents -> Seq(RecordType)] /\ \A b \in Agents \ {a} : wire'[b] = wire[b]
    BY <2>1, <2>2, <2>3
  <2>5. \A i \in 1..Len(wire'[a]) : wire'[a][i].at = IF i \in 1..Len(wire[a]) THEN wire[a][i].at ELSE now
    BY <2>1, <2>3
  <2>6. \A i \in 1..Len(wire[a]) : wire[a][i].at <= now
    BY DEF Past
  <2>7. now \in Nat /\ now' = now
    BY <1>1 DEF AppendRecord, StreamTypes
  <2>8. \A i \in 1..Len(wire'[a]) : wire'[a][i].at <= now
    BY <2>5, <2>6, <2>7
  <2>9. Past'
    BY <2>4, <2>7, <2>8 DEF Past
  <2>10. Timed'
    <3>1. ASSUME NEW i \in 1..Len(wire'[a]), NEW j \in 1..Len(wire'[a]), i <= j
          PROVE  wire'[a][i].at <= wire'[a][j].at
      <4>1. CASE j \in 1..Len(wire[a])
        <5>1. i \in 1..Len(wire[a])
          BY <2>2, <2>3, <3>1, <4>1
        <5>. QED
          BY <2>5, <3>1, <4>1, <5>1 DEF Timed
      <4>2. CASE j \notin 1..Len(wire[a])
        BY <2>5, <2>8, <4>2
      <4>. QED
        BY <4>1, <4>2
    <3>. QED
      BY <2>4, <3>1 DEF Timed
  <2>11. Read'
    BY <1>1, <2>2, <2>3, <2>4 DEF Read, AppendRecord, watch
  <2>. QED
    BY <1>1, <2>4, <2>9, <2>10, <2>11 DEF AppendRecord, watch, rows, client, Pumped, StreamTypes
<1>2. ASSUME NEW a \in Agents, Truncate(a) PROVE StreamBase'
  <2>1. /\ wire \in [Agents -> Seq(RecordType)] /\ wire[a] \in Seq(RecordType) /\ tail[a] \in TailType
        /\ wire[a] # <<>>
    BY <1>2 DEF Truncate, Read, StreamTypes, TailType
  <2>2. Len(wire[a]) \in 1..Len(wire[a]) /\ Last(wire[a]) = wire[a][Len(wire[a])]
    BY <2>1 DEF Last
  <2>3. Last(wire[a]) \in RecordType /\ Last(wire[a]).at <= now
    BY <2>1, <2>2 DEF Past
  <2>4. wire' = [wire EXCEPT ![a] = <<Last(wire[a])>>]
    BY <1>2 DEF Truncate
  <2>5. wire' \in [Agents -> Seq(RecordType)] /\ \A b \in Agents \ {a} : wire'[b] = wire[b]
    BY <2>1, <2>3, <2>4
  <2>6. /\ Len(wire'[a]) = 1 /\ wire'[a][1] = Last(wire[a]) /\ Last(wire[a]).at \in Nat
        /\ now' = now
    BY <1>2, <2>1, <2>3, <2>4 DEF Truncate, RecordType
  <2>7. \A i \in 1..Len(wire'[a]) : i = 1 /\ wire'[a][i].at = Last(wire[a]).at
    BY <2>6
  <2>8. Timed' /\ Past'
    <3>1. Past'
      BY <2>3, <2>5, <2>6, <2>7 DEF Past
    <3>2. \A i, j \in 1..Len(wire'[a]) : i <= j => wire'[a][i].at <= wire'[a][j].at
      BY <2>6, <2>7
    <3>3. Timed'
      BY <2>5, <3>2 DEF Timed
    <3>. QED
      BY <3>1, <3>3
  <2>9. due' \in [Agents -> Nat]
    BY <1>2 DEF Truncate, StreamTypes
  <2>10. Read'
    BY <1>2, <2>5, <2>6 DEF Read, Truncate, watch
  <2>. QED
    BY <1>2, <2>5, <2>8, <2>9, <2>10 DEF Truncate, watch, rows, client, Pumped, StreamTypes
<1>3. CASE BeginWrite
  BY <1>3 DEF BeginWrite, watch, rows, client, Pumped, Timed, Past, Read, StreamTypes
<1>4. CASE EndWrite
  BY <1>4 DEF EndWrite, watch, rows, client, Pumped, Timed, Past, Read, StreamTypes
<1>. QED
  BY <1>1, <1>2, <1>3, <1>4 DEF Engine

(* The passing of time.                                                    *)
LEMMA TickKeepsBase ==
  ASSUME StreamBase, Tick PROVE StreamBase'
<1> USE DEF StreamBase
<1>1. now \in Nat /\ now' \in Nat /\ now < now'
      /\ UNCHANGED <<wire, meta, watch, rows, client, folded, missed, due>>
  BY DEF Tick, StreamTypes
<1>2. ASSUME NEW a \in Agents, NEW i \in 1..Len(wire[a]) PROVE wire[a][i].at <= now'
  <2>1. wire[a] \in Seq(RecordType)
    BY DEF StreamTypes
  <2>2. wire[a][i] \in RecordType
    BY <2>1
  <2>3. wire[a][i].at \in Nat /\ wire[a][i].at <= now
    BY <2>2 DEF Past, RecordType
  <2>. QED
    BY <1>1, <2>3
<1>3. Past'
  BY <1>1, <1>2 DEF Past
<1>. QED
  BY <1>1, <1>3 DEF watch, rows, client, Pumped, Timed, Read, StreamTypes

(* The watcher's steps.                                                    *)
LEMMA WatcherKeepsBase ==
  ASSUME StreamBase, Scan \/ Pump PROVE StreamBase'
<1> USE DEF StreamBase
<1>1. ASSUME UNCHANGED <<env, tail, dirty, fold, sess, client, folded, missed, due>>,
             scan' \in [phase : {"idle", "tails", "read"}, todo : SUBSET Agents],
             pump' \in [todo : SUBSET Agents, at : Agents \cup {None}], Pumped',
             stateKey' \in KeyType \cup {None}
      PROVE  StreamBase'
  BY <1>1 DEF env, client, Timed, Past, Read, StreamTypes
<1>2. CASE ScanStart
  BY <1>1, <1>2 DEF ScanStart, rows, Pumped, StreamTypes
<1>3. ASSUME NEW a \in Agents, ScanAgent(a) PROVE StreamBase'
  <2>1. scan' \in [phase : {"idle", "tails", "read"}, todo : SUBSET Agents]
    BY <1>3 DEF ScanAgent, StreamTypes
  <2>2. CASE tail[a] # None
    BY <1>1, <1>3, <2>1, <2>2 DEF ScanAgent, rows, Pumped, StreamTypes
  <2>3. CASE tail[a] = None
    <3>1. tail' = [tail EXCEPT ![a] = NewTail(a)] /\ Sized(a)
      BY <1>3, <2>3 DEF ScanAgent
    <3>2. NewTail(a) \in TailType /\ NewTail(a).off = 0
      BY DEF NewTail, TailType, StreamTypes
    <3>3. tail \in [Agents -> TailType \cup {None}]
      BY DEF StreamTypes
    <3>4. tail' \in [Agents -> TailType \cup {None}] /\ tail'[a].off = 0 /\ tail'[a] # None
      BY <3>1, <3>2, <3>3, NoneAssumption
    <3>5. due' \in [Agents -> Nat]
      BY <3>1, <3>4, SizedTo
    <3>6. Pumped' /\ Read'
      BY <1>3, <3>1, <3>3, <3>4 DEF Pumped, Read, ScanAgent, env
    <3>. QED
      BY <1>3, <2>1, <3>4, <3>5, <3>6 DEF ScanAgent, env, rows, client, Timed, Past, StreamTypes
  <2>. QED
    BY <2>2, <2>3
<1>4. CASE ScanState
  <2>1. Key(meta) \in KeyType
    BY DEF Key, KeyType, StreamTypes
  <2>2. UNCHANGED <<env, tail, pump, dirty, fold, sess, client, folded, missed, due>>
    BY <1>4 DEF ScanState
  <2>3. /\ scan' \in [phase : {"idle", "tails", "read"}, todo : SUBSET Agents]
        /\ stateKey' \in KeyType \cup {None}
    BY <1>4, <2>1 DEF ScanState, Idle, StreamTypes
  <2>. QED
    BY <1>1, <2>2, <2>3 DEF Pumped, StreamTypes
<1>5. CASE ScanRead
  <2>1. scan' \in [phase : {"idle", "tails", "read"}, todo : SUBSET Agents]
    BY <1>5 DEF ScanRead, Idle
  <2>2. CASE meta.torn
    <3>1. UNCHANGED <<env, tail, stateKey, pump, dirty, fold, sess, client, folded, missed, due>>
      BY <1>5, <2>2 DEF ScanRead
    <3>. QED
      BY <1>1, <2>1, <3>1 DEF Pumped, StreamTypes
  <2>3. CASE ~meta.torn
    <3>1. meta.at \in Nat /\ meta.ver \in Nat
      BY DEF StreamTypes
    <3>2. fold' = ApplySessionState(fold, meta.at) /\ sess' = meta.at /\ folded' = meta.ver /\ Mark(Agents)
      BY <1>5, <2>3 DEF ScanRead
    <3>3. fold' \in [Agents -> RowType \cup {None}]
      BY <3>1, <3>2, StateFolds
    <3>4. dirty' \in SUBSET Agents /\ missed' \in SUBSET Agents
      BY <3>2, MarkTypes
    <3>5. UNCHANGED <<env, tail, stateKey, pump, client, due>>
      BY <1>5 DEF ScanRead
    <3>6. StreamTypes'
      BY <2>1, <3>1, <3>2, <3>3, <3>4, <3>5 DEF env, client, StreamTypes
    <3>. QED
      BY <3>5, <3>6 DEF env, Timed, Past, Pumped, Read
  <2>. QED
    BY <2>2, <2>3
<1>6. CASE PumpStart
  <2>1. Pumped' /\ pump' \in [todo : SUBSET Agents, at : Agents \cup {None}]
    BY <1>6, NoneAssumption DEF PumpStart, Pumped
  <2>. QED
    BY <1>1, <1>6, <2>1 DEF PumpStart, rows, StreamTypes
<1>7. CASE PumpNext
  <2>1. CASE scan.phase # "idle"
    <3>1. Pumped' /\ pump' \in [todo : SUBSET Agents, at : Agents \cup {None}]
      BY <1>7, <2>1, NoneAssumption DEF PumpNext, Resting, Pumped
    <3>. QED
      BY <1>1, <1>7, <2>1, <3>1 DEF PumpNext, rows, StreamTypes
  <2>2. CASE scan.phase = "idle"
    <3>1. PICK a \in pump.todo : \E o \in {0, tail[a].off} :
            /\ tail' = [tail EXCEPT ![a] = [off |-> o, size |-> Len(wire[a])]]
            /\ \E x \in {None, a} : pump' = [pump EXCEPT !.todo = @ \ {a}, !.at = x]
            /\ Sized(a)
      BY <1>7, <2>2 DEF PumpNext
    <3>0. PICK o \in {0, tail[a].off} :
            /\ tail' = [tail EXCEPT ![a] = [off |-> o, size |-> Len(wire[a])]]
            /\ \E x \in {None, a} : pump' = [pump EXCEPT !.todo = @ \ {a}, !.at = x]
            /\ Sized(a)
      BY <3>1
    <3>2. a \in Agents /\ tail[a] \in TailType
      BY DEF Pumped, StreamTypes
    <3>3. o \in Nat /\ [off |-> o, size |-> Len(wire[a])] \in TailType
      BY <3>2 DEF TailType, StreamTypes
    <3>4. tail' \in [Agents -> TailType \cup {None}] /\ tail'[a].off = o /\ tail'[a] # None
      BY <3>0, <3>2, <3>3, NoneAssumption DEF StreamTypes
    <3>5. due' \in [Agents -> Nat]
      BY <3>0, <3>2, <3>3, <3>4, SizedTo
    <3>6. pump' \in [todo : SUBSET Agents, at : Agents \cup {None}]
      <4>1. PICK x \in {None, a} : pump' = [pump EXCEPT !.todo = @ \ {a}, !.at = x]
        BY <3>0
      <4>. QED
        BY <3>2, <4>1 DEF StreamTypes
    <3>7. \A b \in Agents : tail[b] # None => tail'[b] # None
      BY <3>0, <3>2, <3>4 DEF StreamTypes
    <3>8. Pumped'
      BY <3>0, <3>2, <3>4, <3>7, NoneAssumption DEF Pumped, StreamTypes
    <3>9. Read'
      <4>1. wire' = wire
        BY <1>7 DEF PumpNext, env
      <4>2. \A b \in Agents \ {a} : tail'[b] = tail[b]
        BY <3>0 DEF StreamTypes
      <4>3. tail'[a].off > 0 => wire[a] # <<>>
        <5>1. o > 0 => o = tail[a].off /\ tail[a] # None
          BY <3>0, <3>2, NoneAssumption
        <5>. QED
          BY <3>2, <3>4, <5>1 DEF Read
      <4>. QED
        BY <4>1, <4>2, <4>3 DEF Read
    <3>. QED
      BY <1>7, <3>4, <3>5, <3>6, <3>8, <3>9 DEF PumpNext, env, rows, client, Timed, Past, StreamTypes
  <2>. QED
    BY <2>1, <2>2
<1>8. CASE PumpChunk
  <2> DEFINE a == pump.at
  <2>1. a \in Agents /\ tail[a] \in TailType /\ tail[a].off \in Nat
    BY <1>8, NoneAssumption DEF PumpChunk, Pumped, StreamTypes, TailType
  <2>2. CASE pump' = [pump EXCEPT !.at = None] /\ UNCHANGED <<tail, fold, dirty, stateKey, missed>>
    <3>1. Pumped' /\ pump' \in [todo : SUBSET Agents, at : Agents \cup {None}]
      BY <2>2, NoneAssumption DEF Pumped, StreamTypes
    <3>. QED
      BY <1>1, <1>8, <2>2, <3>1 DEF PumpChunk, StreamTypes
  <2>3. ASSUME NEW n \in 1..(tail[a].size - tail[a].off), tail[a].off + n <= Len(wire[a]),
               tail' = [tail EXCEPT ![a].off = @ + n],
               fold' = ApplyWire(fold, a, SubSeq(wire[a], tail[a].off + 1, tail[a].off + n)),
               Mark({a}), SelfHeal,
               pump' = [pump EXCEPT !.at = IF tail[a].off + n = tail[a].size THEN None ELSE a]
        PROVE  StreamBase'
    <3>1. n \in Nat /\ n > 0
      BY <2>1, <2>3 DEF TailType
    <3>2. fold' \in [Agents -> RowType \cup {None}]
      BY <2>1, <2>3, <3>1, ChunkFolds
    <3>3. dirty' \in SUBSET Agents /\ missed' \in SUBSET Agents
      BY <2>1, <2>3, MarkTypes
    <3>4. tail'[a] = [tail[a] EXCEPT !.off = tail[a].off + n] /\ \A b \in Agents \ {a} : tail'[b] = tail[b]
      BY <2>1, <2>3 DEF StreamTypes
    <3>5. tail'[a] \in TailType
      BY <2>1, <3>1, <3>4 DEF TailType
    <3>6. tail' \in [Agents -> TailType \cup {None}]
      BY <2>3, <3>4, <3>5 DEF StreamTypes
    <3>7. pump' \in [todo : SUBSET Agents, at : Agents \cup {None}]
      BY <2>1, <2>3 DEF StreamTypes
    <3>8. Pumped'
      BY <2>1, <2>3, <3>4, <3>5, NoneAssumption DEF Pumped, StreamTypes
    <3>9. stateKey' \in KeyType \cup {None}
      BY <2>3 DEF SelfHeal, StreamTypes
    <3>10. Read'
      <4>1. wire' = wire /\ wire[a] \in Seq(RecordType)
        BY <1>8, <2>1 DEF PumpChunk, env, StreamTypes
      <4>2. wire[a] # <<>>
        BY <2>1, <2>3, <3>1, <4>1
      <4>. QED
        BY <3>4, <4>1, <4>2 DEF Read
    <3>. QED
      BY <1>8, <3>2, <3>3, <3>6, <3>7, <3>8, <3>9, <3>10
      DEF PumpChunk, env, client, Timed, Past, StreamTypes
  <2>. QED
    BY <1>8, <2>2, <2>3 DEF PumpChunk
<1>. QED
  BY <1>2, <1>3, <1>4, <1>5, <1>6, <1>7, <1>8 DEF Scan, Pump

(* The service's steps: events, marks, frames, the sweep and the client.   *)
LEMMA ServiceKeepsBase ==
  ASSUME StreamBase,
         Flush \/ Sweep \/ (\E a \in Agents, b \in BOOLEAN : Omkc(a, b)) \/ Connect \/ Disconnect \/ Drain
  PROVE  StreamBase'
<1> USE DEF StreamBase
<1>1. ASSUME UNCHANGED <<env, watch, folded, due>>,
             fold' \in [Agents -> RowType \cup {None}], sess' \in Nat \cup {None},
             dirty' \in SUBSET Agents, missed' \in SUBSET Agents,
             stateKey' \in KeyType \cup {None}, ClientTypes'
      PROVE  StreamBase'
  <2>1. StreamTypes'
    BY <1>1 DEF env, watch, StreamTypes, ClientTypes
  <2>. QED
    BY <1>1, <2>1 DEF env, watch, Timed, Past, Pumped, Read
<1>2. CASE Flush
  <2>1. ClientTypes' /\ missed' \in SUBSET Agents
    BY <1>2, FrameTypes DEF Flush, StreamTypes
  <2>. QED
    BY <1>1, <1>2, <2>1 DEF Flush, StreamTypes
<1>3. CASE Sweep
  <2>1. ClientTypes'
    BY <1>3, FrameTypes DEF Sweep
  <2>2. fold' \in [Agents -> RowType \cup {None}] /\ sess' \in Nat \cup {None}
    BY <1>3 DEF Sweep, StreamTypes
  <2>. QED
    BY <1>1, <1>3, <2>1, <2>2 DEF Sweep, StreamTypes
<1>4. ASSUME NEW a \in Agents, NEW b \in BOOLEAN, Omkc(a, b) PROVE StreamBase'
  <2>1. /\ fold' = ApplyOmkcEvent(fold, a, b) /\ Mark({a}) /\ SelfHeal
        /\ UNCHANGED <<env, watch, sess, client, folded, due>>
    BY <1>4 DEF Omkc, watch
  <2>2. fold' \in [Agents -> RowType \cup {None}]
    BY <2>1, OmkcFolds
  <2>3. dirty' \in SUBSET Agents /\ missed' \in SUBSET Agents
    BY <2>1, MarkTypes
  <2>4. stateKey' \in KeyType \cup {None}
    BY <2>1 DEF SelfHeal, StreamTypes
  <2>5. ClientTypes'
    BY <2>1, FrameTypes
  <2>. QED
    BY <1>1, <2>1, <2>2, <2>3, <2>4, <2>5 DEF StreamTypes
<1>5. CASE Connect
  <2>1. ClientTypes'
    BY <1>5 DEF Connect, Snapshot, ClientTypes
  <2>. QED
    BY <1>1, <1>5, <2>1 DEF Connect, rows, StreamTypes
<1>6. CASE Disconnect
  <2>1. ClientTypes'
    BY <1>6, FrameTypes DEF Disconnect
  <2>. QED
    BY <1>1, <1>6, <2>1 DEF Disconnect, rows, StreamTypes
<1>7. CASE Drain
  <2>1. ClientTypes'
    BY <1>7 DEF Drain, StreamTypes, ClientTypes
  <2>. QED
    BY <1>1, <1>7, <2>1 DEF Drain, rows, StreamTypes
<1>. QED
  BY <1>2, <1>3, <1>4, <1>5, <1>6, <1>7

(* A step outside the stream, or none.                                     *)
LEMMA StutterKeepsBase ==
  ASSUME StreamBase, UNCHANGED vars PROVE StreamBase'
<1>1. StreamTypes'
  BY DEF StreamBase, StreamTypes, vars, env, watch, rows, client
<1>. QED
  BY <1>1 DEF StreamBase, vars, env, watch, rows, client, Timed, Past, Pumped, Read

(* Every step keeps the types, the pump's agents and the order of times.   *)
LEMMA BaseKept ==
  ASSUME StreamBase, [Next]_vars PROVE StreamBase'
BY EngineKeepsBase, TickKeepsBase, WatcherKeepsBase, ServiceKeepsBase, StutterKeepsBase DEF Next

(* The files are empty and nothing is known of them.                       *)
LEMMA InitBase == Init => StreamBase
<1> SUFFICES ASSUME Init PROVE StreamBase
  OBVIOUS
<1>1. StreamTypes
  BY NoneAssumption DEF Init, Idle, Resting, Blank, StreamTypes
<1>2. Pumped /\ Timed /\ Past /\ Read
  BY NoneAssumption DEF Init, Resting, Pumped, Timed, Past, Read
<1>. QED
  BY <1>1, <1>2 DEF StreamBase

(* ---------------------------------------------------------------------- *)
(* The status stream: the page shows the fold                              *)

(* A change of some rows that is marked, or noted as missed by the client. *)
LEMMA MarkedIsShown ==
  ASSUME StreamBase, ShowsTheFold, NEW K \in SUBSET Agents, Mark(K), UNCHANGED client,
         \A a \in Agents \ K : fold'[a] = fold[a],
         \A a \in K : fold'[a] # None
  PROVE  ShowsTheFold'
<1> SUFFICES ASSUME conn.open, NEW a \in Agents
             PROVE  /\ fold'[a] = None => page[a] = None
                    /\ a \notin dirty' \cup missed' => page[a] = View(fold', a)
  BY DEF ShowsTheFold, client, View
<1>1. K \cup dirty \cup missed \subseteq dirty' \cup missed'
  BY DEF Mark
<1>2. /\ fold[a] = None => page[a] = None
      /\ a \notin dirty \cup missed => page[a] = View(fold, a)
  BY DEF ShowsTheFold
<1>3. a \notin K => fold'[a] = fold[a] /\ View(fold', a) = View(fold, a)
  BY DEF View
<1>. QED
  BY <1>1, <1>2, <1>3

(* Neither the page nor what it should show has changed.                   *)
LEMMA UnchangedIsShown ==
  ASSUME ShowsTheFold, UNCHANGED <<client, fold, dirty, missed>> PROVE ShowsTheFold'
BY DEF ShowsTheFold, client, View

(* Every step keeps a connected page showing the fold: a changed row is    *)
(* marked or noted as missed, and what a frame or the sweep takes off the  *)
(* marks it shows.                                                         *)
LEMMA ShownKept ==
  ASSUME StreamBase, StreamBase', ShowsTheFold, [Next]_vars PROVE ShowsTheFold'
<1>1. fold \in [Agents -> RowType \cup {None}] /\ dirty \in SUBSET Agents
  BY DEF StreamBase, StreamTypes
<1>2. CASE Engine \/ Tick \/ ScanStart \/ ScanState \/ PumpStart \/ PumpNext \/ Drain \/ UNCHANGED vars
           \/ \E a \in Agents : ScanAgent(a)
  <2>1. CASE Drain
    BY <2>1, <1>1 DEF Drain, ShowsTheFold, View, rows, StreamBase, StreamTypes
  <2>. QED
    BY <1>2, <2>1, UnchangedIsShown
    DEF Engine, AppendRecord, Truncate, BeginWrite, EndWrite, Tick, ScanStart, ScanState, ScanAgent, PumpStart,
        PumpNext, vars, rows
<1>3. CASE ScanRead
  <2>1. CASE meta.torn
    BY <1>3, <2>1, UnchangedIsShown DEF ScanRead
  <2>2. CASE ~meta.torn
    <3>1. meta.at \in Nat /\ fold' = ApplySessionState(fold, meta.at) /\ Mark(Agents) /\ UNCHANGED client
      BY <1>3, <2>2 DEF ScanRead, StreamBase, StreamTypes
    <3>2. \A a \in Agents : fold'[a] # None
      BY <3>1, StateFolds, NoneAssumption
    <3>. QED
      BY <3>1, <3>2, MarkedIsShown
  <2>. QED
    BY <2>1, <2>2
<1>4. CASE PumpChunk
  <2> DEFINE a == pump.at
  <2>1. a \in Agents /\ tail[a] \in TailType /\ tail[a].off \in Nat
    BY <1>4, NoneAssumption DEF PumpChunk, Pumped, StreamBase, StreamTypes, TailType
  <2>2. CASE UNCHANGED <<tail, fold, dirty, stateKey, missed>>
    BY <1>4, <2>2, UnchangedIsShown DEF PumpChunk
  <2>3. ASSUME NEW n \in 1..(tail[a].size - tail[a].off), tail[a].off + n <= Len(wire[a]),
               fold' = ApplyWire(fold, a, SubSeq(wire[a], tail[a].off + 1, tail[a].off + n)),
               Mark({a})
        PROVE  ShowsTheFold'
    <3>1. n \in Nat /\ n > 0
      BY <2>1, <2>3 DEF TailType
    <3>2. fold'[a] # None /\ \A b \in Agents \ {a} : fold'[b] = fold[b]
      BY <2>1, <2>3, <3>1, ChunkFolds, NoneAssumption
    <3>3. UNCHANGED client
      BY <1>4 DEF PumpChunk
    <3>. QED
      BY <2>1, <2>3, <3>2, <3>3, MarkedIsShown
  <2>. QED
    BY <1>4, <2>2, <2>3 DEF PumpChunk
<1>5. ASSUME NEW a \in Agents, NEW b \in BOOLEAN, Omkc(a, b) PROVE ShowsTheFold'
  <2>1. fold' = ApplyOmkcEvent(fold, a, b) /\ Mark({a}) /\ UNCHANGED client
    BY <1>5 DEF Omkc
  <2>2. fold'[a] # None /\ \A c \in Agents \ {a} : fold'[c] = fold[c]
    BY <2>1, OmkcFolds, NoneAssumption
  <2>. QED
    BY <2>1, <2>2, MarkedIsShown
<1>6. CASE Flush
  <2> DEFINE K == {a \in dirty : fold[a] # None}
  <2>1. fold' = fold /\ dirty' = {}
    BY <1>6 DEF Flush
  <2>2. CASE CatchingUp(tail)
    BY <1>6, <2>1, <2>2 DEF Flush, ShowsTheFold, View, client
  <2>3. ASSUME ~CatchingUp(tail), conn'.open
        PROVE  conn.open /\ page' = [a \in Agents |-> IF a \in K THEN View(fold, a) ELSE page[a]]
    <3>1. SendFrames(K, fold)
      BY <1>6, <2>3 DEF Flush
    <3>2. ~Hangup
      BY <2>3 DEF Hangup
    <3>3. conn.open
      BY <2>3, <3>1 DEF SendFrames, client
    <3>. QED
      BY <3>1, <3>2, <3>3 DEF SendFrames
  <2>4. CASE ~CatchingUp(tail)
    <3>1. missed' = missed
      BY <1>6, <2>4 DEF Flush
    <3> SUFFICES ASSUME conn'.open, NEW a \in Agents
                 PROVE  /\ fold[a] = None => page'[a] = None
                        /\ a \notin missed => page'[a] = View(fold, a)
      BY <2>1, <3>1 DEF ShowsTheFold, View
    <3>2. conn.open /\ page'[a] = IF a \in K THEN View(fold, a) ELSE page[a]
      BY <2>3, <2>4
    <3>3. (fold[a] = None => page[a] = None) /\ (a \notin dirty \cup missed => page[a] = View(fold, a))
      BY <3>2 DEF ShowsTheFold
    <3>4. fold[a] = None => View(fold, a) = None
      BY DEF View
    <3>. QED
      BY <3>2, <3>3, <3>4
  <2>. QED
    BY <2>2, <2>4
<1>7. CASE Sweep
  <2>1. /\ fold' = [a \in Agents |-> IF a \in Evictable THEN None ELSE fold[a]]
        /\ SendFrames(Evictable, fold') /\ UNCHANGED <<dirty, missed>>
    BY <1>7 DEF Sweep
  <2> SUFFICES ASSUME conn'.open, NEW a \in Agents
               PROVE  /\ fold'[a] = None => page'[a] = None
                      /\ a \notin dirty \cup missed => page'[a] = View(fold', a)
    BY <2>1 DEF ShowsTheFold, View
  <2>2. ~Hangup
    BY DEF Hangup
  <2>3. conn.open
    BY <2>1, <2>2 DEF SendFrames, client
  <2>4. page'[a] = IF a \in Evictable THEN View(fold', a) ELSE page[a]
    BY <2>1, <2>2, <2>3 DEF SendFrames
  <2>5. (fold[a] = None => page[a] = None) /\ (a \notin dirty \cup missed => page[a] = View(fold, a))
    BY <2>3 DEF ShowsTheFold
  <2>6. a \in Evictable => fold'[a] = None /\ View(fold', a) = None
    BY <2>1 DEF View
  <2>7. a \notin Evictable => fold'[a] = fold[a] /\ View(fold', a) = View(fold, a)
    BY <2>1 DEF View
  <2>. QED
    BY <2>4, <2>5, <2>6, <2>7
<1>8. CASE Connect
  BY <1>8 DEF Connect, rows, Snapshot, ShowsTheFold, View
<1>9. CASE Disconnect
  BY <1>9 DEF Disconnect, Hangup, ShowsTheFold
<1>. QED
  BY <1>2, <1>3, <1>4, <1>5, <1>6, <1>7, <1>8, <1>9 DEF Next, Scan, Pump

(* ---------------------------------------------------------------------- *)
(* The status stream: what was folded is what is on disk                   *)

(* The recorded key is of no later version than the file's, and the key of *)
(* the whole file stands for its being read now or having been folded.     *)
KeyInv ==
  /\ stateKey # None => stateKey[1] <= meta.ver
  /\ stateKey = <<meta.ver, FALSE>> => scan.phase = "read" \/ meta.torn \/ folded = meta.ver

(* The key of a whole file is a key, of that version.                      *)
LEMMA KeyIs ==
  ASSUME NEW v \in Nat PROVE <<v, FALSE>> # None /\ <<v, FALSE>>[1] = v
<1>1. <<v, FALSE>> \in Nat \X BOOLEAN
  OBVIOUS
<1>. QED
  BY <1>1, NoneAssumption DEF KeyType

(* A key is recorded as it is read, versions only grow, and a fold is of   *)
(* the version that the file has.                                          *)
LEMMA KeyKept ==
  ASSUME StreamBase, KeyInv, [Next]_vars PROVE KeyInv'
<1>1. /\ meta.ver \in Nat /\ meta.torn \in BOOLEAN
      /\ stateKey \in (Nat \X BOOLEAN) \cup {None} /\ None \notin Nat \X BOOLEAN
  BY NoneAssumption DEF StreamBase, StreamTypes, KeyType
<1>2. ASSUME UNCHANGED <<meta, folded>>, stateKey' \in {stateKey, None},
             scan.phase = "read" => scan'.phase = "read"
      PROVE  KeyInv'
  <2>1. stateKey' # None => stateKey' = stateKey
    BY <1>2
  <2>2. stateKey' = <<meta.ver, FALSE>> => stateKey' # None
    BY <1>1, KeyIs
  <2>. QED
    BY <1>2, <2>1, <2>2 DEF KeyInv
<1>3. CASE BeginWrite
  <2>1. meta'.ver = meta.ver /\ meta'.torn /\ UNCHANGED stateKey
    BY <1>3 DEF BeginWrite, rows, StreamBase, StreamTypes
  <2>. QED
    BY <2>1 DEF KeyInv
<1>4. CASE EndWrite
  <2>1. PICK v \in Nat : v = meta'.ver /\ v = meta.ver + 1 /\ UNCHANGED stateKey
    BY <1>1, <1>4 DEF EndWrite, rows
  <2>2. stateKey # None => stateKey[1] \in Nat /\ stateKey[1] < v
    BY <1>1, <2>1 DEF KeyInv
  <2>3. stateKey # <<v, FALSE>>
    <3>1. <<v, FALSE>> # None /\ <<v, FALSE>>[1] = v
      BY KeyIs
    <3>2. stateKey = <<v, FALSE>> => stateKey # None /\ stateKey[1] = v
      BY <3>1, Zenon
    <3>3. stateKey # None /\ stateKey[1] = v => FALSE
      BY <2>2
    <3>. QED
      BY <3>2, <3>3
  <2>4. stateKey # None => stateKey[1] <= v
    BY <2>2
  <2>. QED
    BY <2>1, <2>3, <2>4, Zenon DEF KeyInv
<1>5. CASE ScanState
  <2>1. meta' = meta /\ folded' = folded /\ scan.phase = "tails"
    BY <1>5 DEF ScanState, env
  <2>2. CASE scan' = Idle /\ UNCHANGED stateKey
    BY <1>2, <2>1, <2>2
  <2>3. CASE scan' = [scan EXCEPT !.phase = "read"] /\ stateKey' = Key(meta)
    <3>1. scan'.phase = "read"
      BY <2>3 DEF StreamBase, StreamTypes
    <3>2. stateKey'[1] = meta'.ver
      BY <2>1, <2>3 DEF Key
    <3>. QED
      BY <1>1, <2>1, <3>1, <3>2 DEF KeyInv
  <2>. QED
    BY <1>5, <2>2, <2>3 DEF ScanState
<1>6. CASE ScanRead
  <2>1. meta' = meta /\ stateKey' = stateKey
    BY <1>6 DEF ScanRead, env
  <2>2. meta.torn \/ folded' = meta.ver
    BY <1>6 DEF ScanRead
  <2>. QED
    BY <2>1, <2>2 DEF KeyInv
<1>7. CASE (\E a \in Agents : AppendRecord(a)) \/ (\E a \in Agents : Truncate(a)) \/ Tick \/ ScanStart
             \/ (\E a \in Agents : ScanAgent(a)) \/ Pump \/ Flush \/ Sweep
             \/ (\E a \in Agents, b \in BOOLEAN : Omkc(a, b)) \/ Connect \/ Disconnect \/ Drain
             \/ UNCHANGED vars
  <2>1. UNCHANGED <<meta, folded>>
    BY <1>7 DEF AppendRecord, Truncate, Tick, ScanStart, ScanAgent, Pump, PumpStart, PumpNext, PumpChunk, Flush,
                Sweep, Omkc, Connect, Disconnect, Drain, vars, env
  <2>2. stateKey' \in {stateKey, None}
    BY <1>7 DEF AppendRecord, Truncate, Tick, ScanStart, ScanAgent, Pump, PumpStart, PumpNext, PumpChunk, Flush,
                Sweep, Omkc, Connect, Disconnect, Drain, SelfHeal, vars, rows
  <2>3. scan.phase = "read" => scan'.phase = "read"
    <3>1. CASE ScanStart
      BY <3>1 DEF ScanStart
    <3>2. CASE \E a \in Agents : ScanAgent(a)
      BY <3>2 DEF ScanAgent
    <3>3. CASE UNCHANGED scan
      BY <3>3
    <3>. QED
      BY <1>7, <3>1, <3>2, <3>3
      DEF AppendRecord, Truncate, Tick, Pump, PumpStart, PumpNext, PumpChunk, Flush, Sweep, Omkc, Connect,
          Disconnect, Drain, vars, watch
  <2>. QED
    BY <1>2, <2>1, <2>2, <2>3
<1>. QED
  BY <1>3, <1>4, <1>5, <1>6, <1>7 DEF Next, Engine, Scan

(* A connected page shows the fold but for what is marked or was missed,   *)
(* and a key that matches state.json stands for its having been folded     *)
(* (index.ts:245-280, 404-418; broadcast.ts:16-24; watcher.ts:402-420).    *)
THEOREM PagesShowTheFold == Spec => []PageShowsTheFold
<1>1. Init => StreamBase /\ ShowsTheFold /\ KeyInv
  BY InitBase DEF Init, ShowsTheFold, KeyInv, Idle
<1>2. StreamBase /\ ShowsTheFold /\ KeyInv /\ [Next]_vars => (StreamBase /\ ShowsTheFold /\ KeyInv)'
  BY BaseKept, ShownKept, KeyKept
<1>3. StreamBase /\ ShowsTheFold /\ KeyInv => PageShowsTheFold
  BY DEF PageShowsTheFold, KeyMeansFolded, KeyInv, Key, StreamBase, StreamTypes
<1>. QED
  BY <1>1, <1>2, <1>3, PTL DEF Spec

(* ---------------------------------------------------------------------- *)
(* The status stream: what the sweep drops was idle                        *)

(* What the watcher owes an agent has been folded, or is old enough, or is *)
(* among the records that its tail still has to read.                      *)
Folded(a) == now - due[a] > EvictAfter
             \/ IF fold[a] = None THEN due[a] = 0 ELSE due[a] <= fold[a].seen
Unread(a) == /\ tail[a] # None /\ tail[a].off < tail[a].size /\ tail[a].size <= Len(wire[a])
             /\ due[a] <= wire[a][tail[a].size].at
DueInv == \A a \in Agents : Folded(a) \/ Unread(a)

(* What an agent's part of the invariant speaks of.                        *)
LEMMA DueTypes ==
  ASSUME StreamBase, NEW a \in Agents
  PROVE  /\ now \in Nat /\ due[a] \in Nat /\ EvictAfter \in Nat /\ Len(wire[a]) \in Nat
         /\ fold[a] # None => fold[a].seen \in Nat
         /\ tail[a] # None => tail[a].off \in Nat /\ tail[a].size \in Nat
         /\ \A i \in 1..Len(wire[a]) : wire[a][i].at \in Nat
<1>1. /\ now \in Nat /\ due[a] \in Nat /\ EvictAfter \in Nat /\ wire[a] \in Seq(RecordType)
      /\ fold[a] \in RowType \cup {None} /\ tail[a] \in TailType \cup {None}
  BY StreamAssumption DEF StreamBase, StreamTypes
<1>2. \A i \in 1..Len(wire[a]) : wire[a][i] \in RecordType
  BY <1>1
<1>. QED
  BY <1>1, <1>2 DEF RowType, TailType, RecordType

(* Time passing and a row seen again leave what is folded folded.          *)
LEMMA StaysFolded ==
  ASSUME StreamBase, StreamBase', NEW a \in Agents, Folded(a), due'[a] = due[a], now' >= now,
         fold[a] # None => fold'[a] # None /\ fold'[a].seen >= fold[a].seen
  PROVE  Folded(a)'
<1>1. fold'[a] # None => fold'[a].seen \in Nat
  BY DueTypes DEF StreamBase, StreamTypes, RowType
<1>2. now' \in Nat
  BY DEF StreamBase, StreamTypes
<1>. QED
  BY <1>1, <1>2, DueTypes DEF Folded

(* A longer wire file leaves what is to be read to be read.                *)
LEMMA StaysUnread ==
  ASSUME StreamBase, NEW a \in Agents, Unread(a), due'[a] = due[a], tail'[a] = tail[a],
         Len(wire'[a]) \in Nat, Len(wire'[a]) >= Len(wire[a]),
         \A i \in 1..Len(wire[a]) : wire'[a][i] = wire[a][i]
  PROVE  Unread(a)'
<1>1. tail[a].size \in 1..Len(wire[a])
  BY DueTypes DEF Unread
<1>2. wire'[a][tail[a].size] = wire[a][tail[a].size] /\ tail[a].size <= Len(wire'[a])
  BY <1>1
<1>. QED
  BY <1>2 DEF Unread

(* The agents that a step leaves alone, but for the time and their rows.   *)
LEMMA DueElsewhere ==
  ASSUME StreamBase, StreamBase', NEW a \in Agents, Folded(a) \/ Unread(a),
         due'[a] = due[a], tail'[a] = tail[a], wire'[a] = wire[a], now' >= now,
         fold[a] # None => fold'[a] # None /\ fold'[a].seen >= fold[a].seen
  PROVE  (Folded(a) \/ Unread(a))'
BY StaysFolded, StaysUnread, DueTypes

(* A tail that is measured: what has been owed is still folded or unread,  *)
(* and the records that come to be owed are unread.                        *)
LEMMA SizedKeeps ==
  ASSUME StreamBase, StreamBase', NEW a \in Agents, Folded(a) \/ Unread(a), Sized(a),
         tail'[a] # None, tail'[a].size = Len(wire[a]),
         tail[a] # None /\ tail[a].size <= Len(wire[a]) /\ tail[a].off < tail[a].size
           => tail'[a].off = tail[a].off,
         UNCHANGED <<now, wire, fold>>
  PROVE  (Folded(a) \/ Unread(a))'
<1>1. tail'[a].off \in Nat
  BY DEF StreamBase, StreamTypes, TailType
<1>2. /\ \A i \in 1..Len(wire[a]) : wire[a][i].at \in Nat
      /\ \A i, j \in 1..Len(wire[a]) : i <= j => wire[a][i].at <= wire[a][j].at
      /\ Len(wire[a]) \in Nat
  BY DueTypes DEF StreamBase, Timed
<1>3. \A i \in 1..Len(wire[a]) : Len(wire[a]) \in 1..Len(wire[a]) /\ wire[a][i].at <= wire[a][Len(wire[a])].at
  BY <1>2
<1>4. ASSUME NEW i \in 1..Len(wire[a]), tail'[a].off < i, due'[a] = wire[a][i].at PROVE Unread(a)'
  BY <1>1, <1>2, <1>3, <1>4 DEF Unread
<1>5. ASSUME due'[a] = due[a], Folded(a) PROVE Folded(a)'
  BY <1>5, StaysFolded, DueTypes
<1>6. ASSUME due'[a] = due[a], Unread(a) PROVE Unread(a)'
  <2>1. /\ tail[a].size \in 1..Len(wire[a]) /\ tail'[a].off = tail[a].off /\ tail[a].off < Len(wire[a])
        /\ due[a] <= wire[a][tail[a].size].at /\ due[a] \in Nat
    BY <1>2, <1>6, DueTypes DEF Unread
  <2>2. wire[a][tail[a].size].at <= wire[a][Len(wire[a])].at
    BY <1>3, <2>1
  <2>3. due[a] <= wire[a][Len(wire[a])].at
    BY <1>2, <1>3, <2>1, <2>2
  <2>. QED
    BY <1>6, <2>1, <2>3 DEF Unread
<1>. QED
  BY <1>1, <1>4, <1>5, <1>6, SizedTo

(* The watcher's steps on the tail of one agent.                           *)
LEMMA PumpKeepsDue ==
  ASSUME StreamBase, StreamBase', DueInv, PumpNext \/ PumpChunk \/ \E a \in Agents : ScanAgent(a)
  PROVE  DueInv'
<1> USE DEF DueInv
<1>1. now \in Nat /\ tail \in [Agents -> TailType \cup {None}] /\ due \in [Agents -> Nat]
  BY DEF StreamBase, StreamTypes
<1>2. ASSUME NEW a \in Agents, UNCHANGED <<now, wire, fold>>, Sized(a),
             NEW o \in Nat, tail' = [tail EXCEPT ![a] = [off |-> o, size |-> Len(wire[a])]],
             tail[a] # None /\ tail[a].size <= Len(wire[a]) /\ tail[a].off < tail[a].size => o = tail[a].off
      PROVE  DueInv'
  <2>1. tail'[a] = [off |-> o, size |-> Len(wire[a])] /\ \A b \in Agents \ {a} : tail'[b] = tail[b]
    BY <1>1, <1>2
  <2>2. tail'[a].off = o /\ tail'[a].size = Len(wire[a]) /\ tail'[a] # None
    <3>1. [off |-> o, size |-> Len(wire[a])] \in TailType
      BY DueTypes DEF TailType
    <3>. QED
      BY <2>1, <3>1, NoneAssumption
  <2>3. \A b \in Agents \ {a} : due'[b] = due[b]
    BY <1>2, <2>2, SizedTo
  <2>4. (Folded(a) \/ Unread(a))'
    BY <1>2, <2>2, SizedKeeps
  <2>5. ASSUME NEW b \in Agents \ {a} PROVE (Folded(b) \/ Unread(b))'
    <3>1. fold[b] # None => fold[b].seen \in Nat
      BY DueTypes
    <3>2. /\ due'[b] = due[b] /\ tail'[b] = tail[b] /\ wire'[b] = wire[b] /\ now' >= now
          /\ fold[b] # None => fold'[b] # None /\ fold'[b].seen >= fold[b].seen
      BY <1>1, <1>2, <2>1, <2>3, <3>1
    <3>. QED
      BY <3>2, DueElsewhere
  <2>. QED
    BY <2>4, <2>5
<1>3. ASSUME UNCHANGED <<now, wire, fold, tail, due>> PROVE DueInv'
  BY <1>3 DEF Folded, Unread
<1>4. ASSUME NEW a \in Agents, ScanAgent(a) PROVE DueInv'
  <2>1. CASE tail[a] = None
    <3>1. tail' = [tail EXCEPT ![a] = [off |-> 0, size |-> Len(wire[a])]] /\ Sized(a)
          /\ UNCHANGED <<now, wire, fold>>
      BY <1>4, <2>1 DEF ScanAgent, NewTail, env, rows
    <3>. QED
      BY <1>2, <2>1, <3>1
  <2>2. CASE tail[a] # None
    BY <1>3, <1>4, <2>2 DEF ScanAgent, env, rows
  <2>. QED
    BY <2>1, <2>2
<1>5. CASE PumpNext
  <2>1. CASE scan.phase # "idle"
    BY <1>3, <1>5, <2>1 DEF PumpNext, env, rows
  <2>2. CASE scan.phase = "idle"
    <3>1. PICK a \in pump.todo :
            /\ tail' = [tail EXCEPT ![a] = [off |-> IF Len(wire[a]) < tail[a].off THEN 0 ELSE tail[a].off,
                                            size |-> Len(wire[a])]]
            /\ Sized(a)
      BY <1>5, <2>2 DEF PumpNext
    <3> DEFINE o == IF Len(wire[a]) < tail[a].off THEN 0 ELSE tail[a].off
    <3>2. a \in Agents /\ tail[a] # None
      BY DEF StreamBase, StreamTypes, Pumped
    <3>3. o \in Nat /\ (tail[a].size <= Len(wire[a]) /\ tail[a].off < tail[a].size => o = tail[a].off)
      BY <3>2, DueTypes
    <3>4. UNCHANGED <<now, wire, fold>>
      BY <1>5 DEF PumpNext, env, rows
    <3> HIDE DEF o
    <3>5. tail' = [tail EXCEPT ![a] = [off |-> o, size |-> Len(wire[a])]]
      BY <3>1 DEF o
    <3>. QED
      BY <1>2, <3>1, <3>2, <3>3, <3>4, <3>5
  <2>. QED
    BY <2>1, <2>2
<1>6. CASE PumpChunk
  <2>1. PICK a \in Agents :
          a = pump.at /\ tail[a] # None /\ tail[a] \in TailType /\ tail[a].off \in Nat
    BY <1>6, NoneAssumption DEF PumpChunk, Pumped, StreamBase, StreamTypes, TailType
  <2>2. CASE UNCHANGED <<tail, fold, dirty, stateKey, missed>>
    BY <1>3, <1>6, <2>2 DEF PumpChunk, env
  <2>3. ASSUME NEW n \in 1..(tail[a].size - tail[a].off), tail[a].off + n <= Len(wire[a]),
               tail' = [tail EXCEPT ![a].off = @ + n],
               fold' = ApplyWire(fold, a, SubSeq(wire[a], tail[a].off + 1, tail[a].off + n))
        PROVE  DueInv'
    <3>1. n \in Nat /\ n > 0 /\ tail[a].size \in Nat /\ tail[a].off + n <= tail[a].size
      BY <2>1, <2>3 DEF TailType
    <3>2. /\ \A b \in Agents \ {a} : fold'[b] = fold[b]
          /\ fold[a] # None => fold'[a].seen >= fold[a].seen
          /\ fold'[a].seen >= wire[a][tail[a].off + n].at
          /\ fold'[a] \in RowType
      BY <2>1, <2>3, <3>1, ChunkFolds
    <3>3. UNCHANGED <<now, wire, due>>
      BY <1>6 DEF PumpChunk, env
    <3>4. tail'[a] = [tail[a] EXCEPT !.off = tail[a].off + n] /\ \A b \in Agents \ {a} : tail'[b] = tail[b]
      BY <1>1, <2>1, <2>3
    <3>5. tail'[a].off = tail[a].off + n /\ tail'[a].size = tail[a].size /\ tail'[a] # None
      <4>1. tail'[a] \in TailType
        BY <2>1, <3>1, <3>4 DEF TailType
      <4>. QED
        BY <2>1, <3>4, <4>1, NoneAssumption DEF TailType
    <3>6. fold'[a] # None /\ fold'[a].seen \in Nat
      BY <3>2, NoneAssumption DEF RowType
    <3>7. (Folded(a) \/ Unread(a))'
      <4>1. CASE Folded(a)
        BY <1>1, <2>1, <3>2, <3>3, <3>6, <4>1, StaysFolded
      <4>2. CASE Unread(a) /\ tail[a].off + n < tail[a].size
        BY <3>3, <3>5, <4>2 DEF Unread
      <4>3. CASE Unread(a) /\ ~(tail[a].off + n < tail[a].size)
        <5>1. tail[a].off + n = tail[a].size
          BY <2>1, <3>1, <4>3
        <5>2. tail[a].size \in 1..Len(wire[a])
          BY <2>1, <2>3, <3>1, <5>1, DueTypes
        <5>3. due[a] \in Nat /\ wire[a][tail[a].size].at \in Nat /\ due[a] <= wire[a][tail[a].size].at
          BY <2>1, <4>3, <5>2, DueTypes DEF Unread
        <5>4. due[a] <= fold'[a].seen
          BY <3>2, <3>6, <5>1, <5>3
        <5>. QED
          BY <3>3, <3>6, <5>4 DEF Folded
      <4>. QED
        BY <2>1, <4>1, <4>2, <4>3
    <3>8. ASSUME NEW b \in Agents \ {a} PROVE (Folded(b) \/ Unread(b))'
      <4>1. fold[b] # None => fold[b].seen \in Nat
        BY DueTypes
      <4>2. /\ due'[b] = due[b] /\ tail'[b] = tail[b] /\ wire'[b] = wire[b] /\ now' >= now
            /\ fold[b] # None => fold'[b] # None /\ fold'[b].seen >= fold[b].seen
        BY <1>1, <3>2, <3>3, <3>4, <4>1
      <4>. QED
        BY <4>2, DueElsewhere
    <3>. QED
      BY <3>7, <3>8
  <2>. QED
    BY <1>6, <2>1, <2>2, <2>3 DEF PumpChunk
<1>. QED
  BY <1>4, <1>5, <1>6

(* The engine's steps: a longer file, and a file cut to its last record,   *)
(* after which nothing that had not been read of the old one is owed.      *)
LEMMA EngineKeepsDue ==
  ASSUME StreamBase, StreamBase', DueInv, Engine \/ Tick PROVE DueInv'
<1> USE DEF DueInv
<1>1. /\ now \in Nat /\ due \in [Agents -> Nat] /\ wire \in [Agents -> Seq(RecordType)]
      /\ \A a \in Agents : fold[a] # None => fold[a].seen \in Nat
  BY DueTypes DEF StreamBase, StreamTypes
<1>2. ASSUME NEW a \in Agents, AppendRecord(a) PROVE DueInv'
  <2>1. PICK r \in RecordType : wire' = [wire EXCEPT ![a] = Append(wire[a], r)]
    <3>1. [busy |-> Len(wire[a]) % 2 = 0, at |-> now] \in RecordType
      BY <1>1, DueTypes DEF RecordType
    <3>. QED
      BY <1>2, <3>1 DEF AppendRecord
  <2>2. UNCHANGED <<now, tail, fold, due>>
    BY <1>2 DEF AppendRecord, watch, rows
  <2>3. ASSUME NEW b \in Agents
        PROVE  /\ Len(wire'[b]) \in Nat /\ Len(wire'[b]) >= Len(wire[b])
               /\ \A i \in 1..Len(wire[b]) : wire'[b][i] = wire[b][i]
    <3>1. wire[a] \in Seq(RecordType) /\ wire[b] \in Seq(RecordType)
      BY <1>1
    <3>2. /\ Len(Append(wire[a], r)) = Len(wire[a]) + 1
          /\ \A i \in 1..Len(wire[a]) : Append(wire[a], r)[i] = wire[a][i]
      BY <3>1
    <3>3. wire'[b] = IF b = a THEN Append(wire[a], r) ELSE wire[b]
      BY <1>1, <2>1
    <3>. QED
      BY <3>1, <3>2, <3>3
  <2>4. ASSUME NEW b \in Agents PROVE (Folded(b) \/ Unread(b))'
    <3>1. CASE Folded(b)
      BY <1>1, <2>2, <3>1, StaysFolded
    <3>2. CASE Unread(b)
      BY <2>2, <2>3, <3>2, StaysUnread
    <3>. QED
      BY <3>1, <3>2
  <2>. QED
    BY <2>4
<1>3. ASSUME NEW a \in Agents, Truncate(a) PROVE DueInv'
  <2>1. /\ UNCHANGED <<now, tail, fold>> /\ \A b \in Agents \ {a} : wire'[b] = wire[b] /\ due'[b] = due[b]
        /\ due'[a] = IF tail[a].off < tail[a].size THEN 0 ELSE due[a]
    BY <1>1, <1>3 DEF Truncate, watch, rows
  <2>2. Folded(a)'
    <3>1. CASE tail[a].off < tail[a].size
      BY <1>1, <2>1, <3>1 DEF Folded
    <3>2. CASE ~(tail[a].off < tail[a].size)
      BY <1>1, <2>1, <3>2, StaysFolded DEF Unread
    <3>. QED
      BY <3>1, <3>2
  <2>3. ASSUME NEW b \in Agents \ {a} PROVE (Folded(b) \/ Unread(b))'
    <3>1. /\ due'[b] = due[b] /\ tail'[b] = tail[b] /\ wire'[b] = wire[b] /\ now' >= now
          /\ fold[b] # None => fold'[b] # None /\ fold'[b].seen >= fold[b].seen
      BY <1>1, <2>1
    <3>. QED
      BY <3>1, DueElsewhere
  <2>. QED
    BY <2>2, <2>3
<1>4. CASE BeginWrite \/ EndWrite
  BY <1>4 DEF BeginWrite, EndWrite, watch, rows, Folded, Unread
<1>5. CASE Tick
  <2>1. now' >= now /\ UNCHANGED <<wire, tail, fold, due>>
    BY <1>1, <1>5 DEF Tick, watch, rows
  <2>. QED
    BY <1>1, <2>1, DueElsewhere
<1>. QED
  BY <1>2, <1>3, <1>4, <1>5 DEF Engine

(* While no tail has unread bytes all that is owed has been folded, so     *)
(* that a row that is idle for too long has nothing newer to show.         *)
LEMMA SweepDropsTheIdle ==
  ASSUME StreamBase, DueInv, Sweep, NEW a \in Agents, fold[a] # None, fold'[a] = None
  PROVE  now - due[a] > EvictAfter
<1>1. Folded(a)
  BY DEF Sweep, MaySweep, CatchingUp, DueInv, Unread
<1>2. now - fold[a].seen > EvictAfter
  BY DEF Sweep, Evictable
<1>. QED
  BY <1>1, <1>2, DueTypes DEF Folded

(* Every step.                                                             *)
LEMMA DueKept ==
  ASSUME StreamBase, StreamBase', DueInv, [Next]_vars PROVE DueInv'
<1> USE DEF DueInv
<1>1. /\ now \in Nat /\ fold \in [Agents -> RowType \cup {None}]
      /\ \A a \in Agents : fold[a] # None => fold[a].seen \in Nat
  BY DueTypes DEF StreamBase, StreamTypes
<1>2. ASSUME UNCHANGED <<env, tail, due>>,
             \A a \in Agents : fold[a] # None => fold'[a] # None /\ fold'[a].seen >= fold[a].seen
      PROVE  DueInv'
  BY <1>1, <1>2, DueElsewhere DEF env
<1>3. ASSUME UNCHANGED <<env, tail, fold, due>> PROVE DueInv'
  BY <1>1, <1>2, <1>3
<1>4. CASE ScanRead
  <2>1. CASE meta.torn
    BY <1>3, <1>4, <2>1 DEF ScanRead
  <2>2. CASE ~meta.torn
    <3>1. meta.at \in Nat /\ fold' = ApplySessionState(fold, meta.at) /\ UNCHANGED <<env, tail, due>>
      BY <1>4, <2>2 DEF ScanRead, StreamBase, StreamTypes
    <3>2. fold' \in [Agents -> RowType] /\ \A a \in Agents : fold[a] # None => fold'[a].seen >= fold[a].seen
      BY <3>1, StateFolds
    <3>3. \A a \in Agents : fold'[a] # None
      BY <3>2, NoneAssumption
    <3>. QED
      BY <1>2, <3>1, <3>2, <3>3
  <2>. QED
    BY <2>1, <2>2
<1>5. ASSUME NEW a \in Agents, NEW b \in BOOLEAN, Omkc(a, b) PROVE DueInv'
  <2>1. fold' = ApplyOmkcEvent(fold, a, b) /\ UNCHANGED <<env, tail, due>>
    BY <1>5 DEF Omkc
  <2>2. /\ fold'[a] \in RowType /\ \A c \in Agents \ {a} : fold'[c] = fold[c]
        /\ fold[a] # None => fold'[a].seen >= fold[a].seen
    BY <2>1, OmkcFolds
  <2>3. \A c \in Agents : fold[c] # None => fold'[c] # None /\ fold'[c].seen >= fold[c].seen
    BY <1>1, <2>2, NoneAssumption
  <2>. QED
    BY <1>2, <2>1, <2>3
<1>6. CASE Sweep
  <2>1. \A a \in Agents : Folded(a)
    BY <1>6 DEF Sweep, MaySweep, CatchingUp, Unread
  <2>2. ASSUME NEW a \in Agents PROVE Folded(a)'
    <3>1. UNCHANGED <<env, due>> /\ fold'[a] \in {fold[a], None}
      BY <1>6 DEF Sweep
    <3>2. CASE fold'[a] = fold[a]
      BY <2>1, <3>1, <3>2 DEF Folded, env
    <3>3. CASE fold[a] # None /\ fold'[a] = None
      BY <1>6, <3>1, <3>3, SweepDropsTheIdle DEF Folded, env
    <3>. QED
      BY <3>1, <3>2, <3>3
  <2>. QED
    BY <2>2
<1>7. CASE ScanStart \/ ScanState \/ PumpStart \/ Flush \/ Connect \/ Disconnect \/ Drain \/ UNCHANGED vars
  BY <1>3, <1>7 DEF ScanStart, ScanState, PumpStart, Flush, Connect, Disconnect, Drain, vars, watch, rows
<1>. QED
  BY <1>4, <1>5, <1>6, <1>7, PumpKeepsDue, EngineKeepsDue DEF Next, Scan, Pump

(* The sweep drops no agent that the part of its wire file known to the    *)
(* watcher shows to be alive, but for what was unread when the file was    *)
(* rewritten (index.ts:392-404, watcher.ts:354-376).                       *)
THEOREM OnlyTheIdleGo == Spec => EvictsOnlyTheIdle
<1>1. Init => StreamBase /\ DueInv
  BY InitBase DEF Init, DueInv, Folded
<1>2. StreamBase /\ DueInv /\ [Next]_vars => StreamBase' /\ DueInv'
  BY BaseKept, DueKept
<1>3. StreamBase /\ DueInv /\ [Next]_vars
        => [\A a \in Agents : fold[a] # None /\ fold'[a] = None => now - due[a] > EvictAfter]_vars
  <2> SUFFICES ASSUME StreamBase, DueInv, Next, NEW a \in Agents, fold[a] # None, fold'[a] = None
               PROVE  now - due[a] > EvictAfter
    OBVIOUS
  <2>1. CASE Sweep
    BY <2>1, SweepDropsTheIdle
  <2>2. CASE ScanRead
    <3>1. meta.at \in Nat /\ (fold' = fold \/ fold' = ApplySessionState(fold, meta.at))
      BY <2>2 DEF ScanRead, StreamBase, StreamTypes
    <3>. QED
      BY <3>1, StateFolds, NoneAssumption
  <2>3. ASSUME NEW b \in Agents, NEW c \in BOOLEAN, Omkc(b, c) PROVE FALSE
    <3>1. fold'[b] \in RowType /\ \A d \in Agents \ {b} : fold'[d] = fold[d]
      BY <2>3, OmkcFolds DEF Omkc
    <3>. QED
      BY <3>1, NoneAssumption
  <2>4. CASE PumpChunk
    <3> DEFINE b == pump.at
    <3>1. b \in Agents /\ tail[b] \in TailType /\ tail[b].off \in Nat
      BY <2>4, NoneAssumption DEF PumpChunk, Pumped, StreamBase, StreamTypes, TailType
    <3>2. PICK n \in 1..(tail[b].size - tail[b].off) :
            /\ tail[b].off + n <= Len(wire[b])
            /\ fold' = ApplyWire(fold, b, SubSeq(wire[b], tail[b].off + 1, tail[b].off + n))
      BY <2>4 DEF PumpChunk
    <3>3. n \in Nat /\ n > 0
      BY <3>1, <3>2 DEF TailType
    <3>4. fold'[b] \in RowType /\ \A d \in Agents \ {b} : fold'[d] = fold[d]
      BY <3>1, <3>2, <3>3, ChunkFolds
    <3>. QED
      BY <3>4, NoneAssumption
  <2>. QED
    BY <2>1, <2>2, <2>3, <2>4
    DEF Next, Engine, AppendRecord, Truncate, BeginWrite, EndWrite, Tick, Scan, ScanStart, ScanAgent, ScanState,
        Pump, PumpStart, PumpNext, Flush, Connect, Disconnect, Drain, rows
<1>. QED
  BY <1>1, <1>2, <1>3, PTL DEF Spec, EvictsOnlyTheIdle
=============================================================================
