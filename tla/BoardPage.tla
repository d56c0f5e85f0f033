------------------------------ MODULE BoardPage ------------------------------
(***************************************************************************)
(* The board view of the control plane's page and the two requests behind  *)
(* it: entries are listed without their values, the selected one is        *)
(* fetched, edited in a form and saved or deleted on the condition that it *)
(* still has the stamp it was fetched with, while agents write the same    *)
(* boards, answers overtake each other and the user changes the board, the *)
(* selection and the form under requests on their way.                     *)
(*                                                                         *)
(* A version is its stamp and its text at once; no two writes have the     *)
(* same one (board.ts:1549, for one process; writes of two boards are      *)
(* taken to fall into different milliseconds).  Filters, the order of the  *)
(* list, sizes, tags and authors are left out.                             *)
(*                                                                         *)
(* A definition X_Y is X as a plausible bug would have it.                 *)
(***************************************************************************)
EXTENDS Naturals, Sequences

CONSTANTS
  Workspaces,             (* what the workspace selector offers            *)
  Keys,
  Boarded, Written,       (* the boards as the page finds them, and the    *)
                          (* last version that they hold                   *)
  Slots,                  (* bound: requests under way at once, 1..n       *)
  MaxWrites, MaxActs      (* bounds: agents' writes; what the user does,   *)
                          (* apart from closing and reloading, and polls   *)

VARIABLES
  store,                  (* board -> key -> its version, 0 for none       *)
  clock,                  (* the last version                              *)
  view,                   (* the selectors, the rows and the detail pane   *)
  form,                   (* boardEditing and the form's text              *)
  asked,                  (* the requests under way                        *)
  stream,                 (* the events the subscription has still to hand *)
                          (* on; bound: one                                *)
  writes, acts,
  unseen                  (* history: a version was replaced whose text    *)
                          (* neither the form nor the pane had shown       *)

vars == <<store, clock, view, form, asked, stream, writes, acts, unseen>>

Unset == "none"
Boards == {"global"} \cup Workspaces
NoDetail == [state |-> Unset, key |-> Unset, ts |-> 0, text |-> 0]
NoForm == [mode |-> Unset, scope |-> Unset, workspace |-> Unset, key |-> Unset,
           expected |-> 0, text |-> 0, external |-> FALSE, conflict |-> FALSE]
NoRequest == [kind |-> Unset, board |-> Unset, key |-> Unset, expected |-> 0,
              text |-> 0, answer |-> Unset, rows |-> <<>>]
Empty == [k \in Keys |-> 0]

BoardOf(scope, workspace) == IF scope = "global" THEN "global" ELSE workspace
Shown(v) == BoardOf(v.scope, v.workspace)

(* ---------------------------------------------------------------------- *)
(* Requests                                                                *)

ListOf(v) == [NoRequest EXCEPT !.kind = "list", !.board = Shown(v)]
Fetch(v, k) == [NoRequest EXCEPT !.kind = "detail", !.board = Shown(v), !.key = k]

(* The page has just been opened, or turned to the board.                 *)
Init ==
  /\ store = Boarded /\ clock = Written
  /\ \E w \in Workspaces :
       view = [scope |-> "workspace", workspace |-> w, selected |-> Unset,
               rows |-> Empty, detail |-> NoDetail]
  /\ form = NoForm
  /\ asked = [s \in Slots |-> IF s = 1 THEN ListOf(view) ELSE NoRequest] /\ stream = <<>>
  /\ writes = 0 /\ acts = 0 /\ unseen = FALSE

Send(request) ==
  \E s \in Slots :
    /\ asked[s] = NoRequest /\ \A t \in Slots : t < s => asked[t] # NoRequest
    /\ asked' = [asked EXCEPT ![s] = request]

Act == acts < MaxActs /\ acts' = acts + 1

(* A change is announced to the page if it watches that board, unless the  *)
(* stream is broken.                                                       *)
Announce(b, k) ==
  \/ UNCHANGED stream
  \/ /\ b = Shown(view) /\ stream = <<>>
     /\ stream' = <<[key |-> k, scope |-> view.scope, ts |-> clock']>>

Put(b, k, version) ==
  /\ clock' = clock + 1
  /\ store' = [store EXCEPT ![b][k] = version]
  /\ Announce(b, k)

(* Agents write and delete entries.                                        *)
AgentWrites(b, k) ==
  /\ writes < MaxWrites /\ writes' = writes + 1
  /\ Put(b, k, clock + 1)
  /\ UNCHANGED <<view, form, asked, acts, unseen>>
AgentDeletes(b, k) ==
  /\ store[b][k] # 0
  /\ writes < MaxWrites /\ writes' = writes + 1
  /\ Put(b, k, 0)
  /\ UNCHANGED <<view, form, asked, acts, unseen>>

(* mutateBoard: null expects no entry, a stamp that very version.          *)
Matches_Newer(r) ==
  LET now == store[r.board][r.key] IN IF r.expected = 0 THEN now = 0 ELSE r.expected <= now
Matches(r) == r.expected = store[r.board][r.key]

Answered(s, a, rows) == asked' = [asked EXCEPT ![s].answer = a, ![s].rows = rows]

(* readBoard and mutateBoard.  Without a key the whole board is read.      *)
Serve(s) ==
  LET r == asked[s] IN
  /\ r.kind # Unset /\ r.answer = Unset
  /\ \/ /\ r.kind \in {"list", "detail", "reload"}
        /\ Answered(s, "ok", [k \in Keys |-> IF r.key \in {Unset, k} THEN store[r.board][k] ELSE 0])
        /\ UNCHANGED <<store, clock, stream, unseen>>
     \/ /\ r.kind \in {"save", "delete"} /\ ~ Matches(r)
        /\ Answered(s, "conflict", <<>>)
        /\ UNCHANGED <<store, clock, stream, unseen>>
     \/ /\ r.kind \in {"save", "delete"} /\ Matches(r)
        /\ Put(r.board, r.key, IF r.kind = "save" THEN clock + 1 ELSE 0)
        /\ unseen' = (unseen \/ r.text # store[r.board][r.key])
        /\ Answered(s, "ok", <<>>)
  /\ UNCHANGED <<view, form, writes, acts>>

(* ---------------------------------------------------------------------- *)
(* The list and the detail pane                                            *)

(* viewBoardEntry: the row has no value, the entry is fetched.             *)
Looking(v, k) == [v EXCEPT !.selected = k, !.detail = [NoDetail EXCEPT !.state = "loading"]]

(* renderBoardList: the selected row, or the first one in the order chosen.*)
RenderList(s, rows) ==
  LET there == {k \in Keys : rows[k] # 0} IN
  \/ /\ there = {}
     /\ view' = [view EXCEPT !.rows = rows, !.selected = Unset, !.detail = NoDetail]
     /\ asked' = [asked EXCEPT ![s] = NoRequest]
  \/ \E k \in there :
       /\ view.selected \in there => k = view.selected
       /\ view' = Looking([view EXCEPT !.rows = rows], k)
       /\ asked' = [asked EXCEPT ![s] = Fetch(view, k)]

(* The entry that was fetched, or that it is gone and can not be edited,   *)
(* unless another one is selected by now.                                  *)
RenderDetail_Row(r) ==
  IF view.selected # r.key THEN view
  ELSE [view EXCEPT !.detail = [state |-> "full", key |-> r.key, text |-> r.rows[r.key],
                                ts |-> IF r.rows[r.key] = 0 THEN view.rows[r.key] ELSE r.rows[r.key]]]
RenderDetail(r) ==
  IF view.selected # r.key THEN view
  ELSE [view EXCEPT !.detail = [state |-> IF r.rows[r.key] = 0 THEN "missing" ELSE "full",
                                key |-> r.key, ts |-> r.rows[r.key], text |-> r.rows[r.key]]]

(* ---------------------------------------------------------------------- *)
(* Answers                                                                 *)

Arrived(s, kind) == asked[s].kind = kind /\ asked[s].answer # Unset
Settle(s) == asked' = [asked EXCEPT ![s] = NoRequest]

ListArrives(s) ==
  /\ Arrived(s, "list")
  /\ RenderList(s, asked[s].rows)
  /\ UNCHANGED <<store, clock, form, stream, writes, acts, unseen>>

DetailArrives(s) ==
  /\ Arrived(s, "detail")
  /\ view' = RenderDetail(asked[s])
  /\ Settle(s)
  /\ UNCHANGED <<store, clock, form, stream, writes, acts, unseen>>

(* saveBoardEntry: success selects the entry, closes the form that is open *)
(* by now, subscribes anew and lists; a conflict offers the reload.        *)
SaveArrives(s) ==
  LET r == asked[s] IN
  /\ Arrived(s, "save")
  /\ \/ /\ r.answer = "ok"
        /\ view' = [view EXCEPT !.selected = r.key,
                                !.scope = IF r.board = "global" THEN "global" ELSE "workspace"]
        /\ form' = NoForm
        /\ stream' = <<>>
        /\ asked' = [asked EXCEPT ![s] = ListOf(view')]
     \/ /\ r.answer = "conflict"
        /\ form' = IF form.mode = Unset THEN form ELSE [form EXCEPT !.conflict = TRUE]
        /\ Settle(s)
        /\ UNCHANGED <<view, stream>>
  /\ UNCHANGED <<store, clock, writes, acts, unseen>>

DeleteArrives(s) ==
  /\ Arrived(s, "delete")
  /\ \/ /\ asked[s].answer = "ok"
        /\ view' = [view EXCEPT !.selected = Unset]
        /\ asked' = [asked EXCEPT ![s] = ListOf(view)]
     \/ /\ asked[s].answer = "conflict"
        /\ Settle(s) /\ UNCHANGED view
  /\ UNCHANGED <<store, clock, form, stream, writes, acts, unseen>>

(* reloadBoardConflict: stamp and text of the current version, if it has   *)
(* the entry that the form is on by now.  A form for a new entry is on     *)
(* none.                                                                   *)
ReloadArrives(s) ==
  LET rows == asked[s].rows IN
  /\ Arrived(s, "reload")
  /\ form' = IF form.mode # "edit" THEN form
             ELSE IF rows[form.key] = 0 THEN form
             ELSE [form EXCEPT !.expected = rows[form.key], !.text = rows[form.key],
                               !.external = FALSE, !.conflict = FALSE]
  /\ Settle(s)
  /\ UNCHANGED <<store, clock, view, stream, writes, acts, unseen>>

Arrive(s) ==
  ListArrives(s) \/ DetailArrives(s) \/ SaveArrives(s) \/ DeleteArrives(s) \/ ReloadArrives(s)

(* A request fails, before or after it was handled.                        *)
Fail(s) ==
  /\ asked[s] # NoRequest
  /\ Settle(s)
  /\ UNCHANGED <<store, clock, view, form, stream, writes, acts, unseen>>

(* ---------------------------------------------------------------------- *)
(* The stream and the poll                                                 *)

(* handleBoardEvent: a form on the entry is warned, its stamp stays.       *)
Concerns(e) == form.mode = "edit" /\ e.scope = form.scope /\ e.key = form.key /\ e.ts # form.expected
Warned_Adopts(e) ==
  IF Concerns(e) THEN [form EXCEPT !.external = TRUE, !.expected = e.ts] ELSE form
Warned(e) == IF Concerns(e) THEN [form EXCEPT !.external = TRUE] ELSE form

EventArrives ==
  /\ stream # <<>>
  /\ form' = Warned(Head(stream))
  /\ stream' = Tail(stream)
  /\ UNCHANGED <<store, clock, view, asked, writes, acts, unseen>>

(* The poll, or the timer that an event started.                           *)
Refresh ==
  /\ Act
  /\ Send(ListOf(view))
  /\ UNCHANGED <<store, clock, view, form, stream, writes, unseen>>

(* ---------------------------------------------------------------------- *)
(* The user                                                                *)

ChangeScope ==
  /\ Act
  /\ view' = [view EXCEPT !.selected = Unset,
                          !.scope = IF @ = "global" THEN "workspace" ELSE "global"]
  /\ stream' = <<>>
  /\ Send(ListOf(view'))
  /\ UNCHANGED <<store, clock, form, writes, unseen>>

ApplyWorkspace(w) ==
  /\ Act /\ w # view.workspace
  /\ view' = [view EXCEPT !.workspace = w]
  /\ stream' = <<>>
  /\ Send(ListOf(view'))
  /\ UNCHANGED <<store, clock, form, writes, unseen>>

Select(k) ==
  /\ Act /\ view.rows[k] # 0
  /\ view' = Looking(view, k)
  /\ Send(Fetch(view, k))
  /\ UNCHANGED <<store, clock, form, stream, writes, unseen>>

(* openBoardForm takes the entry from the pane and the board from the      *)
(* selectors.                                                              *)
OpenForm ==
  LET d == view.detail
      Blank == [NoForm EXCEPT !.mode = "new", !.scope = view.scope, !.workspace = view.workspace] IN
  /\ Act /\ form.mode = Unset
  /\ \/ form' = Blank
     \/ /\ d.state = "full"
        /\ form' = [Blank EXCEPT !.mode = "edit", !.key = d.key, !.expected = d.ts, !.text = d.text]
  /\ UNCHANGED <<store, clock, view, asked, stream, writes, unseen>>

CloseForm ==
  /\ form.mode # Unset
  /\ form' = NoForm
  /\ UNCHANGED <<store, clock, view, asked, stream, writes, acts, unseen>>

(* Scope and key of a new entry are the form's own fields.                 *)
Save ==
  /\ Act /\ form.mode # Unset
  /\ \E scope \in {"workspace", "global"}, k \in Keys :
       /\ form.mode = "edit" => scope = form.scope /\ k = form.key
       /\ Send([NoRequest EXCEPT !.kind = "save", !.board = BoardOf(scope, form.workspace),
                                 !.key = k, !.expected = form.expected, !.text = form.text])
  /\ UNCHANGED <<store, clock, view, form, stream, writes, unseen>>

Reload ==
  /\ form.mode # Unset /\ form.conflict
  /\ Send([NoRequest EXCEPT !.kind = "reload", !.board = BoardOf(form.scope, form.workspace),
                            !.key = form.key])
  /\ UNCHANGED <<store, clock, view, form, stream, writes, acts, unseen>>

DeleteEntry ==
  LET d == view.detail IN
  /\ Act /\ d.state = "full"
  /\ Send([NoRequest EXCEPT !.kind = "delete", !.board = Shown(view), !.key = d.key,
                            !.expected = d.ts, !.text = d.text])
  /\ UNCHANGED <<store, clock, view, form, stream, writes, unseen>>

User ==
  \/ ChangeScope \/ OpenForm \/ CloseForm \/ Save \/ Reload \/ DeleteEntry
  \/ \E w \in Workspaces : ApplyWorkspace(w)
  \/ \E k \in Keys : Select(k)

Next ==
  \/ \E b \in Boards, k \in Keys : AgentWrites(b, k) \/ AgentDeletes(b, k)
  \/ \E s \in Slots : Serve(s) \/ Arrive(s) \/ Fail(s)
  \/ EventArrives \/ Refresh \/ User

Spec == Init /\ [][Next]_vars

(* ---------------------------------------------------------------------- *)
(* Properties                                                              *)

(* A save or a deletion from the page replaces the version whose text its  *)
(* form or the pane showed, on that board, and no other, whatever was      *)
(* written, selected, closed or reloaded since (pages/board.ts:106-110,    *)
(* 214, 281; control-plane.ts:1163-1172).                                  *)
NothingUnseenIsReplaced == ~ unseen
=============================================================================
