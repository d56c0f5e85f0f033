-------------------------------- MODULE Notes --------------------------------
(***************************************************************************)
(* modules/handoff and modules/tips: two typed views of the shared boards. *)
(* A handoff is an entry of its recipient's board, pending until somebody  *)
(* consumes or archives it; a tip is an entry of its workspace's board,    *)
(* patched in place.  Both change by BoardStore.mutate: fold, judge and    *)
(* stamp, then append; the appends of other processes come in between.     *)
(*                                                                         *)
(* A board is the fold of its file: one entry per key, the newest.  Stamps *)
(* are distinct (BoardStore.tla is about ties, failed appends and stale    *)
(* folds) and adoptions wait for requests (ProjectBoards.tla is about the  *)
(* ones that do not).  A workspace's path hash is the workspace itself.    *)
(* Validation, titles and contexts are left out: a field is the stamp of   *)
(* the change that set it.  Requests that are refused and those that only  *)
(* read change nothing: a listing is an operator.                          *)
(*                                                                         *)
(* A definition X_Y is X as a plausible bug would have it.                 *)
(***************************************************************************)
EXTENDS Naturals, FiniteSets

CONSTANTS
  Procs, Calls, Home,     (* requests in flight and the process of each    *)
  Workspaces, Projects, Global, None,
  Cap,                    (* HANDOFF_SCAN_MAX, TIP_LIST_MAX_LIMIT          *)
  MaxOps, MaxLinks        (* bounds: changes, adoptions and the like       *)

VARIABLES
  alias,                  (* the registry: the live project of a workspace *)
  boards,                 (* the entries of each scope's file              *)
  attic,                  (* what a workspace's board was when adopted     *)
  call,                   (* requests between fold and append              *)
  clock,                  (* the last stamp; ids are stamps too            *)
  links,
  acked,                  (* history: the creations acknowledged           *)
  done                    (* history: the changes acknowledged             *)

files == <<alias, boards, attic>>
history == <<acked, done>>
vars == <<files, call, clock, links, history>>

Scopes == Workspaces \cup Projects \cup {Global}
Idle == [op |-> "none"]

Init ==
  /\ alias = [w \in Workspaces |-> None]
  /\ boards = [s \in Scopes |-> {}] /\ attic = [w \in Workspaces |-> {}]
  /\ call = [c \in Calls |-> Idle]
  /\ clock = 0 /\ links = 0 /\ acked = {} /\ done = {}

(* ---------------------------------------------------------------------- *)
(* Names                                                                   *)

(* The board a workspace's requests reach; other targets name their own.   *)
Identity(t) == IF t \in Workspaces /\ alias[t] # None THEN alias[t] ELSE t
Target_Cold(t) == t
Target(t) == Identity(t)

(* What a sender may have signed with: its project, or any of the paths    *)
(* that the project goes by.                                               *)
Identities_OwnOnly(w) == {Identity(w)}
Identities(w) ==
  {Identity(w)} \cup {v \in Workspaces : alias[v] # None /\ alias[v] = alias[w]}

(* The scopes with a file: a leftover workspace file stands for the board  *)
(* its path resolves to.                                                   *)
KnownScopes == {Global} \cup {Target(s) : s \in {t \in Scopes : boards[t] # {}}}

(* The tools name any target.  The pages name a workspace whose sidecar    *)
(* exists, or a project by one of its directories.                         *)
Browsable == {w \in Workspaces : boards[w] # {} \/ alias[w] # None}
Targets(via) == IF via = "tool" THEN Scopes ELSE Browsable
Callers(via) == Workspaces \cap Targets(via)

(* ---------------------------------------------------------------------- *)
(* BoardStore.mutate: one request at a time per process and scope          *)

HandoffEntry(w) ==
  [id |-> clock + 1, kind |-> "handoff", state |-> "pending", body |-> clock + 1,
   from |-> Identity(w), ts |-> clock + 1]
TipEntry(state) ==
  [id |-> clock + 1, kind |-> "tip", state |-> state, body |-> clock + 1,
   from |-> None, ts |-> clock + 1]
(* moa_board_write reaches the same files, and the keys of handoffs.       *)
RawEntry(kind) ==
  [id |-> clock + 1, kind |-> kind, state |-> "none", body |-> clock + 1,
   from |-> None, ts |-> clock + 1]

Free(c, s) == \A d \in Calls : call[d] # Idle => Home[d] # Home[c] \/ call[d].at # s

Begin(c, op, s, e, by) ==
  /\ call[c] = Idle /\ Free(c, s) /\ clock < MaxOps
  /\ call' = [call EXCEPT ![c] =
                [op |-> op, at |-> s, entry |-> e, by |-> by, raced |-> FALSE]]
  /\ clock' = clock + 1
  /\ UNCHANGED <<files, links, history>>

(* Last writer wins, by the stamp.                                         *)
Put(board, e) ==
  IF \E f \in board : f.id = e.id /\ f.ts > e.ts THEN board
  ELSE {f \in board : f.id # e.id} \cup {e}

Merged(a, b) ==
  {e \in a \cup b : \A f \in a \cup b : f.id = e.id => f.ts <= e.ts}

Rivals(c) == {d \in Calls \ {c} : /\ call[d] # Idle /\ call[d].at = call[c].at
                                  /\ call[d].entry.id = call[c].entry.id}

(* The changes a request makes to fields: of a tip the one that carries    *)
(* its stamp, of a handoff its state.                                      *)
Change(c) ==
  LET e == call[c].entry
  IN [id |-> e.id, at |-> call[c].at, op |-> call[c].op, val |-> IF call[c].op = "edit" THEN e.body ELSE e.state,
      ts |-> e.ts, clean |-> ~call[c].raced /\ Rivals(c) = {}]

Append(c) ==
  /\ call[c] # Idle
  /\ boards' = [boards EXCEPT ![call[c].at] = Put(@, call[c].entry)]
  /\ call' = [d \in Calls |->
                IF d = c THEN Idle
                ELSE IF d \in Rivals(c) THEN [call[d] EXCEPT !.raced = TRUE] ELSE call[d]]
  /\ IF call[c].op \in {"send", "capture", "raw"}
     THEN /\ acked' = acked \cup {[id |-> call[c].entry.id, kind |-> call[c].entry.kind, at |-> call[c].at,
                                   by |-> call[c].by, as |-> call[c].entry.from]}
          /\ UNCHANGED done
     ELSE done' = done \cup {Change(c)} /\ UNCHANGED acked
  /\ UNCHANGED <<alias, attic, clock, links>>

(* The append is refused: mutate undoes what it did in memory.             *)
Refused(c) ==
  /\ call[c] # Idle
  /\ call' = [call EXCEPT ![c] = Idle]
  /\ UNCHANGED <<files, clock, links, history>>

(* ---------------------------------------------------------------------- *)
(* Handoffs                                                                *)

(* send: nobody asks whether the project exists.                           *)
Send(c, w, to) == Begin(c, "send", to, HandoffEntry(w), w)

(* transition: only what is pending moves, and only once.                  *)
Actionable_Any(e) == e.kind = "handoff"
Actionable(e) == e.kind = "handoff" /\ e.state = "pending"

Transition(c, t, next) ==
  \E e \in boards[Target(t)] :
    /\ Actionable(e)
    /\ Begin(c, "move", Target(t), [e EXCEPT !.state = next, !.ts = clock + 1], None)

(* The newest Cap rows of a board's namespace, then the filter, and then   *)
(* as many of the newest as the caller's limit allows.                     *)
Newer(rows, e) == {f \in rows : f.ts > e.ts}
First(rows, n) == {e \in rows : Cardinality(Newer(rows, e)) < n}
Newest(rows) == First(rows, Cap)
InNamespace(e) == e.kind \in {"handoff", "junk"}
Mail_Crowded(s) == {e \in Newest(boards[s]) : InNamespace(e)}
Mail(s) == Newest({e \in boards[s] : InNamespace(e)})

(* One row that does not decode fails the whole listing.                   *)
Decodes(rows) == \A e \in rows : e.kind # "junk"
Shown(rows, wanted, limit) ==
  {e.id : e \in First({f \in rows : f.state \in wanted}, limit)}
DefaultView == {"pending", "consumed"}

Failed == [ok |-> FALSE, ids |-> {}]
Listing(rows, wanted, limit) ==
  IF Decodes(rows) THEN [ok |-> TRUE, ids |-> Shown(rows, wanted, limit)] ELSE Failed

Inbox(t, wanted, limit) == Listing(Mail(Target(t)), wanted, limit)

(* One limit for all boards together, after the sender's own are picked.   *)
SentFrom(rows, w) == {e \in rows : e.from \in Identities(w)}
Outbox_CutFirst(w, wanted, limit) ==
  LET rows == UNION {Mail(s) : s \in KnownScopes}
  IN IF Decodes(rows) THEN Listing(SentFrom(First(rows, limit), w), wanted, limit) ELSE Failed
Outbox(w, wanted, limit) ==
  LET rows == UNION {Mail(s) : s \in KnownScopes}
  IN IF Decodes(rows) THEN Listing(SentFrom(rows, w), wanted, limit) ELSE Failed

(* ---------------------------------------------------------------------- *)
(* Tips                                                                    *)

CaptureTip(c, w, state) == Begin(c, "capture", Target(w), TipEntry(state), w)

(* A patch changes the fields it names and keeps the others as they are    *)
(* in the entry it was applied to.                                         *)
Patched_Whole(e, field, val) ==
  IF field = "body" THEN [e EXCEPT !.body = val, !.state = "captured"] ELSE [e EXCEPT !.state = val]
Patched(e, field, val) ==
  IF field = "body" THEN [e EXCEPT !.body = val] ELSE [e EXCEPT !.state = val]

ChangeTip(c, w, op, field, val) ==
  \E e \in boards[Target(w)] :
    /\ e.kind = "tip"
    /\ Begin(c, op, Target(w), [Patched(e, field, val) EXCEPT !.ts = clock + 1], None)

UpdateTip(c, w) ==
  \/ ChangeTip(c, w, "edit", "body", clock + 1)
  \/ ChangeTip(c, w, "mark", "state", "captured")
ArchiveTip(c, w) == ChangeTip(c, w, "mark", "state", "archived")

(* The newest Cap rows of the whole board, then those that are tips.       *)
Tips(s) == {e \in Newest(boards[s]) : e.kind = "tip"}

ListTips(w, wanted, limit) == Listing(Tips(Target(w)), wanted, limit)

(* ---------------------------------------------------------------------- *)
(* The tools and the routes                                                *)

HandoffTools(c) ==
  \E w \in Workspaces :
    \/ \E to \in Projects \cup {Global} : Send(c, w, to)
    \/ \E t \in Targets("tool"), next \in {"consumed", "archived"} : Transition(c, t, next)

HandoffRoutes(c) ==
  \E w \in Callers("page"), next \in {"consumed", "archived"} : Transition(c, w, next)

TipRequests(c, via) ==
  \E w \in Callers(via) :
    CaptureTip(c, w, "captured") \/ UpdateTip(c, w) \/ ArchiveTip(c, w)
TipTools(c) == TipRequests(c, "tool")
TipRoutes(c) == TipRequests(c, "page")

(* Other writers of the same boards.                                       *)
WriteRaw(c) ==
  \E s \in Scopes, kind \in {"raw", "junk"} :
    Target(s) = s /\ Begin(c, "raw", s, RawEntry(kind), None)

(* ---------------------------------------------------------------------- *)
(* The registry: adoption moves a board, detachment brings it back         *)

Quiet == links < MaxLinks /\ \A c \in Calls : call[c] = Idle

(* A detached workspace keeps its copies and the project its own.  When it *)
(* is adopted again the newer of two copies stays, whole.                  *)
Forked(d, w, q) ==
  d.at \in {w, q} /\ \E e \in boards[w], f \in boards[q] : e.id = d.id /\ f.id = d.id

Adopt(w, q) ==
  /\ Quiet /\ alias[w] = None
  /\ alias' = [alias EXCEPT ![w] = q]
  /\ boards' = [boards EXCEPT ![q] = Merged(@, boards[w]), ![w] = {}]
  /\ attic' = [attic EXCEPT ![w] = boards[w]]
  /\ acked' = {IF a.at = w THEN [a EXCEPT !.at = q] ELSE a : a \in acked}
  /\ done' = {[d EXCEPT !.at = IF d.at = w THEN q ELSE d.at,
                        !.clean = d.clean /\ ~Forked(d, w, q)] : d \in done}
  /\ links' = links + 1
  /\ UNCHANGED <<call, clock>>

Detach(w) ==
  /\ Quiet /\ alias[w] # None
  /\ alias' = [alias EXCEPT ![w] = None]
  /\ boards' = [boards EXCEPT ![w] = attic[w]]
  /\ acked' = acked \cup {[a EXCEPT !.at = w] : a \in {b \in acked : b.id \in {e.id : e \in attic[w]}}}
  /\ links' = links + 1
  /\ UNCHANGED <<attic, call, clock, done>>

Next ==
  \/ \E c \in Calls :
       \/ HandoffTools(c) \/ HandoffRoutes(c) \/ TipTools(c) \/ TipRoutes(c)
       \/ WriteRaw(c) \/ Append(c) \/ Refused(c)
  \/ \E w \in Workspaces : Detach(w) \/ \E q \in Projects : Adopt(w, q)

Spec == Init /\ [][Next]_vars

(* ---------------------------------------------------------------------- *)
(* Properties                                                              *)

(* A handoff is claimed once: of the consumptions and archivings that were *)
(* acknowledged at most one did not overlap another request for it between *)
(* fold and append (handoff.ts:434; index.ts:117 "Only pending -> consumed *)
(* | archived transitions are legal").                                     *)
ClaimedOnce ==
  \A d, f \in done : d.op = "move" /\ f.op = "move" /\ d.clean /\ f.clean /\ d.id = f.id => d = f

(* An acknowledged patch of a tip is still there, on the board it was made *)
(* on or the one that adopted it, unless a later one names the same field  *)
(* or another process's request overlapped it, or the tip was merged with  *)
(* a copy of it: a patch never takes back a field it does not name         *)
(* (tips.ts:383).                                                          *)
PatchesSurvive ==
  \A d \in done : d.clean /\ d.op # "move" =>
    \/ \E e \in boards[d.at] :
         e.id = d.id /\ d.val = IF d.op = "edit" THEN e.body ELSE e.state
    \/ \E f \in done : f.id = d.id /\ f.at = d.at /\ f.op = d.op /\ f.ts > d.ts
    \/ \E f \in done : f.id = d.id /\ f.at = d.at /\ ~f.clean /\ f.ts > d.ts

(* A listing shows every acknowledged handoff, tip or message of the one   *)
(* who asks that the filter lets through, wherever adoptions have moved    *)
(* it and whichever name it was sent under, unless as many newer ones as   *)
(* the limit belong to the same listing: those of all boards, for an       *)
(* outbox.  That is as long as what is scanned of its board fits the       *)
(* scan's cap: the namespace for handoffs, the whole board for tips        *)
(* (handoff.ts:378, 414; tips.ts:353).                                     *)
Fits(rows) == Cardinality(rows) <= Cap
Lists(listing, a, wanted, rivals, limit) ==
  listing.ok =>
    \A e \in boards[a.at] :
      /\ e.id = a.id /\ e.state \in wanted
      /\ Cardinality({f \in Newer(rivals, e) : f.state \in wanted}) < limit
      => a.id \in listing.ids

HandoffsOf(s) == {e \in boards[s] : e.kind = "handoff"}
TipsOf(s) == {e \in boards[s] : e.kind = "tip"}
Sent(w) == SentFrom(UNION {HandoffsOf(s) : s \in Scopes}, w)

ListingsComplete ==
  \A a \in acked, w \in Workspaces, limit \in 1..Cap :
    /\ a.kind = "handoff" /\ Fits({e \in boards[a.at] : InNamespace(e)}) =>
         /\ a.at = Identity(w) =>
              Lists(Inbox(w, DefaultView, limit), a, DefaultView, HandoffsOf(a.at), limit)
         /\ a.by = w /\ a.as \in {w, alias[w]} =>
              Lists(Outbox(w, DefaultView, limit), a, DefaultView, Sent(w), limit)
    /\ a.kind = "tip" /\ a.at = Identity(w) /\ Fits(boards[a.at]) =>
         Lists(ListTips(w, {"captured"}, limit), a, {"captured"}, TipsOf(a.at), limit)
=============================================================================
