----------------------------- MODULE StatusPage -----------------------------
(***************************************************************************)
(* The status page's model of the agent tree (web/status-model.ts), driven *)
(* by the frames of /status/events in any order (web/status-board.ts).     *)
(* An agent frame names its parent and lists subagents.  A parent may come *)
(* after its children, a listed subagent may never get a frame of its own  *)
(* (the page then draws an "orphan" leaf), an evicted agent leaves by a    *)
(* `gone' frame, and a reconnect replaces the whole model by a snapshot.   *)
(* Child lists and root lists are bags: their order is layout, a double    *)
(* entry would be a defect.                                                *)
(***************************************************************************)
EXTENDS Naturals, FiniteSets, SequencesExt, Bags

CONSTANTS
  PageSessions, Ids,   \* sessions and ids of agents
  Frames,    \* agent frames: [s, id, parent, subs, busy, stale, hash]
  Rows,      \* session rows of a snapshot: [s, dir]
  None       \* the absent parent, frame, hash or directory

Keys == PageSessions \X Ids
KeyOf(f) == <<f.s, f.id>>

VARIABLES
  srv,   \* the server's agents as the page was told: the latest frame of each
  page,  \* the page's model, a StatusModel
  knot   \* some frames since the last snapshot declared parents in a circle
vars == <<srv, page, knot>>

(***************************************************************************)
(* The model.  rows: the entries, an agent by its latest frame (`said'), a *)
(* leaf, or none; older: which agent was inserted before which; roots: a   *)
(* bag of keys per session; pending: the children that wait for a parent   *)
(* that has no row; orphans: the leaf's listing parent; cache: directory   *)
(* keys already computed.                                                  *)
(***************************************************************************)
NoRow == [kind |-> "none", said |-> None, hash |-> None, status |-> None,
          up |-> None, pend |-> None, kids |-> EmptyBag]
NoSession == [known |-> FALSE, gone |-> FALSE, dir |-> None]
NewModel == [rows |-> [k \in Keys |-> NoRow], older |-> {},
             roots |-> [s \in PageSessions |-> EmptyBag],
             sess |-> [s \in PageSessions |-> NoSession],
             pending |-> [k \in Keys |-> {}], orphans |-> [k \in Keys |-> None],
             cache |-> [s \in PageSessions |-> "unread"]]

Dom(m) == {k \in Keys : m.rows[k].kind # "none"}
RealRows(m) == {k \in Keys : m.rows[k].kind = "agent"}
RowsOf(m, s) == {k \in Dom(m) : k[1] = s}

(* What steps lead to from a set of keys.                                  *)
Reached(start, step) ==
  LET closed == {C \in SUBSET Keys : start \subseteq C /\ \A y \in C : step[y] \subseteq C}
  IN  {x \in Keys : \A C \in closed : x \in C}

InvalidateDirCache_Absent(m, s) ==
  [m EXCEPT !.cache[s] = IF @ = None THEN "unread" ELSE @]
InvalidateDirCache(m, s) == [m EXCEPT !.cache[s] = "unread"]

(* A frame for an unknown session creates its row; one for a session that  *)
(* was reported gone revives it.  Only a session record sets workDir.      *)
EnsureSession(m, s) == [m EXCEPT !.sess[s] = [@ EXCEPT !.known = TRUE, !.gone = FALSE]]

UpsertSession(m, r) ==
  InvalidateDirCache([EnsureSession(m, r.s) EXCEPT !.sess[r.s].dir = IF r.dir = None THEN @ ELSE r.dir], r.s)

Just(k) == SetToBag({k})
PushRoot(m, k) == [m EXCEPT !.roots[k[1]] = IF BagIn(k, @) THEN @ ELSE @ (+) Just(k)]
DropRoot(m, k) == [m EXCEPT !.roots[k[1]] = @ (-) Just(k)]
DropKid(m, p, k) == [m EXCEPT !.rows[p].kids = @ (-) Just(k)]

(* The ancestors of k in the tree. *)
Above(m) == [k \in Keys |-> {m.rows[k].up} \ {None}]
Ancestors(m, k) == Reached(Above(m)[k], Above(m))
WouldCycle_OneLevel(m, start, target) == target = start
WouldCycle(m, start, target) == target = start \/ target \in Ancestors(m, start)

DetachEntry(m, k, e) ==
  LET d == IF e.up # None THEN DropKid(m, e.up, k) ELSE DropRoot(m, k)
  IN  IF e.pend # None THEN [d EXCEPT !.pending[e.pend] = @ \ {k}] ELSE d

(* The parent that an agent's frame declares. *)
Candidate(f) == IF f = None \/ f.parent \in {None, f.id} THEN None ELSE <<f.s, f.parent>>

(* Place the entry under its declared parent, or as a root that waits for  *)
(* a parent without a row of its own, or as a plain root.                  *)
ResolveAndAttach(m, k) ==
  LET e == m.rows[k]
      d == DetachEntry(m, k, e)
      cand == Candidate(e.said)
      placed(up, pend) == [d EXCEPT !.rows[k] = [@ EXCEPT !.up = up, !.pend = pend]]
  IN  IF cand # None /\ cand \notin RealRows(d)
        THEN PushRoot([placed(None, cand) EXCEPT !.pending[cand] = @ \cup {k}], k)
      ELSE IF cand # None /\ ~WouldCycle(d, cand, k)
        THEN DropRoot([placed(cand, None) EXCEPT !.rows[cand].kids = @ (+) Just(k)], k)
      ELSE PushRoot(placed(None, None), k)

(* A subagent the frame lists and that has no row yet becomes a leaf. *)
FillOrphans(m, k) ==
  LET subs == m.rows[k].said.subs
      new == {<<k[1], i>> : i \in DOMAIN subs} \ {o \in Keys : o \in RealRows(m) \/ m.orphans[o] # None}
      leaf(o) == [NoRow EXCEPT !.kind = "leaf", !.status = subs[o[2]], !.up = k]
      lister == [m.rows[k] EXCEPT !.kids = m.rows[k].kids (+) SetToBag(new)]
  IN  [m EXCEPT !.rows = [o \in Keys |-> IF o \in new THEN leaf(o) ELSE IF o = k THEN lister ELSE @[o]],
                !.orphans = [o \in Keys |-> IF o \in new THEN k ELSE @[o]]]

DrainPending_Forgotten(m, k) == [m EXCEPT !.pending[k] = {}]

(* The children that were waiting for k and still are come under k, or are *)
(* plain roots where that would close a circle.                            *)
DrainPending(m, k) ==
  LET kids == {c \in m.pending[k] : m.rows[c].kind = "agent" /\ m.rows[c].pend = k}
      adopted == {c \in kids : ~WouldCycle(m, k, c)}
      child(c) == [m.rows[c] EXCEPT !.pend = None, !.up = IF c \in adopted THEN k ELSE m.rows[c].up]
      parent == [m.rows[k] EXCEPT !.kids = m.rows[k].kids (+) SetToBag(adopted)]
  IN  [m EXCEPT !.pending[k] = {},
                !.rows = [c \in Keys |-> IF c \in kids THEN child(c) ELSE IF c = k THEN parent ELSE @[c]],
                !.roots[k[1]] = @ (-) SetToBag(adopted)]

(* An existing row keeps its place; fields the frame leaves out stay. *)
NormalizeEntry(m, k, f) ==
  [m EXCEPT !.rows[k] = [@ EXCEPT !.kind = "agent", !.said = f,
                                  !.hash = IF f.hash = None THEN m.rows[k].hash ELSE f.hash],
            !.older = IF k \in RealRows(m) THEN @ ELSE @ \cup (RealRows(m) \X {k})]

Cleared(rows, D) == [k \in Keys |-> IF k \in D THEN NoRow ELSE rows[k]]
DropLeaf(m, k) == [m EXCEPT !.rows = Cleared(@, {k}), !.orphans[k] = None]

(* A leaf leaves its parent's list; a frame of its own supersedes it. *)
RemoveOrphan(m, k) == DropKid(DropLeaf(m, k), m.rows[k].up, k)
Promote(m, k) == IF m.rows[k].kind = "leaf" THEN RemoveOrphan(m, k) ELSE m

UpsertAgent(m, f) ==
  LET k == KeyOf(f)
      fresh == Promote(InvalidateDirCache(EnsureSession(m, f.s), f.s), k)
  IN  DrainPending(FillOrphans(ResolveAndAttach(NormalizeEntry(fresh, k, f), k), k), k)

DropSession(m, s) == [m EXCEPT !.sess[s] = NoSession, !.roots[s] = EmptyBag, !.cache[s] = "unread"]
PruneEmptySession(m, s) == IF RowsOf(m, s) = {} THEN DropSession(m, s) ELSE m

(* gone(P): P and its leaves go; its own children become roots that wait   *)
(* for P, so that a later frame of P adopts them again.                    *)
RemoveReal(m, k) ==
  LET e == m.rows[k]
      leaves == {c \in BagToSet(e.kids) : m.rows[c].kind = "leaf"}
      rest == {c \in BagToSet(e.kids) : m.rows[c].kind = "agent"}
      cut == DetachEntry([m EXCEPT !.rows = Cleared(@, leaves \cup {k}),
                                   !.older = {p \in @ : k \notin {p[1], p[2]}},
                                   !.orphans = [o \in Keys |-> IF o \in leaves THEN None ELSE @[o]]], k, e)
  IN  PruneEmptySession(
        [cut EXCEPT !.rows = [c \in Keys |-> IF c \in rest THEN [@[c] EXCEPT !.up = None, !.pend = k] ELSE @[c]],
                    !.pending = [p \in Keys |-> IF p = k THEN @[p] \cup rest
                                                ELSE @[p] \ {c \in rest : m.rows[c].pend = p}],
                    !.roots[k[1]] = @ (+) SetToBag({c \in rest : ~BagIn(c, @)})], k[1])

RemoveAgent(m, k) ==
  LET i == InvalidateDirCache(m, k[1])
  IN  CASE m.rows[k].kind = "none"  -> m
        [] m.rows[k].kind = "leaf"  -> RemoveOrphan(i, k)
        [] m.rows[k].kind = "agent" -> RemoveReal(i, k)

RemoveSession(m, s) ==
  IF ~m.sess[s].known THEN m
  ELSE IF RowsOf(m, s) = {} THEN DropSession(m, s)
  ELSE [InvalidateDirCache(m, s) EXCEPT !.sess[s].gone = TRUE]

(* A snapshot rebuilds the model: its sessions r, then its agents q. *)
ApplySnapshot(r, q) ==
  LET built[i \in 0..(Len(r) + Len(q))] ==
        IF i = 0 THEN NewModel
        ELSE IF i <= Len(r) THEN UpsertSession(built[i - 1], r[i])
        ELSE UpsertAgent(built[i - 1], q[i - Len(r)])
  IN  built[Len(r) + Len(q)]

(***************************************************************************)
(* Reading the model: the directory of a session (cached), and the two     *)
(* halves of its table, active rows with their ancestors and the others.   *)
(***************************************************************************)
Oldest(m, s) ==
  LET hashed == {k \in RealRows(m) : k[1] = s /\ m.rows[k].hash # None}
  IN  {k \in hashed : \A j \in hashed \ {k} : <<k, j>> \in m.older}
DirKey(m, s) ==
  IF m.sess[s].dir # None THEN m.sess[s].dir
  ELSE IF Oldest(m, s) # {} THEN m.rows[CHOOSE k \in Oldest(m, s) : TRUE].hash
  ELSE None
SessionDirKey(m, s) == [m EXCEPT !.cache[s] = IF @ = "unread" THEN DirKey(m, s) ELSE @]

IsActiveAgent(e) == e.kind = "agent" /\ e.said.busy /\ ~e.said.stale
Visited(m, s) == Reached(BagToSet(m.roots[s]), [k \in Keys |-> BagToSet(m.rows[k].kids)])
Seeds(m, s) == {k \in Visited(m, s) : IsActiveAgent(m.rows[k])}
ActiveSide_SeedsOnly(m, s) == Seeds(m, s)
ActiveSide(m, s) == Seeds(m, s) \cup UNION {Ancestors(m, k) : k \in Seeds(m, s)}
InactiveSide(m, s) == Visited(m, s) \ ActiveSide(m, s)

-----------------------------------------------------------------------------
(* flushFrames reads the directory before and after each frame. *)
Touch(m, s) == SessionDirKey(m, s)

(* The declared parents go round in a circle (no engine does that). *)
Declared(agents) == [k \in Keys |-> {Candidate(agents[k])} \ {None}]
Circle(agents) == \E k \in Keys : k \in Reached(Declared(agents)[k], Declared(agents))

AgentFrame(f) ==
  /\ srv' = [srv EXCEPT ![KeyOf(f)] = f]
  /\ page' = Touch(UpsertAgent(Touch(page, f.s), f), f.s)
  /\ knot' = (knot \/ Circle(srv'))

(* An eviction the page may never have been told of included. *)
GoneFrame(k) ==
  /\ srv' = [srv EXCEPT ![k] = None]
  /\ page' = Touch(RemoveAgent(Touch(page, k[1]), k), k[1])
  /\ UNCHANGED knot

SessionGoneFrame(s) ==
  /\ page' = RemoveSession(Touch(page, s), s)
  /\ UNCHANGED <<srv, knot>>

(* A reconnect: the snapshot lists the agents in any order. *)
Told == {k \in Keys : srv[k] # None}
SnapshotFrame ==
  \E q \in SetToSeqs(Told), R \in SUBSET Rows :
    \E r \in SetToSeqs(R) :
      /\ page' = ApplySnapshot(r, [i \in DOMAIN q |-> srv[q[i]]])
      /\ knot' = Circle(srv)
      /\ UNCHANGED srv

Init == srv = [k \in Keys |-> None] /\ page = NewModel /\ knot = FALSE
Next ==
  \/ \E f \in Frames : AgentFrame(f)
  \/ \E k \in Keys : GoneFrame(k)
  \/ \E s \in PageSessions : SessionGoneFrame(s)
  \/ SnapshotFrame
Spec == Init /\ [][Next]_vars

-----------------------------------------------------------------------------
(* The model is a forest whatever the order of the frames: every row hangs *)
(* in one place exactly once, child lists and parent links agree, no row   *)
(* is its own ancestor; the registries of leaves and of waiting children   *)
(* list exactly the rows that are such (status-model.ts:335-454, 554-607). *)
TreeIsSound ==
  LET m == page
      Once(k, bag) == BagIn(k, bag) /\ bag[k] = 1
      HangsOnce(k) == IF m.rows[k].up = None THEN Once(k, m.roots[k[1]])
                      ELSE m.rows[k].up \in Dom(m) /\ Once(k, m.rows[m.rows[k].up].kids)
      Mutual(p) == \A k \in BagToSet(m.rows[p].kids) : k \in Dom(m) /\ m.rows[k].up = p
  IN  /\ \A k \in Dom(m) : HangsOnce(k) /\ Mutual(k) /\ k \notin Ancestors(m, k)
      /\ \A s \in PageSessions : \A k \in BagToSet(m.roots[s]) : k \in Dom(m) /\ m.rows[k].up = None
      /\ \A j, k \in RealRows(m) : j # k => (<<j, k>> \in m.older <=> <<k, j>> \notin m.older)
      /\ \A o \in Keys : m.orphans[o] = IF m.rows[o].kind = "leaf" THEN m.rows[o].up ELSE None
      /\ \A o \in Keys : m.rows[o].kind = "leaf" => m.rows[o].up # None /\ m.rows[o].kids = EmptyBag
      /\ \A p \in Keys : m.pending[p] = {k \in RealRows(m) : m.rows[k].pend = p}

(* The page's rows are the agents it was last told of, each under the      *)
(* parent its frame names: a child waits at the top only while that parent *)
(* has no row of its own, and a parent that comes late adopts it, unless   *)
(* the declared parents went in a circle (status-model.ts:375-402,         *)
(* 443-454).                                                               *)
ShowsWhatWasSent ==
  /\ RealRows(page) = Told
  /\ \A k \in Told :
       LET e == page.rows[k]
           cand == Candidate(srv[k])
       IN  /\ e.said = srv[k]
           /\ e.up \in {None, cand}
           /\ e.pend # None => e.pend = cand /\ cand \notin Told
           /\ ~knot /\ cand # None => IF cand \in Told THEN e.up = cand ELSE e.pend = cand

(* Every row is drawn: its session has a group, the walk from the roots    *)
(* reaches it, and no active row is under a parent that the page folds     *)
(* away with the inactive ones (status-model.ts:804-849).                  *)
NothingHidden ==
  /\ \A k \in Dom(page) : page.sess[k[1]].known
  /\ \A s \in PageSessions :
       /\ ActiveSide(page, s) \cup InactiveSide(page, s) = RowsOf(page, s)
       /\ \A k \in ActiveSide(page, s) : Ancestors(page, k) \subseteq ActiveSide(page, s)

(* "the cache never goes stale": a cached directory is what a scan of the  *)
(* rows would find, after every sequence of frames and reads               *)
(* (status-model.ts:133-138, 762-789).                                     *)
DirCacheFresh ==
  \A s \in PageSessions : page.cache[s] # "unread" => page.cache[s] = DirKey(page, s)

(* Not kept: a leaf shows the status its parent's list last gave it.       *)
LeafIsCurrent ==
  \A o \in Keys :
    page.orphans[o] # None =>
      LET subs == page.rows[page.orphans[o]].said.subs
      IN  o[2] \in DOMAIN subs => page.rows[o].status = subs[o[2]]

=============================================================================
