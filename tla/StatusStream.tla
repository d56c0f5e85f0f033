---------------------------- MODULE StatusStream ----------------------------
(***************************************************************************)
(* The agent status of one session on its way from the files to a page:    *)
(* the watcher scans state.json and reads wire.jsonl tails in chunks       *)
(* (modules/status/watcher.ts), the fold turns records and omkc events     *)
(* into rows (state.ts), marks gather in a dirty set that a timer drains   *)
(* into frames (broadcast.ts, index.ts), a sweep drops what has been idle  *)
(* too long, and an SSE client applies the frames after its opening        *)
(* snapshot.  The page is the map of rows that StatusPage shows its model  *)
(* to be.  Every await of the code is a step boundary here.                *)
(***************************************************************************)
EXTENDS Naturals, FiniteSets, SequencesExt

CONSTANTS
  Agents,      \* the agents of the session
  Parent,      \* the agents table of state.json: Agents -> Agents \cup {None}
  None,        \* no agent, no row, no key
  OmkcFor,     \* OMKC_PRIORITY_MS in ticks: omkc owns a row for so long
  EvictAfter,  \* EVICT_STALE_MS in ticks
  MaxQueue,    \* MAX_BACKLOG_FRAMES: undrained frames that cost the connection
  MaxRecords, MaxWrites, MaxOmkc, MaxConnects, MaxNow  \* bounds

RowType == [busy : BOOLEAN, parent : Agents \cup {None}, seen : Nat, omkc : Nat \cup {None}]
TailType == [off : Nat, size : Nat]
KeyType == Nat \X BOOLEAN

ASSUME StreamAssumption ==
  /\ Parent \in [Agents -> Agents \cup {None}]
  /\ OmkcFor \in Nat /\ EvictAfter \in Nat /\ MaxQueue \in Nat
ASSUME NoneAssumption ==
  /\ None \notin Agents /\ None \notin Nat
  /\ None \notin RowType /\ None \notin TailType /\ None \notin KeyType
  /\ None \notin [busy : BOOLEAN, parent : Agents \cup {None}]

VARIABLES
  now,       \* a coarse clock
  wire,      \* wire.jsonl of each agent: the records the engine appended
  meta,      \* state.json: [ver, at, torn]; ver changes with mtime or size
  tail,      \* the watcher's tails: None or [off, size]
  scan,      \* the scan pass: [phase, todo]
  pump,      \* the pump pass: [todo, at]
  stateKey,  \* stateMtimes' entry of state.json
  fold,      \* the rows: None or [busy, parent, seen, omkc]
  sess,      \* the session's fold row: None or its sessionSeen
  dirty,     \* the broadcaster's pending keys
  conn,      \* the SSE client: [open, late], late frames not yet drained
  page,      \* the rows it shows once it has applied them
  folded,    \* history: the version of state.json folded last
  missed,    \* history: marks dropped since the client's snapshot
  due,       \* history: the newest record the watcher has sized and can
             \* still find, per agent
  used       \* bounds: omkc events, connections and records so far
env == <<now, wire, meta>>
watch == <<tail, scan, pump>>
rows == <<fold, sess, dirty, stateKey>>
client == <<conn, page>>
vars == <<env, watch, rows, client, folded, missed, due, used>>

Key_MtimeOnly(m) == <<m.at>>
Key(m) == <<m.ver, m.torn>>
Absent == meta.ver = 0 /\ ~meta.torn
Later(x, y) == IF x > y THEN x ELSE y
Idle == [phase |-> "idle", todo |-> {}]
Resting == [todo |-> {}, at |-> None]

CatchingUp(t) == \E a \in Agents : t[a] # None /\ t[a].off < t[a].size

(***************************************************************************)
(* The fold (state.ts).                                                    *)
(***************************************************************************)
Ensure(row, ts) ==
  IF row # None THEN row
  ELSE [busy |-> FALSE, parent |-> None, seen |-> ts, omkc |-> None]

OmkcOwns(row) == row.omkc # None /\ now - row.omkc < OmkcFor

(* One record after the other: the row was seen at the latest of them, and *)
(* the last one decides unless omkc owns the row.                          *)
ApplyWire(f, a, records) ==
  LET e == Ensure(f[a], records[1].at)
  IN  [f EXCEPT ![a] = [e EXCEPT !.seen = Max({@} \cup {r.at : r \in Range(records)}),
                                 !.busy = IF OmkcOwns(e) THEN @ ELSE Last(records).busy]]

ApplyOmkcEvent(f, a, busy) ==
  LET e == Ensure(f[a], now)
  IN  [f EXCEPT ![a] = [e EXCEPT !.busy = busy, !.seen = Later(@, now), !.omkc = now]]

(* The agents table creates the rows it lists and tells their parents. *)
ApplySessionState(f, ts) ==
  LET list(a) == LET e == Ensure(f[a], ts)
                 IN  [e EXCEPT !.parent = Parent[a], !.seen = IF OmkcOwns(e) THEN @ ELSE Later(@, ts)]
  IN  [a \in Agents |-> list(a)]

(***************************************************************************)
(* Marks and frames (broadcast.ts, index.ts).                              *)
(***************************************************************************)
(* A mark is lost while any tail has unread bytes. *)
Mark(keys) ==
  IF CatchingUp(tail')
    THEN /\ missed' = IF conn.open THEN missed \cup keys ELSE missed
         /\ UNCHANGED dirty
    ELSE /\ dirty' = dirty \cup keys
         /\ UNCHANGED missed

View(f, a) == IF f[a] = None THEN None ELSE [busy |-> f[a].busy, parent |-> f[a].parent]
Snapshot(f) == [a \in Agents |-> View(f, a)]

(* Frames that a client does not drain destroy its connection. *)
(* The rows of a page without a connection await the next snapshot. *)
Blank == [a \in Agents |-> None]
Hangup == conn' = [open |-> FALSE, late |-> 0] /\ page' = Blank
SendFrames_RowsOnly(keys, f) ==
  IF ~conn.open THEN UNCHANGED client
  ELSE IF conn.late + Cardinality(keys) > MaxQueue THEN Hangup
  ELSE /\ conn' = [conn EXCEPT !.late = @ + Cardinality(keys)]
       /\ page' = [a \in Agents |-> IF a \in keys /\ f[a] # None THEN View(f, a) ELSE page[a]]
SendFrames(keys, f) ==
  IF ~conn.open THEN UNCHANGED client
  ELSE IF conn.late + Cardinality(keys) > MaxQueue THEN Hangup
  ELSE /\ conn' = [conn EXCEPT !.late = @ + Cardinality(keys)]
       /\ page' = [a \in Agents |-> IF a \in keys THEN View(f, a) ELSE page[a]]

(* The self-heal: activity of a session without a row re-arms the read of  *)
(* its state.json.                                                         *)
SelfHeal == stateKey' = IF sess = None THEN None ELSE stateKey

-----------------------------------------------------------------------------
(* The records that the watcher owes a look at once it has the file's size. *)
Sized(a) ==
  LET owed == SubSeq(wire[a], tail'[a].off + 1, Len(wire[a]))
  IN  due' = [due EXCEPT ![a] = Max({@} \cup {r.at : r \in Range(owed)})]

(* The engine: an append, a rewrite of state.json that a reader can see    *)
(* half done, and the clock.                                               *)
AppendRecord(a) ==
  /\ used.recs < MaxRecords
  /\ used' = [used EXCEPT !.recs = @ + 1]
  /\ wire' = [wire EXCEPT ![a] = Append(@, [busy |-> Len(@) % 2 = 0, at |-> now])]
  /\ UNCHANGED <<now, meta, watch, rows, client, folded, missed, due>>

(* The engine rewrites a wire file to its last record; only a file that    *)
(* became shorter than what was read is recognised, and what had not been  *)
(* read of the old one is not owed any more.                               *)
Truncate(a) ==
  /\ tail[a] # None /\ tail[a].off > 1
  /\ wire' = [wire EXCEPT ![a] = <<Last(@)>>]
  /\ due' = [due EXCEPT ![a] = IF tail[a].off < tail[a].size THEN 0 ELSE @]
  /\ UNCHANGED <<now, meta, watch, rows, client, folded, missed, used>>

BeginWrite ==
  /\ ~meta.torn /\ meta.ver < MaxWrites
  /\ meta' = [meta EXCEPT !.torn = TRUE]
  /\ UNCHANGED <<now, wire, watch, rows, client, folded, missed, due, used>>
EndWrite ==
  /\ meta.torn
  /\ meta' = [ver |-> meta.ver + 1, at |-> now, torn |-> FALSE]
  /\ UNCHANGED <<now, wire, watch, rows, client, folded, missed, due, used>>

Tick ==
  /\ now < MaxNow
  /\ now' = now + 1
  /\ UNCHANGED <<wire, meta, watch, rows, client, folded, missed, due, used>>

-----------------------------------------------------------------------------
(* scan(): the tails first, each sized when it is registered; then         *)
(* state.json: stat, compare the key, record it, read.                     *)
ScanStart ==
  /\ scan.phase = "idle"
  /\ scan' = [phase |-> "tails", todo |-> {a \in Agents : wire[a] # << >>}]
  /\ UNCHANGED <<env, tail, pump, rows, client, folded, missed, due, used>>

NewTail_Unsized(a) == [off |-> 0, size |-> 0]
NewTail(a) == [off |-> 0, size |-> Len(wire[a])]
ScanAgent(a) ==
  /\ scan.phase = "tails" /\ a \in scan.todo
  /\ IF tail[a] = None
       THEN tail' = [tail EXCEPT ![a] = NewTail(a)] /\ Sized(a)
       ELSE UNCHANGED <<tail, due>>
  /\ scan' = [scan EXCEPT !.todo = @ \ {a}]
  /\ UNCHANGED <<env, pump, rows, client, folded, missed, used>>

ScanState ==
  /\ scan.phase = "tails" /\ scan.todo = {}
  /\ IF Absent \/ stateKey = Key(meta)
       THEN scan' = Idle /\ UNCHANGED stateKey
       ELSE scan' = [scan EXCEPT !.phase = "read"] /\ stateKey' = Key(meta)
  /\ UNCHANGED <<env, tail, pump, fold, sess, dirty, client, folded, missed, due, used>>

(* A half written file does not parse and is left to the next pass. *)
ScanRead ==
  /\ scan.phase = "read"
  /\ scan' = Idle
  /\ UNCHANGED <<tail, stateKey>>
  /\ IF meta.torn THEN UNCHANGED <<fold, sess, dirty, folded, missed>>
     ELSE /\ fold' = ApplySessionState(fold, meta.at)
          /\ sess' = meta.at
          /\ folded' = meta.ver
          /\ Mark(Agents)
  /\ UNCHANGED <<env, pump, client, due, used>>

(* pumpAll(): never while a scan runs; one tail after the other. *)
PumpStart ==
  /\ pump = Resting /\ scan.phase = "idle"
  /\ pump' = [todo |-> {a \in Agents : tail[a] # None}, at |-> None]
  /\ UNCHANGED <<env, tail, scan, rows, client, folded, missed, due, used>>

PumpNext ==
  /\ pump.todo # {} /\ pump.at = None
  /\ IF scan.phase # "idle"
       THEN pump' = Resting /\ UNCHANGED <<tail, due>>
       ELSE \E a \in pump.todo :
              LET size == Len(wire[a])
                  off == IF size < tail[a].off THEN 0 ELSE tail[a].off
              IN  /\ tail' = [tail EXCEPT ![a] = [off |-> off, size |-> size]]
                  /\ pump' = [pump EXCEPT !.todo = @ \ {a}, !.at = IF size = off THEN None ELSE a]
                  /\ Sized(a)
  /\ UNCHANGED <<env, scan, rows, client, folded, missed, used>>

(* A chunk holds some of the records; the offset moves before they fold.   *)
(* A file that has been cut short meanwhile reads as its end.              *)
PumpChunk ==
  /\ pump.at # None
  /\ LET a == pump.at
         left == {n \in 1..(tail[a].size - tail[a].off) : tail[a].off + n <= Len(wire[a])}
     IN  IF left = {}
           THEN pump' = [pump EXCEPT !.at = None] /\ UNCHANGED <<tail, fold, dirty, stateKey, missed>>
           ELSE \E n \in left :
             /\ tail' = [tail EXCEPT ![a].off = @ + n]
             /\ fold' = ApplyWire(fold, a, SubSeq(wire[a], tail[a].off + 1, tail[a].off + n))
             /\ Mark({a})
             /\ SelfHeal
             /\ pump' = [pump EXCEPT !.at = IF tail[a].off + n = tail[a].size THEN None ELSE a]
  /\ UNCHANGED <<env, scan, sess, client, folded, due, used>>

(* An event of omkc's own stream. *)
Omkc(a, b) ==
  /\ used.omkc < MaxOmkc
  /\ used' = [used EXCEPT !.omkc = @ + 1]
  /\ fold' = ApplyOmkcEvent(fold, a, b)
  /\ UNCHANGED tail /\ Mark({a})
  /\ SelfHeal
  /\ UNCHANGED <<env, scan, pump, sess, client, folded, due>>

-----------------------------------------------------------------------------
(* flush(): the marks become frames of the rows as they are now. *)
Flush ==
  /\ dirty # {}
  /\ dirty' = {}
  /\ IF CatchingUp(tail)
       THEN /\ missed' = IF conn.open THEN missed \cup dirty ELSE missed
            /\ UNCHANGED client
       ELSE /\ SendFrames({a \in dirty : fold[a] # None}, fold)
            /\ UNCHANGED missed
  /\ UNCHANGED <<env, watch, fold, sess, stateKey, folded, due, used>>

(* The sweep drops what has been idle too long and says so. *)
MaySweep_Always == TRUE
MaySweep == ~CatchingUp(tail)
Evictable == {a \in Agents : fold[a] # None /\ now - fold[a].seen > EvictAfter}
Sweep ==
  LET old == sess # None /\ now - sess > EvictAfter
  IN  /\ MaySweep
      /\ Evictable # {} \/ old
      /\ fold' = [a \in Agents |-> IF a \in Evictable THEN None ELSE fold[a]]
      /\ sess' = IF old THEN None ELSE sess
      /\ SendFrames(Evictable, fold')
      /\ UNCHANGED <<env, watch, dirty, stateKey, folded, missed, due, used>>

(* The route writes the snapshot and subscribes in one turn. *)
Connect ==
  /\ ~conn.open /\ used.conn < MaxConnects
  /\ used' = [used EXCEPT !.conn = @ + 1]
  /\ conn' = [open |-> TRUE, late |-> 1]
  /\ page' = Snapshot(fold)
  /\ missed' = {}
  /\ UNCHANGED <<env, watch, rows, folded, due>>

Disconnect ==
  /\ conn.open
  /\ Hangup
  /\ UNCHANGED <<env, watch, rows, folded, missed, due, used>>

Drain ==
  /\ conn.late > 0
  /\ conn' = [conn EXCEPT !.late = 0]
  /\ UNCHANGED <<env, watch, rows, page, folded, missed, due, used>>

Init ==
  /\ now = 0
  /\ wire = [a \in Agents |-> << >>]
  /\ meta = [ver |-> 0, at |-> 0, torn |-> FALSE]
  /\ tail = [a \in Agents |-> None]
  /\ scan = Idle /\ pump = Resting
  /\ stateKey = None
  /\ fold = [a \in Agents |-> None] /\ sess = None /\ dirty = {}
  /\ conn = [open |-> FALSE, late |-> 0]
  /\ page = Blank
  /\ folded = 0 /\ missed = {} /\ due = [a \in Agents |-> 0]
  /\ used = [omkc |-> 0, conn |-> 0, recs |-> 0]

Engine == (\E a \in Agents : AppendRecord(a)) \/ (\E a \in Agents : Truncate(a))
            \/ BeginWrite \/ EndWrite
Scan == ScanStart \/ (\E a \in Agents : ScanAgent(a)) \/ ScanState \/ ScanRead
Pump == PumpStart \/ PumpNext \/ PumpChunk
Next ==
  \/ Engine \/ Tick \/ Scan \/ Pump \/ Flush \/ Sweep
  \/ \E a \in Agents, b \in BOOLEAN : Omkc(a, b)
  \/ Connect \/ Disconnect \/ Drain

Spec == Init /\ [][Next]_vars
-----------------------------------------------------------------------------
(* A connected page shows no agent that the fold has dropped, and of the   *)
(* others what the fold holds, as soon as no mark is pending -- except the *)
(* agents whose marks were dropped while some tail was catching up         *)
(* (index.ts:245-280, 404-418; broadcast.ts:16-24).                        *)
ShowsTheFold ==
  conn.open => \A a \in Agents : /\ fold[a] = None => page[a] = None
                                 /\ a \notin dirty \cup missed => page[a] = View(fold, a)

(* The sweep drops no agent that the part of its wire file known to the    *)
(* watcher shows to be alive, but for what was unread when the file was    *)
(* rewritten (index.ts:392-404, watcher.ts:354-376).                       *)
EvictsOnlyTheIdle ==
  [][\A a \in Agents : fold[a] # None /\ fold'[a] = None => now - due[a] > EvictAfter]_vars

(* A key that matches the file means that this very content was folded: a  *)
(* file caught half written is read again (watcher.ts:402-420).            *)
KeyMeansFolded ==
  scan.phase # "read" /\ stateKey = Key(meta) /\ ~meta.torn => folded = meta.ver

(* What a page shows is the fold, and the fold is of what is on disk.      *)
PageShowsTheFold == ShowsTheFold /\ KeyMeansFolded

(* Not kept: with nothing left to read, mark, send or scan, the page shows *)
(* the fold.  A client that connects while the first read is under way     *)
(* gets a partial snapshot and none of the marks (broadcast.ts:18-20).     *)
AtRest == scan.phase = "idle" /\ ~CatchingUp(tail) /\ dirty = {}
          /\ \A a \in Agents : Len(wire[a]) = IF tail[a] = None THEN 0 ELSE tail[a].off
PageCatchesUp == conn.open /\ AtRest => page = Snapshot(fold)

(* Not kept: once omkc has been silent for long enough the wire decides    *)
(* again (state.ts:168-173).  A record that was folded while omkc still    *)
(* owned the row is never looked at again.                                 *)
SilentOmkcYields ==
  \A a \in Agents :
    AtRest /\ fold[a] # None /\ wire[a] # << >> /\ fold[a].omkc # None
      /\ ~OmkcOwns(fold[a]) /\ Last(wire[a]).at > fold[a].omkc
    => fold[a].busy = Last(wire[a]).busy
=============================================================================
