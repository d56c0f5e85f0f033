------------------------- MODULE BusPageProofs ------------------------------
(***************************************************************************)
(* Proofs about the ownership of the Bus, for any number of sessions,      *)
(* daemons and ports, any threshold and any number of departures and lost  *)
(* probes; about two that keep a connection to a server that comes and     *)
(* goes, the subscription to a command line agent and the card of a page;  *)
(* and about the status page's tree of agents, for any agents, sessions    *)
(* and frames of them.                                                     *)
(***************************************************************************)
EXTENDS MCBusPage, Integers, Sequences, FiniteSetTheorems, WellFoundedInduction, TLAPS

(* What a process's place in the code says about its socket and its entry. *)
Shape ==
  \A p \in Procs :
    /\ listening[p] # None => pc[p] \in {"advertise", "write", "own"}
    /\ pc[p] \in {"advertise", "write", "own"} => listening[p] = at[p]
    /\ pc[p] \in {"write", "own"} => entry[p] = at[p]
    /\ pc[p] \in {"write", "own", "closed", "unlisted"} => host[p] = at[p]
    /\ pc[p] \in {"unlisted", "reuse", "passive"} => entry[p] = None
    /\ pc[p] \in {"lookup", "probe"} => at[p] # LastPort

(* Where the sink points before, during and after a start.                 *)
Sinks ==
  \A p \in Procs :
    /\ pc[p] = "off" => sink[p] = None
    /\ pc[p] \in {"register", "bind", "lookup", "probe", "unregister", "fail"}
         => sink[p] \in {None, host[p]}
    /\ pc[p] = "reuse" => sink[p] = host[p]
    /\ pc[p] = "own" => sink[p] = Local

(* Nobody has begun at the start.                                          *)
LEMMA InitShape == Init => TypeOK /\ Shape /\ Sinks
<1> SUFFICES ASSUME Init PROVE TypeOK /\ Shape /\ Sinks
  OBVIOUS
<1>1. 1 \in Ports
  BY PortAssumption DEF Ports
<1>2. departures \in 0..MaxDepartures /\ misses \in 0..MaxMisses
  BY BoundsAssumption DEF Init
<1>3. fails \in [Procs -> Nat]
  BY DEF Init
<1>4. TypeOK
  BY <1>1, <1>2, <1>3 DEF Init, TypeOK, Gone
<1>5. Shape /\ Sinks
  BY DEF Init, Shape, Sinks
<1>. QED
  BY <1>4, <1>5

(* Pruning the registry spares the processes that live.                    *)
LEMMA SweepKeepsTheLiving ==
  ASSUME TypeOK
  PROVE  /\ Sweep \in [Procs -> Ports \cup {None}]
         /\ \A p \in Procs : Alive(p) => Sweep[p] = entry[p]
BY DEF TypeOK, Sweep

(* One step of one process.                                                *)
LEMMA StepShape ==
  ASSUME NEW p \in Procs, TypeOK, Shape, Sinks,
         Launch(p) \/ Step(p) \/ Tick(p) \/ Release(p) \/ Shutdown(p)
           \/ VersionExit(p) \/ Crash(p)
  PROVE  TypeOK' /\ Shape' /\ Sinks'
<1> USE NoneAssumption, PortAssumption, BoundsAssumption
    DEF TypeOK, Shape, Sinks, Goto, Gone, Starting, Releasing, Stopping
<1>1. CASE Launch(p)
  BY <1>1 DEF Launch, bounds, Procs
<1>2. CASE Register(p)
  BY <1>2, SweepKeepsTheLiving DEF Register, bounds, Alive
<1>3. CASE Bind(p)
  BY <1>3 DEF Bind, bounds, Busy
<1>4. CASE BindBusy(p)
  BY <1>4 DEF BindBusy, bounds
<1>5. CASE Lookup(p)
  BY <1>5, SweepKeepsTheLiving DEF Lookup, bounds, Alive, Walk, Ports
<1>6. CASE ProbeAnswered(p)
  BY <1>6 DEF ProbeAnswered, bounds
<1>7. CASE ProbeFailed(p)
  BY <1>7 DEF ProbeFailed, NoAnswer, Walk, Ports
<1>8. CASE Advertise(p)
  BY <1>8 DEF Advertise, bounds
<1>9. CASE WritePortFile(p)
  BY <1>9 DEF WritePortFile, bounds
<1>10. CASE Unregister(p)
  BY <1>10 DEF Unregister, bounds
<1>11. CASE StartFails(p)
  BY <1>11 DEF StartFails, bounds
<1>12. CASE WatchAnswered(p)
  BY <1>12 DEF WatchAnswered, bounds
<1>13. CASE WatchFailed(p)
  BY <1>13 DEF WatchFailed, NoAnswer
<1>14. CASE Release(p)
  BY <1>14 DEF Release, Leave
<1>15. CASE Delist(p)
  BY <1>15 DEF Delist, bounds
<1>16. CASE HandOver(p)
  BY <1>16 DEF HandOver, RemovePortFile, bounds, Procs
<1>17. CASE Reattach(p)
  BY <1>17 DEF Reattach, bounds
<1>18. CASE Shutdown(p)
  BY <1>18 DEF Shutdown, Leave
<1>19. CASE Exit(p)
  BY <1>19 DEF Exit, RemovePortFile, bounds
<1>20. CASE VersionExit(p)
  BY <1>20 DEF VersionExit, Leave, RemovePortFile
<1>21. CASE Crash(p)
  BY <1>21 DEF Crash, Leave
<1>. QED
  BY <1>1, <1>2, <1>3, <1>4, <1>5, <1>6, <1>7, <1>8, <1>9, <1>10, <1>11,
     <1>12, <1>13, <1>14, <1>15, <1>16, <1>17, <1>18, <1>19, <1>20, <1>21
  DEF Step, Tick

(* Places, sockets, entries and sinks agree in every behaviour.            *)
LEMMA ShapeInvariant == Spec => [](TypeOK /\ Shape /\ Sinks)
<1>1. TypeOK /\ Shape /\ Sinks /\ [Next]_vars => (TypeOK /\ Shape /\ Sinks)'
  <2> SUFFICES ASSUME TypeOK, Shape, Sinks, [Next]_vars
               PROVE  (TypeOK /\ Shape /\ Sinks)'
    OBVIOUS
  <2>1. CASE Next
    BY <2>1, StepShape DEF Next
  <2>2. CASE UNCHANGED vars
    BY <2>2 DEF vars, bounds, TypeOK, Shape, Sinks
  <2>. QED
    BY <2>1, <2>2
<1>. QED
  BY <1>1, InitShape, PTL DEF Spec

(* The variables keep their types.                                         *)
THEOREM BusTypes == Spec => []TypeOK
<1>1. TypeOK /\ Shape /\ Sinks => TypeOK
  OBVIOUS
<1>. QED
  BY <1>1, ShapeInvariant, PTL

(* The registry tells the truth about every process that has settled: no   *)
(* sweep, crash or takeover of another process falsifies its entry.        *)
THEOREM RegistryIsTrue == Spec => []SettledRegistry
<1>1. TypeOK /\ Shape /\ Sinks => SettledRegistry
  BY NoneAssumption DEF TypeOK, Shape, SettledRegistry
<1>. QED
  BY <1>1, ShapeInvariant, PTL

(* Events of a settled process go to the Bus it serves or watches.         *)
THEOREM SinkIsRight == Spec => []SinkFollowsBus
<1>1. TypeOK /\ Shape /\ Sinks => SinkFollowsBus
  BY DEF Sinks, SinkFollowsBus
<1>. QED
  BY <1>1, ShapeInvariant, PTL
(* ---------------------------------------------------------------------- *)
(* One Bus for all                                                         *)

(* Nothing has gone wrong yet.                                             *)
Calm == Foreign = {} /\ departures = 0 /\ misses = 0

(* While it is calm everybody tries port 1; its holder is listed there, so *)
(* whoever finds the port busy finds the holder too.                       *)
Holder(p) == listening[p] # None
Gathered ==
  Calm =>
    /\ \A p \in Procs :
         /\ want[p] = 1 /\ at[p] = 1
         /\ pc[p] \notin Releasing \cup Stopping \cup {"passive"}
         /\ pc[p] = "bind" \/ Holder(p) => entry[p] = 1
         /\ pc[p] \in {"lookup", "probe"} => \E q \in Procs : Holder(q)
    /\ \A p, q \in Procs : Holder(p) /\ Holder(q) => p = q

(* Nobody serves or watches at the start.                                  *)
LEMMA InitGathered == Init => Gathered
BY DEF Init, Gathered, Holder, Releasing, Stopping

(* As long as it is calm each step leaves everybody at port 1.             *)
LEMMA StepGathered ==
  ASSUME NEW p \in Procs, TypeOK, Shape, Gathered,
         Launch(p) \/ Step(p) \/ Tick(p) \/ Release(p) \/ Shutdown(p)
           \/ VersionExit(p) \/ Crash(p)
  PROVE  Gathered'
<1>1. departures \in Nat /\ misses \in Nat
  BY BoundsAssumption DEF TypeOK
<1>2. CASE Leave
  BY <1>1, <1>2 DEF Leave, Gathered, Calm
<1>3. SUFFICES ASSUME ~ Leave, Calm' PROVE Gathered'
  BY <1>2 DEF Gathered
<1>4. Calm
  <2>1. ~ (Release(p) \/ Shutdown(p) \/ VersionExit(p) \/ Crash(p))
    BY <1>3 DEF Release, Shutdown, VersionExit, Crash
  <2>2. departures' = departures
    BY <2>1 DEF Launch, Step, Tick, Register, Bind, BindBusy, Lookup,
       ProbeAnswered, ProbeFailed, Advertise, WritePortFile, Unregister,
       StartFails, Delist, HandOver, Exit, WatchAnswered, WatchFailed,
       Reattach, bounds
  <2>3. misses' = misses \/ misses' = misses + 1
    BY <2>1 DEF Launch, Step, Tick, Register, Bind, BindBusy, Lookup,
       ProbeAnswered, ProbeFailed, Advertise, WritePortFile, Unregister,
       StartFails, Delist, HandOver, Exit, WatchAnswered, WatchFailed,
       Reattach, NoAnswer, bounds
  <2>. QED
    BY <1>1, <1>3, <2>2, <2>3 DEF Calm
<1>5. misses' # misses + 1
  BY <1>1, <1>3, <1>4 DEF Calm
<1>6. \A q \in Procs : Holder(q) => listening[q] = 1 /\ entry[q] = 1 /\ Alive(q)
  BY <1>4 DEF Gathered, Holder, Shape, Alive, Gone
<1> USE <1>4, NoneAssumption DEF TypeOK, Shape, Gathered, Holder, Goto,
        Releasing, Stopping
<1>7. CASE Launch(p)
  BY <1>7 DEF Launch
<1>8. CASE Register(p)
  <2>1. \A q \in Procs : pc[q] = "bind" \/ Holder(q) => Sweep[q] = 1
    BY <1>6, SweepKeepsTheLiving DEF Alive, Gone
  <2>2. entry' = [Sweep EXCEPT ![p] = 1] /\ at' = at
    BY <1>8 DEF Register
  <2>3. \A q \in Procs : pc'[q] = "bind" \/ Holder(q) => entry'[q] = 1
    BY <1>8, <2>1, <2>2, SweepKeepsTheLiving DEF Register
  <2>. QED
    BY <1>8, <2>2, <2>3 DEF Register
<1>9. CASE Bind(p)
  <2>1. at[p] = 1 /\ entry[p] = 1
    BY <1>9 DEF Bind
  <2>2. \A q \in Procs : ~ Holder(q)
    BY <1>6, <1>9, <2>1 DEF Bind, Busy
  <2>3. \A q \in Procs : Holder(q)' <=> q = p
    BY <1>9, <2>1, <2>2 DEF Bind, Ports
  <2>. QED
    BY <1>9, <2>1, <2>3 DEF Bind
<1>10. CASE BindBusy(p)
  <2>1. PICK q \in Procs : Holder(q)
    <3>1. at[p] \in Ports
      OBVIOUS
    <3>2. PICK q \in Procs : listening[q] = at[p]
      BY <1>10 DEF BindBusy, Busy, Calm
    <3>. QED
      BY <3>1, <3>2
  <2>. QED
    BY <1>10, <2>1 DEF BindBusy
<1>11. CASE Lookup(p)
  <2>1. PICK q \in Procs : Holder(q)
    BY <1>11 DEF Lookup
  <2>2. q \in Holders(p)
    BY <1>6, <1>11, <2>1 DEF Lookup, Holders
  <2>3. \A r \in Procs : (pc[r] = "bind" \/ Holder(r)) => Sweep[r] = 1
    BY <1>6, SweepKeepsTheLiving DEF Alive, Gone
  <2>. QED
    BY <1>11, <2>1, <2>2, <2>3 DEF Lookup
<1>12. CASE ProbeAnswered(p)
  BY <1>12 DEF ProbeAnswered
<1>13. CASE ProbeFailed(p)
  <2>1. PICK q \in Procs : Holder(q)
    BY <1>13 DEF ProbeFailed
  <2>2. Answers(at[p])
    BY <1>6, <2>1 DEF Answers
  <2>. QED
    BY <1>5, <1>13, <2>2 DEF ProbeFailed, NoAnswer
<1>14. CASE Advertise(p)
  BY <1>14 DEF Advertise
<1>15. CASE WritePortFile(p)
  BY <1>15 DEF WritePortFile
<1>16. CASE Unregister(p)
  BY <1>16 DEF Unregister
<1>17. CASE StartFails(p)
  BY <1>17 DEF StartFails
<1>18. CASE WatchAnswered(p)
  BY <1>18 DEF WatchAnswered
<1>19. CASE WatchFailed(p)
  BY <1>19 DEF WatchFailed
<1>20. CASE Reattach(p) \/ Delist(p) \/ HandOver(p) \/ Exit(p)
  BY <1>20 DEF Reattach, Delist, HandOver, Exit
<1>21. CASE Release(p) \/ Shutdown(p) \/ VersionExit(p) \/ Crash(p)
  BY <1>3, <1>21 DEF Release, Shutdown, VersionExit, Crash
<1>. QED
  BY <1>7, <1>8, <1>9, <1>10, <1>11, <1>12, <1>13, <1>14, <1>15, <1>16,
     <1>17, <1>18, <1>19, <1>20, <1>21 DEF Step, Tick

(* Without foreign listeners, and until a process leaves or a probe is     *)
(* lost, all sessions come to share one Bus, in whatever order they start. *)
THEOREM SharedBus == ASSUME Foreign = {} PROVE Spec => []OneBus
<1>1. TypeOK /\ Shape /\ Sinks /\ Gathered /\ [Next]_vars => Gathered'
  <2> SUFFICES ASSUME TypeOK, Shape, Sinks, Gathered, [Next]_vars
               PROVE  Gathered'
    OBVIOUS
  <2>1. CASE Next
    BY <2>1, StepGathered DEF Next
  <2>2. CASE UNCHANGED vars
    BY <2>2 DEF vars, bounds, Gathered, Calm, Holder
  <2>. QED
    BY <2>1, <2>2
<1>2. Gathered => OneBus
  BY DEF Gathered, Calm, Holder, OneBus
<1>. QED
  BY <1>1, <1>2, InitGathered, ShapeInvariant, PTL DEF Spec

(* Together: one Bus, a registry that is true and sinks that follow the    *)
(* Bus, in whatever order sessions start, watch and take over.             *)
THEOREM SingleOwner == ASSUME Foreign = {} PROVE Spec => []OneOwner
<1>1. OneBus /\ SettledRegistry /\ SinkFollowsBus => OneOwner
  BY DEF OneOwner
<1>. QED
  BY <1>1, SharedBus, RegistryIsTrue, SinkIsRight, PTL

(* ---------------------------------------------------------------------- *)
(* The subscription to the command line agent (OmkcSource)                 *)

(* MCBusPage without its fairness.                                         *)
PageSpec == MCInit /\ [][MCNext]_<<part, vars, pageVars, cardVars, omkcVars>>

Places == {"none", "probe", "header", "stream", "ended", "sleep", "gone"}

OmkcTypes ==
  /\ running \in BOOLEAN /\ generation \in Nat /\ starts \in 0..MaxStarts
  /\ mine \in [Omkc!Loops -> Nat] /\ loop \in [Omkc!Loops -> Places]
  /\ abort \in 0..MaxStarts /\ current \in 0..MaxStarts

(* Only the newest loop can be wanted: every other one captured a          *)
(* generation that is over.                                                *)
NewestOnly ==
  /\ \A g \in Omkc!Loops : mine[g] <= generation
  /\ \A g \in Omkc!Loops : Omkc!Wanted(g) => g = starts

(* Whoever is attached is wanted and holds the abort controller, which is  *)
(* why stop reaches it; between the end of its attempt and the report of   *)
(* it nobody else is attached.                                             *)
HeldByTheWanted ==
  /\ \A g \in Omkc!Loops : loop[g] \in {"header", "stream"} => Omkc!Wanted(g) /\ abort = g
  /\ \A g, h \in Omkc!Loops :
       loop[g] = "ended" /\ g # h => loop[h] \notin {"header", "stream", "ended"}

(* Who is reported connected streams, or has just ended.                   *)
Reported ==
  /\ \A g \in Omkc!Loops : loop[g] = "stream" => current = g
  /\ current # Omkc!NoLoop => loop[current] \in {"stream", "ended"}
  /\ told = IF current = Omkc!NoLoop THEN 0 ELSE 1

OmkcInv == OmkcTypes /\ NewestOnly /\ HeldByTheWanted /\ Reported

(* The numbers of the loops: 0 is none of them.                            *)
LEMMA LoopNumbers == Omkc!Loops = {g \in 0..MaxStarts : g # 0} /\ Omkc!NoLoop = 0
BY CountsAssumption DEF Omkc!Loops, Omkc!NoLoop

(* A new source has no loop.                                               *)
LEMMA OmkcStart == Omkc!Init => OmkcInv
<1> SUFFICES ASSUME Omkc!Init PROVE OmkcInv
  OBVIOUS
<1> USE CountsAssumption DEF Omkc!Init
<1>1. OmkcTypes
  <2>1. mine \in [Omkc!Loops -> Nat] /\ loop \in [Omkc!Loops -> Places]
    BY DEF Places
  <2>2. 0 \in 0..MaxStarts
    OBVIOUS
  <2>. QED
    BY <2>1, <2>2 DEF OmkcTypes, Omkc!NoLoop
<1>2. NewestOnly
  BY DEF NewestOnly, Omkc!Wanted
<1>3. HeldByTheWanted
  BY DEF HeldByTheWanted
<1>4. Reported
  BY DEF Reported
<1>. QED
  BY <1>1, <1>2, <1>3, <1>4 DEF OmkcInv

(* start: the new loop is the only one that is wanted.                     *)
LEMMA StartKeeps == OmkcInv /\ Omkc!Start => OmkcInv'
<1> SUFFICES ASSUME OmkcInv, Omkc!Start PROVE OmkcInv'
  OBVIOUS
<1> USE LoopNumbers, CountsAssumption
<1>1. /\ OmkcTypes /\ NewestOnly /\ HeldByTheWanted /\ Reported
      /\ running = FALSE /\ starts < MaxStarts /\ starts' = starts + 1 /\ running' = TRUE
      /\ generation' = generation + 1
      /\ mine' = [mine EXCEPT ![starts'] = generation'] /\ loop' = [loop EXCEPT ![starts'] = "probe"]
      /\ abort' = abort /\ current' = current /\ told' = told /\ starts' \in Omkc!Loops
      /\ \A g \in Omkc!Loops : loop[g] # "ended"
  BY DEF OmkcInv, OmkcTypes, Omkc!Start, Omkc!Quiet
<1>2. \A g \in Omkc!Loops : loop[g] \notin {"header", "stream", "ended"}
  BY <1>1 DEF HeldByTheWanted, Omkc!Wanted
<1>3. OmkcTypes'
  <2>1. mine' \in [Omkc!Loops -> Nat]
    BY <1>1 DEF OmkcTypes
  <2>2. loop' \in [Omkc!Loops -> Places]
    BY <1>1 DEF OmkcTypes, Places
  <2>3. starts' \in 0..MaxStarts /\ generation' \in Nat
    BY <1>1 DEF OmkcTypes
  <2>4. abort' \in 0..MaxStarts /\ current' \in 0..MaxStarts /\ running' \in BOOLEAN
    BY <1>1 DEF OmkcTypes
  <2>. QED
    BY <2>1, <2>2, <2>3, <2>4 DEF OmkcTypes
<1>4. NewestOnly'
  BY <1>1 DEF NewestOnly, Omkc!Wanted, OmkcTypes
<1>5. \A g \in Omkc!Loops : loop'[g] \notin {"header", "stream", "ended"}
  BY <1>1, <1>2 DEF OmkcTypes
<1>6. HeldByTheWanted' /\ Reported'
  BY <1>1, <1>2, <1>5 DEF HeldByTheWanted, Reported, OmkcTypes
<1>. QED
  BY <1>3, <1>4, <1>6 DEF OmkcInv

(* stop: the attempt that runs is aborted.                                 *)
LEMMA StopKeeps == OmkcInv /\ Omkc!Stop => OmkcInv'
<1> SUFFICES ASSUME OmkcInv, Omkc!Stop PROVE OmkcInv'
  OBVIOUS
<1> USE LoopNumbers, CountsAssumption
<1>1. /\ OmkcTypes /\ NewestOnly /\ HeldByTheWanted /\ Reported
      /\ running' = FALSE /\ generation' = generation + 1 /\ loop' = Omkc!Aborted(loop)
      /\ starts' = starts /\ mine' = mine /\ abort' = abort /\ current' = current /\ told' = told
      /\ \A g \in Omkc!Loops : loop[g] # "ended"
  BY DEF OmkcInv, Omkc!Stop, Omkc!Quiet
<1>2. /\ loop' \in [Omkc!Loops -> Places]
      /\ \A g \in Omkc!Loops :
           loop'[g] = IF loop[g] \in {"header", "stream"} THEN "ended" ELSE loop[g]
  BY <1>1 DEF OmkcTypes, Omkc!Aborted, HeldByTheWanted, Places
<1>3. OmkcTypes'
  <2>1. generation' \in Nat
    BY <1>1 DEF OmkcTypes
  <2>2. running' \in BOOLEAN
    BY <1>1, Zenon
  <2>. QED
    BY <1>1, <1>2, <2>1, <2>2 DEF OmkcTypes
<1>4. NewestOnly'
  BY <1>1 DEF NewestOnly, Omkc!Wanted, OmkcTypes
<1>5. HeldByTheWanted'
  BY <1>1, <1>2 DEF HeldByTheWanted
<1>6. Reported'
  BY <1>1, <1>2 DEF Reported, OmkcTypes
<1>. QED
  BY <1>3, <1>4, <1>5, <1>6 DEF OmkcInv

(* What a loop does on its own.                                            *)
LEMMA WorkKeepsOmkc == ASSUME OmkcInv, NEW g \in Omkc!Loops, Omkc!Work(g) PROVE OmkcInv'
<1> USE LoopNumbers, CountsAssumption
<1>1. /\ OmkcTypes /\ NewestOnly /\ HeldByTheWanted /\ Reported
      /\ running' = running /\ generation' = generation /\ starts' = starts /\ mine' = mine
      /\ g \in 0..MaxStarts /\ g # 0
  BY DEF OmkcInv, Omkc!Work, Omkc!Probed, Omkc!Connect, Omkc!Fail, Omkc!StreamEnds, Omkc!Idle,
         Omkc!Ended, Omkc!Wake
<1>2. NewestOnly'
  BY <1>1 DEF NewestOnly, Omkc!Wanted
<1>3. ASSUME NEW found \in BOOLEAN, Omkc!Probed(g, found) PROVE OmkcInv'
  <2>1. /\ loop[g] = "probe" /\ current' = current /\ told' = told
        /\ \A h \in Omkc!Loops : loop[h] # "ended"
    BY <1>3 DEF Omkc!Probed, Omkc!Quiet
  <2>2. \/ loop' = [loop EXCEPT ![g] = "gone"] /\ abort' = abort
        \/ loop' = [loop EXCEPT ![g] = "sleep"] /\ abort' = abort
        \/ Omkc!Wanted(g) /\ loop' = [loop EXCEPT ![g] = "header"] /\ abort' = g
    BY <1>3 DEF Omkc!Probed
  <2>3. OmkcTypes' /\ Reported'
    BY <1>1, <2>1, <2>2 DEF OmkcTypes, Places, Reported
  <2>4. HeldByTheWanted'
    BY <1>1, <2>1, <2>2 DEF OmkcTypes, HeldByTheWanted, NewestOnly, Omkc!Wanted
  <2>. QED
    BY <1>2, <2>3, <2>4 DEF OmkcInv
<1>4. ASSUME Omkc!Connect(g) PROVE OmkcInv'
  <2>1. /\ loop[g] = "header" /\ loop' = [loop EXCEPT ![g] = "stream"] /\ abort' = abort
        /\ current' = g /\ told' = told + 1 /\ \A h \in Omkc!Loops : loop[h] # "ended"
    BY <1>4 DEF Omkc!Connect, Omkc!Quiet
  <2>2. \A h \in Omkc!Loops : h # g => loop[h] \notin {"header", "stream"}
    BY <1>1, <2>1 DEF HeldByTheWanted
  <2>3. current = Omkc!NoLoop
    BY <1>1, <2>1, <2>2 DEF Reported, OmkcTypes
  <2>4. OmkcTypes' /\ Reported'
    BY <1>1, <2>1, <2>2, <2>3 DEF OmkcTypes, Places, Reported
  <2>5. HeldByTheWanted'
    BY <1>1, <2>1, <2>2 DEF OmkcTypes, HeldByTheWanted, Omkc!Wanted
  <2>. QED
    BY <1>2, <2>4, <2>5 DEF OmkcInv
<1>5. ASSUME Omkc!Fail(g) \/ Omkc!StreamEnds(g) \/ Omkc!Idle(g) PROVE OmkcInv'
  <2>1. /\ loop[g] \in {"header", "stream"} /\ abort' = abort /\ current' = current /\ told' = told
        /\ \A h \in Omkc!Loops : loop[h] # "ended"
    BY <1>5 DEF Omkc!Fail, Omkc!StreamEnds, Omkc!Idle, Omkc!Quiet
  <2>2. abort = g /\ \A h \in Omkc!Loops : h # g => loop[h] \notin {"header", "stream"}
    BY <1>1, <2>1 DEF HeldByTheWanted
  <2>3. loop' = [loop EXCEPT ![g] = "ended"]
    BY <1>1, <1>5, <2>1, <2>2 DEF Omkc!Fail, Omkc!StreamEnds, Omkc!Idle, Omkc!Aborted, OmkcTypes
  <2>4. OmkcTypes' /\ Reported'
    BY <1>1, <2>1, <2>2, <2>3 DEF OmkcTypes, Places, Reported
  <2>5. HeldByTheWanted'
    BY <1>1, <2>1, <2>2, <2>3 DEF OmkcTypes, HeldByTheWanted, Omkc!Wanted
  <2>. QED
    BY <1>2, <2>4, <2>5 DEF OmkcInv
<1>6. ASSUME Omkc!Ended(g) PROVE OmkcInv'
  <2>1. /\ loop[g] = "ended" /\ abort' = abort /\ current' = Omkc!NoLoop
        /\ told' = IF current = Omkc!NoLoop THEN told ELSE told - 1
        /\ \/ loop' = [loop EXCEPT ![g] = "sleep"]
           \/ loop' = [loop EXCEPT ![g] = "gone"]
    BY <1>6 DEF Omkc!Ended
  <2>2. \A h \in Omkc!Loops : h # g => loop[h] \notin {"header", "stream", "ended"}
    BY <1>1, <2>1 DEF HeldByTheWanted
  <2>3. OmkcTypes' /\ Reported'
    BY <1>1, <2>1, <2>2 DEF OmkcTypes, Places, Reported
  <2>4. HeldByTheWanted'
    BY <1>1, <2>1, <2>2 DEF OmkcTypes, HeldByTheWanted, Omkc!Wanted
  <2>. QED
    BY <1>2, <2>3, <2>4 DEF OmkcInv
<1>7. ASSUME Omkc!Wake(g) PROVE OmkcInv'
  <2>1. /\ loop[g] = "sleep" /\ abort' = abort /\ current' = current /\ told' = told
        /\ \/ loop' = [loop EXCEPT ![g] = "probe"]
           \/ loop' = [loop EXCEPT ![g] = "gone"]
    BY <1>7 DEF Omkc!Wake
  <2>2. OmkcTypes' /\ Reported'
    BY <1>1, <2>1 DEF OmkcTypes, Places, Reported
  <2>3. HeldByTheWanted'
    BY <1>1, <2>1 DEF OmkcTypes, HeldByTheWanted, Omkc!Wanted
  <2>. QED
    BY <1>2, <2>2, <2>3 DEF OmkcInv
<1>. QED
  BY <1>3, <1>4, <1>5, <1>6, <1>7 DEF Omkc!Work

(* The source comes or goes; nothing of the loops changes.                 *)
LEMMA OmkcStep == OmkcInv /\ [Omkc!Next]_omkcVars => OmkcInv'
<1> SUFFICES ASSUME OmkcInv, [Omkc!Next]_omkcVars PROVE OmkcInv'
  OBVIOUS
<1>1. ASSUME <<running, generation, starts, mine, loop, abort, current, told>>'
               = <<running, generation, starts, mine, loop, abort, current, told>>
      PROVE  OmkcInv'
  BY <1>1 DEF OmkcInv, OmkcTypes, NewestOnly, HeldByTheWanted, Reported, Omkc!Wanted
<1>2. CASE Omkc!Start
  BY <1>2, StartKeeps
<1>3. CASE Omkc!Stop
  BY <1>3, StopKeeps
<1>4. CASE Omkc!SourceChanges
  BY <1>1, <1>4 DEF Omkc!SourceChanges
<1>5. CASE \E g \in Omkc!Loops : Omkc!Work(g)
  BY <1>5, WorkKeepsOmkc
<1>6. CASE UNCHANGED omkcVars
  BY <1>1, <1>6 DEF omkcVars
<1>. QED
  BY <1>2, <1>3, <1>4, <1>5, <1>6 DEF Omkc!Next

(* What the invariant says of the sets that the property counts.           *)
LEMMA OmkcCounts == OmkcInv => Omkc!OneSubscription
<1> SUFFICES ASSUME OmkcInv, Omkc!Quiet PROVE Omkc!OneSubscription
  BY DEF Omkc!OneSubscription
<1> DEFINE attached == {g \in Omkc!Loops : loop[g] \in {"header", "stream"}}
           streams == {g \in Omkc!Loops : loop[g] = "stream"}
<1>1. /\ OmkcTypes /\ HeldByTheWanted /\ Reported
      /\ \A g \in Omkc!Loops : loop[g] # "ended"
  BY DEF OmkcInv, Omkc!Quiet
<1>2. \A set : Omkc!Cardinality(set) = Cardinality(set)
  BY DEF Omkc!Cardinality, Cardinality
<1>3. \A g \in attached : Omkc!Wanted(g) /\ abort = g
  BY <1>1 DEF HeldByTheWanted
<1>4. Cardinality(attached) <= 1
  <2>1. IsFiniteSet({abort}) /\ Cardinality({abort}) = 1
    BY FS_Singleton
  <2>2. attached \subseteq {abort}
    BY <1>3
  <2>. HIDE DEF attached
  <2>. QED
    BY <2>1, <2>2, FS_Subset
<1>5. \A g \in Omkc!Loops : loop[g] = "stream" <=> current = g
  BY <1>1, LoopNumbers DEF Reported
<1>6. told = Cardinality(streams)
  <2>1. CASE current = Omkc!NoLoop
    <3>1. streams = {}
      BY <1>1, <2>1, LoopNumbers DEF Reported
    <3>. QED
      BY <1>1, <2>1, <3>1, FS_EmptySet DEF Reported
  <2>2. CASE current # Omkc!NoLoop
    <3>1. current \in Omkc!Loops
      BY <1>1, <2>2, LoopNumbers DEF OmkcTypes
    <3>2. streams = {current}
      BY <1>5, <3>1
    <3>. QED
      BY <1>1, <2>2, <3>2, FS_Singleton DEF Reported
  <2>. QED
    BY <2>1, <2>2
<1>7. Cardinality(attached) = Omkc!Cardinality(attached) /\ Cardinality(streams) = Omkc!Cardinality(streams)
  BY <1>2
<1>. QED
  BY <1>3, <1>4, <1>5, <1>6, <1>7 DEF Omkc!OneSubscription

(* However stop and start follow each other, and for any number of loops,  *)
(* one at most is attached to the source: the one that is wanted, the one  *)
(* that the status names and the next stop reaches.                        *)
THEOREM OneIsSubscribed == PageSpec => []OneSubscription
<1>1. MCInit => OmkcInv
  BY OmkcStart DEF MCInit
<1>2. OmkcInv /\ [MCNext]_<<part, vars, pageVars, cardVars, omkcVars>> => OmkcInv'
  BY OmkcStep DEF MCNext
<1>3. OmkcInv => OneSubscription
  BY OmkcCounts DEF OneSubscription
<1>. QED
  BY <1>1, <1>2, <1>3, PTL DEF PageSpec

(* ---------------------------------------------------------------------- *)
(* The card of the debate page (AgentCard)                                 *)

CardTypes ==
  /\ server \in Card!Kinds
  /\ probes \in Nat /\ bodies \in Nat /\ retries \in Nat
  /\ replies \in [Card!Kinds -> Nat]
  /\ starting \in BOOLEAN /\ reprobe \in BOOLEAN /\ hidden \in BOOLEAN /\ visible \in BOOLEAN

(* Something is under way that will look for the server again.             *)
Looking == Card!requests # Card!Nothing \/ retries > 0 \/ starting \/ reprobe \/ sse # "none"

(* A card that was given up has the slow probe or a stream: a 503 keeps    *)
(* both, and only an answer that shows the card stops the probe.           *)
GivenUp == hidden => reprobe \/ sse # "none"

CardInv ==
  /\ CardTypes /\ Looking /\ GivenUp
  /\ ~visible => sse = "none"
  /\ hidden /\ visible => sse # "none"

(* A request on its way is one that is not forgotten.                      *)
LEMMA UnderWayIsLooking ==
  ASSUME CardTypes, probes > 0 \/ bodies > 0 \/ \E k \in Card!Kinds : replies[k] > 0
  PROVE  Looking
<1>1. CASE probes > 0
  BY <1>1 DEF Looking, Card!requests, Card!Nothing, CardTypes
<1>2. CASE bodies > 0
  BY <1>2 DEF Looking, Card!requests, Card!Nothing, CardTypes
<1>3. ASSUME NEW k \in Card!Kinds, replies[k] > 0 PROVE Looking
  <2>1. replies # [x \in Card!Kinds |-> 0]
    BY <1>3
  <2>. QED
    BY <2>1 DEF Looking, Card!requests, Card!Nothing
<1>. QED
  BY <1>1, <1>2, <1>3

(* What is no part of the invariant may change.                            *)
LEMMA CardIdle ==
  ASSUME CardInv, UNCHANGED <<probes, replies, bodies, retries, starting, reprobe, hidden, visible, sse>>,
         server' \in Card!Kinds
  PROVE  CardInv'
BY DEF CardInv, CardTypes, Looking, GivenUp, Card!requests, Card!Nothing

(* A step that leaves the timers, the display and the stream alone keeps   *)
(* looking if it leaves a request behind.                                  *)
LEMMA CardAsks ==
  ASSUME CardInv, CardTypes', UNCHANGED <<reprobe, hidden, visible, sse>>,
         (probes > 0 \/ bodies > 0 \/ \E k \in Card!Kinds : replies[k] > 0)'
  PROVE  CardInv'
<1>1. Looking'
  BY UnderWayIsLooking, PTL
<1>. QED
  BY <1>1 DEF CardInv, GivenUp

(* An answer arrives, whichever it is.                                     *)
LEMMA AnswerKeeps == CardInv /\ Card!Answered => CardInv'
<1> SUFFICES ASSUME CardInv, Card!Answered PROVE CardInv'
  OBVIOUS
<1>1. CardTypes /\ Looking /\ GivenUp /\ (~visible => sse = "none") /\ (hidden /\ visible => sse # "none")
  BY DEF CardInv
<1>2. ASSUME NEW k \in Card!Kinds, Card!Gets(k) PROVE replies' \in [Card!Kinds -> Nat]
  <2>1. replies[k] \in Nat /\ replies[k] > 0 /\ replies' = [replies EXCEPT ![k] = replies[k] - 1]
    BY <1>1, <1>2 DEF CardTypes, Card!Gets
  <2>2. replies[k] - 1 \in Nat
    BY <2>1
  <2>. QED
    BY <1>1, <2>1, <2>2 DEF CardTypes
<1>3. "up" \in Card!Kinds /\ "starting" \in Card!Kinds /\ "down" \in Card!Kinds
  BY DEF Card!Kinds
<1>4. CASE Card!Found
  <2>1. /\ bodies' = bodies + 1 /\ hidden' = FALSE /\ reprobe' = FALSE /\ starting' = FALSE
        /\ server' = server /\ probes' = probes /\ retries' = retries /\ visible' = visible /\ sse' = sse
    BY <1>4 DEF Card!Found
  <2>2. replies' \in [Card!Kinds -> Nat]
    BY <1>2, <1>3, <1>4 DEF Card!Found
  <2>5. /\ hidden' \in BOOLEAN /\ reprobe' \in BOOLEAN /\ starting' \in BOOLEAN
    BY <2>1, Zenon
  <2>6. bodies' \in Nat /\ bodies' > 0
    BY <1>1, <2>1 DEF CardTypes
  <2>3. CardTypes'
    BY <1>1, <2>1, <2>2, <2>5, <2>6 DEF CardTypes
  <2>7. (probes > 0 \/ bodies > 0 \/ \E k \in Card!Kinds : replies[k] > 0)'
    BY <2>6
  <2>4. Looking'
    BY <2>3, <2>7, UnderWayIsLooking, PTL
  <2>. QED
    BY <1>1, <2>1, <2>3, <2>4 DEF CardInv, GivenUp
<1>5. CASE Card!Starting
  <2>1. /\ visible' = (visible \/ ~hidden) /\ starting' = (starting \/ ~hidden)
        /\ server' = server /\ probes' = probes /\ retries' = retries /\ bodies' = bodies
        /\ reprobe' = reprobe /\ hidden' = hidden /\ sse' = sse
    BY <1>5 DEF Card!Starting
  <2>2. replies' \in [Card!Kinds -> Nat]
    BY <1>2, <1>3, <1>5 DEF Card!Starting
  <2>3. CardTypes'
    BY <1>1, <2>1, <2>2 DEF CardTypes
  <2>4. Looking'
    BY <1>1, <2>1 DEF Looking, GivenUp, CardTypes
  <2>5. GivenUp' /\ (~visible => sse = "none")' /\ (hidden /\ visible => sse # "none")'
    BY <1>1, <2>1 DEF GivenUp, CardTypes
  <2>. QED
    BY <2>3, <2>4, <2>5 DEF CardInv
<1>6. CASE Card!Failed
  <2>1. /\ server' = server /\ probes' = probes /\ bodies' = bodies
        /\ \/ /\ retries' = retries + 1 /\ starting' = starting /\ reprobe' = reprobe
              /\ hidden' = hidden /\ visible' = visible /\ sse' = sse
           \/ /\ starting' = FALSE /\ hidden' = TRUE /\ visible' = FALSE
              /\ sse' = "none" /\ reprobe' = TRUE /\ retries' = retries
    BY <1>6 DEF Card!Failed
  <2>2. replies' \in [Card!Kinds -> Nat]
    BY <1>2, <1>3, <1>6 DEF Card!Failed
  <2>6. retries' \in Nat
    BY <1>1, <2>1 DEF CardTypes
  <2>7. /\ starting \in BOOLEAN /\ reprobe \in BOOLEAN /\ hidden \in BOOLEAN /\ visible \in BOOLEAN
    BY <1>1 DEF CardTypes
  <2>8. /\ starting' \in BOOLEAN /\ reprobe' \in BOOLEAN /\ hidden' \in BOOLEAN /\ visible' \in BOOLEAN
    BY <2>1, <2>7, Zenon
  <2>3. CardTypes'
    BY <1>1, <2>1, <2>2, <2>6, <2>8 DEF CardTypes
  <2>4. Looking'
    BY <1>1, <2>1 DEF Looking, CardTypes
  <2>5. GivenUp' /\ (~visible => sse = "none")' /\ (hidden /\ visible => sse # "none")'
    BY <1>1, <2>1 DEF GivenUp, CardTypes
  <2>. QED
    BY <2>3, <2>4, <2>5 DEF CardInv
<1>. QED
  BY <1>4, <1>5, <1>6 DEF Card!Answered

(* Every other step of the card, its stream and its server.                *)
LEMMA CardStep == CardInv /\ [Card!Next]_cardVars => CardInv'
<1> SUFFICES ASSUME CardInv, [Card!Next]_cardVars PROVE CardInv'
  OBVIOUS
<1>1. CardTypes /\ Looking /\ GivenUp /\ (~visible => sse = "none") /\ (hidden /\ visible => sse # "none")
  BY DEF CardInv
<1>2. CASE Card!Reply
  <2>1. /\ probes \in Nat /\ probes > 0 /\ probes' = probes - 1
        /\ server \in Card!Kinds /\ replies[server] \in Nat
        /\ replies' = [replies EXCEPT ![server] = replies[server] + 1]
        /\ UNCHANGED <<server, bodies, retries, starting, reprobe, hidden, visible, sse>>
    BY <1>1, <1>2 DEF CardTypes, Card!Reply, Card!timers
  <2>2. replies' \in [Card!Kinds -> Nat] /\ replies'[server] > 0 /\ probes' \in Nat
    BY <1>1, <2>1 DEF CardTypes
  <2>3. CardTypes'
    BY <1>1, <2>1, <2>2 DEF CardTypes
  <2>. QED
    BY <2>1, <2>2, <2>3, CardAsks
<1>3. CASE Card!Answered
  BY <1>3, AnswerKeeps
<1>4. CASE Card!Applied
  <2>1. /\ bodies \in Nat /\ bodies > 0 /\ bodies' = bodies - 1 /\ visible' = TRUE /\ sse' # "none"
        /\ UNCHANGED <<server, probes, replies, retries, starting, reprobe, hidden>>
    BY <1>1, <1>4 DEF CardTypes, Card!Applied, Card!timers
  <2>2. CardTypes'
    BY <1>1, <2>1 DEF CardTypes
  <2>3. Looking' /\ GivenUp'
    BY <2>1 DEF Looking, GivenUp
  <2>. QED
    BY <2>1, <2>2, <2>3 DEF CardInv
<1>5. CASE Card!Retry \/ Card!StartingTimer \/ Card!Reprobe
  <2>3. /\ probes' = probes + 1
        /\ retries' = retries \/ (retries > 0 /\ retries' = retries - 1)
        /\ starting' = starting \/ starting' = FALSE
        /\ UNCHANGED <<server, replies, bodies, reprobe, hidden, visible, sse>>
    BY <1>5 DEF Card!Retry, Card!StartingTimer, Card!Reprobe, Card!Probe, Card!timers
  <2>4. retries' \in Nat
    BY <1>1, <2>3 DEF CardTypes
  <2>5. starting \in BOOLEAN
    BY <1>1 DEF CardTypes
  <2>6. starting' \in BOOLEAN
    BY <2>3, <2>5, Zenon
  <2>1. /\ probes' = probes + 1 /\ retries' \in Nat /\ starting' \in BOOLEAN
        /\ UNCHANGED <<server, replies, bodies, reprobe, hidden, visible, sse>>
    BY <2>3, <2>4, <2>6
  <2>2. CardTypes' /\ probes' > 0
    BY <1>1, <2>1 DEF CardTypes
  <2>. QED
    BY <2>1, <2>2, CardAsks
<1>6. CASE Card!SseOpens \/ Card!SseAgain
  <2>1. /\ sse # "none" /\ sse' # "none" /\ reprobe' \in BOOLEAN /\ starting' \in BOOLEAN
        /\ UNCHANGED <<server, probes, replies, bodies, retries, hidden, visible>>
    BY <1>1, <1>6 DEF CardTypes, Card!SseOpens, Card!SseAgain, Card!timers, Card!requests
  <2>2. CardTypes'
    BY <1>1, <2>1 DEF CardTypes
  <2>. QED
    BY <1>1, <2>1, <2>2 DEF CardInv, Looking, GivenUp
<1>7. CASE Card!SseFails
  <2>1. /\ sse # "none" /\ sse' # "none" /\ probes' = probes + 1
        /\ UNCHANGED <<server, replies, bodies, retries, starting, reprobe, hidden, visible>>
    BY <1>1, <1>7 DEF Card!SseFails, Card!Probe, Card!timers
  <2>2. CardTypes'
    BY <1>1, <2>1 DEF CardTypes
  <2>. QED
    BY <1>1, <2>1, <2>2 DEF CardInv, Looking, GivenUp
<1>8. CASE Card!Frame \/ Card!ServerChanges \/ UNCHANGED cardVars
  <2>1. server' \in Card!Kinds
    BY <1>1, <1>8 DEF CardTypes, Card!Frame, Card!ServerChanges, cardVars
  <2>. QED
    BY <1>8, <2>1, CardIdle DEF Card!Frame, Card!ServerChanges, Card!timers, Card!requests, cardVars
<1>9. CASE Card!Flush
  <2>1. /\ hidden' = FALSE /\ visible' = TRUE
        /\ UNCHANGED <<server, probes, replies, bodies, retries, starting, reprobe, sse>>
    BY <1>9 DEF Card!Flush, Card!timers, Card!requests
  <2>2. CardTypes'
    BY <1>1, <2>1 DEF CardTypes
  <2>3. Looking'
    BY <1>1, <2>1 DEF Looking, Card!requests, Card!Nothing
  <2>. QED
    BY <2>1, <2>2, <2>3 DEF CardInv, GivenUp
<1>. QED
  BY <1>2, <1>3, <1>4, <1>5, <1>6, <1>7, <1>8, <1>9 DEF Card!Next

(* Whatever answers are under way when the card is hidden and found again, *)
(* and for any number of them, a request, a timer or the stream is left to *)
(* find the server, and no late answer shows a card that has no stream.    *)
THEOREM CardKeepsLooking == PageSpec => []StillLooking
<1>1. MCInit => CardInv
  <2> SUFFICES ASSUME Card!Init PROVE CardInv
    BY DEF MCInit
  <2>3. replies \in [Card!Kinds -> Nat] /\ probes > 0 /\ probes \in Nat /\ bodies \in Nat /\ retries \in Nat
    BY DEF Card!Init
  <2>4. /\ starting \in BOOLEAN /\ reprobe \in BOOLEAN /\ hidden \in BOOLEAN /\ visible \in BOOLEAN
    BY Zenon DEF Card!Init
  <2>1. CardTypes /\ probes > 0
    BY <2>3, <2>4 DEF Card!Init, CardTypes
  <2>2. Looking
    BY <2>1, UnderWayIsLooking
  <2>. QED
    BY <2>1, <2>2 DEF CardInv, GivenUp, Card!Init
<1>2. CardInv /\ [MCNext]_<<part, vars, pageVars, cardVars, omkcVars>> => CardInv'
  BY CardStep DEF MCNext
<1>3. CardInv => StillLooking
  BY DEF CardInv, Looking, StillLooking, Card!StillLooking
<1>. QED
  BY <1>1, <1>2, <1>3, PTL DEF PageSpec

(* ---------------------------------------------------------------------- *)
(* The agents of the status page (StatusPage)                              *)

(* A list without a double entry is the bag of a set.                      *)
LEMMA BagOfSet ==
  ASSUME NEW A, NEW B
  PROVE  /\ Page!BagToSet(Page!SetToBag(A)) = A
         /\ \A x : Page!BagIn(x, Page!SetToBag(A)) <=> x \in A
         /\ \A x \in A : Page!SetToBag(A)[x] = 1
         /\ (A \cap B = {}) => Page!(+)(Page!SetToBag(A), Page!SetToBag(B)) = Page!SetToBag(A \cup B)
         /\ Page!(-)(Page!SetToBag(A), Page!SetToBag(B)) = Page!SetToBag(A \ B)
         /\ Page!EmptyBag = Page!SetToBag({})
<1>1. ASSUME A \cap B = {}
      PROVE  Page!(+)(Page!SetToBag(A), Page!SetToBag(B)) = Page!SetToBag(A \cup B)
  BY <1>1, SMT DEF Page!(+), Page!SetToBag
<1>2. Page!(-)(Page!SetToBag(A), Page!SetToBag(B)) = Page!SetToBag(A \ B)
  BY SMT DEF Page!(-), Page!SetToBag
<1>3. /\ Page!BagToSet(Page!SetToBag(A)) = A
      /\ \A x : Page!BagIn(x, Page!SetToBag(A)) <=> x \in A
      /\ \A x \in A : Page!SetToBag(A)[x] = 1
  BY DEF Page!BagIn, Page!BagToSet, Page!SetToBag
<1>4. Page!EmptyBag = Page!SetToBag({})
  BY DEF Page!EmptyBag, Page!SetToBag
<1>. QED
  BY <1>1, <1>2, <1>3, <1>4

(* What steps lead to: the start, what a step leads to, and nothing that a *)
(* closed set leaves out.                                                  *)
LEMMA ReachedIsLeast ==
  ASSUME NEW start \in SUBSET Page!Keys, NEW step \in [Page!Keys -> SUBSET Page!Keys]
  PROVE  /\ Page!Reached(start, step) \in SUBSET Page!Keys
         /\ start \subseteq Page!Reached(start, step)
         /\ \A y \in Page!Reached(start, step) : step[y] \subseteq Page!Reached(start, step)
         /\ \A C \in SUBSET Page!Keys :
              start \subseteq C /\ (\A y \in C : step[y] \subseteq C) => Page!Reached(start, step) \subseteq C
<1> DEFINE closed == {C \in SUBSET Page!Keys : start \subseteq C /\ \A y \in C : step[y] \subseteq C}
           R == {x \in Page!Keys : \A C \in closed : x \in C}
<1>1. Page!Reached(start, step) = R
  BY DEF Page!Reached
<1>2. R \in SUBSET Page!Keys /\ start \subseteq R
  OBVIOUS
<1>3. ASSUME NEW y \in R, NEW x \in step[y] PROVE x \in R
  BY <1>2, <1>3
<1>4. ASSUME NEW C \in SUBSET Page!Keys, start \subseteq C /\ (\A y \in C : step[y] \subseteq C)
      PROVE R \subseteq C
  BY <1>4
<1>. QED
  BY <1>1, <1>2, <1>3, <1>4

(* Where one step leads from y, and what that leads to.                    *)
LEMMA ReachedUnfolds ==
  ASSUME NEW y \in Page!Keys, NEW step \in [Page!Keys -> SUBSET Page!Keys]
  PROVE  Page!Reached({y}, step) = {y} \cup Page!Reached(step[y], step)
<1> DEFINE R == Page!Reached({y}, step)
           T == Page!Reached(step[y], step)
<1>1. step[y] \in SUBSET Page!Keys
  OBVIOUS
<1>2. /\ R \in SUBSET Page!Keys /\ y \in R /\ \A z \in R : step[z] \subseteq R
      /\ \A C \in SUBSET Page!Keys : {y} \subseteq C /\ (\A z \in C : step[z] \subseteq C) => R \subseteq C
  BY ReachedIsLeast
<1>3. /\ T \in SUBSET Page!Keys /\ step[y] \subseteq T /\ \A z \in T : step[z] \subseteq T
      /\ \A C \in SUBSET Page!Keys : step[y] \subseteq C /\ (\A z \in C : step[z] \subseteq C) => T \subseteq C
  BY <1>1, ReachedIsLeast
<1> HIDE DEF R, T
<1>4. T \subseteq R
  BY <1>2, <1>3
<1>5. R \subseteq {y} \cup T
  <2> DEFINE C == {y} \cup T
  <2>1. C \in SUBSET Page!Keys /\ {y} \subseteq C /\ \A z \in C : step[z] \subseteq C
    BY <1>3
  <2>. QED
    BY <2>1, <1>2
<1>. QED
  BY <1>2, <1>4, <1>5 DEF R, T

(***************************************************************************)
(* The model's shape: rows with lists that name no row twice, and what     *)
(* else it keeps.                                                          *)
(***************************************************************************)
Lists == {Page!SetToBag(A) : A \in SUBSET Page!Keys}
Hashes == {f.hash : f \in Frames} \cup {None}
Dirs == {r.dir : r \in Rows} \cup {None}
Listed(f) == {f.subs[i] : i \in DOMAIN f.subs}
Statuses == {None} \cup UNION {Listed(f) : f \in Frames}
Parents == Page!Keys \cup {None}
Entry == [kind : {"none", "leaf", "agent"}, said : Frames \cup {None}, hash : Hashes,
          status : Statuses, up : Parents, pend : Parents, kids : Lists]
Models == [rows : [Page!Keys -> Entry], older : SUBSET (Page!Keys \X Page!Keys),
           roots : [PageSessions -> Lists],
           sess : [PageSessions -> [known : BOOLEAN, gone : BOOLEAN, dir : Dirs]],
           pending : [Page!Keys -> SUBSET Page!Keys], orphans : [Page!Keys -> Parents],
           cache : [PageSessions -> Dirs \cup Hashes \cup {"unread"}]]

(* The rows of D are where up and pend have them, and no other row is      *)
(* anywhere.                                                               *)
UpOf(m) == [x \in Page!Keys |-> m.rows[x].up]
PendOf(m) == [x \in Page!Keys |-> m.rows[x].pend]
Under(D, up, p) == {x \in D : up[x] = p}
AtTop(D, up, s) == {x \in D : x[1] = s /\ up[x] = None}
Hangs(m, D, up, pend) ==
  /\ \A p \in Page!Keys : m.rows[p].kids = Page!SetToBag(Under(D, up, p))
  /\ \A s \in PageSessions : m.roots[s] = Page!SetToBag(AtTop(D, up, s))
  /\ \A p \in Page!Keys : m.pending[p] = Under(D, pend, p)
Hung(m, D) == Hangs(m, D, UpOf(m), PendOf(m))

(* The same but for the lists.                                             *)
SameEntry(d, e) ==
  /\ d.kind = e.kind /\ d.said = e.said /\ d.hash = e.hash /\ d.status = e.status
  /\ d.up = e.up /\ d.pend = e.pend
SameRest(m, n) == n.older = m.older /\ n.sess = m.sess /\ n.cache = m.cache
Alike(m, n) ==
  /\ \A x \in Page!Keys : SameEntry(m.rows[x], n.rows[x])
  /\ SameRest(m, n) /\ n.orphans = m.orphans

(* Rows that agree on D, and others N.                                     *)
LEMMA PlacesAdd ==
  ASSUME NEW D, NEW N, NEW up, NEW up2, \A x \in D : up2[x] = up[x]
  PROVE  /\ \A p : Under(D \cup N, up2, p) = Under(D, up, p) \cup Under(N, up2, p)
         /\ \A s : AtTop(D \cup N, up2, s) = AtTop(D, up, s) \cup AtTop(N, up2, s)
<1>1. ASSUME NEW p PROVE Under(D \cup N, up2, p) = Under(D, up, p) \cup Under(N, up2, p)
  BY DEF Under
<1>2. ASSUME NEW s PROVE AtTop(D \cup N, up2, s) = AtTop(D, up, s) \cup AtTop(N, up2, s)
  BY DEF AtTop
<1>. QED
  BY <1>1, <1>2

(* One row more.                                                           *)
Plus(D, k) == D \cup {k}

(* Where a row more is listed under its parent, or not.                    *)
LEMMA UnderPlus ==
  ASSUME NEW D, NEW k, NEW up, NEW p
  PROVE  /\ up[k] = p => Under(Plus(D, k), up, p) = Plus(Under(D, up, p), k)
         /\ up[k] # p => Under(Plus(D, k), up, p) = Under(D, up, p)
<1>1. ASSUME up[k] = p PROVE Under(D \cup {k}, up, p) = Under(D, up, p) \cup {k}
  BY <1>1 DEF Under
<1>2. ASSUME up[k] # p PROVE Under(D \cup {k}, up, p) = Under(D, up, p)
  BY <1>2 DEF Under
<1>. QED
  BY <1>1, <1>2, Zenon DEF Plus

(* Where a row more is a root, or not.                                     *)
LEMMA AtTopPlus ==
  ASSUME NEW D, NEW k, NEW up, NEW s
  PROVE  /\ up[k] = None /\ k[1] = s => AtTop(Plus(D, k), up, s) = Plus(AtTop(D, up, s), k)
         /\ up[k] # None \/ k[1] # s => AtTop(Plus(D, k), up, s) = AtTop(D, up, s)
<1>1. ASSUME up[k] = None /\ k[1] = s PROVE AtTop(D \cup {k}, up, s) = AtTop(D, up, s) \cup {k}
  BY <1>1 DEF AtTop
<1>2. ASSUME up[k] # None \/ k[1] # s PROVE AtTop(D \cup {k}, up, s) = AtTop(D, up, s)
  BY <1>2 DEF AtTop
<1>. QED
  BY <1>1, <1>2, Zenon DEF Plus

(* A list and one row more is a list.                                      *)
LEMMA PlusBag ==
  ASSUME NEW H \in SUBSET Page!Keys, NEW k \in Page!Keys \ H
  PROVE  /\ Page!(+)(Page!SetToBag(H), Page!Just(k)) = Page!SetToBag(Plus(H, k))
         /\ Page!SetToBag(Plus(H, k)) \in Lists
<1>1. H \cap {k} = {} /\ H \cup {k} \in SUBSET Page!Keys
  OBVIOUS
<1>2. Page!(+)(Page!SetToBag(H), Page!SetToBag({k})) = Page!SetToBag(H \cup {k})
  BY <1>1, BagOfSet
<1>. QED
  BY <1>1, <1>2 DEF Plus, Page!Just, Lists

(* Lists of rows are lists.                                                *)
LEMMA PlacesType ==
  ASSUME NEW D \in SUBSET Page!Keys, NEW up
  PROVE  /\ \A p : Under(D, up, p) \in SUBSET D /\ Page!SetToBag(Under(D, up, p)) \in Lists
         /\ \A s : AtTop(D, up, s) \in SUBSET D /\ Page!SetToBag(AtTop(D, up, s)) \in Lists
BY DEF Under, AtTop, Lists

(* Rows that leave a list leave a list.                                    *)
LEMMA ListFacts ==
  ASSUME NEW B \in Lists, NEW A \in SUBSET Page!Keys
  PROVE  Page!(-)(B, Page!SetToBag(A)) \in Lists /\ Page!SetToBag(A) \in Lists
<1>1. PICK S \in SUBSET Page!Keys : B = Page!SetToBag(S)
  BY DEF Lists
<1>2. Page!(-)(B, Page!SetToBag(A)) = Page!SetToBag(S \ A)
  BY <1>1, BagOfSet
<1>3. S \ A \in SUBSET Page!Keys
  OBVIOUS
<1>. QED
  BY <1>2, <1>3 DEF Lists

(* One field of a model is replaced.                                       *)
LEMMA PutRows ==
  ASSUME NEW m \in Models, NEW r \in [Page!Keys -> Entry]
  PROVE  LET n == [m EXCEPT !.rows = r] IN
         /\ n \in Models /\ n.rows = r /\ n.older = m.older /\ n.sess = m.sess /\ n.cache = m.cache
         /\ n.orphans = m.orphans /\ n.roots = m.roots /\ n.pending = m.pending
BY DEF Models

(* Only the roots are replaced.                                            *)
LEMMA PutRoots ==
  ASSUME NEW m \in Models, NEW r \in [PageSessions -> Lists]
  PROVE  LET n == [m EXCEPT !.roots = r] IN
         /\ n \in Models /\ n.rows = m.rows /\ n.older = m.older /\ n.sess = m.sess /\ n.cache = m.cache
         /\ n.orphans = m.orphans /\ n.roots = r /\ n.pending = m.pending
BY DEF Models

(* Only the waiting children are replaced.                                 *)
LEMMA PutPending ==
  ASSUME NEW m \in Models, NEW r \in [Page!Keys -> SUBSET Page!Keys]
  PROVE  LET n == [m EXCEPT !.pending = r] IN
         /\ n \in Models /\ n.rows = m.rows /\ n.older = m.older /\ n.sess = m.sess /\ n.cache = m.cache
         /\ n.orphans = m.orphans /\ n.roots = m.roots /\ n.pending = r
BY DEF Models

(* A row's list is replaced.                                               *)
LEMMA PutKids ==
  ASSUME NEW m \in Models, NEW p \in Page!Keys, NEW B \in Lists
  PROVE  LET n == [m EXCEPT !.rows[p].kids = B] IN
         /\ n \in Models /\ Alike(m, n) /\ n.roots = m.roots /\ n.pending = m.pending
         /\ \A x \in Page!Keys : n.rows[x].kids = IF x = p THEN B ELSE m.rows[x].kids
<1> DEFINE e == [m.rows[p] EXCEPT !.kids = B]
           r == [m.rows EXCEPT ![p] = e]
<1> HIDE DEF Lists
<1>1. m.rows \in [Page!Keys -> Entry] /\ m.rows[p] \in Entry
  BY DEF Models
<1>2. e \in Entry
  BY <1>1 DEF Entry
<1>3. r \in [Page!Keys -> Entry]
  BY <1>1, <1>2
<1>4. \A x \in Page!Keys : SameEntry(m.rows[x], r[x]) /\ r[x].kids = IF x = p THEN B ELSE m.rows[x].kids
  BY <1>1 DEF SameEntry, Entry
<1> HIDE DEF r
<1>. QED
  BY <1>3, <1>4, PutRows DEF r, Alike, SameRest

(* detachEntry takes the row out of the one list it is in, and no other.   *)
LEMMA Detached ==
  ASSUME NEW m \in Models, NEW k \in Page!Keys, NEW e \in Entry, NEW D \in SUBSET Page!Keys,
         NEW up \in [Page!Keys -> Parents], NEW pend \in [Page!Keys -> Parents],
         up[k] = e.up, pend[k] = e.pend, Hangs(m, D, up, pend)
  PROVE  LET n == Page!DetachEntry(m, k, e) IN
         n \in Models /\ Alike(m, n) /\ Hangs(n, D \ {k}, up, pend)
<1> DEFINE dk == Page!DropKid(m, e.up, k)
           dr == Page!DropRoot(m, k)
           d == IF e.up # None THEN dk ELSE dr
           n == Page!DetachEntry(m, k, e)
<1>0. e.up \in Parents /\ e.pend \in Parents /\ k[1] \in PageSessions
  BY DEF Entry, Page!Keys
<1>a. None \notin Page!Keys
  BY PageAssumption
<1>1. d \in Models /\ Alike(m, d) /\ d.pending = m.pending
      /\ (\A p \in Page!Keys : d.rows[p].kids = Page!SetToBag(Under(D \ {k}, up, p)))
      /\ (\A s \in PageSessions : d.roots[s] = Page!SetToBag(AtTop(D \ {k}, up, s)))
  <2>1. CASE e.up # None
    <3> DEFINE B == Page!(-)(m.rows[e.up].kids, Page!Just(k))
    <3>1. e.up \in Page!Keys
      BY <1>0, <2>1 DEF Parents
    <3>2. B = Page!SetToBag(Under(D, up, e.up) \ {k})
      <4> DEFINE H == Under(D, up, e.up)
      <4>1. m.rows[e.up].kids = Page!SetToBag(H)
        BY <3>1 DEF Hangs
      <4> HIDE DEF H
      <4>2. B = Page!SetToBag(H \ {k})
        BY <4>1, BagOfSet DEF Page!Just
      <4>. QED
        BY <4>2 DEF H
    <3>3. B \in Lists
      BY <3>2 DEF Lists, Under, AtTop
    <3>4. d = [m EXCEPT !.rows[e.up].kids = B]
      BY <2>1 DEF Page!DropKid
    <3> HIDE DEF B, d
    <3>5. /\ d \in Models /\ Alike(m, d) /\ d.roots = m.roots /\ d.pending = m.pending
          /\ \A x \in Page!Keys : d.rows[x].kids = IF x = e.up THEN B ELSE m.rows[x].kids
      BY <3>1, <3>3, <3>4, PutKids
    <3>6. ASSUME NEW p \in Page!Keys PROVE d.rows[p].kids = Page!SetToBag(Under(D \ {k}, up, p))
      <4>1. CASE p = e.up
        <5>1. Under(D, up, e.up) \ {k} = Under(D \ {k}, up, p)
          BY <4>1 DEF Under
        <5>. QED
          BY <3>2, <3>5, <4>1, <5>1
      <4>2. CASE p # e.up
        <5>1. Under(D, up, p) = Under(D \ {k}, up, p)
          BY <4>2 DEF Under
        <5>. QED
          BY <3>5, <4>2, <5>1 DEF Hangs
      <4>. QED
        BY <4>1, <4>2
    <3>7. ASSUME NEW s \in PageSessions
          PROVE d.roots[s] = Page!SetToBag(AtTop(D \ {k}, up, s))
      <4>1. AtTop(D, up, s) = AtTop(D \ {k}, up, s)
        BY <2>1 DEF AtTop
      <4>. QED
        BY <3>5, <4>1 DEF Hangs
    <3>. QED
      BY <3>5, <3>6, <3>7
  <2>2. CASE e.up = None
    <3> DEFINE B == Page!(-)(m.roots[k[1]], Page!Just(k))
               r == [m.roots EXCEPT ![k[1]] = B]
    <3>2. B = Page!SetToBag(AtTop(D, up, k[1]) \ {k})
      <4> DEFINE H == AtTop(D, up, k[1])
      <4>1. m.roots[k[1]] = Page!SetToBag(H)
        BY <1>0 DEF Hangs
      <4> HIDE DEF H
      <4>2. B = Page!SetToBag(H \ {k})
        BY <4>1, BagOfSet DEF Page!Just
      <4>. QED
        BY <4>2 DEF H
    <3>3. B \in Lists
      BY <3>2 DEF Lists, Under, AtTop
    <3>4. d = [m EXCEPT !.roots = r]
      BY <2>2 DEF Page!DropRoot
    <3> HIDE DEF B, d, Lists
    <3>5. m.roots \in [PageSessions -> Lists]
      BY DEF Models
    <3>6. r \in [PageSessions -> Lists]
      BY <3>3, <3>5
    <3>7. \A s \in PageSessions : r[s] = IF s = k[1] THEN B ELSE m.roots[s]
      BY <3>5
    <3> HIDE DEF r
    <3>8. /\ d \in Models /\ d.rows = m.rows /\ d.older = m.older /\ d.sess = m.sess /\ d.cache = m.cache
          /\ d.orphans = m.orphans /\ d.roots = r /\ d.pending = m.pending
      BY <3>4, <3>6, PutRoots
    <3>9. Alike(m, d)
      BY <3>8 DEF Alike, SameEntry, SameRest
    <3>10. ASSUME NEW p \in Page!Keys PROVE d.rows[p].kids = Page!SetToBag(Under(D \ {k}, up, p))
      <4>1. Under(D, up, p) = Under(D \ {k}, up, p)
        BY <1>a, <2>2 DEF Under
      <4>. QED
        BY <3>8, <4>1 DEF Hangs
    <3>11. ASSUME NEW s \in PageSessions
           PROVE d.roots[s] = Page!SetToBag(AtTop(D \ {k}, up, s))
      <4>1. CASE s = k[1]
        <5>1. AtTop(D, up, k[1]) \ {k} = AtTop(D \ {k}, up, s)
          BY <4>1 DEF AtTop
        <5>. QED
          BY <3>2, <3>7, <3>8, <4>1, <5>1
      <4>2. CASE s # k[1]
        <5>1. AtTop(D, up, s) = AtTop(D \ {k}, up, s)
          BY <4>2 DEF AtTop
        <5>. QED
          BY <3>7, <3>8, <4>2, <5>1 DEF Hangs
      <4>. QED
        BY <4>1, <4>2
    <3>. QED
      BY <3>8, <3>9, <3>10, <3>11
  <2>. QED
    BY <2>1, <2>2
<1> HIDE DEF d
<1>2. CASE e.pend # None
  <2> DEFINE r == [d.pending EXCEPT ![e.pend] = @ \ {k}]
  <2>1. e.pend \in Page!Keys
    BY <1>0, <1>2 DEF Parents
  <2>2. d.pending \in [Page!Keys -> SUBSET Page!Keys]
    BY <1>1 DEF Models
  <2>3. r \in [Page!Keys -> SUBSET Page!Keys]
    BY <2>1, <2>2
  <2>4. n = [d EXCEPT !.pending = r]
    BY <1>2 DEF Page!DetachEntry, d
  <2>5. ASSUME NEW p \in Page!Keys PROVE r[p] = Under(D \ {k}, pend, p)
    BY <1>1, <2>1, <2>2 DEF Hangs, Under
  <2> HIDE DEF r, n
  <2>6. /\ n \in Models /\ n.rows = d.rows /\ n.older = d.older /\ n.sess = d.sess /\ n.cache = d.cache
        /\ n.orphans = d.orphans /\ n.roots = d.roots /\ n.pending = r
    BY <1>1, <2>3, <2>4, PutPending
  <2>. QED
    BY <1>1, <2>5, <2>6 DEF Alike, SameRest, Hangs, n
<1>3. CASE e.pend = None
  <2>1. n = d
    BY <1>3 DEF Page!DetachEntry, d
  <2>2. ASSUME NEW p \in Page!Keys PROVE m.pending[p] = Under(D \ {k}, pend, p)
    BY <1>a, <1>3 DEF Hangs, Under
  <2>. QED
    BY <1>1, <2>1, <2>2 DEF Hangs
<1>. QED
  BY <1>2, <1>3

(* No rows go round: every set of them has one whose parent is outside.    *)
Rooted(up) == \A C \in SUBSET Page!Keys : C # {} => \E x \in C : up[x] \notin C

(* Rows that are given another parent p, none of them among the ancestors  *)
(* of p, and rows that become roots, close no circle.                      *)
LEMMA Regraft ==
  ASSUME NEW up \in [Page!Keys -> Parents], NEW up2 \in [Page!Keys -> Parents], Rooted(up),
         NEW A \in SUBSET Page!Keys, NEW p \in A,
         \A x \in A : up[x] \in A \cup {None},
         \A x \in Page!Keys : up2[x] = up[x] \/ up2[x] = None \/ (up2[x] = p /\ x \notin A)
  PROVE  Rooted(up2)
<1> SUFFICES ASSUME NEW C \in SUBSET Page!Keys, C # {} PROVE \E x \in C : up2[x] \notin C
  BY DEF Rooted
<1>0. None \notin Page!Keys
  BY PageAssumption
<1>1. CASE C \cap A # {}
  <2>1. PICK x \in C \cap A : up[x] \notin C \cap A
    BY <1>1 DEF Rooted
  <2>. QED
    BY <1>0, <2>1
<1>2. CASE C \cap A = {}
  <2>1. PICK x \in C : up[x] \notin C
    BY DEF Rooted
  <2>. QED
    BY <1>0, <1>2, <2>1
<1>. QED
  BY <1>1, <1>2

(* The parents of the rows, as the model has them.                         *)
LEMMA AboveType ==
  ASSUME NEW m \in Models
  PROVE  /\ Page!Above(m) \in [Page!Keys -> SUBSET Page!Keys]
         /\ \A x \in Page!Keys : Page!Above(m)[x] = {m.rows[x].up} \ {None} /\ m.rows[x].up \in Parents
         /\ UpOf(m) \in [Page!Keys -> Parents] /\ PendOf(m) \in [Page!Keys -> Parents]
BY DEF Page!Above, Models, Entry, Parents, UpOf, PendOf

(* A row and its ancestors have their parents among themselves.            *)
LEMMA AncestorsClosed ==
  ASSUME NEW m \in Models, NEW p \in Page!Keys
  PROVE  LET A == {p} \cup Page!Ancestors(m, p) IN
         /\ A \in SUBSET Page!Keys
         /\ \A x \in A : UpOf(m)[x] \in A \cup {None}
         /\ \A C \in SUBSET Page!Keys : p \in C /\ (\A x \in C : UpOf(m)[x] \in C \cup {None}) => A \subseteq C
<1> DEFINE S == Page!Above(m)[p]
           R == Page!Ancestors(m, p)
<1>1. S \in SUBSET Page!Keys
  BY AboveType
<1>2. /\ R \in SUBSET Page!Keys /\ S \subseteq R /\ \A y \in R : Page!Above(m)[y] \subseteq R
      /\ \A C \in SUBSET Page!Keys : S \subseteq C /\ (\A y \in C : Page!Above(m)[y] \subseteq C) => R \subseteq C
  BY <1>1, AboveType, ReachedIsLeast DEF Page!Ancestors
<1>3. \A x \in Page!Keys : UpOf(m)[x] = m.rows[x].up /\ Page!Above(m)[x] = {m.rows[x].up} \ {None}
  BY AboveType DEF UpOf
<1> HIDE DEF R, S
<1>4. ASSUME NEW x \in {p} \cup R PROVE UpOf(m)[x] \in {p} \cup R \cup {None}
  BY <1>2, <1>3, <1>4 DEF S
<1>5. ASSUME NEW C \in SUBSET Page!Keys, p \in C, \A x \in C : UpOf(m)[x] \in C \cup {None}
      PROVE {p} \cup R \subseteq C
  BY <1>2, <1>3, <1>5 DEF S
<1>. QED
  BY <1>2, <1>4, <1>5 DEF R

(* Ancestors are a matter of the parents only.                             *)
LEMMA SameAncestors ==
  ASSUME NEW m, NEW n, \A x \in Page!Keys : m.rows[x].up = n.rows[x].up
  PROVE  UpOf(m) = UpOf(n) /\ \A k : Page!Ancestors(m, k) = Page!Ancestors(n, k)
<1>1. Page!Above(m) = Page!Above(n) /\ UpOf(m) = UpOf(n)
  BY DEF Page!Above, UpOf
<1>. QED
  BY <1>1 DEF Page!Ancestors

(* What a row says: a leaf its lister, an agent the parent that its frame  *)
(* declares if that one has a row of its own, and otherwise what it waits  *)
(* for.                                                                    *)
RowIsSound(m, x) ==
  LET e == m.rows[x]
      cand == Page!Candidate(e.said)
  IN  /\ e.kind = "none" => e.said = None /\ e.up = None /\ e.pend = None
      /\ e.kind = "leaf" => e.said = None /\ e.up \in Page!RealRows(m) /\ e.up[1] = x[1] /\ e.pend = None
      /\ e.kind = "agent" => /\ e.said \in Frames /\ Page!KeyOf(e.said) = x
                             /\ e.up # None => e.up = cand /\ cand \in Page!RealRows(m) /\ e.pend = None
                             /\ e.pend # None => e.pend = cand

Said(m) == [x \in Page!Keys |-> m.rows[x].said]

(* The parent that a frame declares is another agent of its session.       *)
LEMMA CandidateFacts ==
  ASSUME NEW f \in Frames
  PROVE  /\ f # None /\ Page!KeyOf(f) \in Page!Keys
         /\ Page!Candidate(f) # None =>
              /\ Page!Candidate(f) \in Page!Keys /\ Page!Candidate(f)[1] = Page!KeyOf(f)[1]
              /\ Page!Candidate(f) # Page!KeyOf(f)
BY PageAssumption DEF Page!Candidate, Page!KeyOf, Page!Keys

(* A row whose declared parent refuses it has declared a circle.           *)
LEMMA RefusedIsCircle ==
  ASSUME NEW m \in Models, NEW k \in Page!Keys, NEW p \in Page!RealRows(m),
         m.rows[k].said \in Frames, Page!Candidate(m.rows[k].said) = p,
         \A x \in Page!Keys \ {k} : RowIsSound(m, x), k \in Page!Ancestors(m, p), k # p
  PROVE  Page!Circle(Said(m))
<1> DEFINE d == Page!Declared(Said(m))
<1>0. None \notin Page!Keys /\ p \in Page!Keys
  BY PageAssumption DEF Page!RealRows
<1>1. ASSUME NEW x \in Page!Keys, m.rows[x].said \in Frames \cup {None}
      PROVE d[x] = {Page!Candidate(m.rows[x].said)} \ {None} /\ d[x] \in SUBSET Page!Keys
  <2>1. d[x] = {Page!Candidate(m.rows[x].said)} \ {None}
    BY DEF Page!Declared, Said
  <2>2. Page!Candidate(None) = None
    BY DEF Page!Candidate
  <2>. QED
    BY <1>1, <2>1, <2>2, CandidateFacts
<1>2. d \in [Page!Keys -> SUBSET Page!Keys]
  <2>1. \A x \in Page!Keys : m.rows[x].said \in Frames \cup {None}
    BY DEF Models, Entry
  <2>2. d = [x \in Page!Keys |-> d[x]]
    BY DEF Page!Declared
  <2> HIDE DEF d
  <2>. QED
    BY <1>1, <2>1, <2>2
<1>3. d[k] = {p}
  BY <1>0, <1>1
<1> HIDE DEF d
<1>4. k \in Page!Reached(d[k], d)
  <2> SUFFICES ASSUME NEW C \in SUBSET Page!Keys, d[k] \subseteq C, \A y \in C : d[y] \subseteq C, k \notin C
               PROVE FALSE
    BY DEF Page!Reached
  <2> DEFINE G == {x \in C : x \in Page!RealRows(m)}
  <2>1. p \in G /\ G \in SUBSET Page!Keys
    BY <1>3
  <2>2. ASSUME NEW x \in G PROVE UpOf(m)[x] \in G \cup {None}
    <3>1. x \in Page!Keys \ {k} /\ m.rows[x].kind = "agent" /\ UpOf(m)[x] = m.rows[x].up
      BY DEF Page!RealRows, UpOf
    <3>2. /\ m.rows[x].said \in Frames
          /\ m.rows[x].up # None => m.rows[x].up = Page!Candidate(m.rows[x].said) /\ m.rows[x].up \in Page!RealRows(m)
      BY <3>1 DEF RowIsSound
    <3>3. m.rows[x].up # None => m.rows[x].up \in d[x]
      BY <1>1, <3>1, <3>2
    <3>. QED
      BY <3>1, <3>2, <3>3
  <2> HIDE DEF G
  <2>3. {p} \cup Page!Ancestors(m, p) \subseteq G
    BY <1>0, <2>1, <2>2, AncestorsClosed
  <2>. QED
    BY <2>3 DEF G
<1>. QED
  BY <1>4 DEF Page!Circle, d

(* A row is given a parent, or one to wait for.                            *)
WithPlace(m, k, u, w) == [m EXCEPT !.rows[k] = [@ EXCEPT !.up = u, !.pend = w]]

(* Only the place of the row changes.                                      *)
LEMMA PutPlace ==
  ASSUME NEW m \in Models, NEW k \in Page!Keys, NEW u \in Parents, NEW w \in Parents
  PROVE  LET n == WithPlace(m, k, u, w) IN
         /\ n \in Models /\ SameRest(m, n) /\ n.orphans = m.orphans
         /\ n.roots = m.roots /\ n.pending = m.pending
         /\ \A x \in Page!Keys \ {k} : n.rows[x] = m.rows[x]
         /\ n.rows[k].kind = m.rows[k].kind /\ n.rows[k].said = m.rows[k].said
         /\ n.rows[k].hash = m.rows[k].hash /\ n.rows[k].status = m.rows[k].status
         /\ n.rows[k].kids = m.rows[k].kids /\ n.rows[k].up = u /\ n.rows[k].pend = w
<1> DEFINE e == [m.rows[k] EXCEPT !.up = u, !.pend = w]
           r == [m.rows EXCEPT ![k] = e]
           n == WithPlace(m, k, u, w)
<1> HIDE DEF Lists
<1>1. m.rows \in [Page!Keys -> Entry] /\ m.rows[k] \in Entry
  BY DEF Models
<1>2. e \in Entry
  BY <1>1 DEF Entry
<1>3. r \in [Page!Keys -> Entry]
  BY <1>1, <1>2
<1>4. /\ \A x \in Page!Keys \ {k} : r[x] = m.rows[x]
      /\ r[k].kind = m.rows[k].kind /\ r[k].said = m.rows[k].said
      /\ r[k].hash = m.rows[k].hash /\ r[k].status = m.rows[k].status
      /\ r[k].kids = m.rows[k].kids /\ r[k].up = u /\ r[k].pend = w
  BY <1>1 DEF Entry
<1>5. n = [m EXCEPT !.rows = r]
  BY DEF WithPlace
<1> HIDE DEF r, n
<1>6. /\ n \in Models /\ n.rows = r /\ n.older = m.older /\ n.sess = m.sess /\ n.cache = m.cache
      /\ n.orphans = m.orphans /\ n.roots = m.roots /\ n.pending = m.pending
  BY <1>3, <1>5 DEF Models
<1>. QED
  BY <1>4, <1>6 DEF SameRest, n

(* A row that is nowhere and has no parent is pushed to the roots.         *)
LEMMA Rooting ==
  ASSUME NEW m \in Models, NEW k \in Page!Keys, NEW D \in SUBSET Page!Keys, k \notin D,
         \A s \in PageSessions : m.roots[s] = Page!SetToBag(AtTop(D, UpOf(m), s)),
         m.rows[k].up = None
  PROVE  LET n == Page!PushRoot(m, k) IN
         /\ n \in Models /\ SameRest(m, n) /\ n.orphans = m.orphans
         /\ n.rows = m.rows /\ n.pending = m.pending
         /\ \A s \in PageSessions : n.roots[s] = Page!SetToBag(AtTop(Plus(D, k), UpOf(m), s))
<1> DEFINE H == AtTop(D, UpOf(m), k[1])
           B == Page!(+)(m.roots[k[1]], Page!Just(k))
           r == [m.roots EXCEPT ![k[1]] = B]
           n == Page!PushRoot(m, k)
<1>1. k[1] \in PageSessions /\ UpOf(m)[k] = None /\ m.roots \in [PageSessions -> Lists]
  BY DEF Page!Keys, UpOf, Models
<1>2. /\ AtTop(Plus(D, k), UpOf(m), k[1]) = Plus(H, k)
      /\ \A s \in PageSessions : s # k[1] => AtTop(Plus(D, k), UpOf(m), s) = AtTop(D, UpOf(m), s)
  BY <1>1, AtTopPlus
<1>3. m.roots[k[1]] = Page!SetToBag(H) /\ H \in SUBSET Page!Keys /\ k \notin H
  BY <1>1, PlacesType
<1> HIDE DEF H
<1>5. ~Page!BagIn(k, Page!SetToBag(H))
  BY <1>3, BagOfSet
<1>6. B = Page!SetToBag(Plus(H, k)) /\ B \in Lists
  BY <1>3, PlusBag
<1>7. n = [m EXCEPT !.roots = r]
  BY <1>3, <1>5 DEF Page!PushRoot
<1> HIDE DEF B, Lists, n
<1>8. r \in [PageSessions -> Lists] /\ \A s \in PageSessions : r[s] = IF s = k[1] THEN B ELSE m.roots[s]
  BY <1>1, <1>6
<1> HIDE DEF r
<1>9. /\ n \in Models /\ n.rows = m.rows /\ n.older = m.older /\ n.sess = m.sess /\ n.cache = m.cache
      /\ n.orphans = m.orphans /\ n.roots = r /\ n.pending = m.pending
  BY <1>7, <1>8, PutRoots
<1>10. \A s \in PageSessions : r[s] = Page!SetToBag(AtTop(Plus(D, k), UpOf(m), s))
  BY <1>2, <1>6, <1>8
<1>. QED
  BY <1>9, <1>10 DEF SameRest, n

(* resolveAndAttach: the row is in one place, under its declared parent if *)
(* that one has a row and does not refuse it, and else at the top.         *)
LEMMA Resolved ==
  ASSUME NEW m \in Models, NEW k \in Page!Keys, NEW D \in SUBSET Page!Keys, Hung(m, D),
         m.rows[k].kind = "agent", m.rows[k].said \in Frames, Page!KeyOf(m.rows[k].said) = k,
         \A x \in Page!Keys \ {k} : RowIsSound(m, x)
  PROVE  LET n == Page!ResolveAndAttach(m, k)
             cand == Page!Candidate(m.rows[k].said)
         IN  /\ n \in Models /\ Hung(n, Plus(D, k)) /\ SameRest(m, n) /\ n.orphans = m.orphans
             /\ \A x \in Page!Keys \ {k} : SameEntry(m.rows[x], n.rows[x])
             /\ n.rows[k].kind = "agent" /\ n.rows[k].said = m.rows[k].said /\ n.rows[k].hash = m.rows[k].hash
             /\ \/ cand \notin Page!RealRows(m) /\ n.rows[k].up = None /\ n.rows[k].pend = cand
                \/ /\ cand \in Page!RealRows(m) /\ k # cand /\ k \notin Page!Ancestors(m, cand)
                   /\ n.rows[k].up = cand /\ n.rows[k].pend = None
                \/ /\ cand \in Page!RealRows(m) /\ Page!Circle(Said(m))
                   /\ n.rows[k].up = None /\ n.rows[k].pend = None
<1> DEFINE e == m.rows[k]
           d == Page!DetachEntry(m, k, e)
           cand == Page!Candidate(m.rows[k].said)
           n == Page!ResolveAndAttach(m, k)
           E == D \ {k}
<1>0. None \notin Page!Keys /\ e \in Entry /\ cand \in Parents /\ cand # k /\ None \in Parents
  BY PageAssumption, CandidateFacts DEF Models, Parents
<1>1. d \in Models /\ Alike(m, d) /\ Hangs(d, E, UpOf(m), PendOf(m))
  BY <1>0, AboveType, Detached DEF Hung, UpOf, PendOf
<1>2. d.rows[k].said = m.rows[k].said
  BY <1>1 DEF Alike, SameEntry
<1>3. Page!RealRows(d) = Page!RealRows(m) /\ \A x : Page!Ancestors(d, x) = Page!Ancestors(m, x)
  BY <1>1, SameAncestors DEF Alike, SameEntry, Page!RealRows
<1>4. n = IF cand # None /\ cand \notin Page!RealRows(m)
            THEN Page!PushRoot([WithPlace(d, k, None, cand) EXCEPT !.pending[cand] = @ \cup {k}], k)
          ELSE IF cand # None /\ ~Page!WouldCycle(d, cand, k)
            THEN Page!DropRoot([WithPlace(d, k, cand, None) EXCEPT !.rows[cand].kids = Page!(+)(@, Page!Just(k))], k)
          ELSE Page!PushRoot(WithPlace(d, k, None, None), k)
  BY <1>3 DEF Page!ResolveAndAttach, WithPlace
<1>a. Plus(E, k) = Plus(D, k) /\ E \in SUBSET Page!Keys /\ k \notin E
  BY DEF Plus
<1> HIDE DEF d, n, E
<1>5. ASSUME NEW u \in Parents, NEW w \in Parents
      PROVE  LET q == WithPlace(d, k, u, w) IN
             /\ q \in Models /\ Hung(q, E) /\ SameRest(m, q) /\ q.orphans = m.orphans
             /\ \A x \in Page!Keys \ {k} : SameEntry(m.rows[x], q.rows[x])
             /\ q.rows[k].kind = "agent" /\ q.rows[k].said = m.rows[k].said /\ q.rows[k].hash = m.rows[k].hash
             /\ q.rows[k].up = u /\ q.rows[k].pend = w
             /\ UpOf(q)[k] = u /\ PendOf(q)[k] = w
  <2> DEFINE q == WithPlace(d, k, u, w)
  <2>1. /\ q \in Models /\ SameRest(d, q) /\ q.orphans = d.orphans /\ q.roots = d.roots /\ q.pending = d.pending
        /\ \A x \in Page!Keys \ {k} : q.rows[x] = d.rows[x]
        /\ q.rows[k].kind = d.rows[k].kind /\ q.rows[k].said = d.rows[k].said /\ q.rows[k].hash = d.rows[k].hash
        /\ q.rows[k].kids = d.rows[k].kids /\ q.rows[k].up = u /\ q.rows[k].pend = w
    BY <1>1, PutPlace
  <2> HIDE DEF q
  <2>2. \A x \in E : UpOf(q)[x] = UpOf(m)[x] /\ PendOf(q)[x] = PendOf(m)[x]
    BY <1>1, <2>1, <1>a DEF UpOf, PendOf, Alike, SameEntry
  <2>3. \A p : /\ Under(E, UpOf(q), p) = Under(E, UpOf(m), p)
               /\ AtTop(E, UpOf(q), p) = AtTop(E, UpOf(m), p)
               /\ Under(E, PendOf(q), p) = Under(E, PendOf(m), p)
    BY <2>2 DEF Under, AtTop
  <2>4. \A x \in Page!Keys : q.rows[x].kids = d.rows[x].kids
    BY <2>1
  <2>5. Hung(q, E)
    BY <1>1, <2>1, <2>3, <2>4 DEF Hung, Hangs
  <2>6. UpOf(q)[k] = u /\ PendOf(q)[k] = w
    BY <2>1 DEF UpOf, PendOf
  <2>. QED
    BY <1>1, <2>1, <2>5, <2>6 DEF q, Alike, SameEntry, SameRest
<1>6. CASE cand \notin Page!RealRows(m) /\ cand # None
  <2> DEFINE q == WithPlace(d, k, None, cand)
             r == [q.pending EXCEPT ![cand] = @ \cup {k}]
             z == [q EXCEPT !.pending[cand] = @ \cup {k}]
  <2>1. /\ q \in Models /\ Hung(q, E) /\ SameRest(m, q) /\ q.orphans = m.orphans
        /\ \A x \in Page!Keys \ {k} : SameEntry(m.rows[x], q.rows[x])
        /\ q.rows[k].kind = "agent" /\ q.rows[k].said = m.rows[k].said /\ q.rows[k].hash = m.rows[k].hash
        /\ q.rows[k].up = None /\ q.rows[k].pend = cand
        /\ UpOf(q)[k] = None /\ PendOf(q)[k] = cand
    BY <1>0, <1>5
  <2>2. cand \in Page!Keys
    BY <1>0, <1>6 DEF Parents
  <2>3. n = Page!PushRoot(z, k)
    BY <1>4, <1>6
  <2> HIDE DEF q
  <2>4. q.pending \in [Page!Keys -> SUBSET Page!Keys]
    BY <2>1 DEF Models
  <2>5. r \in [Page!Keys -> SUBSET Page!Keys]
    BY <2>2, <2>4
  <2>6. ASSUME NEW p \in Page!Keys PROVE r[p] = Under(Plus(E, k), PendOf(q), p)
    <3>1. q.pending[p] = Under(E, PendOf(q), p)
      BY <2>1 DEF Hung, Hangs
    <3>2. /\ p = cand => Under(Plus(E, k), PendOf(q), p) = Plus(Under(E, PendOf(q), p), k)
          /\ p # cand => Under(Plus(E, k), PendOf(q), p) = Under(E, PendOf(q), p)
      <4>1. PendOf(q)[k] = cand
        BY <2>1
      <4>. QED
        BY <4>1, UnderPlus
    <3>. QED
      BY <2>1, <2>4, <3>1, <3>2 DEF Plus
  <2>7. z = [q EXCEPT !.pending = r]
    OBVIOUS
  <2> HIDE DEF r, z
  <2>8. /\ z \in Models /\ z.rows = q.rows /\ SameRest(q, z) /\ z.orphans = q.orphans
        /\ z.roots = q.roots /\ z.pending = r
    BY <2>1, <2>5, <2>7, PutPending DEF SameRest
  <2>9. UpOf(z) = UpOf(q) /\ PendOf(z) = PendOf(q)
    BY <2>8 DEF UpOf, PendOf
  <2>a. /\ \A s \in PageSessions : z.roots[s] = Page!SetToBag(AtTop(E, UpOf(z), s))
        /\ z.rows[k].up = None
    BY <2>1, <2>8, <2>9 DEF Hung, Hangs
  <2>10. /\ n \in Models /\ SameRest(z, n) /\ n.orphans = z.orphans /\ n.rows = z.rows /\ n.pending = z.pending
         /\ \A s \in PageSessions : n.roots[s] = Page!SetToBag(AtTop(Plus(E, k), UpOf(z), s))
    BY <1>a, <2>3, <2>8, <2>a, Rooting
  <2>11. UpOf(n) = UpOf(q) /\ PendOf(n) = PendOf(q)
    BY <2>8, <2>10 DEF UpOf, PendOf
  <2>12. \A p \in Page!Keys : Under(E, UpOf(q), p) = Under(Plus(E, k), UpOf(q), p)
    <3>1. UpOf(q)[k] = None /\ \A p \in Page!Keys : p # None
      BY <1>0, <2>1
    <3>. QED
      BY <3>1, UnderPlus
  <2>13. Hung(n, Plus(E, k))
    BY <2>1, <2>6, <2>8, <2>9, <2>10, <2>11, <2>12 DEF Hung, Hangs
  <2>. QED
    BY <1>6, <1>a, <2>1, <2>8, <2>10, <2>13 DEF SameRest, n
<1>7. CASE cand \in Page!RealRows(m) /\ k \notin Page!Ancestors(m, cand)
  <2> DEFINE q == WithPlace(d, k, cand, None)
             H == Under(E, UpOf(q), cand)
             B == Page!(+)(q.rows[cand].kids, Page!Just(k))
             z == [q EXCEPT !.rows[cand].kids = B]
  <2>2. cand \in Page!Keys
    BY <1>7 DEF Page!RealRows
  <2>1. /\ q \in Models /\ Hung(q, E) /\ SameRest(m, q) /\ q.orphans = m.orphans
        /\ \A x \in Page!Keys \ {k} : SameEntry(m.rows[x], q.rows[x])
        /\ q.rows[k].kind = "agent" /\ q.rows[k].said = m.rows[k].said /\ q.rows[k].hash = m.rows[k].hash
        /\ q.rows[k].up = cand /\ q.rows[k].pend = None
        /\ UpOf(q)[k] = cand /\ PendOf(q)[k] = None
    BY <1>0, <1>5, <2>2
  <2>3. n = Page!DropRoot(z, k)
    BY <1>0, <1>3, <1>4, <1>7, <2>2 DEF Page!WouldCycle
  <2> HIDE DEF q
  <2>4. q.rows[cand].kids = Page!SetToBag(H) /\ H \in SUBSET Page!Keys /\ k \notin H
    BY <1>a, <2>1, <2>2, PlacesType DEF Hung, Hangs
  <2> HIDE DEF H
  <2>6. B = Page!SetToBag(Plus(H, k)) /\ B \in Lists
    BY <2>4, PlusBag
  <2> HIDE DEF B
  <2>7. /\ z \in Models /\ Alike(q, z) /\ z.roots = q.roots /\ z.pending = q.pending
        /\ \A x \in Page!Keys : z.rows[x].kids = IF x = cand THEN B ELSE q.rows[x].kids
    BY <2>1, <2>2, <2>6, PutKids
  <2> HIDE DEF z
  <2>8. /\ UpOf(z) = UpOf(q) /\ PendOf(z) = PendOf(q)
        /\ z.rows[k].up = cand /\ z.rows[k].pend = None
    BY <2>1, <2>7 DEF UpOf, PendOf, Alike, SameEntry
  <2>9. /\ Under(Plus(E, k), UpOf(q), cand) = Plus(H, k)
        /\ \A p : p # cand => Under(Plus(E, k), UpOf(q), p) = Under(E, UpOf(q), p)
        /\ \A p : p # None => Under(Plus(E, k), PendOf(q), p) = Under(E, PendOf(q), p)
        /\ \A s : AtTop(Plus(E, k), UpOf(q), s) = AtTop(E, UpOf(q), s)
    <3>1. /\ UpOf(q)[k] = cand /\ PendOf(q)[k] = None /\ cand # None
          /\ H = Under(E, UpOf(q), cand)
      BY <1>0, <2>1, <2>2 DEF H
    <3>2. Under(Plus(E, k), UpOf(q), cand) = Plus(H, k)
      BY <3>1, UnderPlus
    <3>3. ASSUME NEW p, p # cand PROVE Under(Plus(E, k), UpOf(q), p) = Under(E, UpOf(q), p)
      BY <3>1, <3>3, UnderPlus
    <3>4. ASSUME NEW p, p # None PROVE Under(Plus(E, k), PendOf(q), p) = Under(E, PendOf(q), p)
      BY <3>1, <3>4, UnderPlus
    <3>5. ASSUME NEW s PROVE AtTop(Plus(E, k), UpOf(q), s) = AtTop(E, UpOf(q), s)
      BY <3>1, AtTopPlus
    <3>. QED
      BY <3>2, <3>3, <3>4, <3>5
  <2>10. \A p \in Page!Keys : z.rows[p].kids = Page!SetToBag(Under(Plus(E, k), UpOf(q), p))
    BY <2>1, <2>6, <2>7, <2>9 DEF Hung, Hangs, H
  <2>11. \A p \in Page!Keys : z.pending[p] = Under(Plus(E, k), PendOf(q), p)
    BY <1>0, <2>1, <2>7, <2>9 DEF Hung, Hangs
  <2>12. \A s \in PageSessions : z.roots[s] = Page!SetToBag(AtTop(Plus(E, k), UpOf(q), s))
    BY <2>1, <2>7, <2>9 DEF Hung, Hangs
  <2>13. Hung(z, Plus(E, k))
    BY <2>8, <2>10, <2>11, <2>12 DEF Hung, Hangs
  <2>14. n.rows = z.rows /\ n.pending = z.pending /\ SameRest(z, n) /\ n.orphans = z.orphans /\ n \in Models
         /\ n.roots = z.roots
    <3> DEFINE R == AtTop(E, UpOf(q), k[1])
    <3>1. k[1] \in PageSessions
      BY DEF Page!Keys
    <3>2. z.roots[k[1]] = Page!SetToBag(R)
      BY <2>9, <2>12, <3>1
    <3>3. R \ {k} = R
      BY <1>a, PlacesType
    <3> HIDE DEF R
    <3>4. Page!(-)(z.roots[k[1]], Page!Just(k)) = z.roots[k[1]]
      <4>1. Page!(-)(Page!SetToBag(R), Page!SetToBag({k})) = Page!SetToBag(R \ {k})
        BY BagOfSet
      <4>. QED
        BY <3>2, <3>3, <4>1 DEF Page!Just
    <3>5. z.roots \in [PageSessions -> Lists]
      BY <2>7 DEF Models
    <3>6. n = [z EXCEPT !.roots = z.roots]
      BY <2>3, <3>1, <3>4, <3>5 DEF Page!DropRoot
    <3>. QED
      BY <2>7, <3>5, <3>6, PutRoots DEF SameRest
  <2>15. UpOf(n) = UpOf(z) /\ PendOf(n) = PendOf(z)
    BY <2>14 DEF UpOf, PendOf
  <2>16. Hung(n, Plus(D, k))
    BY <1>a, <2>13, <2>14, <2>15 DEF Hung, Hangs
  <2>. QED
    BY <1>0, <1>7, <2>1, <2>7, <2>8, <2>14, <2>16 DEF Alike, SameEntry, SameRest, n
<1>8. CASE cand = None \/ (cand \in Page!RealRows(m) /\ k \in Page!Ancestors(m, cand))
  <2> DEFINE q == WithPlace(d, k, None, None)
  <2>1. /\ q \in Models /\ Hung(q, E) /\ SameRest(m, q) /\ q.orphans = m.orphans
        /\ \A x \in Page!Keys \ {k} : SameEntry(m.rows[x], q.rows[x])
        /\ q.rows[k].kind = "agent" /\ q.rows[k].said = m.rows[k].said /\ q.rows[k].hash = m.rows[k].hash
        /\ q.rows[k].up = None /\ q.rows[k].pend = None
        /\ UpOf(q)[k] = None /\ PendOf(q)[k] = None
    BY <1>0, <1>5
  <2>2. n = Page!PushRoot(q, k)
    BY <1>3, <1>4, <1>8 DEF Page!WouldCycle
  <2> HIDE DEF q
  <2>a. \A s \in PageSessions : q.roots[s] = Page!SetToBag(AtTop(E, UpOf(q), s))
    BY <2>1 DEF Hung, Hangs
  <2>3. /\ n \in Models /\ SameRest(q, n) /\ n.orphans = q.orphans /\ n.rows = q.rows /\ n.pending = q.pending
        /\ \A s \in PageSessions : n.roots[s] = Page!SetToBag(AtTop(Plus(E, k), UpOf(q), s))
    BY <1>a, <2>1, <2>2, <2>a, Rooting
  <2>4. UpOf(n) = UpOf(q) /\ PendOf(n) = PendOf(q)
    BY <2>3 DEF UpOf, PendOf
  <2>5. \A p \in Page!Keys : /\ Under(E, UpOf(q), p) = Under(Plus(E, k), UpOf(q), p)
                             /\ Under(E, PendOf(q), p) = Under(Plus(E, k), PendOf(q), p)
    <3>1. UpOf(q)[k] = None /\ PendOf(q)[k] = None /\ \A p \in Page!Keys : p # None
      BY <1>0, <2>1
    <3>2. ASSUME NEW p \in Page!Keys PROVE Under(E, UpOf(q), p) = Under(Plus(E, k), UpOf(q), p)
      BY <3>1, UnderPlus
    <3>3. ASSUME NEW p \in Page!Keys PROVE Under(E, PendOf(q), p) = Under(Plus(E, k), PendOf(q), p)
      BY <3>1, UnderPlus
    <3>. QED
      BY <3>2, <3>3
  <2>6. Hung(n, Plus(E, k))
    BY <2>1, <2>3, <2>4, <2>5 DEF Hung, Hangs
  <2>7. None \notin Page!RealRows(m)
    BY <1>0 DEF Page!RealRows
  <2>8. cand \in Page!RealRows(m) => Page!Circle(Said(m))
    BY <1>0, <1>8, <2>7, RefusedIsCircle
  <2>. QED
    BY <1>8, <1>a, <2>1, <2>3, <2>6, <2>7, <2>8 DEF SameRest, n
<1>. QED
  BY <1>6, <1>7, <1>8

Shelved(m) == \A o \in Page!Keys : m.orphans[o] = IF m.rows[o].kind = "leaf" THEN m.rows[o].up ELSE None

(* Two lists without a common row are joined, and rows leave a list.       *)
LEMMA JoinBag ==
  ASSUME NEW H \in SUBSET Page!Keys, NEW N \in SUBSET Page!Keys, H \cap N = {}, NEW J, J = H \cup N
  PROVE  Page!(+)(Page!SetToBag(H), Page!SetToBag(N)) = Page!SetToBag(J) /\ Page!SetToBag(J) \in Lists
<1>1. Page!(+)(Page!SetToBag(H), Page!SetToBag(N)) = Page!SetToBag(H \cup N)
  BY BagOfSet
<1>2. H \cup N \in SUBSET Page!Keys
  OBVIOUS
<1>. QED
  BY <1>1, <1>2 DEF Lists

(* Rows leave a list.                                                      *)
LEMMA CutBag ==
  ASSUME NEW H \in SUBSET Page!Keys, NEW N, NEW J, J = H \ N
  PROVE  Page!(-)(Page!SetToBag(H), Page!SetToBag(N)) = Page!SetToBag(J) /\ Page!SetToBag(J) \in Lists
<1>1. Page!(-)(Page!SetToBag(H), Page!SetToBag(N)) = Page!SetToBag(H \ N)
  BY BagOfSet
<1>2. H \ N \in SUBSET Page!Keys
  OBVIOUS
<1>. QED
  BY <1>1, <1>2 DEF Lists

(* A row that is not there has an empty list.                              *)
LEMMA NoRowType == Page!NoRow \in Entry /\ Page!NoRow.kids = Page!SetToBag({})
<1>1. Page!EmptyBag = Page!SetToBag({}) /\ Page!EmptyBag \in Lists
  BY BagOfSet DEF Lists
<1>2. None \in Hashes /\ None \in Parents
  BY DEF Hashes, Parents
<1>3. None \in Statuses
  BY DEF Statuses
<1>. QED
  BY <1>1, <1>2, <1>3 DEF Page!NoRow, Entry

(* fillOrphans: the listed subagents without a row become leaves of k.     *)
LEMMA Filled ==
  ASSUME NEW m \in Models, NEW k \in Page!Keys, Hung(m, Page!Dom(m)), Shelved(m),
         m.rows[k].kind = "agent", \A x \in Page!Keys : RowIsSound(m, x)
  PROVE  LET n == Page!FillOrphans(m, k) IN
         /\ n \in Models /\ Hung(n, Page!Dom(n)) /\ Shelved(n) /\ SameRest(m, n)
         /\ \A x \in Page!Keys : m.rows[x].kind # "none" => SameEntry(m.rows[x], n.rows[x])
         /\ \A x \in Page!Keys : m.rows[x].kind = "none" =>
              \/ SameEntry(m.rows[x], n.rows[x])
              \/ /\ n.rows[x].kind = "leaf" /\ n.rows[x].said = None
                 /\ n.rows[x].up = k /\ n.rows[x].pend = None /\ x[1] = k[1]
<1> DEFINE subs == m.rows[k].said.subs
           new == {<<k[1], i>> : i \in DOMAIN subs}
                    \ {o \in Page!Keys : o \in Page!RealRows(m) \/ m.orphans[o] # None}
           leaf(o) == [Page!NoRow EXCEPT !.kind = "leaf", !.status = subs[o[2]], !.up = k]
           n == Page!FillOrphans(m, k)
           B == Page!(+)(m.rows[k].kids, Page!SetToBag(new))
           r == [o \in Page!Keys |-> IF o \in new THEN leaf(o)
                                     ELSE IF o = k THEN [m.rows[k] EXCEPT !.kids = B]
                                     ELSE m.rows[o]]
           h == [o \in Page!Keys |-> IF o \in new THEN k ELSE m.orphans[o]]
           H == Under(Page!Dom(m), UpOf(m), k)
           J == H \cup new
<1>0. /\ None \notin Page!Keys /\ m.rows \in [Page!Keys -> Entry] /\ m.orphans \in [Page!Keys -> Parents]
      /\ m.rows[k] \in Entry /\ k[1] \in PageSessions /\ m.rows[k].said \in Frames
  BY PageAssumption DEF Models, RowIsSound, Page!Keys
<1>1. DOMAIN subs \subseteq Ids /\ \A i \in DOMAIN subs : subs[i] \in Statuses
  <2> DEFINE f == m.rows[k].said
  <2>1. f \in Frames
    BY <1>0
  <2> HIDE DEF f
  <2>2. DOMAIN f.subs \subseteq Ids
    BY <2>1, PageAssumption
  <2>3. Listed(f) \in {Listed(g) : g \in Frames} /\ \A i \in DOMAIN f.subs : f.subs[i] \in Listed(f)
    BY <2>1 DEF Listed
  <2>4. Listed(f) \subseteq Statuses
    BY <2>3 DEF Statuses
  <2>. QED
    BY <2>2, <2>3, <2>4 DEF f
<1>2. /\ new \in SUBSET Page!Keys /\ k \notin new
      /\ \A o \in new : m.rows[o].kind = "none" /\ o[1] = k[1] /\ o[2] \in DOMAIN subs
  <2>1. new \in SUBSET Page!Keys
    BY <1>0, <1>1 DEF Page!Keys
  <2>2. k \in Page!RealRows(m)
    BY DEF Page!RealRows
  <2>3. ASSUME NEW o \in new PROVE m.rows[o].kind = "none" /\ o[1] = k[1] /\ o[2] \in DOMAIN subs
    <3>1. o \in Page!Keys /\ o \notin Page!RealRows(m) /\ m.orphans[o] = None
      BY <2>1
    <3>2. m.rows[o].kind \in {"none", "leaf", "agent"}
      BY <1>0, <3>1 DEF Entry
    <3>3. m.rows[o].kind # "agent"
      BY <3>1 DEF Page!RealRows
    <3>4. m.rows[o].kind # "leaf"
      BY <1>0, <3>1 DEF Shelved, RowIsSound, Page!RealRows
    <3>5. o[1] = k[1] /\ o[2] \in DOMAIN subs
      OBVIOUS
    <3>. QED
      BY <3>2, <3>3, <3>4, <3>5
  <2>. QED
    BY <2>1, <2>2, <2>3
<1>3. n = [m EXCEPT !.rows = r, !.orphans = h]
  BY DEF Page!FillOrphans
<1> HIDE DEF subs, new
<1>4. \A o \in new : /\ leaf(o) \in Entry /\ leaf(o).kind = "leaf" /\ leaf(o).said = None /\ leaf(o).up = k
                     /\ leaf(o).pend = None /\ leaf(o).kids = Page!SetToBag({})
  <2>1. \A o \in new : subs[o[2]] \in Statuses /\ k \in Parents
    BY <1>1, <1>2 DEF Parents
  <2>2. Page!NoRow \in Entry /\ Page!NoRow.said = None /\ Page!NoRow.pend = None /\ Page!NoRow.kids = Page!SetToBag({})
    BY NoRowType DEF Page!NoRow
  <2> HIDE DEF Lists
  <2>. QED
    BY <2>1, <2>2 DEF Entry
<1> HIDE DEF leaf, B
<1>5. H \in SUBSET Page!Keys /\ H \cap new = {} /\ m.rows[k].kids = Page!SetToBag(H)
  <2>1. m.rows[k].kids = Page!SetToBag(H)
    BY DEF Hung, Hangs
  <2>2. H \subseteq Page!Dom(m)
    BY DEF Under
  <2>. QED
    BY <1>2, <2>1, <2>2 DEF Page!Dom
<1> HIDE DEF H
<1>6. B = Page!SetToBag(J) /\ B \in Lists
  BY <1>2, <1>5, JoinBag DEF B
<1> HIDE DEF Lists
<1>7. /\ r \in [Page!Keys -> Entry]
      /\ \A x \in Page!Keys \ new : SameEntry(m.rows[x], r[x]) /\ r[x].kids = IF x = k THEN B ELSE m.rows[x].kids
      /\ \A x \in new : /\ r[x].kind = "leaf" /\ r[x].said = None /\ r[x].up = k /\ r[x].pend = None
                        /\ r[x].kids = Page!SetToBag({})
  <2>1. [m.rows[k] EXCEPT !.kids = B] \in Entry
    BY <1>0, <1>6 DEF Entry
  <2>2. r \in [Page!Keys -> Entry]
    BY <1>0, <1>4, <2>1 DEF B
  <2>3. ASSUME NEW x \in Page!Keys \ new
        PROVE  SameEntry(m.rows[x], r[x]) /\ r[x].kids = IF x = k THEN B ELSE m.rows[x].kids
    <3>1. CASE x = k
      <4>1. r[x] = [m.rows[k] EXCEPT !.kids = B]
        BY <2>3, <3>1 DEF B
      <4>. QED
        BY <1>0, <3>1, <4>1 DEF SameEntry, Entry
    <3>2. CASE x # k
      <4>1. r[x] = m.rows[x]
        BY <2>3, <3>2
      <4>. QED
        BY <3>2, <4>1 DEF SameEntry
    <3>. QED
      BY <3>1, <3>2
  <2>4. \A x \in new : r[x] = leaf(x)
    BY <1>2
  <2>. QED
    BY <1>4, <2>2, <2>3, <2>4
<1>8. h \in [Page!Keys -> Parents]
  BY <1>0 DEF Parents
<1>9. \A x \in Page!Keys : h[x] = IF x \in new THEN k ELSE m.orphans[x]
  OBVIOUS
<1> HIDE DEF r, h, n
<1>10. /\ n \in Models /\ n.rows = r /\ n.orphans = h /\ SameRest(m, n) /\ n.roots = m.roots /\ n.pending = m.pending
  BY <1>3, <1>7, <1>8 DEF Models, SameRest
<1>11. Page!Dom(n) = Page!Dom(m) \cup new
  BY <1>2, <1>7, <1>10 DEF Page!Dom, SameEntry
<1>12. /\ \A x \in new : UpOf(n)[x] = k /\ PendOf(n)[x] = None
       /\ \A x \in Page!Keys \ new : UpOf(n)[x] = UpOf(m)[x] /\ PendOf(n)[x] = PendOf(m)[x]
  BY <1>2, <1>7, <1>10 DEF UpOf, PendOf, SameEntry
<1>13. \A x \in Page!Dom(m) : x \in Page!Keys \ new /\ UpOf(m)[x] \notin new
  BY <1>0, <1>2 DEF Page!Dom, RowIsSound, UpOf, Page!RealRows, Entry
<1>14. Hung(n, Page!Dom(n))
  <2>1. ASSUME NEW p \in Page!Keys PROVE n.rows[p].kids = Page!SetToBag(Under(Page!Dom(n), UpOf(n), p))
    <3>1. CASE p = k
      <4>1. Under(Page!Dom(n), UpOf(n), p) = J
        BY <1>11, <1>12, <1>13, <3>1 DEF Under, H
      <4>. QED
        BY <1>2, <1>6, <1>7, <1>10, <3>1, <4>1
    <3>2. CASE p # k /\ p \notin new
      <4>1. Under(Page!Dom(n), UpOf(n), p) = Under(Page!Dom(m), UpOf(m), p)
        BY <1>11, <1>12, <1>13, <3>2 DEF Under
      <4>. QED
        BY <1>7, <1>10, <3>2, <4>1 DEF Hung, Hangs
    <3>3. CASE p \in new
      <4>1. Under(Page!Dom(n), UpOf(n), p) = {}
        BY <1>2, <1>11, <1>12, <1>13, <3>3 DEF Under
      <4>. QED
        BY <1>7, <1>10, <3>3, <4>1
    <3>. QED
      BY <3>1, <3>2, <3>3
  <2>2. ASSUME NEW s \in PageSessions PROVE n.roots[s] = Page!SetToBag(AtTop(Page!Dom(n), UpOf(n), s))
    <3>1. AtTop(Page!Dom(n), UpOf(n), s) = AtTop(Page!Dom(m), UpOf(m), s)
      BY <1>0, <1>11, <1>12, <1>13 DEF AtTop
    <3>. QED
      BY <1>10, <3>1 DEF Hung, Hangs
  <2>3. ASSUME NEW p \in Page!Keys PROVE n.pending[p] = Under(Page!Dom(n), PendOf(n), p)
    <3>1. Under(Page!Dom(n), PendOf(n), p) = Under(Page!Dom(m), PendOf(m), p)
      BY <1>0, <1>11, <1>12, <1>13 DEF Under
    <3>. QED
      BY <1>10, <3>1 DEF Hung, Hangs
  <2>. QED
    BY <2>1, <2>2, <2>3 DEF Hung, Hangs
<1>15. Shelved(n)
  BY <1>2, <1>7, <1>9, <1>10 DEF Shelved, SameEntry
<1>16. ASSUME NEW x \in Page!Keys, m.rows[x].kind # "none" PROVE SameEntry(m.rows[x], n.rows[x])
  BY <1>2, <1>7, <1>10, <1>16
<1>17. ASSUME NEW x \in Page!Keys, m.rows[x].kind = "none"
       PROVE  \/ SameEntry(m.rows[x], n.rows[x])
              \/ /\ n.rows[x].kind = "leaf" /\ n.rows[x].said = None
                 /\ n.rows[x].up = k /\ n.rows[x].pend = None /\ x[1] = k[1]
  BY <1>2, <1>7, <1>10
<1>. QED
  BY <1>10, <1>14, <1>15, <1>16, <1>17 DEF n

(* What an entry of the model is made of.                                  *)
LEMMA RowTypes ==
  ASSUME NEW m \in Models, NEW x \in Page!Keys
  PROVE  /\ m.rows[x] \in Entry /\ m.rows[x].kind \in {"none", "leaf", "agent"}
         /\ m.rows[x].up \in Parents /\ m.rows[x].pend \in Parents /\ m.rows[x].said \in Frames \cup {None}
         /\ UpOf(m)[x] = m.rows[x].up /\ PendOf(m)[x] = m.rows[x].pend /\ x[1] \in PageSessions
         /\ None \notin Page!Keys
BY PageAssumption DEF Models, Entry, UpOf, PendOf, Page!Keys

(* drainPending: the agents that wait for k come under it, or are roots if *)
(* k is below them.                                                        *)
LEMMA Drained ==
  ASSUME NEW m \in Models, NEW k \in Page!Keys, Hung(m, Page!Dom(m)), m.rows[k].kind = "agent",
         \A x \in Page!Keys : RowIsSound(m, x)
  PROVE  LET n == Page!DrainPending(m, k) IN
         /\ n \in Models /\ Hung(n, Page!Dom(n)) /\ SameRest(m, n) /\ n.orphans = m.orphans
         /\ \A x \in Page!Keys : m.rows[x].pend # k => SameEntry(m.rows[x], n.rows[x])
         /\ \A x \in Page!Keys : m.rows[x].pend = k =>
              /\ m.rows[x].kind = "agent" /\ n.rows[x].kind = "agent" /\ n.rows[x].said = m.rows[x].said
              /\ n.rows[x].hash = m.rows[x].hash /\ n.rows[x].pend = None
              /\ Page!Candidate(m.rows[x].said) = k /\ x[1] = k[1] /\ x # k
              /\ \/ n.rows[x].up = k /\ x \notin Page!Ancestors(m, k)
                 \/ n.rows[x].up = None /\ x \in Page!Ancestors(m, k)
<1> DEFINE kids == {kid \in m.pending[k] : m.rows[kid].kind = "agent" /\ m.rows[kid].pend = k}
           adopted == {kid \in kids : ~Page!WouldCycle(m, k, kid)}
           B == Page!(+)(m.rows[k].kids, Page!SetToBag(adopted))
           child(kid) == [m.rows[kid] EXCEPT !.pend = None, !.up = IF kid \in adopted THEN k ELSE m.rows[kid].up]
           parent == [m.rows[k] EXCEPT !.kids = B]
           n == Page!DrainPending(m, k)
           r == [kid \in Page!Keys |-> IF kid \in kids THEN child(kid) ELSE IF kid = k THEN parent ELSE m.rows[kid]]
           w == [m.pending EXCEPT ![k] = {}]
           R == Page!(-)(m.roots[k[1]], Page!SetToBag(adopted))
           t == [m.roots EXCEPT ![k[1]] = R]
           H == Under(Page!Dom(m), UpOf(m), k)
           T == AtTop(Page!Dom(m), UpOf(m), k[1])
<1>1. n = [m EXCEPT !.pending = w, !.rows = r, !.roots = t]
  BY DEF Page!DrainPending
<1>2. \A x \in Page!Keys : m.rows[x].pend = k =>
         /\ m.rows[x].kind = "agent" /\ m.rows[x].up = None
         /\ Page!Candidate(m.rows[x].said) = k /\ x[1] = k[1] /\ x # k
  <2> SUFFICES ASSUME NEW x \in Page!Keys, m.rows[x].pend = k
               PROVE  /\ m.rows[x].kind = "agent" /\ m.rows[x].up = None
                      /\ Page!Candidate(m.rows[x].said) = k /\ x[1] = k[1] /\ x # k
    OBVIOUS
  <2>1. m.rows[x].pend # None /\ m.rows[x].kind \in {"none", "leaf", "agent"}
    BY RowTypes
  <2>2. /\ m.rows[x].kind = "agent" /\ m.rows[x].up = None /\ m.rows[x].said \in Frames
        /\ Page!Candidate(m.rows[x].said) = k /\ Page!KeyOf(m.rows[x].said) = x
    BY <2>1 DEF RowIsSound
  <2>. QED
    BY <2>1, <2>2, CandidateFacts
<1>3. kids = {x \in Page!Keys : m.rows[x].pend = k}
  <2>1. m.pending[k] = Under(Page!Dom(m), PendOf(m), k)
    BY DEF Hung, Hangs
  <2>2. ASSUME NEW x PROVE x \in m.pending[k] <=> x \in Page!Dom(m) /\ m.rows[x].pend = k
    BY <2>1, RowTypes DEF Under, Page!Dom
  <2>3. ASSUME NEW x PROVE x \in kids <=> x \in Page!Keys /\ m.rows[x].pend = k
    BY <1>2, <2>2 DEF Page!Dom
  <2>. QED
    BY <2>3
<1>4. \A x \in kids : x \in adopted <=> x \notin Page!Ancestors(m, k)
  BY <1>2, <1>3 DEF Page!WouldCycle
<1>5. adopted \subseteq kids /\ kids \subseteq Page!Dom(m) /\ k \notin kids /\ Page!Dom(m) \subseteq Page!Keys
  BY <1>2, <1>3 DEF Page!Dom
<1> HIDE DEF kids, adopted
<1>6. \A x \in kids : UpOf(m)[x] = None /\ PendOf(m)[x] = k /\ x[1] = k[1] /\ x \in Page!Keys
  BY <1>2, <1>3, RowTypes
<1>7. k[1] \in PageSessions /\ None \notin Page!Keys /\ m.rows \in [Page!Keys -> Entry] /\ m.rows[k] \in Entry
      /\ m.roots \in [PageSessions -> Lists] /\ m.pending \in [Page!Keys -> SUBSET Page!Keys]
  BY RowTypes DEF Models
<1>8. H \in SUBSET Page!Keys /\ H \cap adopted = {} /\ m.rows[k].kids = Page!SetToBag(H)
      /\ T \in SUBSET Page!Keys /\ m.roots[k[1]] = Page!SetToBag(T)
  <2>1. m.rows[k].kids = Page!SetToBag(H) /\ m.roots[k[1]] = Page!SetToBag(T)
    BY <1>7 DEF Hung, Hangs
  <2>2. H \subseteq Page!Dom(m) /\ T \subseteq Page!Dom(m) /\ \A x \in H : UpOf(m)[x] = k
    BY DEF Under, AtTop
  <2> HIDE DEF H, T
  <2>. QED
    BY <1>5, <1>6, <1>7, <2>1, <2>2
<1> HIDE DEF H, T
<1>9. B = Page!SetToBag(H \cup adopted) /\ B \in Lists /\ R = Page!SetToBag(T \ adopted) /\ R \in Lists
  <2>1. adopted \in SUBSET Page!Keys
    BY <1>5
  <2>. QED
    BY <1>8, <2>1, JoinBag, CutBag
<1> HIDE DEF B, R, Lists
<1>10. /\ r \in [Page!Keys -> Entry]
       /\ \A x \in Page!Keys : /\ r[x].kind = m.rows[x].kind /\ r[x].said = m.rows[x].said
                               /\ r[x].hash = m.rows[x].hash /\ r[x].status = m.rows[x].status
                               /\ r[x].up = (IF x \in adopted THEN k ELSE m.rows[x].up)
                               /\ r[x].pend = (IF x \in kids THEN None ELSE m.rows[x].pend)
                               /\ r[x].kids = (IF x = k THEN B ELSE m.rows[x].kids)
  <2>1. parent \in Entry
    BY <1>7, <1>9 DEF Entry
  <2>2. ASSUME NEW x \in Page!Keys PROVE child(x) \in Entry
    <3> DEFINE u == IF x \in adopted THEN k ELSE m.rows[x].up
    <3>1. u \in Parents /\ None \in Parents /\ m.rows[x] \in Entry
      BY RowTypes DEF Parents
    <3>2. child(x) = [m.rows[x] EXCEPT !.pend = None, !.up = u]
      OBVIOUS
    <3> HIDE DEF u, child
    <3>. QED
      BY <3>1, <3>2 DEF Entry
  <2>3. r \in [Page!Keys -> Entry]
    BY <1>7, <2>1, <2>2
  <2>4. ASSUME NEW x \in Page!Keys
        PROVE  /\ r[x].kind = m.rows[x].kind /\ r[x].said = m.rows[x].said
               /\ r[x].hash = m.rows[x].hash /\ r[x].status = m.rows[x].status
               /\ r[x].up = (IF x \in adopted THEN k ELSE m.rows[x].up)
               /\ r[x].pend = (IF x \in kids THEN None ELSE m.rows[x].pend)
               /\ r[x].kids = (IF x = k THEN B ELSE m.rows[x].kids)
    <3>1. m.rows[x] \in Entry
      BY RowTypes
    <3>2. CASE x \in kids
      <4>1. r[x] = child(x) /\ x # k
        BY <1>5, <3>2
      <4>. QED
        BY <3>1, <3>2, <4>1 DEF Entry
    <3>3. CASE x \notin kids /\ x = k
      <4>1. r[x] = parent /\ x \notin adopted
        BY <1>5, <3>3
      <4>. QED
        BY <3>1, <3>3, <4>1 DEF Entry
    <3>4. CASE x \notin kids /\ x # k
      <4>1. r[x] = m.rows[x] /\ x \notin adopted
        BY <1>5, <3>4
      <4>. QED
        BY <3>4, <4>1
    <3>. QED
      BY <3>2, <3>3, <3>4
  <2>. QED
    BY <2>3, <2>4
<1>11. /\ w \in [Page!Keys -> SUBSET Page!Keys]
       /\ \A p \in Page!Keys : w[p] = IF p = k THEN {} ELSE m.pending[p]
  BY <1>7
<1>12. /\ t \in [PageSessions -> Lists]
       /\ \A s \in PageSessions : t[s] = IF s = k[1] THEN R ELSE m.roots[s]
  BY <1>7, <1>9
<1> HIDE DEF r, w, t, n
<1>13. /\ n \in Models /\ n.rows = r /\ n.orphans = m.orphans /\ SameRest(m, n) /\ n.roots = t /\ n.pending = w
  BY <1>1, <1>10, <1>11, <1>12 DEF Models, SameRest
<1>14. Page!Dom(n) = Page!Dom(m)
  BY <1>10, <1>13 DEF Page!Dom
<1>15. \A x \in Page!Keys : /\ UpOf(n)[x] = IF x \in adopted THEN k ELSE UpOf(m)[x]
                            /\ PendOf(n)[x] = IF x \in kids THEN None ELSE PendOf(m)[x]
  BY <1>10, <1>13 DEF UpOf, PendOf
<1>16. Hung(n, Page!Dom(n))
  <2>1. ASSUME NEW p \in Page!Keys PROVE n.rows[p].kids = Page!SetToBag(Under(Page!Dom(m), UpOf(n), p))
    <3>1. CASE p = k
      <4>1. Under(Page!Dom(m), UpOf(n), p) = H \cup adopted
        BY <1>5, <1>15, <3>1 DEF Under, H
      <4>. QED
        BY <1>9, <1>10, <1>13, <3>1, <4>1
    <3>2. CASE p # k
      <4>1. Under(Page!Dom(m), UpOf(n), p) = Under(Page!Dom(m), UpOf(m), p)
        BY <1>5, <1>6, <1>7, <1>15, <3>2 DEF Under
      <4>. QED
        BY <1>10, <1>13, <3>2, <4>1 DEF Hung, Hangs
    <3>. QED
      BY <3>1, <3>2
  <2>2. ASSUME NEW s \in PageSessions PROVE n.roots[s] = Page!SetToBag(AtTop(Page!Dom(m), UpOf(n), s))
    <3>1. CASE s = k[1]
      <4>1. AtTop(Page!Dom(m), UpOf(n), s) = T \ adopted
        BY <1>5, <1>7, <1>15, <3>1 DEF AtTop, T
      <4>. QED
        BY <1>9, <1>12, <1>13, <3>1, <4>1
    <3>2. CASE s # k[1]
      <4>1. AtTop(Page!Dom(m), UpOf(n), s) = AtTop(Page!Dom(m), UpOf(m), s)
        BY <1>5, <1>6, <1>7, <1>15, <3>2 DEF AtTop
      <4>. QED
        BY <1>12, <1>13, <3>2, <4>1 DEF Hung, Hangs
    <3>. QED
      BY <3>1, <3>2
  <2>3. ASSUME NEW p \in Page!Keys PROVE n.pending[p] = Under(Page!Dom(m), PendOf(n), p)
    <3>1. CASE p = k
      <4>1. Under(Page!Dom(m), PendOf(n), p) = {}
        BY <1>3, <1>5, <1>7, <1>15, <3>1, RowTypes DEF Under
      <4>. QED
        BY <1>11, <1>13, <3>1, <4>1
    <3>2. CASE p # k
      <4>1. Under(Page!Dom(m), PendOf(n), p) = Under(Page!Dom(m), PendOf(m), p)
        BY <1>5, <1>6, <1>7, <1>15, <3>2 DEF Under
      <4>. QED
        BY <1>11, <1>13, <3>2, <4>1 DEF Hung, Hangs
    <3>. QED
      BY <3>1, <3>2
  <2>. QED
    BY <1>14, <2>1, <2>2, <2>3 DEF Hung, Hangs
<1>17. ASSUME NEW x \in Page!Keys, m.rows[x].pend # k PROVE SameEntry(m.rows[x], n.rows[x])
  <2>1. x \notin kids /\ x \notin adopted
    BY <1>3, <1>5, <1>17
  <2>. QED
    BY <1>10, <1>13, <2>1 DEF SameEntry
<1>18. ASSUME NEW x \in Page!Keys, m.rows[x].pend = k
       PROVE  /\ m.rows[x].kind = "agent" /\ n.rows[x].kind = "agent" /\ n.rows[x].said = m.rows[x].said
              /\ n.rows[x].hash = m.rows[x].hash /\ n.rows[x].pend = None
              /\ Page!Candidate(m.rows[x].said) = k /\ x[1] = k[1] /\ x # k
              /\ \/ n.rows[x].up = k /\ x \notin Page!Ancestors(m, k)
                 \/ n.rows[x].up = None /\ x \in Page!Ancestors(m, k)
  <2>1. x \in kids
    BY <1>3, <1>18
  <2>. QED
    BY <1>2, <1>4, <1>10, <1>13, <1>18, <2>1
<1>. QED
  BY <1>13, <1>16, <1>17, <1>18 DEF n

Ordered(m) ==
  /\ \A j, k \in Page!RealRows(m) : j # k => (<<j, k>> \in m.older <=> <<k, j>> \notin m.older)
  /\ \A j, k \in Page!Keys : <<j, k>> \in m.older => j \in Page!RealRows(m) /\ k \in Page!RealRows(m)
Known(m) == \A x \in Page!Dom(m) : m.sess[x[1]].known

(* The tree: every row in the one place it says, no circle, and the leaves,*)
(* the order and the sessions of the rows.                                 *)
Sound(m) ==
  /\ m \in Models /\ Hung(m, Page!Dom(m)) /\ Rooted(UpOf(m)) /\ Shelved(m) /\ Ordered(m) /\ Known(m)
  /\ \A x \in Page!Keys : RowIsSound(m, x)

(* A step that concerns session s leaves what the directories of the other *)
(* sessions are read from.                                                 *)
Apart(m, n, s) ==
  /\ \A t \in PageSessions \ {s} : n.sess[t] = m.sess[t] /\ n.cache[t] = m.cache[t]
  /\ \A x \in Page!Keys : x[1] # s => n.rows[x].kind = m.rows[x].kind /\ n.rows[x].hash = m.rows[x].hash
  /\ \A x, y \in Page!Keys : x[1] # s /\ y[1] # s => (<<x, y>> \in n.older <=> <<x, y>> \in m.older)

(* Two steps that concern one session concern that session.                *)
LEMMA ApartTrans ==
  ASSUME NEW m, NEW n, NEW q, NEW s, Apart(m, n, s), Apart(n, q, s)
  PROVE  Apart(m, q, s)
BY DEF Apart

(* Two models with the same tree.                                          *)
LEMMA SoundSame ==
  ASSUME NEW m, NEW n \in Models, Sound(m), n.rows = m.rows, n.older = m.older, n.roots = m.roots,
         n.pending = m.pending, n.orphans = m.orphans,
         \A x \in Page!Dom(m) : n.sess[x[1]].known
  PROVE  Sound(n)
<1>1. Page!Dom(n) = Page!Dom(m) /\ Page!RealRows(n) = Page!RealRows(m) /\ UpOf(n) = UpOf(m) /\ PendOf(n) = PendOf(m)
  BY DEF Page!Dom, Page!RealRows, UpOf, PendOf
<1>2. Hung(n, Page!Dom(n))
  BY <1>1 DEF Sound, Hung, Hangs
<1>3. \A x \in Page!Keys : RowIsSound(n, x)
  BY <1>1 DEF Sound, RowIsSound
<1>. QED
  BY <1>1, <1>2, <1>3 DEF Sound, Shelved, Ordered, Known

(* ensureSession and the cache that is dropped with it.                    *)
LEMMA Opened ==
  ASSUME NEW m \in Models, NEW s \in PageSessions
  PROVE  LET n == Page!InvalidateDirCache(Page!EnsureSession(m, s), s) IN
         /\ n \in Models /\ n.rows = m.rows /\ n.older = m.older /\ n.roots = m.roots
         /\ n.pending = m.pending /\ n.orphans = m.orphans
         /\ n.sess[s].known /\ n.sess[s].dir = m.sess[s].dir /\ \A t \in PageSessions \ {s} : n.sess[t] = m.sess[t]
         /\ n.cache[s] = "unread" /\ Apart(m, n, s)
<1> DEFINE n == Page!InvalidateDirCache(Page!EnsureSession(m, s), s)
           e == [m.sess[s] EXCEPT !.known = TRUE, !.gone = FALSE]
           r == [m.sess EXCEPT ![s] = e]
           h == [m.cache EXCEPT ![s] = "unread"]
           SessRow == [known : BOOLEAN, gone : BOOLEAN, dir : Dirs]
<1>1. m.sess \in [PageSessions -> SessRow] /\ m.cache \in [PageSessions -> Dirs \cup Hashes \cup {"unread"}]
  BY DEF Models
<1>2. e \in SessRow /\ e.known = TRUE /\ e.dir = m.sess[s].dir
  BY <1>1
<1>3. n = [m EXCEPT !.sess = r, !.cache = h]
  BY DEF Page!InvalidateDirCache, Page!EnsureSession, Models
<1> HIDE DEF e, SessRow
<1>4. /\ r \in [PageSessions -> SessRow] /\ r[s] = e /\ \A t \in PageSessions \ {s} : r[t] = m.sess[t]
      /\ h \in [PageSessions -> Dirs \cup Hashes \cup {"unread"}] /\ h[s] = "unread"
      /\ \A t \in PageSessions \ {s} : h[t] = m.cache[t]
  BY <1>1, <1>2
<1> HIDE DEF r, h, n
<1>5. /\ n \in Models /\ n.rows = m.rows /\ n.older = m.older /\ n.roots = m.roots
      /\ n.pending = m.pending /\ n.orphans = m.orphans /\ n.sess = r /\ n.cache = h
  BY <1>3, <1>4 DEF Models, SessRow
<1>. QED
  BY <1>2, <1>4, <1>5 DEF Apart, n

(* A leaf goes: from its lister's list and from the shelf.                 *)
LEMMA OrphanRemoved ==
  ASSUME NEW m, Sound(m), NEW k \in Page!Keys, m.rows[k].kind = "leaf"
  PROVE  LET n == Page!RemoveOrphan(m, k) IN
         /\ Sound(n) /\ SameRest(m, n) /\ Page!RealRows(n) = Page!RealRows(m)
         /\ \A x \in Page!Keys \ {k} : SameEntry(m.rows[x], n.rows[x])
         /\ n.rows[k].kind = "none" /\ n.rows[k].said = None /\ n.rows[k].up = None /\ n.rows[k].pend = None
<1> DEFINE p == m.rows[k].up
           r == [x \in Page!Keys |-> IF x \in {k} THEN Page!NoRow ELSE m.rows[x]]
           h == [m.orphans EXCEPT ![k] = None]
           d == Page!DropLeaf(m, k)
           n == Page!RemoveOrphan(m, k)
           D == Page!Dom(m) \ {k}
           H == Under(Page!Dom(m), UpOf(m), p)
           B == Page!(-)(d.rows[p].kids, Page!Just(k))
<1>1. m \in Models /\ Hung(m, Page!Dom(m)) /\ Rooted(UpOf(m)) /\ Shelved(m) /\ Ordered(m) /\ Known(m)
      /\ \A x \in Page!Keys : RowIsSound(m, x)
  BY DEF Sound
<1>2. p \in Page!RealRows(m) /\ p \in Page!Keys /\ p # k /\ k \notin Page!RealRows(m) /\ m.rows[k].pend = None
  BY <1>1 DEF RowIsSound, Page!RealRows
<1>3. m.rows \in [Page!Keys -> Entry] /\ m.orphans \in [Page!Keys -> Parents] /\ None \notin Page!Keys
  BY <1>1, PageAssumption DEF Models
<1>4. d = [m EXCEPT !.rows = r, !.orphans = h]
  BY DEF Page!DropLeaf, Page!Cleared
<1>5. /\ r \in [Page!Keys -> Entry] /\ \A x \in Page!Keys \ {k} : r[x] = m.rows[x]
      /\ r[k] = Page!NoRow
  BY <1>3, NoRowType
<1>6. h \in [Page!Keys -> Parents] /\ \A x \in Page!Keys : h[x] = IF x = k THEN None ELSE m.orphans[x]
  BY <1>3 DEF Parents
<1> HIDE DEF r, h, d, n
<1>7. /\ d \in Models /\ d.rows = r /\ d.orphans = h /\ SameRest(m, d)
      /\ d.roots = m.roots /\ d.pending = m.pending
  BY <1>1, <1>4, <1>5, <1>6 DEF Models, SameRest
<1>8. H \in SUBSET Page!Keys /\ d.rows[p].kids = Page!SetToBag(H)
  <2>1. d.rows[p].kids = Page!SetToBag(H)
    BY <1>1, <1>2, <1>5, <1>7 DEF Hung, Hangs
  <2>. QED
    BY <2>1 DEF Under, Page!Dom
<1> HIDE DEF H
<1>9. B = Page!SetToBag(H \ {k}) /\ B \in Lists
  <2>1. Page!(-)(Page!SetToBag(H), Page!SetToBag({k})) = Page!SetToBag(H \ {k}) /\ Page!SetToBag(H \ {k}) \in Lists
    BY <1>8, CutBag
  <2>. QED
    BY <1>8, <2>1 DEF Page!Just
<1>10. n = [d EXCEPT !.rows[p].kids = B]
  BY DEF n, d, Page!RemoveOrphan, Page!DropKid
<1> HIDE DEF B, Lists
<1>11. /\ n \in Models /\ Alike(d, n) /\ n.roots = d.roots /\ n.pending = d.pending
       /\ \A x \in Page!Keys : n.rows[x].kids = IF x = p THEN B ELSE d.rows[x].kids
  BY <1>2, <1>7, <1>9, <1>10, PutKids
<1>12. /\ \A x \in Page!Keys \ {k} : SameEntry(m.rows[x], n.rows[x])
       /\ SameEntry(Page!NoRow, n.rows[k])
       /\ n.rows[k].kids = Page!SetToBag({})
       /\ \A x \in Page!Keys \ {k, p} : n.rows[x].kids = m.rows[x].kids
       /\ n.rows[p].kids = B
  BY <1>2, <1>5, <1>7, <1>11, NoRowType DEF Alike, SameEntry
<1>13. n.rows[k].kind = "none" /\ n.rows[k].said = None /\ n.rows[k].up = None /\ n.rows[k].pend = None
  BY <1>12 DEF SameEntry, Page!NoRow
<1>14. SameRest(m, n) /\ n.orphans = h
  BY <1>7, <1>11 DEF Alike, SameRest
<1>15. Page!Dom(n) = D /\ Page!RealRows(n) = Page!RealRows(m)
  BY <1>2, <1>12, <1>13 DEF Page!Dom, Page!RealRows, SameEntry
<1>16. /\ \A x \in Page!Keys \ {k} : UpOf(n)[x] = UpOf(m)[x] /\ PendOf(n)[x] = PendOf(m)[x]
       /\ UpOf(n)[k] = None /\ PendOf(n)[k] = None /\ UpOf(m)[k] = p /\ PendOf(m)[k] = None
  BY <1>2, <1>12, <1>13 DEF UpOf, PendOf, SameEntry
<1>17. \A x \in Page!Keys : UpOf(m)[x] # k
  BY <1>1, <1>2, <1>3, RowTypes DEF RowIsSound
<1>18. D \subseteq Page!Keys \ {k} /\ Page!Dom(m) \subseteq Page!Keys /\ p \in Page!Keys
  BY <1>2 DEF Page!Dom
<1> HIDE DEF p
<1>19. Hung(n, D)
  <2>1. ASSUME NEW q \in Page!Keys PROVE n.rows[q].kids = Page!SetToBag(Under(D, UpOf(n), q))
    <3>1. CASE q = p
      <4>1. Under(D, UpOf(n), q) = H \ {k}
        BY <1>16, <1>18, <3>1 DEF Under, H
      <4>. QED
        BY <1>9, <1>12, <3>1, <4>1
    <3>2. CASE q = k
      <4>1. Under(D, UpOf(n), q) = {}
        BY <1>16, <1>17, <1>18, <3>2 DEF Under
      <4>. QED
        BY <1>12, <3>2, <4>1
    <3>3. CASE q # k /\ q # p
      <4>1. Under(D, UpOf(n), q) = Under(Page!Dom(m), UpOf(m), q)
        BY <1>16, <1>18, <3>3 DEF Under
      <4>. QED
        BY <1>1, <1>12, <3>3, <4>1 DEF Hung, Hangs
    <3>. QED
      BY <3>1, <3>2, <3>3
  <2>2. ASSUME NEW s \in PageSessions PROVE n.roots[s] = Page!SetToBag(AtTop(D, UpOf(n), s))
    <3>1. AtTop(D, UpOf(n), s) = AtTop(Page!Dom(m), UpOf(m), s)
      BY <1>3, <1>16, <1>18 DEF AtTop
    <3>. QED
      BY <1>1, <1>7, <1>11, <3>1 DEF Hung, Hangs
  <2>3. ASSUME NEW q \in Page!Keys PROVE n.pending[q] = Under(D, PendOf(n), q)
    <3>1. Under(D, PendOf(n), q) = Under(Page!Dom(m), PendOf(m), q)
      BY <1>3, <1>16, <1>18 DEF Under
    <3>. QED
      BY <1>1, <1>7, <1>11, <3>1 DEF Hung, Hangs
  <2>. QED
    BY <2>1, <2>2, <2>3 DEF Hung, Hangs
<1>20. Rooted(UpOf(n))
  <2>1. UpOf(m) \in [Page!Keys -> Parents] /\ UpOf(n) \in [Page!Keys -> Parents]
    BY <1>1, <1>11, AboveType
  <2>2. \A x \in Page!Keys : UpOf(m)[x] \in Page!Keys \cup {None}
    BY <2>1 DEF Parents
  <2>3. \A x \in Page!Keys : UpOf(n)[x] = UpOf(m)[x] \/ UpOf(n)[x] = None
    BY <1>16
  <2>. QED
    BY <1>1, <2>1, <2>2, <2>3, Regraft
<1>21. \A x \in Page!Keys : RowIsSound(n, x)
  BY <1>1, <1>12, <1>13, <1>15 DEF RowIsSound, SameEntry
<1>22. Shelved(n)
  BY <1>1, <1>6, <1>12, <1>13, <1>14 DEF Shelved, SameEntry
<1>23. Ordered(n) /\ Known(n)
  BY <1>1, <1>14, <1>15 DEF Ordered, Known, SameRest
<1>. QED
  BY <1>11, <1>12, <1>13, <1>14, <1>15, <1>19, <1>20, <1>21, <1>22, <1>23 DEF Sound, n

(* normalizeEntry: the row takes the frame, and a new one its place in the *)
(* order.                                                                  *)
LEMMA Normalized ==
  ASSUME NEW m, Sound(m), NEW f \in Frames, NEW k, k = Page!KeyOf(f), m.rows[k].kind # "leaf",
         m.sess[k[1]].known
  PROVE  LET n == Page!NormalizeEntry(m, k, f) IN
         /\ n \in Models /\ Hung(n, Page!Dom(m)) /\ Page!Dom(n) = Page!Dom(m) \cup {k}
         /\ Rooted(UpOf(n)) /\ Shelved(n) /\ Ordered(n) /\ Known(n)
         /\ \A x \in Page!Keys \ {k} : n.rows[x] = m.rows[x] /\ RowIsSound(n, x)
         /\ n.rows[k].kind = "agent" /\ n.rows[k].said = f
         /\ Page!RealRows(n) = Page!RealRows(m) \cup {k}
         /\ n.sess = m.sess /\ n.cache = m.cache /\ n.orphans = m.orphans /\ Apart(m, n, k[1])
<1> DEFINE e == [m.rows[k] EXCEPT !.kind = "agent", !.said = f,
                                  !.hash = IF f.hash = None THEN m.rows[k].hash ELSE f.hash]
           r == [m.rows EXCEPT ![k] = e]
           o == IF k \in Page!RealRows(m) THEN m.older ELSE m.older \cup (Page!RealRows(m) \X {k})
           n == Page!NormalizeEntry(m, k, f)
<1>1. m \in Models /\ Hung(m, Page!Dom(m)) /\ Rooted(UpOf(m)) /\ Shelved(m) /\ Ordered(m) /\ Known(m)
      /\ \A x \in Page!Keys : RowIsSound(m, x)
  BY DEF Sound
<1>2. k \in Page!Keys
  BY CandidateFacts
<1>3. n = [m EXCEPT !.rows = r, !.older = o]
  BY DEF Page!NormalizeEntry
<1>4. /\ e \in Entry /\ e.kind = "agent" /\ e.said = f /\ e.up = m.rows[k].up /\ e.pend = m.rows[k].pend
      /\ e.kids = m.rows[k].kids
  <2> DEFINE h == IF f.hash = None THEN m.rows[k].hash ELSE f.hash
  <2>1. m.rows[k] \in Entry
    BY <1>1, <1>2, RowTypes
  <2>2. h \in Hashes
    BY <2>1 DEF Entry, Hashes
  <2>3. e = [m.rows[k] EXCEPT !.kind = "agent", !.said = f, !.hash = h]
    OBVIOUS
  <2> HIDE DEF h, e
  <2>. QED
    BY <2>1, <2>2, <2>3 DEF Entry
<1> HIDE DEF e
<1>5. m.rows \in [Page!Keys -> Entry] /\ m.older \in SUBSET (Page!Keys \X Page!Keys)
  BY <1>1 DEF Models
<1>6. r \in [Page!Keys -> Entry] /\ r[k] = e /\ \A x \in Page!Keys \ {k} : r[x] = m.rows[x]
  BY <1>2, <1>4, <1>5
<1>7. /\ o \in SUBSET (Page!Keys \X Page!Keys)
      /\ \A x, y \in Page!Keys :
           <<x, y>> \in o <=> <<x, y>> \in m.older \/ (k \notin Page!RealRows(m) /\ y = k /\ x \in Page!RealRows(m))
  <2>1. Page!RealRows(m) \subseteq Page!Keys
    BY DEF Page!RealRows
  <2>2. CASE k \in Page!RealRows(m)
    BY <1>5, <2>2
  <2>3. CASE k \notin Page!RealRows(m)
    <3>1. o = m.older \cup (Page!RealRows(m) \X {k})
      BY <2>3
    <3>2. \A x, y : <<x, y>> \in Page!RealRows(m) \X {k} <=> x \in Page!RealRows(m) /\ y = k
      OBVIOUS
    <3>3. (Page!RealRows(m) \X {k}) \in SUBSET (Page!Keys \X Page!Keys)
      BY <1>2, <2>1
    <3> HIDE DEF o
    <3>. QED
      BY <1>5, <2>3, <3>1, <3>2, <3>3
  <2>. QED
    BY <2>2, <2>3
<1> HIDE DEF r, o, n
<1>8. /\ n \in Models /\ n.rows = r /\ n.older = o /\ n.sess = m.sess /\ n.cache = m.cache
      /\ n.orphans = m.orphans /\ n.roots = m.roots /\ n.pending = m.pending
  BY <1>1, <1>3, <1>6, <1>7 DEF Models
<1>9. Page!Dom(n) = Page!Dom(m) \cup {k} /\ Page!RealRows(n) = Page!RealRows(m) \cup {k}
  BY <1>2, <1>4, <1>6, <1>8 DEF Page!Dom, Page!RealRows
<1>10. UpOf(n) = UpOf(m) /\ PendOf(n) = PendOf(m)
  BY <1>4, <1>6, <1>8 DEF UpOf, PendOf
<1>11. Hung(n, Page!Dom(m))
  <2>1. \A p \in Page!Keys : n.rows[p].kids = m.rows[p].kids
    BY <1>4, <1>6, <1>8
  <2>. QED
    BY <1>1, <1>8, <1>10, <2>1 DEF Hung, Hangs
<1>12. Shelved(n)
  <2>1. n.rows[k].kind # "leaf" /\ \A x \in Page!Keys \ {k} : n.rows[x] = m.rows[x]
    BY <1>4, <1>6, <1>8
  <2>2. \A x \in Page!Keys : n.rows[x].kind = "leaf" <=> m.rows[x].kind = "leaf"
    BY <2>1
  <2>3. \A x \in Page!Keys : m.rows[x].kind = "leaf" => n.rows[x].up = m.rows[x].up
    BY <2>1
  <2>. QED
    BY <1>1, <1>8, <2>2, <2>3 DEF Shelved
<1>13. Ordered(n)
  <2>a. \A x, y \in Page!Keys : <<x, y>> \in o => x \in Page!RealRows(n) /\ y \in Page!RealRows(n)
    BY <1>1, <1>7, <1>9 DEF Ordered
  <2> SUFFICES ASSUME NEW x \in Page!RealRows(n), NEW y \in Page!RealRows(n), x # y
               PROVE <<x, y>> \in o <=> <<y, x>> \notin o
    BY <1>8, <2>a DEF Ordered
  <2>1. x \in Page!Keys /\ y \in Page!Keys
    BY DEF Page!RealRows
  <2>2. CASE k \in Page!RealRows(m)
    <3>1. x \in Page!RealRows(m) /\ y \in Page!RealRows(m)
      BY <1>9, <2>2
    <3>. QED
      BY <1>1, <1>7, <2>1, <2>2, <3>1 DEF Ordered
  <2>3. CASE k \notin Page!RealRows(m) /\ x # k /\ y # k
    BY <1>1, <1>7, <1>9, <2>1, <2>3 DEF Ordered
  <2>4. CASE k \notin Page!RealRows(m) /\ x = k
    BY <1>1, <1>7, <1>9, <2>1, <2>4 DEF Ordered
  <2>5. CASE k \notin Page!RealRows(m) /\ y = k
    BY <1>1, <1>7, <1>9, <2>1, <2>5 DEF Ordered
  <2>. QED
    BY <2>2, <2>3, <2>4, <2>5
<1>14. Known(n)
  BY <1>1, <1>8, <1>9 DEF Known
<1>15. ASSUME NEW x \in Page!Keys \ {k} PROVE n.rows[x] = m.rows[x] /\ RowIsSound(n, x)
  BY <1>1, <1>6, <1>8, <1>9 DEF RowIsSound
<1>16. Apart(m, n, k[1])
  BY <1>6, <1>7, <1>8 DEF Apart
<1>. QED
  BY <1>1, <1>4, <1>6, <1>8, <1>9, <1>10, <1>11, <1>12, <1>13, <1>14, <1>15, <1>16 DEF n

(* Agents are the same ones, with the same frames.                         *)
SameAgents(m, n) ==
  /\ Page!RealRows(n) = Page!RealRows(m) /\ Said(n) = Said(m)
  /\ \A x \in Page!RealRows(m) : n.rows[x].hash = m.rows[x].hash

(* A step that leaves the other sessions' rows alone concerns one session. *)
LEMMA SameIsApart ==
  ASSUME NEW m, NEW n, NEW s, SameRest(m, n),
         \A x \in Page!Keys : x[1] # s => SameEntry(m.rows[x], n.rows[x])
  PROVE  Apart(m, n, s)
BY DEF Apart, SameRest, SameEntry

(* resolveAndAttach: all rows but k are in place, then all rows are. The   *)
(* parent that k declares has no row and k waits for it, or it has one and *)
(* k is under it, unless the declared parents go in a circle.              *)
LEMMA Attached ==
  ASSUME NEW m \in Models, NEW k \in Page!Keys, NEW D \in SUBSET Page!Keys, Hung(m, D),
         Page!Dom(m) = D \cup {k}, Rooted(UpOf(m)), Shelved(m), Ordered(m), Known(m),
         m.rows[k].kind = "agent", m.rows[k].said \in Frames, Page!KeyOf(m.rows[k].said) = k,
         \A x \in Page!Keys \ {k} : RowIsSound(m, x)
  PROVE  LET n == Page!ResolveAndAttach(m, k)
             cand == Page!Candidate(m.rows[k].said)
         IN  /\ Sound(n) /\ SameRest(m, n) /\ SameAgents(m, n) /\ Apart(m, n, k[1])
             /\ \A x \in Page!Keys \ {k} : SameEntry(m.rows[x], n.rows[x])
             /\ n.rows[k].kind = "agent" /\ n.rows[k].said = m.rows[k].said
             /\ n.rows[k].pend # None => n.rows[k].pend \notin Page!RealRows(m)
             /\ \/ cand = None \/ Page!Circle(Said(m))
                \/ IF cand \in Page!RealRows(m) THEN n.rows[k].up = cand ELSE n.rows[k].pend = cand
<1> DEFINE n == Page!ResolveAndAttach(m, k)
           cand == Page!Candidate(m.rows[k].said)
<1>1. /\ n \in Models /\ Hung(n, Plus(D, k)) /\ SameRest(m, n) /\ n.orphans = m.orphans
      /\ \A x \in Page!Keys \ {k} : SameEntry(m.rows[x], n.rows[x])
      /\ n.rows[k].kind = "agent" /\ n.rows[k].said = m.rows[k].said /\ n.rows[k].hash = m.rows[k].hash
      /\ \/ cand \notin Page!RealRows(m) /\ n.rows[k].up = None /\ n.rows[k].pend = cand
         \/ /\ cand \in Page!RealRows(m) /\ k # cand /\ k \notin Page!Ancestors(m, cand)
            /\ n.rows[k].up = cand /\ n.rows[k].pend = None
         \/ /\ cand \in Page!RealRows(m) /\ Page!Circle(Said(m))
            /\ n.rows[k].up = None /\ n.rows[k].pend = None
  BY Resolved
<1> HIDE DEF n
<1>2. Page!Dom(n) = D \cup {k} /\ Page!RealRows(n) = Page!RealRows(m)
  BY <1>1 DEF Page!Dom, Page!RealRows, SameEntry
<1>a. Page!Dom(n) = Plus(D, k)
  BY <1>2 DEF Plus
<1>3. Said(n) = Said(m) /\ SameAgents(m, n)
  BY <1>1, <1>2 DEF Said, SameAgents, SameEntry, Page!RealRows
<1>4. Apart(m, n, k[1])
  BY <1>1, SameIsApart
<1>5. cand \in Page!RealRows(m) => cand[1] = k[1] /\ cand # None
  BY CandidateFacts, PageAssumption DEF Page!RealRows
<1>6. \A x \in Page!Keys : RowIsSound(n, x)
  <2>1. ASSUME NEW x \in Page!Keys \ {k} PROVE RowIsSound(n, x)
    BY <1>1, <1>2 DEF RowIsSound, SameEntry
  <2>2. RowIsSound(n, k)
    BY <1>1, <1>2, <1>5 DEF RowIsSound
  <2>. QED
    BY <2>1, <2>2
<1>7. Rooted(UpOf(n))
  <2>1. UpOf(m) \in [Page!Keys -> Parents] /\ UpOf(n) \in [Page!Keys -> Parents]
        /\ \A x \in Page!Keys : UpOf(m)[x] \in Page!Keys \cup {None}
    BY <1>1, AboveType DEF Parents
  <2>2. /\ \A x \in Page!Keys \ {k} : UpOf(n)[x] = UpOf(m)[x]
        /\ UpOf(n)[k] = n.rows[k].up
    BY <1>1 DEF UpOf, SameEntry
  <2>3. CASE n.rows[k].up = None
    BY <2>1, <2>2, <2>3, Regraft
  <2>4. CASE n.rows[k].up # None
    <3> DEFINE A == {cand} \cup Page!Ancestors(m, cand)
    <3>1. cand \in Page!Keys /\ k \notin A /\ UpOf(n)[k] = cand
      BY <1>1, <2>2, <2>4 DEF Page!RealRows
    <3>2. A \in SUBSET Page!Keys /\ cand \in A /\ \A x \in A : UpOf(m)[x] \in A \cup {None}
      BY <3>1, AncestorsClosed
    <3>3. \A x \in Page!Keys : UpOf(n)[x] = UpOf(m)[x] \/ UpOf(n)[x] = None \/ (UpOf(n)[x] = cand /\ x \notin A)
      BY <2>2, <3>1
    <3> HIDE DEF A, cand
    <3>. QED
      BY <2>1, <3>2, <3>3, Regraft
  <2>. QED
    BY <2>3, <2>4
<1>8. Shelved(n)
  BY <1>1 DEF Shelved, SameEntry
<1>9. Ordered(n) /\ Known(n)
  BY <1>1, <1>2 DEF Ordered, Known, SameRest
<1>10. Sound(n)
  BY <1>1, <1>a, <1>6, <1>7, <1>8, <1>9 DEF Sound
<1>. QED
  BY <1>1, <1>3, <1>4, <1>10, CandidateFacts DEF n

(* fillOrphans: new leaves do not disturb the agents.                      *)
LEMMA FilledSound ==
  ASSUME NEW m, Sound(m), NEW k \in Page!Keys, m.rows[k].kind = "agent"
  PROVE  LET n == Page!FillOrphans(m, k) IN
         /\ Sound(n) /\ SameRest(m, n) /\ SameAgents(m, n) /\ Apart(m, n, k[1])
         /\ \A x \in Page!RealRows(m) : SameEntry(m.rows[x], n.rows[x])
<1> DEFINE n == Page!FillOrphans(m, k)
<1>0. m \in Models /\ Hung(m, Page!Dom(m)) /\ Rooted(UpOf(m)) /\ Shelved(m) /\ Ordered(m) /\ Known(m)
      /\ \A x \in Page!Keys : RowIsSound(m, x)
  BY DEF Sound
<1>1. /\ n \in Models /\ Hung(n, Page!Dom(n)) /\ Shelved(n) /\ SameRest(m, n)
      /\ \A x \in Page!Keys : m.rows[x].kind # "none" => SameEntry(m.rows[x], n.rows[x])
      /\ \A x \in Page!Keys : m.rows[x].kind = "none" =>
              \/ SameEntry(m.rows[x], n.rows[x])
              \/ /\ n.rows[x].kind = "leaf" /\ n.rows[x].said = None
                 /\ n.rows[x].up = k /\ n.rows[x].pend = None /\ x[1] = k[1]
  BY <1>0, Filled
<1> HIDE DEF n
<1>2. Page!RealRows(n) = Page!RealRows(m)
  BY <1>1 DEF Page!RealRows, SameEntry
<1>3. Said(n) = Said(m)
  BY <1>0, <1>1 DEF Said, SameEntry, RowIsSound
<1>4. \A x \in Page!RealRows(m) : SameEntry(m.rows[x], n.rows[x])
  BY <1>1 DEF Page!RealRows
<1>5. k \in Page!RealRows(m)
  BY DEF Page!RealRows
<1>6. ASSUME NEW x \in Page!Keys PROVE RowIsSound(n, x)
  <2>1. CASE SameEntry(m.rows[x], n.rows[x])
    BY <1>0, <1>2, <2>1 DEF RowIsSound, SameEntry
  <2>2. CASE ~SameEntry(m.rows[x], n.rows[x])
    BY <1>1, <1>2, <1>5, <2>2 DEF RowIsSound
  <2>. QED
    BY <2>1, <2>2
<1>7. Rooted(UpOf(n))
  <2> DEFINE A == Page!RealRows(m)
  <2>1. UpOf(m) \in [Page!Keys -> Parents] /\ UpOf(n) \in [Page!Keys -> Parents] /\ A \in SUBSET Page!Keys
    BY <1>0, <1>1, AboveType DEF Page!RealRows
  <2>2. ASSUME NEW x \in A PROVE UpOf(m)[x] \in A \cup {None}
    BY <1>0 DEF RowIsSound, Page!RealRows, UpOf
  <2>3. ASSUME NEW x \in Page!Keys
        PROVE UpOf(n)[x] = UpOf(m)[x] \/ UpOf(n)[x] = None \/ (UpOf(n)[x] = k /\ x \notin A)
    BY <1>1 DEF UpOf, SameEntry, Page!RealRows
  <2> HIDE DEF A
  <2>4. k \in A
    BY <1>5 DEF A
  <2>. QED
    BY <1>0, <2>1, <2>2, <2>3, <2>4, Regraft
<1>8. Ordered(n)
  BY <1>0, <1>1, <1>2 DEF Ordered, SameRest
<1>9. Known(n)
  <2> SUFFICES ASSUME NEW x \in Page!Dom(n) PROVE n.sess[x[1]].known
    BY DEF Known
  <2>1. x \in Page!Dom(m) \/ x[1] = k[1]
    BY <1>1 DEF Page!Dom, SameEntry
  <2>2. k \in Page!Dom(m)
    BY DEF Page!Dom
  <2>. QED
    BY <1>0, <1>1, <2>1, <2>2 DEF Known, SameRest
<1>10. Apart(m, n, k[1])
  BY <1>1, SameIsApart
<1>11. SameAgents(m, n)
  BY <1>2, <1>3, <1>4 DEF SameAgents, SameEntry
<1>. QED
  BY <1>1, <1>4, <1>6, <1>7, <1>8, <1>9, <1>10, <1>11 DEF Sound, n

(* drainPending: only who waited for k moves, and under k unless the       *)
(* declared parents go in a circle.                                        *)
LEMMA DrainedSound ==
  ASSUME NEW m, Sound(m), NEW k \in Page!Keys, m.rows[k].kind = "agent"
  PROVE  LET n == Page!DrainPending(m, k) IN
         /\ Sound(n) /\ SameRest(m, n) /\ SameAgents(m, n) /\ Apart(m, n, k[1])
         /\ \A x \in Page!Keys : m.rows[x].pend # k => SameEntry(m.rows[x], n.rows[x])
         /\ \A x \in Page!Keys : m.rows[x].pend = k =>
              n.rows[x].pend = None /\ (n.rows[x].up = k \/ Page!Circle(Said(m)))
<1> DEFINE n == Page!DrainPending(m, k)
<1>0. m \in Models /\ Hung(m, Page!Dom(m)) /\ Rooted(UpOf(m)) /\ Shelved(m) /\ Ordered(m) /\ Known(m)
      /\ \A x \in Page!Keys : RowIsSound(m, x)
  BY DEF Sound
<1>1. /\ n \in Models /\ Hung(n, Page!Dom(n)) /\ SameRest(m, n) /\ n.orphans = m.orphans
      /\ \A x \in Page!Keys : m.rows[x].pend # k => SameEntry(m.rows[x], n.rows[x])
      /\ \A x \in Page!Keys : m.rows[x].pend = k =>
           /\ m.rows[x].kind = "agent" /\ n.rows[x].kind = "agent" /\ n.rows[x].said = m.rows[x].said
           /\ n.rows[x].hash = m.rows[x].hash /\ n.rows[x].pend = None
           /\ Page!Candidate(m.rows[x].said) = k /\ x[1] = k[1] /\ x # k
           /\ \/ n.rows[x].up = k /\ x \notin Page!Ancestors(m, k)
              \/ n.rows[x].up = None /\ x \in Page!Ancestors(m, k)
  BY <1>0, Drained
<1> HIDE DEF n
<1>2. /\ \A x \in Page!Keys : /\ n.rows[x].kind = m.rows[x].kind /\ n.rows[x].said = m.rows[x].said
                              /\ n.rows[x].hash = m.rows[x].hash
      /\ k \in Page!RealRows(m)
  BY <1>1 DEF SameEntry, Page!RealRows
<1>3. Page!RealRows(n) = Page!RealRows(m) /\ Said(n) = Said(m) /\ SameAgents(m, n) /\ Page!Dom(n) = Page!Dom(m)
  BY <1>2 DEF Page!RealRows, Said, SameAgents, Page!Dom
<1>4. ASSUME NEW x \in Page!Keys PROVE RowIsSound(n, x)
  <2>1. CASE m.rows[x].pend # k
    BY <1>0, <1>1, <1>3, <2>1 DEF RowIsSound, SameEntry
  <2>2. CASE m.rows[x].pend = k
    BY <1>0, <1>1, <1>2, <1>3, <2>2 DEF RowIsSound
  <2>. QED
    BY <2>1, <2>2
<1>5. ASSUME NEW x \in Page!Keys, m.rows[x].pend = k, n.rows[x].up # k PROVE Page!Circle(Said(m))
  <2>1. x \in Page!Ancestors(m, k) /\ Page!Candidate(m.rows[x].said) = k /\ x # k /\ m.rows[x].kind = "agent"
    BY <1>1, <1>5
  <2>2. m.rows[x].said \in Frames
    BY <1>0, <2>1 DEF RowIsSound
  <2>. QED
    BY <1>0, <1>2, <2>1, <2>2, RefusedIsCircle
<1>6. Rooted(UpOf(n))
  <2> DEFINE A == {k} \cup Page!Ancestors(m, k)
  <2>1. UpOf(m) \in [Page!Keys -> Parents] /\ UpOf(n) \in [Page!Keys -> Parents]
    BY <1>0, <1>1, AboveType
  <2>2. A \in SUBSET Page!Keys /\ k \in A /\ \A x \in A : UpOf(m)[x] \in A \cup {None}
    BY <1>0, AncestorsClosed
  <2>3. ASSUME NEW x \in Page!Keys
        PROVE UpOf(n)[x] = UpOf(m)[x] \/ UpOf(n)[x] = None \/ (UpOf(n)[x] = k /\ x \notin A)
    BY <1>1 DEF UpOf, SameEntry
  <2> HIDE DEF A
  <2>. QED
    BY <1>0, <2>1, <2>2, <2>3, Regraft
<1>7. Shelved(n)
  <2> SUFFICES ASSUME NEW x \in Page!Keys
               PROVE n.orphans[x] = IF n.rows[x].kind = "leaf" THEN n.rows[x].up ELSE None
    BY DEF Shelved
  <2>1. m.orphans[x] = IF m.rows[x].kind = "leaf" THEN m.rows[x].up ELSE None
    BY <1>0 DEF Shelved
  <2>2. m.rows[x].kind = "leaf" => n.rows[x].up = m.rows[x].up
    BY <1>1 DEF SameEntry
  <2>. QED
    BY <1>1, <1>2, <2>1, <2>2
<1>8. Ordered(n) /\ Known(n)
  BY <1>0, <1>1, <1>3 DEF Ordered, Known, SameRest
<1>9. Apart(m, n, k[1])
  BY <1>1, SameIsApart
<1>. QED
  BY <1>1, <1>3, <1>4, <1>5, <1>6, <1>7, <1>8, <1>9 DEF Sound, n

(* An agent waits only for what has no row of its own, and one whose       *)
(* declared parent has one is under it.                                    *)
Waiting(m) ==
  \A x \in Page!RealRows(m) : m.rows[x].pend # None => m.rows[x].pend \notin Page!RealRows(m)
Placed(m) ==
  \A x \in Page!RealRows(m) :
    LET cand == Page!Candidate(m.rows[x].said) IN
    cand # None => IF cand \in Page!RealRows(m) THEN m.rows[x].up = cand ELSE m.rows[x].pend = cand

(* The model before the frame is read: its session is open and no leaf     *)
(* has the frame's place.                                                  *)
LEMMA Prepared ==
  ASSUME NEW m, Sound(m), NEW k \in Page!Keys
  PROVE  LET n == Page!Promote(Page!InvalidateDirCache(Page!EnsureSession(m, k[1]), k[1]), k) IN
         /\ Sound(n) /\ Apart(m, n, k[1]) /\ Page!RealRows(n) = Page!RealRows(m)
         /\ \A x \in Page!Keys \ {k} : SameEntry(m.rows[x], n.rows[x])
         /\ n.rows[k].kind # "leaf" /\ n.rows[k].said = m.rows[k].said
         /\ n.sess[k[1]].known /\ n.cache[k[1]] = "unread"
<1> DEFINE o == Page!InvalidateDirCache(Page!EnsureSession(m, k[1]), k[1])
           n == Page!Promote(o, k)
<1>1. m \in Models /\ Known(m) /\ k[1] \in PageSessions
      /\ \A x \in Page!Keys : RowIsSound(m, x) /\ x[1] \in PageSessions
  BY DEF Sound, Page!Keys
<1>2. /\ o \in Models /\ o.rows = m.rows /\ o.older = m.older /\ o.roots = m.roots
      /\ o.pending = m.pending /\ o.orphans = m.orphans
      /\ o.sess[k[1]].known /\ \A t \in PageSessions \ {k[1]} : o.sess[t] = m.sess[t]
      /\ o.cache[k[1]] = "unread" /\ Apart(m, o, k[1])
  BY <1>1, Opened
<1> HIDE DEF o
<1>3. \A x \in Page!Dom(m) : o.sess[x[1]].known
  <2> SUFFICES ASSUME NEW x \in Page!Dom(m) PROVE o.sess[x[1]].known
    OBVIOUS
  <2>1. m.sess[x[1]].known /\ x[1] \in PageSessions
    BY <1>1 DEF Known, Page!Dom
  <2>2. CASE x[1] = k[1]
    BY <1>2, <2>2
  <2>3. CASE x[1] # k[1]
    BY <1>2, <2>1, <2>3
  <2>. QED
    BY <2>2, <2>3
<1>4. Sound(o)
  BY <1>2, <1>3, SoundSame
<1>5. Page!RealRows(o) = Page!RealRows(m) /\ \A x \in Page!Keys : SameEntry(m.rows[x], o.rows[x])
  BY <1>2 DEF Page!RealRows, SameEntry
<1>6. CASE o.rows[k].kind = "leaf"
  <2>1. n = Page!RemoveOrphan(o, k)
    BY <1>6 DEF Page!Promote
  <2> HIDE DEF n
  <2>2. /\ Sound(n) /\ SameRest(o, n) /\ Page!RealRows(n) = Page!RealRows(o)
        /\ \A x \in Page!Keys \ {k} : SameEntry(o.rows[x], n.rows[x])
        /\ n.rows[k].kind = "none" /\ n.rows[k].said = None
    BY <1>4, <1>6, <2>1, OrphanRemoved
  <2>3. m.rows[k].said = None
    BY <1>1, <1>2, <1>6 DEF RowIsSound
  <2>4. Apart(o, n, k[1])
    BY <2>2, SameIsApart
  <2>5. Apart(m, n, k[1])
    BY <1>2, <2>4, ApartTrans
  <2>6. \A x \in Page!Keys \ {k} : SameEntry(m.rows[x], n.rows[x])
    BY <1>5, <2>2 DEF SameEntry
  <2>7. n.sess[k[1]].known /\ n.cache[k[1]] = "unread"
    BY <1>2, <2>2 DEF SameRest
  <2>. QED
    BY <1>5, <2>2, <2>3, <2>5, <2>6, <2>7 DEF n, o
<1>7. CASE o.rows[k].kind # "leaf"
  <2>1. n = o
    BY <1>7 DEF Page!Promote
  <2>. QED
    BY <1>2, <1>4, <1>5, <1>7, <2>1 DEF o, SameEntry
<1>. QED
  BY <1>6, <1>7

(* upsertAgent: the tree is sound again, the row says what the frame says, *)
(* and whoever waited for it is under it.                                  *)
LEMMA Upserted ==
  ASSUME NEW m, Sound(m), Waiting(m), NEW f \in Frames
  PROVE  LET n == Page!UpsertAgent(m, f) IN
         /\ Sound(n) /\ Waiting(n) /\ Said(n) = [Said(m) EXCEPT ![Page!KeyOf(f)] = f]
         /\ Placed(m) /\ ~Page!Circle(Said(n)) => Placed(n)
         /\ n.cache[f.s] = "unread" /\ Apart(m, n, f.s)
<1> DEFINE k == Page!KeyOf(f)
           m2 == Page!Promote(Page!InvalidateDirCache(Page!EnsureSession(m, f.s), f.s), k)
           m3 == Page!NormalizeEntry(m2, k, f)
           m4 == Page!ResolveAndAttach(m3, k)
           m5 == Page!FillOrphans(m4, k)
           n == Page!DrainPending(m5, k)
           R == Page!RealRows(m)
<1>1. k \in Page!Keys /\ k[1] = f.s /\ f # None /\ None \notin Page!Keys
  BY CandidateFacts, PageAssumption DEF Page!KeyOf
<1>2. n = Page!UpsertAgent(m, f)
  BY DEF Page!UpsertAgent
<1>3. /\ Sound(m2) /\ Apart(m, m2, k[1]) /\ Page!RealRows(m2) = R
      /\ \A x \in Page!Keys \ {k} : SameEntry(m.rows[x], m2.rows[x])
      /\ m2.rows[k].kind # "leaf" /\ m2.rows[k].said = m.rows[k].said
      /\ m2.sess[k[1]].known /\ m2.cache[k[1]] = "unread"
  BY <1>1, Prepared
<1> HIDE DEF m2, n
<1>4. /\ m3 \in Models /\ Hung(m3, Page!Dom(m2)) /\ Page!Dom(m3) = Page!Dom(m2) \cup {k}
      /\ Rooted(UpOf(m3)) /\ Shelved(m3) /\ Ordered(m3) /\ Known(m3)
      /\ \A x \in Page!Keys \ {k} : m3.rows[x] = m2.rows[x] /\ RowIsSound(m3, x)
      /\ m3.rows[k].kind = "agent" /\ m3.rows[k].said = f
      /\ Page!RealRows(m3) = R \cup {k}
      /\ m3.sess = m2.sess /\ m3.cache = m2.cache /\ Apart(m2, m3, k[1])
  <2> HIDE DEF k
  <2>1. k = Page!KeyOf(f)
    BY DEF k
  <2>. QED
    BY <1>3, <2>1, Normalized
<1> HIDE DEF m3
<1>a. Page!Dom(m2) \in SUBSET Page!Keys
  BY DEF Page!Dom
<1>5. /\ Sound(m4) /\ SameRest(m3, m4) /\ SameAgents(m3, m4) /\ Apart(m3, m4, k[1])
      /\ \A x \in Page!Keys \ {k} : SameEntry(m3.rows[x], m4.rows[x])
      /\ m4.rows[k].kind = "agent" /\ m4.rows[k].said = f
      /\ m4.rows[k].pend # None => m4.rows[k].pend \notin R \cup {k}
      /\ \/ Page!Candidate(f) = None \/ Page!Circle(Said(m3))
         \/ IF Page!Candidate(f) \in R \cup {k} THEN m4.rows[k].up = Page!Candidate(f)
                                                ELSE m4.rows[k].pend = Page!Candidate(f)
  <2> HIDE DEF k
  <2>1. k = Page!KeyOf(m3.rows[k].said)
    BY <1>4 DEF k
  <2> DEFINE cand == Page!Candidate(m3.rows[k].said)
  <2>2. /\ Sound(m4) /\ SameRest(m3, m4) /\ SameAgents(m3, m4) /\ Apart(m3, m4, k[1])
        /\ \A x \in Page!Keys \ {k} : SameEntry(m3.rows[x], m4.rows[x])
        /\ m4.rows[k].kind = "agent" /\ m4.rows[k].said = m3.rows[k].said
        /\ m4.rows[k].pend # None => m4.rows[k].pend \notin Page!RealRows(m3)
        /\ \/ cand = None \/ Page!Circle(Said(m3))
           \/ IF cand \in Page!RealRows(m3) THEN m4.rows[k].up = cand ELSE m4.rows[k].pend = cand
    BY <1>1, <1>4, <1>a, <2>1, Attached
  <2>3. cand = Page!Candidate(f)
    BY <1>4
  <2> HIDE DEF cand, m4
  <2>. QED
    BY <1>4, <2>2, <2>3
<1> HIDE DEF m4
<1>6. /\ Sound(m5) /\ SameRest(m4, m5) /\ SameAgents(m4, m5) /\ Apart(m4, m5, k[1])
      /\ \A x \in Page!RealRows(m4) : SameEntry(m4.rows[x], m5.rows[x])
  BY <1>1, <1>5, FilledSound
<1> HIDE DEF m5
<1>b. m5.rows[k].kind = "agent"
  BY <1>1, <1>5, <1>6 DEF Page!RealRows, SameEntry
<1>7. /\ Sound(n) /\ SameRest(m5, n) /\ SameAgents(m5, n) /\ Apart(m5, n, k[1])
      /\ \A x \in Page!Keys : m5.rows[x].pend # k => SameEntry(m5.rows[x], n.rows[x])
      /\ \A x \in Page!Keys : m5.rows[x].pend = k =>
           n.rows[x].pend = None /\ (n.rows[x].up = k \/ Page!Circle(Said(m5)))
  BY <1>1, <1>6, <1>b, DrainedSound DEF n
<1> HIDE DEF k
<1>8. Page!RealRows(m4) = R \cup {k} /\ Page!RealRows(n) = R \cup {k} /\ R \subseteq Page!Keys
  BY <1>4, <1>5, <1>6, <1>7 DEF SameAgents, Page!RealRows
<1>9. Said(n) = Said(m3) /\ Said(m5) = Said(m3)
  BY <1>5, <1>6, <1>7 DEF SameAgents
<1>10. Said(m3) = [Said(m) EXCEPT ![k] = f]
  <2>1. \A x \in Page!Keys : m3.rows[x].said = IF x = k THEN f ELSE m.rows[x].said
    BY <1>3, <1>4 DEF SameEntry
  <2>. QED
    BY <1>1, <2>1 DEF Said
<1>11. ASSUME NEW x \in R \ {k}
       PROVE  /\ m5.rows[x].said = m.rows[x].said /\ m5.rows[x].up = m.rows[x].up
              /\ m5.rows[x].pend = m.rows[x].pend /\ n.rows[x].said = m.rows[x].said
  <2>1. x \in Page!Keys \ {k} /\ x \in Page!RealRows(m4)
    BY <1>8
  <2>2. SameEntry(m.rows[x], m2.rows[x]) /\ m3.rows[x] = m2.rows[x]
        /\ SameEntry(m3.rows[x], m4.rows[x]) /\ SameEntry(m4.rows[x], m5.rows[x])
    BY <1>3, <1>4, <1>5, <1>6, <2>1
  <2>3. n.rows[x].said = m5.rows[x].said
    <3>1. Said(n)[x] = n.rows[x].said /\ Said(m5)[x] = m5.rows[x].said
      BY <2>1 DEF Said
    <3>. QED
      BY <1>9, <3>1
  <2>. QED
    BY <2>2, <2>3 DEF SameEntry
<1>12. m5.rows[k].up = m4.rows[k].up /\ m5.rows[k].pend = m4.rows[k].pend
  BY <1>6, <1>8 DEF SameEntry
<1>13. m5.rows[k].pend # k
  BY <1>1, <1>5, <1>12
<1>14. n.rows[k].up = m4.rows[k].up /\ n.rows[k].pend = m4.rows[k].pend
  BY <1>1, <1>7, <1>12, <1>13 DEF SameEntry
<1>c. n.rows[k].said = f
  <2>1. Said(n)[k] = n.rows[k].said /\ Said(m3)[k] = m3.rows[k].said
    BY <1>1 DEF Said
  <2>. QED
    BY <1>4, <1>9, <2>1
<1>15. Waiting(n)
  <2> SUFFICES ASSUME NEW x \in R \cup {k}, n.rows[x].pend # None PROVE n.rows[x].pend \notin R \cup {k}
    BY <1>8 DEF Waiting
  <2>1. CASE x = k
    BY <1>5, <1>14, <2>1
  <2>2. CASE x # k /\ m.rows[x].pend = k
    BY <1>7, <1>8, <1>11, <2>2
  <2>3. CASE x # k /\ m.rows[x].pend # k
    <3>1. x \in R /\ n.rows[x].pend = m.rows[x].pend
      BY <1>7, <1>8, <1>11, <2>3 DEF SameEntry
    <3>. QED
      BY <2>3, <3>1 DEF Waiting
  <2>. QED
    BY <2>1, <2>2, <2>3
<1>16. ASSUME Placed(m), ~Page!Circle(Said(n)) PROVE Placed(n)
  <2> SUFFICES ASSUME NEW x \in R \cup {k}, Page!Candidate(n.rows[x].said) # None
               PROVE  IF Page!Candidate(n.rows[x].said) \in R \cup {k}
                        THEN n.rows[x].up = Page!Candidate(n.rows[x].said)
                        ELSE n.rows[x].pend = Page!Candidate(n.rows[x].said)
    BY <1>8 DEF Placed
  <2>1. CASE x = k
    BY <1>5, <1>9, <1>14, <1>16, <1>c, <2>1
  <2>2. CASE x # k
    <3> DEFINE cand == Page!Candidate(m.rows[x].said)
    <3>1. x \in R /\ Page!Candidate(n.rows[x].said) = cand /\ cand # None /\ x \in Page!Keys
      BY <1>8, <1>11, <2>2
    <3>2. IF cand \in R THEN m.rows[x].up = cand ELSE m.rows[x].pend = cand
      BY <1>16, <3>1 DEF Placed
    <3>3. m.rows[x].up # None => m.rows[x].pend = None
      BY <3>1 DEF Sound, RowIsSound, Page!RealRows
    <3> HIDE DEF cand
    <3>4. CASE cand \in R
      <4>1. m5.rows[x].pend # k /\ m5.rows[x].up = cand
        BY <1>1, <1>11, <2>2, <3>1, <3>2, <3>3, <3>4
      <4>2. n.rows[x].up = cand
        BY <1>7, <3>1, <4>1 DEF SameEntry
      <4>. QED
        BY <3>1, <3>4, <4>2
    <3>5. CASE cand \notin R /\ cand = k
      <4>1. m5.rows[x].pend = k
        BY <1>11, <2>2, <3>1, <3>2, <3>5
      <4>2. n.rows[x].up = k
        BY <1>7, <1>9, <1>16, <3>1, <4>1
      <4>. QED
        BY <3>1, <3>5, <4>2
    <3>6. CASE cand \notin R /\ cand # k
      <4>1. m5.rows[x].pend = cand
        BY <1>11, <2>2, <3>1, <3>2, <3>6
      <4>2. n.rows[x].pend = cand
        BY <1>7, <3>1, <3>6, <4>1 DEF SameEntry
      <4>. QED
        BY <3>1, <3>6, <4>2
    <3>. QED
      BY <3>4, <3>5, <3>6
  <2>. QED
    BY <2>1, <2>2
<1>17. n.cache[k[1]] = "unread"
  BY <1>3, <1>4, <1>5, <1>6, <1>7 DEF SameRest
<1>18. Apart(m, n, k[1])
  <2>1. Apart(m, m3, k[1])
    BY <1>3, <1>4, ApartTrans
  <2>2. Apart(m, m4, k[1])
    BY <1>5, <2>1, ApartTrans
  <2>3. Apart(m, m5, k[1])
    BY <1>6, <2>2, ApartTrans
  <2>. QED
    BY <1>7, <2>3, ApartTrans
<1>. QED
  BY <1>1, <1>2, <1>7, <1>9, <1>10, <1>15, <1>16, <1>17, <1>18 DEF k

(* Who is in a list.                                                       *)
LEMMA MemberBag ==
  ASSUME NEW H
  PROVE  Page!BagToSet(Page!SetToBag(H)) = H /\ \A x : Page!BagIn(x, Page!SetToBag(H)) <=> x \in H
BY BagOfSet

(* The children of an agent: leaves that go with it, and agents.           *)
KidsOf(m, k) == Under(Page!Dom(m), UpOf(m), k)
LeavesOf(m, k) == {kid \in KidsOf(m, k) : m.rows[kid].kind = "leaf"}
RestOf(m, k) == {kid \in KidsOf(m, k) : m.rows[kid].kind = "agent"}
Outside(m, k) == Page!Dom(m) \ (KidsOf(m, k) \cup {k})

(* An agent is taken out of the tree with its leaves; its own children are *)
(* nowhere for the moment.                                                 *)
Base(m, k) ==
  [m EXCEPT !.rows = Page!Cleared(m.rows, LeavesOf(m, k) \cup {k}),
            !.older = {p \in m.older : k \notin {p[1], p[2]}},
            !.orphans = [o \in Page!Keys |-> IF o \in LeavesOf(m, k) THEN None ELSE m.orphans[o]]]
Cut(m, k) == Page!DetachEntry(Base(m, k), k, m.rows[k])
Nowhere(x, n) == n.rows[x].kind = "none" /\ n.rows[x].said = None /\ n.rows[x].up = None /\ n.rows[x].pend = None

(* removeRealAgent, its first half: the agent and its leaves are nowhere,  *)
(* its own children still name it, and the other rows are where they were. *)
LEMMA Uprooted ==
  ASSUME NEW m, Sound(m), NEW k \in Page!Keys, m.rows[k].kind = "agent"
  PROVE  LET n == Cut(m, k) IN
         /\ n \in Models /\ Hangs(n, Outside(m, k), UpOf(m), PendOf(m))
         /\ \A x \in Page!Keys : x \notin LeavesOf(m, k) /\ x # k => SameEntry(m.rows[x], n.rows[x])
         /\ \A x \in LeavesOf(m, k) : Nowhere(x, n)
         /\ Nowhere(k, n)
         /\ n.sess = m.sess /\ n.cache = m.cache
         /\ \A x, y : <<x, y>> \in n.older <=> <<x, y>> \in m.older /\ k # x /\ k # y
         /\ \A x \in Page!Keys : n.orphans[x] = IF x \in LeavesOf(m, k) THEN None ELSE m.orphans[x]
<1> DEFINE H == KidsOf(m, k)
           leaves == LeavesOf(m, k)
           r == [x \in Page!Keys |-> IF x \in leaves \cup {k} THEN Page!NoRow ELSE m.rows[x]]
           h == [o \in Page!Keys |-> IF o \in leaves THEN None ELSE m.orphans[o]]
           od == {p \in m.older : k \notin {p[1], p[2]}}
           base == Base(m, k)
           n == Cut(m, k)
           D == Page!Dom(m) \ H
<1>1. /\ m \in Models /\ Hung(m, Page!Dom(m)) /\ \A x \in Page!Keys : RowIsSound(m, x)
      /\ m.rows \in [Page!Keys -> Entry] /\ m.orphans \in [Page!Keys -> Parents]
      /\ m.older \in SUBSET (Page!Keys \X Page!Keys) /\ None \notin Page!Keys
  BY PageAssumption DEF Sound, Models
<1>2. base = [m EXCEPT !.rows = r, !.older = od, !.orphans = h]
  BY DEF Base, Page!Cleared
<1>3. H \subseteq Page!Dom(m) /\ Page!Dom(m) \subseteq Page!Keys /\ leaves \subseteq H /\ k \notin leaves
      /\ \A x \in H : m.rows[x].up = k
  BY RowTypes, <1>1 DEF Under, Page!Dom, KidsOf, LeavesOf
<1> HIDE DEF leaves, H
<1>4. /\ r \in [Page!Keys -> Entry] /\ \A x \in Page!Keys \ (leaves \cup {k}) : r[x] = m.rows[x]
      /\ \A x \in leaves \cup {k} : r[x] = Page!NoRow
  BY <1>1, <1>3, NoRowType
<1>5. h \in [Page!Keys -> Parents] /\ \A x \in Page!Keys : h[x] = IF x \in leaves THEN None ELSE m.orphans[x]
  BY <1>1 DEF Parents
<1>6. od \in SUBSET (Page!Keys \X Page!Keys)
  BY <1>1
<1> HIDE DEF r, h, od, base
<1>7. /\ base \in Models /\ base.rows = r /\ base.orphans = h /\ base.older = od
      /\ base.sess = m.sess /\ base.cache = m.cache
      /\ base.roots = m.roots /\ base.pending = m.pending
  BY <1>1, <1>2, <1>4, <1>5, <1>6 DEF Models
<1>8. ASSUME NEW x \in H PROVE m.rows[x].pend = None
  <2>1. x \in Page!Keys /\ RowIsSound(m, x) /\ m.rows[x].up # None /\ m.rows[x].kind \in {"none", "leaf", "agent"}
    BY <1>1, <1>3, RowTypes
  <2>. QED
    BY <2>1 DEF RowIsSound
<1>9. ASSUME NEW x \in Page!Dom(m)
      PROVE  UpOf(m)[x] \notin leaves /\ UpOf(m)[x] = m.rows[x].up /\ PendOf(m)[x] = m.rows[x].pend
  <2>1. x \in Page!Keys /\ RowIsSound(m, x) /\ m.rows[x].kind \in {"none", "leaf", "agent"} /\ UpOf(m)[x] = m.rows[x].up
        /\ PendOf(m)[x] = m.rows[x].pend
    BY <1>1, <1>3, RowTypes
  <2>2. m.rows[x].up = None \/ m.rows[x].up \in Page!RealRows(m)
    BY <2>1 DEF RowIsSound
  <2>3. None \notin leaves /\ \A y \in leaves : y \notin Page!RealRows(m)
    BY <1>1, <1>3 DEF Page!RealRows, leaves, LeavesOf
  <2>. QED
    BY <2>1, <2>2, <2>3
<1> HIDE DEF D
<1>10. Hangs(base, D, UpOf(m), PendOf(m))
  <2>1. ASSUME NEW p \in Page!Keys PROVE base.rows[p].kids = Page!SetToBag(Under(D, UpOf(m), p))
    <3>1. CASE p = k
      <4>1. Under(D, UpOf(m), p) = {}
        BY <3>1 DEF D, Under, H, KidsOf
      <4>. QED
        BY <1>4, <1>7, <3>1, <4>1, NoRowType
    <3>2. CASE p \in leaves
      <4>1. Under(D, UpOf(m), p) = {}
        BY <1>9, <3>2 DEF D, Under
      <4>. QED
        BY <1>4, <1>7, <3>2, <4>1, NoRowType
    <3>3. CASE p # k /\ p \notin leaves
      <4>1. Under(D, UpOf(m), p) = Under(Page!Dom(m), UpOf(m), p)
        BY <1>3, <1>9, <3>3 DEF D, Under, H
      <4>. QED
        BY <1>1, <1>4, <1>7, <3>3, <4>1 DEF Hung, Hangs
    <3>. QED
      BY <3>1, <3>2, <3>3
  <2>2. ASSUME NEW s \in PageSessions PROVE base.roots[s] = Page!SetToBag(AtTop(D, UpOf(m), s))
    <3>1. AtTop(D, UpOf(m), s) = AtTop(Page!Dom(m), UpOf(m), s)
      BY <1>1, <1>3, <1>9 DEF D, AtTop, H
    <3>. QED
      BY <1>1, <1>7, <3>1 DEF Hung, Hangs
  <2>3. ASSUME NEW p \in Page!Keys PROVE base.pending[p] = Under(D, PendOf(m), p)
    <3>1. Under(D, PendOf(m), p) = Under(Page!Dom(m), PendOf(m), p)
      BY <1>1, <1>3, <1>8, <1>9 DEF D, Under, H
    <3>. QED
      BY <1>1, <1>7, <3>1 DEF Hung, Hangs
  <2>. QED
    BY <2>1, <2>2, <2>3 DEF Hangs
<1>11. n \in Models /\ Alike(base, n) /\ Hangs(n, D \ {k}, UpOf(m), PendOf(m))
  <2> DEFINE e == m.rows[k]
  <2>1. e \in Entry /\ UpOf(m)[k] = e.up /\ PendOf(m)[k] = e.pend /\ D \in SUBSET Page!Keys
    BY <1>1, <1>3, RowTypes DEF D
  <2>2. UpOf(m) \in [Page!Keys -> Parents] /\ PendOf(m) \in [Page!Keys -> Parents]
    BY <1>1, AboveType
  <2>3. n = Page!DetachEntry(base, k, e)
    BY DEF Cut, base
  <2> HIDE DEF e, n
  <2>. QED
    BY <1>7, <1>10, <2>1, <2>2, <2>3, Detached
<1>12. D \ {k} = Outside(m, k)
  BY DEF D, Outside, H
<1> HIDE DEF n
<1>13. /\ \A x \in Page!Keys \ (leaves \cup {k}) : SameEntry(m.rows[x], n.rows[x])
       /\ \A x \in leaves \cup {k} : Nowhere(x, n)
  BY <1>3, <1>4, <1>7, <1>11 DEF Alike, SameEntry, Page!NoRow, Nowhere
<1>14. \A x, y : <<x, y>> \in od <=> <<x, y>> \in m.older /\ k # x /\ k # y
  BY DEF od
<1>15. \A x \in Page!Keys : n.orphans[x] = IF x \in leaves THEN None ELSE m.orphans[x]
  BY <1>5, <1>7, <1>11 DEF Alike
<1>16. n.sess = m.sess /\ n.cache = m.cache /\ n.older = od
  BY <1>7, <1>11 DEF Alike, SameRest
<1>. QED
  BY <1>11, <1>12, <1>13, <1>14, <1>15, <1>16 DEF n, leaves

(* The children of an agent that goes become roots that wait for it.       *)
Relinked(m, k) ==
  LET cut == Cut(m, k)
      rest == RestOf(m, k)
  IN  [cut EXCEPT !.rows = [kid \in Page!Keys |-> IF kid \in rest THEN [cut.rows[kid] EXCEPT !.up = None, !.pend = k]
                                              ELSE cut.rows[kid]],
                  !.pending = [p \in Page!Keys |-> IF p = k THEN cut.pending[p] \cup rest
                                                   ELSE cut.pending[p] \ {kid \in rest : m.rows[kid].pend = p}],
                  !.roots[k[1]] = Page!(+)(@, Page!SetToBag({kid \in rest : ~Page!BagIn(kid, @)}))]

(* removeRealAgent, its second half: the children become roots that wait   *)
(* for the agent that went.                                                *)
LEMMA Relinking ==
  ASSUME NEW m, Sound(m), NEW k \in Page!Keys, m.rows[k].kind = "agent"
  PROVE  LET n == Relinked(m, k) IN
         /\ Sound(n) /\ n.sess = m.sess /\ n.cache = m.cache
         /\ Said(n) = [Said(m) EXCEPT ![k] = None] /\ Apart(m, n, k[1])
         /\ Page!RealRows(n) = Page!RealRows(m) \ {k}
         /\ \A x \in Page!RealRows(n) :
              /\ n.rows[x].said = m.rows[x].said
              /\ m.rows[x].up = k => n.rows[x].pend = k
              /\ m.rows[x].up # k => n.rows[x].up = m.rows[x].up /\ n.rows[x].pend = m.rows[x].pend
<1> DEFINE H == KidsOf(m, k)
           leaves == LeavesOf(m, k)
           rest == RestOf(m, k)
           E == Outside(m, k)
           cut == Cut(m, k)
           child(kid) == [cut.rows[kid] EXCEPT !.up = None, !.pend = k]
           r == [kid \in Page!Keys |-> IF kid \in rest THEN child(kid) ELSE cut.rows[kid]]
           w == [p \in Page!Keys |-> IF p = k THEN cut.pending[p] \cup rest
                                     ELSE cut.pending[p] \ {kid \in rest : m.rows[kid].pend = p}]
           new == {kid \in rest : ~Page!BagIn(kid, cut.roots[k[1]])}
           B == Page!(+)(cut.roots[k[1]], Page!SetToBag(new))
           t == [cut.roots EXCEPT ![k[1]] = B]
           T == AtTop(E, UpOf(m), k[1])
           n == Relinked(m, k)
<1>1. /\ m \in Models /\ Rooted(UpOf(m)) /\ Shelved(m) /\ Ordered(m) /\ Known(m)
      /\ \A x \in Page!Keys : RowIsSound(m, x)
      /\ None \notin Page!Keys /\ k[1] \in PageSessions
  BY PageAssumption DEF Sound, Page!Keys
<1>2. /\ cut \in Models /\ Hangs(cut, E, UpOf(m), PendOf(m))
      /\ \A x \in Page!Keys : x \notin leaves /\ x # k => SameEntry(m.rows[x], cut.rows[x])
      /\ \A x \in leaves : Nowhere(x, cut)
      /\ Nowhere(k, cut)
      /\ cut.sess = m.sess /\ cut.cache = m.cache
      /\ \A x, y : <<x, y>> \in cut.older <=> <<x, y>> \in m.older /\ k # x /\ k # y
      /\ \A x \in Page!Keys : cut.orphans[x] = IF x \in leaves THEN None ELSE m.orphans[x]
  BY Uprooted
<1>3. n = [cut EXCEPT !.rows = r, !.pending = w, !.roots = t]
  BY DEF Relinked
<1> HIDE DEF cut
<1>4. /\ H \subseteq Page!Dom(m) /\ Page!Dom(m) \subseteq Page!Keys /\ \A x \in H : m.rows[x].up = k
      /\ k \notin H
  <2>1. H \subseteq Page!Dom(m) /\ Page!Dom(m) \subseteq Page!Keys /\ \A x \in H : m.rows[x].up = k
    BY RowTypes, <1>1 DEF Under, Page!Dom, KidsOf
  <2>2. m.rows[k].up # k
    BY <1>1, CandidateFacts DEF RowIsSound
  <2>. QED
    BY <2>1, <2>2
<1>b. /\ \A x : x \in leaves <=> x \in H /\ m.rows[x].kind = "leaf"
      /\ \A x : x \in rest <=> x \in H /\ m.rows[x].kind = "agent"
      /\ E = Page!Dom(m) \ (H \cup {k})
  BY DEF LeavesOf, RestOf, Outside
<1> HIDE DEF H, leaves, rest, E
<1>5. ASSUME NEW x \in rest
      PROVE  x \in Page!Keys /\ x \notin leaves \cup {k} /\ m.rows[x].kind = "agent" /\ m.rows[x].up = k
             /\ m.rows[x].pend = None /\ Page!Candidate(m.rows[x].said) = k /\ x[1] = k[1] /\ x \notin E
  <2>1. x \in Page!Keys /\ m.rows[x].kind = "agent" /\ m.rows[x].up = k /\ x # k /\ RowIsSound(m, x) /\ x \in H
    BY <1>1, <1>4, <1>b
  <2>2. m.rows[x].pend = None /\ Page!Candidate(m.rows[x].said) = k /\ m.rows[x].said \in Frames
        /\ Page!KeyOf(m.rows[x].said) = x
    BY <1>1, <2>1 DEF RowIsSound
  <2>. QED
    BY <1>1, <1>b, <2>1, <2>2, CandidateFacts
<1>6. ASSUME NEW x \in Page!Dom(m), m.rows[x].up = k PROVE x \in leaves \cup rest
  <2>1. x \in H /\ m.rows[x].kind \in {"leaf", "agent"}
    BY <1>1, <1>4, <1>6, RowTypes DEF Under, Page!Dom, H, KidsOf
  <2>. QED
    BY <1>b, <2>1
<1>7. E \in SUBSET Page!Keys
  BY <1>4, <1>b
<1>8. T \in SUBSET Page!Keys /\ T \cap rest = {} /\ cut.roots[k[1]] = Page!SetToBag(T)
  <2>1. cut.roots[k[1]] = Page!SetToBag(T)
    BY <1>1, <1>2 DEF Hangs
  <2>2. T \subseteq E
    BY DEF AtTop
  <2> HIDE DEF T
  <2>. QED
    BY <1>5, <1>7, <2>1, <2>2
<1> HIDE DEF T
<1>9. new = rest
  <2>1. \A x \in rest : ~Page!BagIn(x, cut.roots[k[1]])
    BY <1>8, MemberBag
  <2>. QED
    BY <2>1
<1>10. B = Page!SetToBag(T \cup rest) /\ B \in Lists
  <2>1. rest \in SUBSET Page!Keys
    BY <1>5
  <2>. QED
    BY <1>8, <1>9, <2>1, JoinBag
<1> HIDE DEF B, Lists
<1>11. /\ r \in [Page!Keys -> Entry]
       /\ \A x \in Page!Keys : /\ r[x].kind = cut.rows[x].kind /\ r[x].said = cut.rows[x].said
                               /\ r[x].hash = cut.rows[x].hash /\ r[x].status = cut.rows[x].status
                               /\ r[x].up = (IF x \in rest THEN None ELSE cut.rows[x].up)
                               /\ r[x].pend = (IF x \in rest THEN k ELSE cut.rows[x].pend)
                               /\ r[x].kids = cut.rows[x].kids
  <2>1. ASSUME NEW x \in Page!Keys
        PROVE  /\ child(x) \in Entry /\ child(x).kind = cut.rows[x].kind /\ child(x).said = cut.rows[x].said
               /\ child(x).hash = cut.rows[x].hash /\ child(x).status = cut.rows[x].status
               /\ child(x).up = None /\ child(x).pend = k /\ child(x).kids = cut.rows[x].kids
    <3>1. cut.rows[x] \in Entry /\ None \in Parents /\ k \in Parents
      BY <1>2, RowTypes DEF Parents
    <3>. QED
      BY <3>1 DEF Entry
  <2>2. cut.rows \in [Page!Keys -> Entry]
    BY <1>2 DEF Models
  <2> HIDE DEF child
  <2>. QED
    BY <2>1, <2>2
<1>12. /\ w \in [Page!Keys -> SUBSET Page!Keys]
       /\ \A p \in Page!Keys : w[p] = IF p = k THEN cut.pending[p] \cup rest ELSE cut.pending[p]
  <2>1. cut.pending \in [Page!Keys -> SUBSET Page!Keys]
    BY <1>2 DEF Models
  <2>2. \A p \in Page!Keys : {kid \in rest : m.rows[kid].pend = p} = {}
    BY <1>1, <1>5
  <2>3. rest \in SUBSET Page!Keys
    BY <1>5
  <2>. QED
    BY <2>1, <2>2, <2>3
<1>13. /\ t \in [PageSessions -> Lists]
       /\ \A s \in PageSessions : t[s] = IF s = k[1] THEN B ELSE cut.roots[s]
  <2>1. cut.roots \in [PageSessions -> Lists]
    BY <1>2 DEF Models
  <2>. QED
    BY <1>1, <1>10, <2>1
<1> HIDE DEF r, w, t, n
<1>14. /\ n \in Models /\ n.rows = r /\ n.pending = w /\ n.roots = t /\ n.orphans = cut.orphans
       /\ n.sess = m.sess /\ n.cache = m.cache /\ n.older = cut.older
  BY <1>2, <1>3, <1>11, <1>12, <1>13 DEF Models
<1>15. ASSUME NEW x \in Page!Keys, x \in leaves \/ x = k PROVE Nowhere(x, n)
  <2>1. x \notin rest /\ Nowhere(x, cut)
    BY <1>2, <1>5, <1>15
  <2>. QED
    BY <1>11, <1>14, <2>1 DEF Nowhere
<1>16. ASSUME NEW x \in rest
       PROVE  /\ n.rows[x].kind = "agent" /\ n.rows[x].said = m.rows[x].said /\ n.rows[x].hash = m.rows[x].hash
              /\ n.rows[x].up = None /\ n.rows[x].pend = k
  <2>1. x \in Page!Keys /\ SameEntry(m.rows[x], cut.rows[x])
    BY <1>2, <1>5
  <2>. QED
    BY <1>5, <1>11, <1>14, <2>1 DEF SameEntry
<1>17. ASSUME NEW x \in Page!Keys, x \notin leaves, x \notin rest, x # k PROVE SameEntry(m.rows[x], n.rows[x])
  <2>1. SameEntry(m.rows[x], cut.rows[x])
    BY <1>2, <1>17
  <2>. QED
    BY <1>11, <1>14, <1>17, <2>1 DEF SameEntry
<1>18. Page!Dom(n) = E \cup rest /\ Page!RealRows(n) = Page!RealRows(m) \ {k}
  <2>1. ASSUME NEW x \in Page!Keys PROVE x \in Page!Dom(n) <=> x \in E \cup rest
    <3>1. CASE x \in leaves \cup {k}
      BY <1>4, <1>5, <1>b, <1>15, <3>1 DEF Page!Dom, Nowhere
    <3>2. CASE x \in rest
      BY <1>5, <1>16, <3>2 DEF Page!Dom
    <3>3. CASE x \notin leaves \cup rest \cup {k}
      <4>1. x \in Page!Dom(m) => x \notin H
        BY <1>4, <1>6, <3>3
      <4>. QED
        BY <1>b, <1>17, <3>3, <4>1 DEF Page!Dom, SameEntry
    <3>. QED
      BY <3>1, <3>2, <3>3
  <2>2. ASSUME NEW x \in Page!Keys PROVE x \in Page!RealRows(n) <=> x \in Page!RealRows(m) \ {k}
    <3>1. CASE x \in leaves \cup {k}
      BY <1>15, <1>b, <3>1 DEF Page!RealRows, Nowhere
    <3>2. CASE x \in rest
      BY <1>5, <1>16, <3>2 DEF Page!RealRows
    <3>3. CASE x \notin leaves \cup rest \cup {k}
      BY <1>17, <3>3 DEF Page!RealRows, SameEntry
    <3>. QED
      BY <3>1, <3>2, <3>3
  <2>3. rest \subseteq Page!Keys
    BY <1>5
  <2>. QED
    BY <1>7, <2>1, <2>2, <2>3 DEF Page!Dom, Page!RealRows
<1>19. \A x \in E : x \in Page!Keys /\ x \notin leaves /\ x \notin rest /\ x # k /\ x \in Page!Dom(m)
  BY <1>4, <1>b
<1>20. /\ \A x \in E : UpOf(n)[x] = UpOf(m)[x] /\ PendOf(n)[x] = PendOf(m)[x]
       /\ \A x \in rest : UpOf(n)[x] = None /\ PendOf(n)[x] = k /\ x[1] = k[1]
  BY <1>5, <1>16, <1>17, <1>19 DEF UpOf, PendOf, SameEntry
<1>21. Hung(n, Page!Dom(n))
  <2>1. ASSUME NEW p \in Page!Keys PROVE n.rows[p].kids = Page!SetToBag(Under(Page!Dom(n), UpOf(n), p))
    <3>1. Under(Page!Dom(n), UpOf(n), p) = Under(E, UpOf(m), p)
      BY <1>1, <1>18, <1>20 DEF Under
    <3>. QED
      BY <1>2, <1>11, <1>14, <3>1 DEF Hangs
  <2>2. ASSUME NEW s \in PageSessions PROVE n.roots[s] = Page!SetToBag(AtTop(Page!Dom(n), UpOf(n), s))
    <3>1. CASE s = k[1]
      <4>1. AtTop(Page!Dom(n), UpOf(n), s) = T \cup rest
        BY <1>18, <1>20, <3>1 DEF AtTop, T
      <4>. QED
        BY <1>10, <1>13, <1>14, <3>1, <4>1
    <3>2. CASE s # k[1]
      <4>1. AtTop(Page!Dom(n), UpOf(n), s) = AtTop(E, UpOf(m), s)
        BY <1>18, <1>20, <3>2 DEF AtTop
      <4>. QED
        BY <1>2, <1>13, <1>14, <3>2, <4>1 DEF Hangs
    <3>. QED
      BY <3>1, <3>2
  <2>3. ASSUME NEW p \in Page!Keys PROVE n.pending[p] = Under(Page!Dom(n), PendOf(n), p)
    <3>1. CASE p = k
      <4>1. Under(Page!Dom(n), PendOf(n), p) = Under(E, PendOf(m), p) \cup rest
        BY <1>18, <1>20, <3>1 DEF Under
      <4>. QED
        BY <1>2, <1>12, <1>14, <3>1, <4>1 DEF Hangs
    <3>2. CASE p # k
      <4>1. Under(Page!Dom(n), PendOf(n), p) = Under(E, PendOf(m), p)
        BY <1>18, <1>20, <3>2 DEF Under
      <4>. QED
        BY <1>2, <1>12, <1>14, <3>2, <4>1 DEF Hangs
    <3>. QED
      BY <3>1, <3>2
  <2>. QED
    BY <2>1, <2>2, <2>3 DEF Hung, Hangs
<1>22. Rooted(UpOf(n))
  <2>1. UpOf(m) \in [Page!Keys -> Parents] /\ UpOf(n) \in [Page!Keys -> Parents]
    BY <1>1, <1>14, AboveType
  <2>2. \A x \in Page!Keys : UpOf(m)[x] \in Page!Keys \cup {None}
    BY <2>1 DEF Parents
  <2>3. ASSUME NEW x \in Page!Keys PROVE UpOf(n)[x] = UpOf(m)[x] \/ UpOf(n)[x] = None
    BY <1>15, <1>16, <1>17 DEF UpOf, SameEntry, Nowhere
  <2>. QED
    BY <1>1, <2>1, <2>2, <2>3, Regraft
<1>23. ASSUME NEW x \in Page!Keys PROVE RowIsSound(n, x)
  <2>0. RowIsSound(m, x)
    BY <1>1
  <2>1. CASE x \in leaves \/ x = k
    BY <1>15, <2>1 DEF RowIsSound, Nowhere
  <2>2. CASE x \in rest
    BY <1>1, <1>5, <1>16, <2>0, <2>2 DEF RowIsSound
  <2>3. CASE x \notin leaves /\ x \notin rest /\ x # k
    <3>1. SameEntry(m.rows[x], n.rows[x])
      BY <1>17, <2>3
    <3>2. m.rows[x].kind # "none" => m.rows[x].up # k
      BY <1>6, <2>3 DEF Page!Dom
    <3>. QED
      BY <1>18, <2>0, <3>1, <3>2 DEF RowIsSound, SameEntry
  <2>. QED
    BY <2>1, <2>2, <2>3
<1>24. Shelved(n)
  <2> SUFFICES ASSUME NEW x \in Page!Keys
               PROVE n.orphans[x] = IF n.rows[x].kind = "leaf" THEN n.rows[x].up ELSE None
    BY DEF Shelved
  <2>0. m.orphans[x] = IF m.rows[x].kind = "leaf" THEN m.rows[x].up ELSE None
    BY <1>1 DEF Shelved
  <2>a. n.orphans[x] = IF x \in leaves THEN None ELSE m.orphans[x]
    BY <1>2, <1>14
  <2>1. CASE x \in leaves \/ x = k
    BY <1>15, <2>0, <2>1, <2>a DEF Nowhere
  <2>2. CASE x \in rest
    BY <1>5, <1>16, <2>0, <2>2, <2>a
  <2>3. CASE x \notin leaves /\ x \notin rest /\ x # k
    BY <1>17, <2>0, <2>3, <2>a DEF SameEntry
  <2>. QED
    BY <2>1, <2>2, <2>3
<1>25. Ordered(n)
  BY <1>1, <1>2, <1>14, <1>18 DEF Ordered
<1>26. Known(n)
  BY <1>1, <1>5, <1>14, <1>18, <1>19, <1>b, <1>4 DEF Known
<1>27. Said(n) = [Said(m) EXCEPT ![k] = None]
  <2>1. ASSUME NEW x \in Page!Keys PROVE n.rows[x].said = IF x = k THEN None ELSE m.rows[x].said
    <3>1. CASE x \in leaves \/ x = k
      BY <1>1, <1>b, <1>15, <3>1 DEF RowIsSound, Nowhere
    <3>2. CASE x \in rest
      BY <1>5, <1>16, <3>2
    <3>3. CASE x \notin leaves /\ x \notin rest /\ x # k
      BY <1>17, <3>3 DEF SameEntry
    <3>. QED
      BY <3>1, <3>2, <3>3
  <2>. QED
    BY <2>1 DEF Said
<1>28. Apart(m, n, k[1])
  <2>1. \A x \in leaves : x[1] = k[1]
    BY <1>1, <1>4, <1>b DEF RowIsSound, Page!Dom
  <2>2. ASSUME NEW x \in Page!Keys, x[1] # k[1]
        PROVE n.rows[x].kind = m.rows[x].kind /\ n.rows[x].hash = m.rows[x].hash /\ x # k
    BY <1>5, <1>17, <2>1, <2>2 DEF SameEntry
  <2>. QED
    BY <1>2, <1>14, <2>2 DEF Apart
<1>29. ASSUME NEW x \in Page!RealRows(n)
       PROVE  /\ n.rows[x].said = m.rows[x].said
              /\ m.rows[x].up = k => n.rows[x].pend = k
              /\ m.rows[x].up # k => n.rows[x].up = m.rows[x].up /\ n.rows[x].pend = m.rows[x].pend
  <2>1. x \in Page!Keys /\ x \notin leaves /\ x # k /\ x \in Page!Dom(m)
    BY <1>18, <1>b DEF Page!RealRows, Page!Dom
  <2>2. CASE x \in rest
    BY <1>5, <1>16, <2>2
  <2>3. CASE x \notin rest
    BY <1>6, <1>17, <2>1, <2>3 DEF SameEntry
  <2>. QED
    BY <2>2, <2>3
<1>. QED
  BY <1>14, <1>18, <1>21, <1>22, <1>23, <1>24, <1>25, <1>26, <1>27, <1>28, <1>29 DEF Sound, n

(* The same rows, in the same order: nothing of the tree is touched.       *)
SameTree(m, n) ==
  /\ n.rows = m.rows /\ n.older = m.older /\ n.roots = m.roots
  /\ n.pending = m.pending /\ n.orphans = m.orphans

(* A step of the sessions and of the cache moves no row.                   *)
LEMMA TreeKept ==
  ASSUME NEW m, NEW n, SameTree(m, n)
  PROVE  /\ Said(n) = Said(m) /\ Page!RealRows(n) = Page!RealRows(m) /\ Page!Dom(n) = Page!Dom(m)
         /\ Waiting(m) => Waiting(n)
         /\ Placed(m) => Placed(n)
<1>1. Said(n) = Said(m) /\ Page!RealRows(n) = Page!RealRows(m) /\ Page!Dom(n) = Page!Dom(m)
  BY DEF SameTree, Said, Page!RealRows, Page!Dom
<1>. QED
  BY <1>1 DEF SameTree, Waiting, Placed

(* A cached directory is dropped, or read again.                           *)
LEMMA Cached ==
  ASSUME NEW m, Sound(m), NEW s \in PageSessions, NEW v \in Dirs \cup Hashes \cup {"unread"}
  PROVE  LET n == [m EXCEPT !.cache[s] = v] IN
         /\ Sound(n) /\ SameTree(m, n) /\ n.sess = m.sess /\ Apart(m, n, s)
         /\ n.cache[s] = v /\ \A t \in PageSessions \ {s} : n.cache[t] = m.cache[t]
<1> DEFINE h == [m.cache EXCEPT ![s] = v]
           C == Dirs \cup Hashes \cup {"unread"}
           n == [m EXCEPT !.cache[s] = v]
<1>1. m \in Models /\ m.cache \in [PageSessions -> C] /\ Known(m)
  BY DEF Sound, Models
<1>2. n = [m EXCEPT !.cache = h]
  OBVIOUS
<1> HIDE DEF C, n
<1>3. h \in [PageSessions -> C] /\ h[s] = v /\ \A t \in PageSessions \ {s} : h[t] = m.cache[t]
  BY <1>1 DEF C
<1> HIDE DEF h
<1>4. n \in Models /\ SameTree(m, n) /\ n.sess = m.sess /\ n.cache = h
  BY <1>1, <1>2, <1>3 DEF Models, SameTree, C
<1>5. \A x \in Page!Dom(m) : n.sess[x[1]].known
  BY <1>1, <1>4 DEF Known
<1>6. Sound(n)
  BY <1>4, <1>5, SoundSame DEF SameTree
<1>7. Apart(m, n, s)
  BY <1>3, <1>4 DEF Apart, SameTree
<1>. QED
  BY <1>3, <1>4, <1>6, <1>7 DEF n

(* invalidateDirCache.                                                     *)
LEMMA Unread ==
  ASSUME NEW m, Sound(m), NEW s \in PageSessions
  PROVE  LET n == Page!InvalidateDirCache(m, s) IN
         /\ Sound(n) /\ SameTree(m, n) /\ n.sess = m.sess /\ Apart(m, n, s) /\ n.cache[s] = "unread"
<1> DEFINE n == [m EXCEPT !.cache[s] = "unread"]
<1>1. /\ Sound(n) /\ SameTree(m, n) /\ n.sess = m.sess /\ Apart(m, n, s) /\ n.cache[s] = "unread"
  <2>1. "unread" \in Dirs \cup Hashes \cup {"unread"}
    OBVIOUS
  <2>. QED
    BY <2>1, Cached
<1>. QED
  BY <1>1 DEF Page!InvalidateDirCache

(* A session record is replaced, and the directory dropped.                *)
SessRow == [known : BOOLEAN, gone : BOOLEAN, dir : Dirs]
WithSession(m, s, e) == [m EXCEPT !.sess[s] = e, !.cache[s] = "unread"]

(* A session's row is replaced: it stays known unless it has no rows.      *)
LEMMA PutSession ==
  ASSUME NEW m, Sound(m), NEW s \in PageSessions, NEW e \in SessRow,
         e.known \/ \A x \in Page!Dom(m) : x[1] # s
  PROVE  LET n == WithSession(m, s, e) IN
         Sound(n) /\ SameTree(m, n) /\ Apart(m, n, s) /\ n.cache[s] = "unread"
<1> DEFINE h == [m.cache EXCEPT ![s] = "unread"]
           r == [m.sess EXCEPT ![s] = e]
           C == Dirs \cup Hashes \cup {"unread"}
           n == WithSession(m, s, e)
<1>1. m \in Models /\ m.cache \in [PageSessions -> C] /\ m.sess \in [PageSessions -> SessRow] /\ Known(m)
  BY DEF Sound, Models, SessRow
<1>2. n = [m EXCEPT !.sess = r, !.cache = h]
  BY DEF WithSession
<1> HIDE DEF C, n
<1>3. h \in [PageSessions -> C] /\ h[s] = "unread" /\ \A t \in PageSessions \ {s} : h[t] = m.cache[t]
  BY <1>1 DEF C
<1>4. r \in [PageSessions -> SessRow] /\ r[s] = e /\ \A t \in PageSessions \ {s} : r[t] = m.sess[t]
  BY <1>1 DEF SessRow
<1> HIDE DEF h, r
<1>5. n \in Models /\ SameTree(m, n) /\ n.sess = r /\ n.cache = h
  BY <1>1, <1>2, <1>3, <1>4 DEF Models, SameTree, C, SessRow
<1>6. ASSUME NEW x \in Page!Dom(m) PROVE n.sess[x[1]].known
  <2>1. x[1] \in PageSessions /\ m.sess[x[1]].known
    BY <1>1 DEF Known, Page!Dom, Page!Keys
  <2>2. CASE x[1] = s
    BY <1>4, <1>5, <2>2
  <2>3. CASE x[1] # s
    BY <1>4, <1>5, <2>1, <2>3
  <2>. QED
    BY <2>2, <2>3
<1>7. Sound(n)
  BY <1>5, <1>6, SoundSame DEF SameTree
<1>8. Apart(m, n, s)
  BY <1>3, <1>4, <1>5 DEF Apart, SameTree
<1>. QED
  BY <1>3, <1>5, <1>7, <1>8 DEF n

(* upsertSession.                                                          *)
LEMMA SessionUpserted ==
  ASSUME NEW m, Sound(m), NEW r \in Rows
  PROVE  LET n == Page!UpsertSession(m, r) IN
         Sound(n) /\ SameTree(m, n) /\ Apart(m, n, r.s) /\ n.cache[r.s] = "unread"
<1> DEFINE s == r.s
           e == [m.sess[s] EXCEPT !.known = TRUE, !.gone = FALSE, !.dir = IF r.dir = None THEN @ ELSE r.dir]
           n == Page!UpsertSession(m, r)
<1>1. s \in PageSessions /\ r.dir \in Dirs
  BY PageAssumption DEF Dirs
<1>2. m \in Models /\ m.sess \in [PageSessions -> SessRow] /\ m.sess[s] \in SessRow
  BY <1>1 DEF Sound, Models, SessRow
<1>3. e \in SessRow /\ e.known
  BY <1>1, <1>2 DEF SessRow
<1>4. n = WithSession(m, s, e)
  <2> DEFINE f == [m.sess[s] EXCEPT !.known = TRUE, !.gone = FALSE]
             o == Page!EnsureSession(m, s)
             q == [o EXCEPT !.sess[s].dir = IF r.dir = None THEN @ ELSE r.dir]
  <2>1. o = [m EXCEPT !.sess = [m.sess EXCEPT ![s] = f]]
    BY DEF Page!EnsureSession
  <2>2. f \in SessRow /\ e = [f EXCEPT !.dir = IF r.dir = None THEN f.dir ELSE r.dir]
    BY <1>2 DEF SessRow
  <2>3. o.sess[s] = f
    BY <1>1, <1>2, <2>1 DEF Sound, Models
  <2> HIDE DEF e, f, o
  <2>4. q = [o EXCEPT !.sess = [o.sess EXCEPT ![s] = e]]
    BY <2>2, <2>3
  <2> HIDE DEF q
  <2>5. [o.sess EXCEPT ![s] = e] = [m.sess EXCEPT ![s] = e] /\ o.cache = m.cache
    BY <1>1, <1>2, <2>1 DEF Sound, Models
  <2>6. q = [m EXCEPT !.sess = [m.sess EXCEPT ![s] = e]]
    BY <2>1, <2>4, <2>5
  <2>7. n = [q EXCEPT !.cache[s] = "unread"]
    BY DEF Page!UpsertSession, Page!InvalidateDirCache, q, o
  <2> HIDE DEF n
  <2>. QED
    BY <1>2, <2>6, <2>7 DEF WithSession, Models
<1> HIDE DEF e, n, s
<1>. QED
  BY <1>1, <1>3, <1>4, PutSession DEF n, s

(* A session without rows is dropped.                                      *)
LEMMA Dropped ==
  ASSUME NEW m, Sound(m), NEW s \in PageSessions, Page!RowsOf(m, s) = {}
  PROVE  LET n == Page!DropSession(m, s) IN
         Sound(n) /\ SameTree(m, n) /\ Apart(m, n, s) /\ n.cache[s] = "unread"
<1> DEFINE n == Page!DropSession(m, s)
           e == Page!NoSession
<1>1. m \in Models /\ m.roots[s] = Page!SetToBag(AtTop(Page!Dom(m), UpOf(m), s)) /\ m.roots \in [PageSessions -> Lists]
  BY DEF Sound, Hung, Hangs, Models
<1>2. \A x \in Page!Dom(m) : x[1] # s
  BY DEF Page!RowsOf
<1>3. AtTop(Page!Dom(m), UpOf(m), s) = {}
  BY <1>2 DEF AtTop
<1>4. m.roots[s] = Page!EmptyBag
  BY <1>1, <1>3, BagOfSet
<1>5. [m.roots EXCEPT ![s] = Page!EmptyBag] = m.roots
  BY <1>1, <1>4
<1>6. n = WithSession(m, s, e)
  <2>1. n = [m EXCEPT !.sess[s] = e, !.roots = m.roots, !.cache[s] = "unread"]
    BY <1>5 DEF Page!DropSession
  <2>. QED
    BY <1>1, <2>1 DEF Models, WithSession
<1>7. e \in SessRow
  BY DEF Page!NoSession, Dirs, SessRow
<1> HIDE DEF n, e
<1>. QED
  BY <1>2, <1>6, <1>7, PutSession DEF n

(* The session is reported gone.                                           *)
LEMMA SessionRemoved ==
  ASSUME NEW m, Sound(m), NEW s \in PageSessions
  PROVE  LET n == Page!RemoveSession(m, s) IN
         Sound(n) /\ SameTree(m, n) /\ (n = m \/ (Apart(m, n, s) /\ n.cache[s] = "unread"))
<1> DEFINE n == Page!RemoveSession(m, s)
<1>1. CASE ~m.sess[s].known
  BY <1>1 DEF Page!RemoveSession, SameTree
<1>2. CASE m.sess[s].known /\ Page!RowsOf(m, s) = {}
  <2>1. n = Page!DropSession(m, s)
    BY <1>2 DEF Page!RemoveSession
  <2> HIDE DEF n
  <2>. QED
    BY <1>2, <2>1, Dropped DEF n
<1>3. CASE m.sess[s].known /\ Page!RowsOf(m, s) # {}
  <2> DEFINE e == [m.sess[s] EXCEPT !.gone = TRUE]
    <2>1. m \in Models /\ m.sess \in [PageSessions -> SessRow] /\ m.sess[s] \in SessRow
    BY DEF Sound, Models, SessRow
  <2>2. e \in SessRow /\ e.known
    BY <1>3, <2>1 DEF SessRow
  <2>3. n = WithSession(m, s, e)
    BY <1>3, <2>1 DEF Page!RemoveSession, Page!InvalidateDirCache, Models, WithSession
  <2> HIDE DEF e, n
  <2>. QED
    BY <2>2, <2>3, PutSession DEF n
<1>. QED
  BY <1>1, <1>2, <1>3

(* removeAgent is the relinking, and a session without rows is dropped.    *)
LEMMA RemoveRealIs ==
  ASSUME NEW m, Sound(m), NEW k \in Page!Keys
  PROVE  Page!RemoveReal(m, k) = Page!PruneEmptySession(Relinked(m, k), k[1])
<1>1. Page!BagToSet(m.rows[k].kids) = KidsOf(m, k)
  <2> DEFINE H == KidsOf(m, k)
  <2>1. m.rows[k].kids = Page!SetToBag(H)
    BY DEF Sound, Hung, Hangs, KidsOf
  <2> HIDE DEF H
  <2>2. Page!BagToSet(m.rows[k].kids) = H
    BY <2>1, MemberBag
  <2>. QED
    BY <2>2 DEF H
<1>2. /\ {kid \in Page!BagToSet(m.rows[k].kids) : m.rows[kid].kind = "leaf"} = LeavesOf(m, k)
      /\ {kid \in Page!BagToSet(m.rows[k].kids) : m.rows[kid].kind = "agent"} = RestOf(m, k)
  BY <1>1 DEF LeavesOf, RestOf
<1>. QED
  BY <1>2, Zenon DEF Page!RemoveReal, Relinked, Cut, Base

(* pruneEmptySession.                                                      *)
LEMMA Pruned ==
  ASSUME NEW m, Sound(m), NEW s \in PageSessions, m.cache[s] = "unread"
  PROVE  LET n == Page!PruneEmptySession(m, s) IN
         Sound(n) /\ SameTree(m, n) /\ Apart(m, n, s) /\ n.cache[s] = "unread"
<1> DEFINE n == Page!PruneEmptySession(m, s)
<1>1. CASE Page!RowsOf(m, s) = {}
  <2>1. n = Page!DropSession(m, s)
    BY <1>1 DEF Page!PruneEmptySession
  <2> HIDE DEF n
  <2>. QED
    BY <1>1, <2>1, Dropped DEF n
<1>2. CASE Page!RowsOf(m, s) # {}
  BY <1>2 DEF Page!PruneEmptySession, SameTree, Apart
<1>. QED
  BY <1>1, <1>2

(* removeAgent: the agent is gone, whoever was under it waits for it.      *)
LEMMA Removed ==
  ASSUME NEW m, Sound(m), Waiting(m), NEW k \in Page!Keys
  PROVE  LET n == Page!RemoveAgent(m, k) IN
         /\ Sound(n) /\ Waiting(n) /\ Said(n) = [Said(m) EXCEPT ![k] = None]
         /\ Placed(m) => Placed(n)
         /\ n = m \/ (n.cache[k[1]] = "unread" /\ Apart(m, n, k[1]))
<1> DEFINE i == Page!InvalidateDirCache(m, k[1])
           n == Page!RemoveAgent(m, k)
<1>1. /\ k[1] \in PageSessions /\ m \in Models /\ m.rows[k].kind \in {"none", "leaf", "agent"}
      /\ \A x \in Page!Keys : RowIsSound(m, x)
  BY RowTypes DEF Sound
<1>2. /\ Sound(i) /\ SameTree(m, i) /\ i.sess = m.sess /\ Apart(m, i, k[1]) /\ i.cache[k[1]] = "unread"
  BY <1>1, Unread
<1> HIDE DEF i
<1>3. /\ Said(i) = Said(m) /\ Page!RealRows(i) = Page!RealRows(m) /\ i.rows = m.rows
      /\ Waiting(i) /\ (Placed(m) => Placed(i)) /\ \A x \in Page!Keys : RowIsSound(i, x)
  BY <1>2, TreeKept DEF SameTree, Sound
<1>4. CASE m.rows[k].kind = "none"
  <2>1. n = m
    BY <1>4 DEF Page!RemoveAgent
  <2>2. Said(m)[k] = None
    BY <1>1, <1>4 DEF Said, RowIsSound
  <2>3. [Said(m) EXCEPT ![k] = None] = Said(m)
    BY <2>2 DEF Said
  <2>. QED
    BY <2>1, <2>3
<1>5. CASE m.rows[k].kind = "leaf"
  <2>1. n = Page!RemoveOrphan(i, k)
    BY <1>5 DEF Page!RemoveAgent, i
  <2> HIDE DEF n
  <2>2. /\ Sound(n) /\ SameRest(i, n) /\ Page!RealRows(n) = Page!RealRows(i)
        /\ \A x \in Page!Keys \ {k} : SameEntry(i.rows[x], n.rows[x])
        /\ n.rows[k].kind = "none" /\ n.rows[k].said = None
    BY <1>2, <1>3, <1>5, <2>1, OrphanRemoved
  <2>3. \A x \in Page!RealRows(n) : SameEntry(i.rows[x], n.rows[x])
    BY <1>3, <1>5, <2>2 DEF Page!RealRows
  <2>4. Waiting(n) /\ (Placed(i) => Placed(n))
    BY <1>3, <2>2, <2>3 DEF Waiting, Placed, SameEntry
  <2>5. \A x \in Page!Keys : n.rows[x].said = IF x = k THEN None ELSE i.rows[x].said
    BY <2>2 DEF SameEntry
  <2>6. Said(n) = [Said(i) EXCEPT ![k] = None]
    BY <2>5 DEF Said
  <2>7. Apart(i, n, k[1])
    BY <2>2, SameIsApart
  <2>8. Apart(m, n, k[1])
    BY <1>2, <2>7, ApartTrans
  <2>. QED
    BY <1>2, <1>3, <2>2, <2>4, <2>6, <2>8 DEF SameRest, n
<1>6. CASE m.rows[k].kind = "agent"
  <2> DEFINE q == Relinked(i, k)
  <2>1. n = Page!PruneEmptySession(q, k[1])
    BY <1>2, <1>6, RemoveRealIs DEF Page!RemoveAgent, i
  <2>2. /\ Sound(q) /\ q.sess = i.sess /\ q.cache = i.cache
        /\ Said(q) = [Said(i) EXCEPT ![k] = None] /\ Apart(i, q, k[1])
        /\ Page!RealRows(q) = Page!RealRows(i) \ {k}
        /\ \A x \in Page!RealRows(q) :
              /\ q.rows[x].said = i.rows[x].said
              /\ i.rows[x].up = k => q.rows[x].pend = k
              /\ i.rows[x].up # k => q.rows[x].up = i.rows[x].up /\ q.rows[x].pend = i.rows[x].pend
    BY <1>2, <1>3, <1>6, Relinking
  <2> HIDE DEF q, n
  <2>3. /\ Sound(n) /\ SameTree(q, n) /\ Apart(q, n, k[1]) /\ n.cache[k[1]] = "unread"
    BY <1>1, <1>2, <2>1, <2>2, Pruned
  <2>4. Said(n) = Said(q) /\ (Waiting(q) => Waiting(n)) /\ (Placed(q) => Placed(n))
    BY <2>3, TreeKept
  <2>5. Waiting(q)
    BY <1>3, <2>2 DEF Waiting
  <2>6. ASSUME Placed(i) PROVE Placed(q)
    <3> SUFFICES ASSUME NEW x \in Page!RealRows(q), NEW cand, cand = Page!Candidate(q.rows[x].said), cand # None
                 PROVE  IF cand \in Page!RealRows(q) THEN q.rows[x].up = cand ELSE q.rows[x].pend = cand
      BY DEF Placed
    <3>1. /\ x \in Page!RealRows(i) /\ cand = Page!Candidate(i.rows[x].said)
          /\ IF cand \in Page!RealRows(i) THEN i.rows[x].up = cand ELSE i.rows[x].pend = cand
      BY <2>2, <2>6 DEF Placed
    <3>2. x \in Page!Keys /\ RowIsSound(i, x) /\ i.rows[x].kind = "agent" /\ k \in Page!RealRows(i)
      BY <1>3, <1>6, <3>1 DEF Page!RealRows
    <3>3. i.rows[x].up # None => i.rows[x].up = cand /\ i.rows[x].pend = None
      BY <3>1, <3>2 DEF RowIsSound
    <3>4. k # None
      BY RowTypes, <1>1
    <3>. QED
      BY <2>2, <3>1, <3>2, <3>3, <3>4
  <2>7. Apart(m, n, k[1])
    <3>1. Apart(m, q, k[1])
      BY <1>2, <2>2, ApartTrans
    <3>. QED
      BY <2>3, <3>1, ApartTrans
  <2>. QED
    BY <1>3, <2>2, <2>3, <2>4, <2>5, <2>6, <2>7 DEF n
<1>. QED
  BY <1>1, <1>4, <1>5, <1>6

(* The cached directories are what the rows say.                           *)
Fresh(m) == \A s \in PageSessions : m.cache[s] # "unread" => m.cache[s] = Page!DirKey(m, s)

(* A directory key is a directory, a hash or none.                         *)
LEMMA DirKeyType ==
  ASSUME NEW m \in Models, NEW s \in PageSessions
  PROVE  Page!DirKey(m, s) \in Dirs \cup Hashes \cup {"unread"}
<1>1. m.sess[s].dir \in Dirs
  BY DEF Models
<1>2. None \in Hashes
  BY DEF Hashes
<1>3. ASSUME Page!Oldest(m, s) # {} PROVE m.rows[CHOOSE k \in Page!Oldest(m, s) : TRUE].hash \in Hashes
  <2>1. (CHOOSE k \in Page!Oldest(m, s) : TRUE) \in Page!Oldest(m, s)
    BY <1>3
  <2>2. Page!Oldest(m, s) \subseteq Page!Keys
    BY DEF Page!Oldest, Page!RealRows
  <2>3. \A x \in Page!Keys : m.rows[x].hash \in Hashes
    BY DEF Models, Entry
  <2>. QED
    BY <2>1, <2>2, <2>3
<1>. QED
  BY <1>1, <1>2, <1>3 DEF Page!DirKey

(* The directory of a session is read from its own rows.                   *)
LEMMA DirKeyApart ==
  ASSUME NEW m, NEW n, NEW s \in PageSessions, n.sess[s] = m.sess[s],
         \A x \in Page!Keys : x[1] = s => n.rows[x].kind = m.rows[x].kind /\ n.rows[x].hash = m.rows[x].hash,
         \A x, y \in Page!Keys : x[1] = s /\ y[1] = s => (<<x, y>> \in n.older <=> <<x, y>> \in m.older)
  PROVE  Page!DirKey(n, s) = Page!DirKey(m, s)
<1> DEFINE hm == {k \in Page!RealRows(m) : k[1] = s /\ m.rows[k].hash # None}
           hn == {k \in Page!RealRows(n) : k[1] = s /\ n.rows[k].hash # None}
<1>1. hm = hn /\ \A x \in hm : x \in Page!Keys /\ x[1] = s
  BY DEF Page!RealRows
<1>2. Page!Oldest(m, s) = {k \in hm : \A j \in hm \ {k} : <<k, j>> \in m.older}
      /\ Page!Oldest(n, s) = {k \in hn : \A j \in hn \ {k} : <<k, j>> \in n.older}
  BY DEF Page!Oldest
<1> HIDE DEF hm, hn
<1>3. Page!Oldest(m, s) = Page!Oldest(n, s) /\ \A x \in Page!Oldest(m, s) : x \in hm
  BY <1>1, <1>2
<1>4. ASSUME Page!Oldest(m, s) # {}
      PROVE n.rows[CHOOSE k \in Page!Oldest(m, s) : TRUE].hash = m.rows[CHOOSE k \in Page!Oldest(m, s) : TRUE].hash
  <2>1. (CHOOSE k \in Page!Oldest(m, s) : TRUE) \in Page!Oldest(m, s)
    BY <1>4
  <2>. QED
    BY <1>1, <1>3, <2>1
<1>. QED
  BY <1>3, <1>4 DEF Page!DirKey

(* A step of one session that forgets its cache leaves no stale one.       *)
LEMMA FreshKept ==
  ASSUME NEW m, NEW n, NEW s \in PageSessions, Fresh(m), Apart(m, n, s), n.cache[s] = "unread"
  PROVE  Fresh(n)
<1> SUFFICES ASSUME NEW t \in PageSessions, n.cache[t] # "unread" PROVE n.cache[t] = Page!DirKey(n, t)
  BY DEF Fresh
<1>1. t # s /\ n.cache[t] = m.cache[t] /\ n.sess[t] = m.sess[t]
  BY DEF Apart
<1>2. Page!DirKey(n, t) = Page!DirKey(m, t)
  BY <1>1, DirKeyApart DEF Apart
<1>. QED
  BY <1>1, <1>2 DEF Fresh

(* sessionDirKey reads a directory, and keeps it.                          *)
LEMMA Touched ==
  ASSUME NEW m, Sound(m), NEW s \in PageSessions, Fresh(m)
  PROVE  LET n == Page!Touch(m, s) IN Sound(n) /\ SameTree(m, n) /\ Fresh(n)
<1> DEFINE v == IF m.cache[s] = "unread" THEN Page!DirKey(m, s) ELSE m.cache[s]
           n == [m EXCEPT !.cache[s] = v]
<1>1. Page!Touch(m, s) = n
  BY DEF Page!Touch, Page!SessionDirKey
<1>2. m \in Models /\ m.cache[s] \in Dirs \cup Hashes \cup {"unread"}
  BY DEF Sound, Models
<1>3. v \in Dirs \cup Hashes \cup {"unread"} /\ v = Page!DirKey(m, s)
  BY <1>2, DirKeyType DEF Fresh
<1> HIDE DEF v
<1>4. /\ Sound(n) /\ SameTree(m, n) /\ n.sess = m.sess
      /\ n.cache[s] = v /\ \A t \in PageSessions \ {s} : n.cache[t] = m.cache[t]
  BY <1>3, Cached
<1> HIDE DEF n
<1>5. \A t \in PageSessions : Page!DirKey(n, t) = Page!DirKey(m, t)
  BY <1>4, DirKeyApart DEF SameTree
<1>6. Fresh(n)
  BY <1>3, <1>4, <1>5 DEF Fresh
<1>. QED
  BY <1>1, <1>4, <1>6

(* The ancestors of a row: its parent, and that one's.                     *)
LEMMA AncestorsUnfold ==
  ASSUME NEW m \in Models, NEW x \in Page!Keys
  PROVE  /\ Page!Ancestors(m, x) \in SUBSET Page!Keys
         /\ m.rows[x].up = None => Page!Ancestors(m, x) = {}
         /\ m.rows[x].up # None => /\ m.rows[x].up \in Page!Keys
                                   /\ Page!Ancestors(m, x) = {m.rows[x].up} \cup Page!Ancestors(m, m.rows[x].up)
<1> DEFINE above == Page!Above(m)
           u == m.rows[x].up
<1>1. /\ above \in [Page!Keys -> SUBSET Page!Keys] /\ above[x] = {u} \ {None} /\ u \in Parents
      /\ \A y : Page!Ancestors(m, y) = Page!Reached(above[y], above)
  BY AboveType DEF Page!Ancestors
<1> HIDE DEF above, u
<1>2. above[x] \in SUBSET Page!Keys
  BY <1>1
<1>3. Page!Reached(above[x], above) \in SUBSET Page!Keys
      /\ \A C \in SUBSET Page!Keys : above[x] \subseteq C /\ (\A y \in C : above[y] \subseteq C) =>
           Page!Reached(above[x], above) \subseteq C
  BY <1>1, <1>2, ReachedIsLeast
<1>4. ASSUME u = None PROVE Page!Reached(above[x], above) = {}
  <2>1. above[x] = {} /\ {} \in SUBSET Page!Keys
    BY <1>1, <1>4
  <2>. QED
    BY <1>3, <2>1
<1>5. ASSUME u # None PROVE u \in Page!Keys /\ Page!Reached(above[x], above) = {u} \cup Page!Reached(above[u], above)
  <2>1. above[x] = {u} /\ u \in Page!Keys
    BY <1>1, <1>5 DEF Parents
  <2>2. Page!Reached({u}, above) = {u} \cup Page!Reached(above[u], above)
    BY <1>1, <2>1, ReachedUnfolds
  <2>. QED
    BY <2>1, <2>2
<1>. QED
  BY <1>1, <1>3, <1>4, <1>5 DEF u

(* No row is its own ancestor.                                             *)
LEMMA NoCircle ==
  ASSUME NEW m \in Models, Rooted(UpOf(m)), NEW k \in Page!Keys
  PROVE  k \notin Page!Ancestors(m, k)
<1> SUFFICES ASSUME k \in Page!Ancestors(m, k) PROVE FALSE
  OBVIOUS
<1> DEFINE C == {x \in Page!Keys : k \in Page!Ancestors(m, x)}
<1>1. C \in SUBSET Page!Keys /\ C # {}
  OBVIOUS
<1>2. ASSUME NEW x \in C PROVE UpOf(m)[x] \in C
  <2>1. k \in Page!Ancestors(m, x) /\ x \in Page!Keys
    OBVIOUS
  <2>2. m.rows[x].up # None
    BY <2>1, AncestorsUnfold
  <2>3. m.rows[x].up \in Page!Keys /\ (k = m.rows[x].up \/ k \in Page!Ancestors(m, m.rows[x].up))
    BY <2>1, <2>2, AncestorsUnfold
  <2>. QED
    BY <2>1, <2>3 DEF UpOf
<1> HIDE DEF C
<1>. QED
  BY <1>1, <1>2 DEF Rooted

(* Where a row's parent is.                                                *)
LEMMA ParentFacts ==
  ASSUME NEW m, Sound(m), NEW x \in Page!Keys
  PROVE  /\ m.rows[x].kind \in {"none", "leaf", "agent"}
         /\ m.rows[x].up # None => /\ m.rows[x].up \in Page!RealRows(m) /\ m.rows[x].up[1] = x[1]
                                   /\ m.rows[x].kind # "none" /\ m.rows[x].pend = None
         /\ m.rows[x].pend # None => m.rows[x].kind = "agent"
<1>1. m \in Models /\ RowIsSound(m, x)
  BY DEF Sound
<1>2. m.rows[x].kind \in {"none", "leaf", "agent"}
  BY <1>1, RowTypes
<1>3. ASSUME m.rows[x].kind = "agent", m.rows[x].up # None
      PROVE m.rows[x].up \in Page!RealRows(m) /\ m.rows[x].up[1] = x[1] /\ m.rows[x].pend = None
  <2>1. /\ m.rows[x].said \in Frames /\ Page!KeyOf(m.rows[x].said) = x
        /\ m.rows[x].up = Page!Candidate(m.rows[x].said) /\ m.rows[x].up \in Page!RealRows(m) /\ m.rows[x].pend = None
    BY <1>1, <1>3 DEF RowIsSound
  <2>. QED
    BY <1>3, <2>1, CandidateFacts
<1>. QED
  BY <1>1, <1>2, <1>3 DEF RowIsSound

(* A sound model is a tree as the page promises it.                        *)
LEMMA SoundIsTree ==
  ASSUME Sound(page) PROVE Page!TreeIsSound
<1> DEFINE D == Page!Dom(page)
           up == UpOf(page)
<1>1. /\ page \in Models /\ Rooted(up) /\ Shelved(page) /\ Ordered(page) /\ Known(page)
      /\ \A p \in Page!Keys : page.rows[p].kids = Page!SetToBag(Under(D, up, p))
      /\ \A s \in PageSessions : page.roots[s] = Page!SetToBag(AtTop(D, up, s))
      /\ \A p \in Page!Keys : page.pending[p] = Under(D, PendOf(page), p)
      /\ \A x \in Page!Keys : up[x] = page.rows[x].up /\ PendOf(page)[x] = page.rows[x].pend /\ x[1] \in PageSessions
      /\ None \notin Page!Keys
  BY RowTypes, PageAssumption DEF Sound, Hung, Hangs
<1>2. \A x : x \in D <=> x \in Page!Keys /\ page.rows[x].kind # "none"
  BY DEF Page!Dom
<1> HIDE DEF D, up
<1>3. \A p, x : x \in Under(D, up, p) <=> x \in D /\ page.rows[x].up = p
  BY <1>1, <1>2 DEF Under
<1>4. \A s, x : x \in AtTop(D, up, s) <=> x \in D /\ x[1] = s /\ page.rows[x].up = None
  BY <1>1, <1>2 DEF AtTop
<1>5. ASSUME NEW x \in D
      PROVE  /\ page.rows[x].up = None => Page!BagIn(x, page.roots[x[1]]) /\ page.roots[x[1]][x] = 1
             /\ page.rows[x].up # None => /\ page.rows[x].up \in D
                                          /\ Page!BagIn(x, page.rows[page.rows[x].up].kids)
                                          /\ page.rows[page.rows[x].up].kids[x] = 1
  <2>1. CASE page.rows[x].up = None
    <3> DEFINE H == AtTop(D, up, x[1])
    <3>1. page.roots[x[1]] = Page!SetToBag(H) /\ x \in H
      BY <1>1, <1>2, <1>4, <2>1
    <3> HIDE DEF H
    <3>2. Page!BagIn(x, Page!SetToBag(H)) /\ Page!SetToBag(H)[x] = 1
      BY <3>1, BagOfSet
    <3>. QED
      BY <2>1, <3>1, <3>2
  <2>2. CASE page.rows[x].up # None
    <3> DEFINE p == page.rows[x].up
               H == Under(D, up, p)
    <3>1. p \in Page!RealRows(page)
      BY <1>2, <2>2, ParentFacts
    <3>2. p \in D /\ p \in Page!Keys
      BY <1>2, <3>1 DEF Page!RealRows
    <3>3. page.rows[p].kids = Page!SetToBag(H) /\ x \in H
      BY <1>1, <1>3, <3>2
    <3> HIDE DEF H, p
    <3>4. Page!BagIn(x, Page!SetToBag(H)) /\ Page!SetToBag(H)[x] = 1
      BY <3>3, BagOfSet
    <3>. QED
      BY <2>2, <3>2, <3>3, <3>4 DEF p
  <2>. QED
    BY <2>1, <2>2
<1>6. ASSUME NEW p \in Page!Keys, NEW x \in Page!BagToSet(page.rows[p].kids) PROVE x \in D /\ page.rows[x].up = p
  <2> DEFINE H == Under(D, up, p)
  <2>1. page.rows[p].kids = Page!SetToBag(H)
    BY <1>1
  <2> HIDE DEF H
  <2>2. x \in H
    BY <1>6, <2>1, MemberBag
  <2>. QED
    BY <1>3, <2>2 DEF H
<1>7. ASSUME NEW s \in PageSessions, NEW x \in Page!BagToSet(page.roots[s]) PROVE x \in D /\ page.rows[x].up = None
  <2> DEFINE H == AtTop(D, up, s)
  <2>1. page.roots[s] = Page!SetToBag(H)
    BY <1>1
  <2> HIDE DEF H
  <2>2. x \in H
    BY <1>7, <2>1, MemberBag
  <2>. QED
    BY <1>4, <2>2 DEF H
<1>8. ASSUME NEW o \in Page!Keys, page.rows[o].kind = "leaf"
      PROVE page.rows[o].up # None /\ page.rows[o].kids = Page!EmptyBag
  <2>1. page.rows[o].up # None
    BY <1>1, <1>8 DEF Sound, RowIsSound, Page!RealRows
  <2>2. Under(D, up, o) = {}
    <3> SUFFICES ASSUME NEW x \in Under(D, up, o) PROVE FALSE
      OBVIOUS
    <3>1. x \in Page!Keys /\ page.rows[x].up = o /\ o # None
      BY <1>1, <1>2, <1>3
    <3>2. o \in Page!RealRows(page)
      BY <3>1, ParentFacts
    <3>. QED
      BY <1>8, <3>2 DEF Page!RealRows
  <2>. QED
    BY <1>1, <2>1, <2>2, BagOfSet
<1>9. ASSUME NEW p \in Page!Keys PROVE page.pending[p] = {k \in Page!RealRows(page) : page.rows[k].pend = p}
  <2>1. ASSUME NEW x PROVE x \in Under(D, PendOf(page), p) <=> x \in Page!RealRows(page) /\ page.rows[x].pend = p
    <3>1. x \in Under(D, PendOf(page), p) <=> x \in D /\ page.rows[x].pend = p
      BY <1>1, <1>2 DEF Under
    <3>2. x \in Page!Keys /\ page.rows[x].pend = p => page.rows[x].kind = "agent"
      BY <1>1, ParentFacts
    <3>. QED
      BY <1>2, <3>1, <3>2 DEF Page!RealRows
  <2>. QED
    BY <1>1, <2>1
<1>10. \A k \in Page!Keys : k \notin Page!Ancestors(page, k)
  BY <1>1, NoCircle DEF up
<1>. QED
  BY <1>1, <1>2, <1>5, <1>6, <1>7, <1>8, <1>9, <1>10 DEF Page!TreeIsSound, Shelved, Ordered, D

(* The walk from the roots reaches every row.                              *)
LEMMA SoundIsVisible ==
  ASSUME NEW m, Sound(m), NEW s \in PageSessions
  PROVE  /\ Page!Visited(m, s) = Page!RowsOf(m, s)
         /\ \A x \in Page!RowsOf(m, s) : Page!Ancestors(m, x) \subseteq Page!RowsOf(m, s)
<1> DEFINE D == Page!Dom(m)
           up == UpOf(m)
           step == [k \in Page!Keys |-> Page!BagToSet(m.rows[k].kids)]
           start == Page!BagToSet(m.roots[s])
           V == Page!Visited(m, s)
           R == Page!RowsOf(m, s)
<1>1. /\ m \in Models /\ Rooted(up)
      /\ \A p \in Page!Keys : m.rows[p].kids = Page!SetToBag(Under(D, up, p))
      /\ m.roots[s] = Page!SetToBag(AtTop(D, up, s))
      /\ \A x \in Page!Keys : up[x] = m.rows[x].up
      /\ None \notin Page!Keys
  BY RowTypes, PageAssumption DEF Sound, Hung, Hangs
<1>2. \A x : x \in D <=> x \in Page!Keys /\ m.rows[x].kind # "none"
  BY DEF Page!Dom
<1>3. \A x : x \in R <=> x \in D /\ x[1] = s
  BY DEF Page!RowsOf
<1>4. V = Page!Reached(start, step)
  BY DEF Page!Visited
<1> HIDE DEF D, up, R, V
<1>5. \A x : x \in start <=> x \in D /\ x[1] = s /\ m.rows[x].up = None
  <2> DEFINE H == AtTop(D, up, s)
  <2>1. \A x : x \in H <=> x \in D /\ x[1] = s /\ m.rows[x].up = None
    BY <1>1, <1>2 DEF AtTop
  <2> HIDE DEF H
  <2>2. start = H
    BY <1>1, MemberBag DEF H
  <2>. QED
    BY <2>1, <2>2
<1>6. ASSUME NEW p \in Page!Keys PROVE \A x : x \in step[p] <=> x \in D /\ m.rows[x].up = p
  <2> DEFINE H == Under(D, up, p)
  <2>1. \A x : x \in H <=> x \in D /\ m.rows[x].up = p
    BY <1>1, <1>2 DEF Under
  <2>2. m.rows[p].kids = Page!SetToBag(H)
    BY <1>1
  <2> HIDE DEF H
  <2>3. step[p] = H
    BY <2>2, MemberBag
  <2>. QED
    BY <2>1, <2>3
<1>7. start \in SUBSET Page!Keys /\ step \in [Page!Keys -> SUBSET Page!Keys]
  <2>1. step = [k \in Page!Keys |-> step[k]]
    OBVIOUS
  <2> HIDE DEF step, start
  <2>. QED
    BY <1>2, <1>5, <1>6, <2>1
<1> HIDE DEF start, step
<1>8. /\ V \in SUBSET Page!Keys /\ start \subseteq V /\ \A y \in V : step[y] \subseteq V
      /\ \A C \in SUBSET Page!Keys : start \subseteq C /\ (\A y \in C : step[y] \subseteq C) => V \subseteq C
  BY <1>4, <1>7, ReachedIsLeast
<1>9. \A x \in Page!Keys : m.rows[x].up # None =>
        m.rows[x].up \in D /\ m.rows[x].up[1] = x[1] /\ m.rows[x].up \in Page!Keys
  BY <1>2, ParentFacts DEF Page!RealRows
<1>10. V \subseteq R
  <2>1. R \in SUBSET Page!Keys /\ start \subseteq R
    BY <1>2, <1>3, <1>5
  <2>2. ASSUME NEW y \in R, NEW x \in step[y] PROVE x \in R
    <3>1. y \in Page!Keys /\ x \in D /\ x \in Page!Keys /\ m.rows[x].up = y /\ y # None /\ y[1] = s
      BY <1>1, <1>2, <1>3, <1>6, <2>2
    <3>. QED
      BY <1>3, <1>9, <3>1
  <2>. QED
    BY <1>8, <2>1, <2>2
<1>11. R \subseteq V
  <2> DEFINE B == R \ V
  <2> SUFFICES ASSUME B # {} PROVE FALSE
    OBVIOUS
  <2>1. B \in SUBSET Page!Keys
    BY <1>2, <1>3
  <2>2. PICK x \in B : up[x] \notin B
    BY <1>1, <2>1 DEF Rooted
  <2>3. x \in Page!Keys /\ x \in D /\ x[1] = s /\ x \notin V /\ up[x] = m.rows[x].up
    BY <1>1, <1>2, <1>3
  <2>4. m.rows[x].up # None
    BY <1>5, <1>8, <2>3
  <2>5. m.rows[x].up \in V /\ m.rows[x].up \in Page!Keys
    BY <1>3, <1>9, <2>2, <2>3, <2>4
  <2>6. x \in step[m.rows[x].up]
    BY <1>6, <2>3, <2>5
  <2>. QED
    BY <1>8, <2>3, <2>5, <2>6
<1>12. ASSUME NEW x \in R PROVE Page!Ancestors(m, x) \subseteq R
  <2>1. x \in Page!Keys /\ R \in SUBSET Page!Keys
    BY <1>2, <1>3
  <2>2. ASSUME NEW y \in R PROVE up[y] \in R \cup {None}
    BY <1>1, <1>2, <1>3, <1>9
  <2>3. {x} \cup Page!Ancestors(m, x) \subseteq R
    BY <1>1, <2>1, <2>2, AncestorsClosed DEF up
  <2>. QED
    BY <2>3
<1>. QED
  BY <1>10, <1>11, <1>12 DEF V, R

(* Every row is drawn, in one half of the table or in the other, and an    *)
(* active one with all its ancestors.                                      *)
LEMMA SoundHidesNothing ==
  ASSUME Sound(page) PROVE Page!NothingHidden
<1>1. page \in Models /\ \A k \in Page!Dom(page) : page.sess[k[1]].known
  BY DEF Sound, Known
<1>2. ASSUME NEW s \in PageSessions
      PROVE  /\ Page!ActiveSide(page, s) \cup Page!InactiveSide(page, s) = Page!RowsOf(page, s)
             /\ \A k \in Page!ActiveSide(page, s) : Page!Ancestors(page, k) \subseteq Page!ActiveSide(page, s)
  <2> DEFINE V == Page!Visited(page, s)
             R == Page!RowsOf(page, s)
             S == Page!Seeds(page, s)
             T == Page!ActiveSide(page, s)
  <2>1. V = R /\ \A x \in R : Page!Ancestors(page, x) \subseteq R
    BY SoundIsVisible
  <2>2. S \subseteq V /\ T = S \cup UNION {Page!Ancestors(page, k) : k \in S}
    BY DEF Page!Seeds, Page!ActiveSide
  <2>3. R \subseteq Page!Keys
    BY DEF Page!RowsOf, Page!Dom
  <2>4. Page!InactiveSide(page, s) = V \ T
    BY DEF Page!InactiveSide
  <2> HIDE DEF V, R, S, T
  <2>5. T \subseteq R
    BY <2>1, <2>2
  <2>6. ASSUME NEW k \in T PROVE Page!Ancestors(page, k) \subseteq T
    <3>1. CASE k \in S
      BY <2>2, <3>1
    <3>2. CASE k \notin S
      <4>1. PICK j \in S : k \in Page!Ancestors(page, j)
        BY <2>2, <3>2
      <4> DEFINE above == Page!Above(page)
                 A == Page!Reached(above[j], above)
      <4>2. above \in [Page!Keys -> SUBSET Page!Keys] /\ j \in Page!Keys /\ k \in Page!Keys
            /\ A = Page!Ancestors(page, j) /\ Page!Ancestors(page, k) = Page!Reached(above[k], above)
        BY <1>1, <2>1, <2>2, <2>3, <2>5, AboveType DEF Page!Ancestors
      <4> HIDE DEF above
      <4>3. above[j] \in SUBSET Page!Keys /\ above[k] \in SUBSET Page!Keys
        BY <4>2
      <4>4. A \in SUBSET Page!Keys /\ \A y \in A : above[y] \subseteq A
        BY <4>2, <4>3, ReachedIsLeast
      <4> HIDE DEF A
      <4>5. above[k] \subseteq A
        BY <4>1, <4>2, <4>4
      <4>6. Page!Reached(above[k], above) \subseteq A
        BY <4>2, <4>3, <4>4, <4>5, ReachedIsLeast
      <4>. QED
        BY <2>2, <4>2, <4>6
    <3>. QED
      BY <3>1, <3>2
  <2>. QED
    BY <2>1, <2>4, <2>5, <2>6 DEF T, R
<1>. QED
  BY <1>1, <1>2 DEF Page!NothingHidden

(* What holds of the page between two frames.                              *)
Honest ==
  Sound(page) /\ Waiting(page) /\ Fresh(page) /\ srv = Said(page) /\ (~knot => Placed(page))

(* The rows are the agents that the server has told of.                    *)
LEMMA HonestShows ==
  ASSUME Honest PROVE Page!ShowsWhatWasSent
<1>1. Page!RealRows(page) = Page!Told
  <2>1. ASSUME NEW x \in Page!Keys PROVE page.rows[x].kind = "agent" <=> srv[x] # None
    <3>1. srv[x] = page.rows[x].said /\ RowIsSound(page, x) /\ page.rows[x].kind \in {"none", "leaf", "agent"}
      BY ParentFacts DEF Honest, Sound, Said
    <3>. QED
      BY <3>1, PageAssumption DEF RowIsSound
  <2>. QED
    BY <2>1 DEF Page!RealRows, Page!Told
<1>2. ASSUME NEW k \in Page!Told
      PROVE  LET e == page.rows[k]
                 cand == Page!Candidate(srv[k])
             IN  /\ e.said = srv[k]
                 /\ e.up \in {None, cand}
                 /\ e.pend # None => e.pend = cand /\ cand \notin Page!Told
                 /\ ~knot /\ cand # None => IF cand \in Page!Told THEN e.up = cand ELSE e.pend = cand
  <2>1. k \in Page!Keys /\ page.rows[k].kind = "agent" /\ k \in Page!RealRows(page)
    BY <1>1 DEF Page!RealRows
  <2>2. srv[k] = page.rows[k].said /\ RowIsSound(page, k)
    BY <2>1 DEF Honest, Sound, Said
  <2>3. page.rows[k].pend # None => page.rows[k].pend \notin Page!Told
    BY <1>1, <2>1 DEF Honest, Waiting
  <2>4. ~knot => LET cand == Page!Candidate(page.rows[k].said) IN
                 cand # None => IF cand \in Page!Told THEN page.rows[k].up = cand ELSE page.rows[k].pend = cand
    BY <1>1, <2>1 DEF Honest, Placed
  <2>. QED
    BY <2>1, <2>2, <2>3, <2>4 DEF RowIsSound
<1>. QED
  BY <1>1, <1>2 DEF Page!ShowsWhatWasSent

(* Between two frames the page keeps its promises.                         *)
LEMMA HonestIsEnough ==
  ASSUME Honest
  PROVE  Page!TreeIsSound /\ Page!ShowsWhatWasSent /\ Page!NothingHidden /\ Page!DirCacheFresh
BY SoundIsTree, SoundHidesNothing, HonestShows DEF Honest, Fresh, Page!DirCacheFresh

(* A set of numbers with 0 and each one's successor has them all.          *)
LEMMA Induct ==
  ASSUME NEW T \in SUBSET Nat, 0 \in T, \A n \in T : n + 1 \in T
  PROVE  T = Nat
<1> SUFFICES ASSUME T # Nat PROVE FALSE
  OBVIOUS
<1> DEFINE B == Nat \ T
           R == OpToRel(<, Nat)
<1>1. B # {} /\ B \subseteq Nat
  OBVIOUS
<1>2. IsWellFoundedOn(R, Nat)
  BY NatLessThanWellFounded
<1>3. R = {ss \in Nat \X Nat : ss[1] < ss[2]}
  BY DEF OpToRel
<1> HIDE DEF R
<1>4. \E x \in B : \A y \in B : ~ (<<y, x>> \in R)
  BY <1>1, <1>2, WFMin
<1>5. PICK x \in B : \A y \in B : ~ (<<y, x>> \in R)
  BY <1>4
<1>6. x # 0 /\ x \in Nat
  OBVIOUS
<1>7. x - 1 \in Nat /\ x - 1 + 1 = x
  BY <1>6
<1>8. <<x - 1, x>> \in R
  BY <1>3, <1>6, <1>7
<1>9. x - 1 \in T
  BY <1>5, <1>7, <1>8
<1>. QED
  BY <1>5, <1>7, <1>9

(* The model before the first frame.                                       *)
LEMMA NewIsSound ==
  LET m == Page!NewModel IN
  Sound(m) /\ Waiting(m) /\ Placed(m) /\ Fresh(m) /\ Said(m) = [k \in Page!Keys |-> None]
<1> DEFINE m == Page!NewModel
<1>1. /\ m.rows = [k \in Page!Keys |-> Page!NoRow] /\ m.older = {}
      /\ m.roots = [s \in PageSessions |-> Page!EmptyBag]
      /\ m.sess = [s \in PageSessions |-> Page!NoSession]
      /\ m.pending = [k \in Page!Keys |-> {}] /\ m.orphans = [k \in Page!Keys |-> None]
      /\ m.cache = [s \in PageSessions |-> "unread"]
  BY DEF Page!NewModel
<1>2. Page!EmptyBag \in Lists /\ Page!EmptyBag = Page!SetToBag({})
  BY BagOfSet DEF Lists
<1>3. Page!NoSession \in SessRow
  BY DEF Page!NoSession, SessRow, Dirs
<1>4. m \in Models
  <2> DEFINE L == Lists
             E == Entry
             C == Dirs \cup Hashes \cup {"unread"}
  <2>1. /\ [k \in Page!Keys |-> Page!NoRow] \in [Page!Keys -> E]
        /\ [s \in PageSessions |-> Page!EmptyBag] \in [PageSessions -> L]
        /\ [s \in PageSessions |-> Page!NoSession] \in [PageSessions -> SessRow]
        /\ [k \in Page!Keys |-> {}] \in [Page!Keys -> SUBSET Page!Keys]
        /\ [k \in Page!Keys |-> None] \in [Page!Keys -> Parents]
        /\ [s \in PageSessions |-> "unread"] \in [PageSessions -> C]
    BY <1>2, <1>3, NoRowType DEF Parents
  <2> HIDE DEF L, E, C
  <2>. QED
    BY <2>1 DEF Page!NewModel, Models, SessRow, L, E, C
<1>5. \A k \in Page!Keys : m.rows[k] = Page!NoRow
  BY <1>1
<1> HIDE DEF m
<1>6. \A k \in Page!Keys : /\ m.rows[k].kind = "none" /\ m.rows[k].said = None /\ m.rows[k].up = None
                           /\ m.rows[k].pend = None /\ m.rows[k].kids = Page!EmptyBag
  BY <1>5 DEF Page!NoRow
<1>7. Page!Dom(m) = {} /\ Page!RealRows(m) = {}
  BY <1>6 DEF Page!Dom, Page!RealRows
<1>8. Hung(m, Page!Dom(m))
  <2>1. (\A up, p : Under({}, up, p) = {}) /\ (\A up, s : AtTop({}, up, s) = {})
    BY DEF Under, AtTop
  <2>. QED
    BY <1>1, <1>2, <1>6, <1>7, <2>1 DEF Hung, Hangs
<1>9. Rooted(UpOf(m))
  <2>1. \A x \in Page!Keys : UpOf(m)[x] = None /\ None \notin Page!Keys
    BY <1>6, PageAssumption DEF UpOf
  <2>. QED
    BY <2>1 DEF Rooted
<1>10. Shelved(m) /\ Ordered(m) /\ Known(m) /\ \A x \in Page!Keys : RowIsSound(m, x)
  BY <1>1, <1>6, <1>7 DEF Shelved, Ordered, Known, RowIsSound
<1>11. Waiting(m) /\ Placed(m)
  BY <1>7 DEF Waiting, Placed
<1>12. Fresh(m)
  BY <1>1 DEF Fresh
<1>13. Said(m) = [k \in Page!Keys |-> None]
  BY <1>6 DEF Said
<1>. QED
  BY <1>4, <1>8, <1>9, <1>10, <1>11, <1>12, <1>13 DEF Sound, m

(* One step of applySnapshot.                                              *)
Good == {m \in Models : Sound(m) /\ Waiting(m) /\ Fresh(m)}
Build(m, r, q, i) ==
  IF i <= Len(r) THEN Page!UpsertSession(m, r[i]) ELSE Page!UpsertAgent(m, q[i - Len(r)])

(* One step of a snapshot.                                                 *)
LEMMA BuildIsGood ==
  ASSUME NEW m \in Good, NEW r, NEW q, NEW i,
         i <= Len(r) => r[i] \in Rows, ~(i <= Len(r)) => q[i - Len(r)] \in Frames
  PROVE  Build(m, r, q, i) \in Good
<1> DEFINE n == Build(m, r, q, i)
<1>0. Sound(m) /\ Waiting(m) /\ Fresh(m)
  BY DEF Good
<1>1. CASE i <= Len(r)
  <2> DEFINE x == r[i]
  <2>1. x \in Rows /\ n = Page!UpsertSession(m, x) /\ x.s \in PageSessions
    BY <1>1, PageAssumption DEF Build
  <2> HIDE DEF n, x
  <2>2. Sound(n) /\ SameTree(m, n) /\ Apart(m, n, x.s) /\ n.cache[x.s] = "unread"
    BY <1>0, <2>1, SessionUpserted
  <2>3. Waiting(n)
    BY <1>0, <2>2, TreeKept
  <2>4. Fresh(n)
    BY <1>0, <2>1, <2>2, FreshKept
  <2>. QED
    BY <2>2, <2>3, <2>4 DEF Good, Sound, n
<1>2. CASE ~(i <= Len(r))
  <2> DEFINE x == q[i - Len(r)]
  <2>1. x \in Frames /\ n = Page!UpsertAgent(m, x) /\ x.s \in PageSessions
    BY <1>2, PageAssumption DEF Build
  <2> HIDE DEF n, x
  <2>2. Sound(n) /\ Waiting(n) /\ n.cache[x.s] = "unread" /\ Apart(m, n, x.s)
    BY <1>0, <2>1, Upserted
  <2>4. Fresh(n)
    BY <1>0, <2>1, <2>2, FreshKept
  <2>. QED
    BY <2>2, <2>4 DEF Good, Sound, n
<1>. QED
  BY <1>1, <1>2

(* The steps of applySnapshot exist, and there is one for each session and *)
(* agent.                                                                  *)
Built(g, r, q, na, nb) ==
  /\ g \in [0..(na + nb) -> Good] /\ g[0] = Page!NewModel
  /\ \A i \in 1..(na + nb) : g[i] = Build(g[i - 1], r, q, i)
  /\ Page!ApplySnapshot(r, q) = g[na + nb]

(* applySnapshot is its steps, one after the other.                        *)
LEMMA SnapshotSteps ==
  ASSUME NEW r, NEW q, NEW na \in Nat, NEW nb \in Nat, Len(r) = na, Len(q) = nb,
         \A i \in 1..na : r[i] \in Rows, \A i \in 1..nb : q[i] \in Frames
  PROVE  \E g : Built(g, r, q, na, nb)
<1> DEFINE N == na + nb
           Upto(n, f) == /\ f \in [0..n -> Good]
                         /\ f[0] = Page!NewModel
                         /\ \A i \in 1..n : f[i] = Build(f[i - 1], r, q, i)
           T == {n \in Nat : n <= N => \E f : Upto(n, f)}
<1>1. Page!NewModel \in Good
  BY NewIsSound DEF Good, Sound
<1>2. 0 \in T
  <2> DEFINE f == [i \in 0..0 |-> Page!NewModel]
  <2>1. Upto(0, f)
    BY <1>1
  <2>. QED
    BY <2>1
<1>3. ASSUME NEW n \in T PROVE n + 1 \in T
  <2>1. n \in Nat
    OBVIOUS
  <2> SUFFICES ASSUME n + 1 <= N PROVE \E f : Upto(n + 1, f)
    BY <2>1
  <2>2. PICK f : Upto(n, f)
    BY <2>1
  <2> DEFINE x == Build(f[n], r, q, n + 1)
             g == [i \in 0..(n + 1) |-> IF i = n + 1 THEN x ELSE f[i]]
  <2>3. x \in Good
    <3>1. f[n] \in Good
      BY <2>1, <2>2
    <3>2. n + 1 <= Len(r) => r[n + 1] \in Rows
      BY <2>1
    <3>3. ~(n + 1 <= Len(r)) => q[n + 1 - Len(r)] \in Frames
      <4> SUFFICES ASSUME ~(n + 1 <= Len(r)) PROVE q[n + 1 - Len(r)] \in Frames
        OBVIOUS
      <4>1. n + 1 - na \in 1..nb
        BY <2>1
      <4>. QED
        BY <4>1
    <3> DEFINE j == n + 1
               h == f[n]
    <3>4. x = Build(h, r, q, j) /\ h \in Good /\ (j <= Len(r) => r[j] \in Rows)
          /\ (~(j <= Len(r)) => q[j - Len(r)] \in Frames)
      BY <3>1, <3>2, <3>3
    <3> HIDE DEF x, j, h
    <3>. QED
      BY <3>4, BuildIsGood
  <2> HIDE DEF x
  <2>4. g \in [0..(n + 1) -> Good] /\ g[0] = Page!NewModel
    BY <2>1, <2>2, <2>3
  <2>5. ASSUME NEW i \in 1..(n + 1) PROVE g[i] = Build(g[i - 1], r, q, i)
    <3>1. g[i - 1] = f[i - 1]
      BY <2>1
    <3>2. CASE i = n + 1
      BY <2>1, <3>1, <3>2 DEF x
    <3>3. CASE i # n + 1
      BY <2>1, <2>2, <3>1, <3>3
    <3>. QED
      BY <3>2, <3>3
  <2> HIDE DEF g
  <2>. QED
    BY <2>4, <2>5
<1> HIDE DEF T
<1>4. T = Nat
  <2>1. T \in SUBSET Nat
    BY DEF T
  <2>. QED
    BY <1>2, <1>3, <2>1, Induct
<1>5. N \in T
  BY <1>4
<1>6. PICK f : Upto(N, f)
  BY <1>5 DEF T
<1> DEFINE body(h) == [i \in 0..(Len(r) + Len(q)) |->
                         IF i = 0 THEN Page!NewModel
                         ELSE IF i <= Len(r) THEN Page!UpsertSession(h[i - 1], r[i])
                         ELSE Page!UpsertAgent(h[i - 1], q[i - Len(r)])]
           g == CHOOSE built : built = body(built)
<1>7. f = body(f)
  BY <1>6 DEF Build
<1>8. g = body(g)
  <2> HIDE DEF body
  <2>. QED
    BY <1>7
<1>9. Page!ApplySnapshot(r, q) = g[na + nb]
  BY DEF Page!ApplySnapshot
<1> HIDE DEF g
<1>10. /\ \A i \in 0..N : g[i] = IF i = 0 THEN Page!NewModel ELSE Build(g[i - 1], r, q, i)
       /\ DOMAIN g = 0..N
  BY <1>8 DEF Build
<1> DEFINE U == {n \in Nat : n <= N => g[n] = f[n]}
<1>11. U = Nat
  <2>1. 0 \in U
    BY <1>6, <1>10
  <2>2. ASSUME NEW n \in U PROVE n + 1 \in U
    <3> SUFFICES ASSUME n + 1 <= N PROVE g[n + 1] = f[n + 1]
      OBVIOUS
    <3>1. n + 1 \in 1..N /\ n + 1 \in 0..N /\ n + 1 # 0 /\ n + 1 - 1 = n /\ g[n] = f[n]
      BY <2>2
    <3>. QED
      BY <1>6, <1>10, <3>1
  <2>3. U \in SUBSET Nat
    OBVIOUS
  <2> HIDE DEF U
  <2>. QED
    BY <2>1, <2>2, <2>3, Induct
<1>12. N \in U
  BY <1>11
<1>13. /\ f \in [0..(na + nb) -> Good] /\ f[0] = Page!NewModel
       /\ \A i \in 1..(na + nb) : f[i] = Build(f[i - 1], r, q, i)
  BY <1>6
<1>14. Page!ApplySnapshot(r, q) = f[na + nb]
  BY <1>9, <1>12
<1>. QED
  BY <1>13, <1>14 DEF Built

(* The parents that the agents declare.                                    *)
LEMMA DeclaredType ==
  ASSUME NEW A \in [Page!Keys -> Frames \cup {None}]
  PROVE  /\ Page!Declared(A) \in [Page!Keys -> SUBSET Page!Keys]
         /\ \A x \in Page!Keys : Page!Declared(A)[x] = {Page!Candidate(A[x])} \ {None}
<1>1. ASSUME NEW x \in Page!Keys PROVE {Page!Candidate(A[x])} \ {None} \in SUBSET Page!Keys
  <2>1. Page!Candidate(None) = None
    BY DEF Page!Candidate
  <2>2. A[x] = None \/ A[x] \in Frames
    OBVIOUS
  <2>. QED
    BY <2>1, <2>2, CandidateFacts
<1>. QED
  BY <1>1 DEF Page!Declared

(* Fewer agents declare no more circles.                                   *)
LEMMA CircleGrows ==
  ASSUME NEW A \in [Page!Keys -> Frames \cup {None}], NEW B \in [Page!Keys -> Frames \cup {None}],
         \A x \in Page!Keys : A[x] = None \/ A[x] = B[x], Page!Circle(A)
  PROVE  Page!Circle(B)
<1> DEFINE da == Page!Declared(A)
           db == Page!Declared(B)
<1>1. /\ da \in [Page!Keys -> SUBSET Page!Keys] /\ db \in [Page!Keys -> SUBSET Page!Keys]
      /\ \A x \in Page!Keys : da[x] \subseteq db[x]
  <2>1. Page!Candidate(None) = None
    BY DEF Page!Candidate
  <2>. QED
    BY <2>1, DeclaredType
<1>2. PICK k \in Page!Keys : k \in Page!Reached(da[k], da)
  BY DEF Page!Circle
<1> HIDE DEF da, db
<1> DEFINE C == Page!Reached(db[k], db)
<1>3. da[k] \in SUBSET Page!Keys /\ db[k] \in SUBSET Page!Keys
  BY <1>1
<1>4. C \in SUBSET Page!Keys /\ db[k] \subseteq C /\ \A y \in C : db[y] \subseteq C
  BY <1>1, <1>3, ReachedIsLeast
<1> HIDE DEF C
<1>5. da[k] \subseteq C /\ \A y \in C : da[y] \subseteq C
  BY <1>1, <1>4
<1>6. Page!Reached(da[k], da) \subseteq C
  BY <1>1, <1>3, <1>4, <1>5, ReachedIsLeast
<1>. QED
  BY <1>2, <1>6 DEF Page!Circle, C, db

(* A set's elements in some order.                                         *)
LEMMA InSomeOrder ==
  ASSUME NEW S, IsFiniteSet(S), NEW f \in Page!SetToSeqs(S)
  PROVE  \E n \in Nat : f \in [1..n -> S] /\ Len(f) = n /\ \A x \in S : \E i \in 1..n : f[i] = x
<1> DEFINE n == Cardinality(S)
<1>1. n \in Nat
  BY FS_CardinalityType
<1>a. \A set : Page!Cardinality(set) = Cardinality(set)
  BY DEF Page!Cardinality, Cardinality
<1>2. f \in [1..n -> S] /\ \A i, j \in 1..n : i # j => f[i] # f[j]
  BY <1>a DEF Page!SetToSeqs
<1>3. IsFiniteSet(1..n) /\ Cardinality(1..n) = n
  BY <1>1, FS_Interval
<1>4. f \in Injection(1..n, S)
  BY <1>2 DEF Injection, IsInjective
<1>5. f \in Surjection(1..n, S)
  BY <1>3, <1>4, FS_Injection
<1>6. \A x \in S : \E i \in 1..n : f[i] = x
  BY <1>5 DEF Surjection
<1> HIDE DEF n
<1>7. Len(f) = n
  BY <1>1, <1>2
<1>. QED
  BY <1>1, <1>2, <1>6, <1>7

(* What the server has told is what the page knows of it.                  *)
LEMMA ToldFacts ==
  ASSUME Honest
  PROVE  /\ srv \in [Page!Keys -> Frames \cup {None}] /\ IsFiniteSet(Page!Told)
         /\ \A x \in Page!Keys : x \in Page!Told <=> srv[x] # None
         /\ \A x \in Page!Told : x \in Page!Keys /\ srv[x] \in Frames /\ Page!KeyOf(srv[x]) = x
<1>1. srv = Said(page) /\ page \in Models /\ \A x \in Page!Keys : RowIsSound(page, x)
  BY DEF Honest, Sound
<1>2. ASSUME NEW x \in Page!Keys
      PROVE  srv[x] \in Frames \cup {None} /\ (srv[x] # None => Page!KeyOf(srv[x]) = x)
  <2>1. srv[x] = page.rows[x].said /\ page.rows[x].kind \in {"none", "leaf", "agent"}
        /\ page.rows[x].said \in Frames \cup {None}
    BY <1>1, RowTypes DEF Said
  <2>. QED
    BY <1>1, <2>1 DEF RowIsSound
<1>3. srv \in [Page!Keys -> Frames \cup {None}]
  <2>1. srv = [x \in Page!Keys |-> page.rows[x].said]
    BY <1>1 DEF Said
  <2>2. srv = [x \in Page!Keys |-> srv[x]]
    BY <2>1
  <2>. QED
    BY <1>2, <2>2
<1>4. IsFiniteSet(Page!Told)
  <2>1. IsFiniteSet(PageSessions \X Ids)
    BY PageAssumption, FS_Product
  <2>2. Page!Told \subseteq PageSessions \X Ids
    BY DEF Page!Told, Page!Keys
  <2>. QED
    BY <2>1, <2>2, FS_Subset
<1>. QED
  BY <1>2, <1>3, <1>4 DEF Page!Told

(* One frame of the snapshot, when those of Q were there.                  *)
Agents(Q) == [x \in Page!Keys |-> IF x \in Q THEN srv[x] ELSE None]

(* One frame of the snapshot, when those of Q were there.                  *)
LEMMA SnapshotGrows ==
  ASSUME Honest, NEW m, Sound(m), Waiting(m), NEW Q \in SUBSET Page!Told, Said(m) = Agents(Q),
         ~Page!Circle(srv) => Placed(m), NEW y \in Page!Told
  PROVE  LET n == Page!UpsertAgent(m, srv[y]) IN
         Said(n) = Agents(Q \cup {y}) /\ (~Page!Circle(srv) => Placed(n))
<1> DEFINE f == srv[y]
           n == Page!UpsertAgent(m, f)
<1>1. f \in Frames /\ Page!KeyOf(f) = y /\ y \in Page!Keys
  BY ToldFacts
<1> HIDE DEF f
<1>2. Said(n) = [Said(m) EXCEPT ![y] = f] /\ (Placed(m) /\ ~Page!Circle(Said(n)) => Placed(n))
  BY <1>1, Upserted
<1> HIDE DEF n
<1>3. Said(n) = Agents(Q \cup {y})
  BY <1>1, <1>2 DEF Agents, f
<1>4. Page!Circle(Said(n)) => Page!Circle(srv)
  <2>1. srv \in [Page!Keys -> Frames \cup {None}]
    BY ToldFacts
  <2> DEFINE A == Agents(Q \cup {y})
  <2>2. A \in [Page!Keys -> Frames \cup {None}] /\ \A x \in Page!Keys : A[x] = None \/ A[x] = srv[x]
    BY <2>1 DEF Agents
  <2> HIDE DEF A
  <2>3. Page!Circle(A) => Page!Circle(srv)
    BY <2>1, <2>2, CircleGrows
  <2>. QED
    BY <1>3, <2>3 DEF A
<1>. QED
  BY <1>2, <1>3, <1>4 DEF n, f

(* applySnapshot: the page shows the agents, and nothing else.             *)
LEMMA Rebuilt ==
  ASSUME Honest, NEW q \in Page!SetToSeqs(Page!Told), NEW R \in SUBSET Rows, NEW r \in Page!SetToSeqs(R)
  PROVE  LET n == Page!ApplySnapshot(r, [i \in DOMAIN q |-> srv[q[i]]]) IN
         Sound(n) /\ Waiting(n) /\ Fresh(n) /\ Said(n) = srv /\ (~Page!Circle(srv) => Placed(n))
<1>1. IsFiniteSet(R) /\ IsFiniteSet(Page!Told)
  BY PageAssumption, ToldFacts, FS_Subset
<1>2. PICK na \in Nat : r \in [1..na -> R] /\ Len(r) = na
  BY <1>1, InSomeOrder
<1>3. PICK nb \in Nat : q \in [1..nb -> Page!Told] /\ \A x \in Page!Told : \E i \in 1..nb : q[i] = x
  BY <1>1, InSomeOrder
<1> DEFINE p == [i \in DOMAIN q |-> srv[q[i]]]
           n == Page!ApplySnapshot(r, p)
           seen(i) == {q[j] : j \in 1..(i - na)}
<1>4. Len(p) = nb /\ \A i \in 1..nb : p[i] = srv[q[i]] /\ p[i] \in Frames
  <2>1. p \in [1..nb -> Frames]
    BY <1>3, ToldFacts
  <2>. QED
    BY <1>3, <2>1, ToldFacts
<1> HIDE DEF p
<1>5. PICK g \in [0..(na + nb) -> Good] :
        /\ g[0] = Page!NewModel
        /\ \A i \in 1..(na + nb) : g[i] = Build(g[i - 1], r, p, i)
        /\ n = g[na + nb]
  <2>1. (\A i \in 1..na : r[i] \in Rows) /\ \A i \in 1..nb : p[i] \in Frames
    BY <1>2, <1>4
  <2>2. na \in Nat /\ nb \in Nat /\ Len(r) = na /\ Len(p) = nb
    BY <1>2, <1>3, <1>4
  <2>3. \E g : Built(g, r, p, na, nb)
    BY <2>1, <2>2, SnapshotSteps
  <2>. QED
    BY <2>3 DEF Built
<1> HIDE DEF n
<1> DEFINE Fine(i) == Said(g[i]) = Agents(seen(i)) /\ (~Page!Circle(srv) => Placed(g[i]))
           T == {i \in Nat : i <= na + nb => Fine(i)}
<1>6. 0 \in T
  <2>1. seen(0) = {}
    BY <1>2
  <2>2. Said(g[0]) = [k \in Page!Keys |-> None] /\ Placed(g[0])
    BY <1>5, NewIsSound
  <2>. QED
    BY <2>1, <2>2 DEF Agents
<1>7. ASSUME NEW i \in T PROVE i + 1 \in T
  <2>1. i \in Nat
    OBVIOUS
  <2> SUFFICES ASSUME i + 1 <= na + nb PROVE Fine(i + 1)
    BY <2>1
  <2>2. Fine(i) /\ i \in 0..(na + nb) /\ i + 1 \in 1..(na + nb) /\ i + 1 - 1 = i
    BY <2>1
  <2> DEFINE m == g[i]
             o == g[i + 1]
  <2>3. m \in Good /\ o = Build(m, r, p, i + 1) /\ Sound(m) /\ Waiting(m)
    BY <1>5, <2>2 DEF Good
  <2>4. CASE i + 1 <= na
    <3>1. o = Page!UpsertSession(m, r[i + 1]) /\ r[i + 1] \in Rows
      BY <1>2, <2>1, <2>3, <2>4 DEF Build
    <3>2. SameTree(m, o)
      <4> DEFINE row == r[i + 1]
      <4>1. row \in Rows /\ o = Page!UpsertSession(m, row)
        BY <3>1
      <4> HIDE DEF row, m, o
      <4>. QED
        BY <2>3, <4>1, SessionUpserted
    <3>3. seen(i) = {} /\ seen(i + 1) = {}
      BY <1>2, <2>1, <2>4
    <3>4. Said(o) = Said(m) /\ (Placed(m) => Placed(o))
      BY <3>2, TreeKept
    <3>. QED
      BY <2>2, <3>3, <3>4
  <2>5. CASE ~(i + 1 <= na)
    <3> DEFINE j == i + 1 - na
               y == q[j]
    <3>1. j \in 1..nb /\ j - 1 = i - na /\ i - na \in Nat
      BY <1>2, <1>3, <2>1, <2>5
    <3>2. o = Page!UpsertAgent(m, srv[y]) /\ y \in Page!Told
      BY <1>2, <1>3, <1>4, <2>3, <2>5, <3>1 DEF Build
    <3>3. seen(i + 1) = seen(i) \cup {y} /\ seen(i) \in SUBSET Page!Told
      <4>1. 1..j = (1..(i - na)) \cup {j}
        BY <3>1
      <4>2. \A x \in 1..(i - na) : q[x] \in Page!Told
        BY <1>3, <3>1
      <4>3. ASSUME NEW z PROVE z \in seen(i + 1) <=> z \in seen(i) \cup {y}
        <5>1. z \in seen(i + 1) <=> \E x \in 1..j : z = q[x]
          BY <4>1
        <5>2. z \in seen(i) <=> \E x \in 1..(i - na) : z = q[x]
          OBVIOUS
        <5>. QED
          BY <4>1, <5>1, <5>2
      <4>. QED
        BY <4>2, <4>3
    <3> DEFINE Q == seen(i)
    <3>4. Said(m) = Agents(Q) /\ (~Page!Circle(srv) => Placed(m)) /\ Q \in SUBSET Page!Told
      BY <2>2, <3>3
    <3> HIDE DEF m, o, Q, y, seen
    <3>5. Said(o) = Agents(Q \cup {y}) /\ (~Page!Circle(srv) => Placed(o))
      BY <2>3, <3>2, <3>4, SnapshotGrows
    <3>. QED
      BY <3>3, <3>5 DEF Q, o
  <2>. QED
    BY <2>4, <2>5
<1>8. T = Nat
  <2>1. T \in SUBSET Nat
    OBVIOUS
  <2> HIDE DEF T
  <2>. QED
    BY <1>6, <1>7, <2>1, Induct
<1>9. Fine(na + nb) /\ g[na + nb] \in Good
  <2>1. na + nb \in Nat /\ na + nb \in 0..(na + nb)
    BY <1>2, <1>3
  <2>2. na + nb \in T
    BY <1>8, <2>1, Zenon
  <2>. QED
    BY <1>5, <2>1, <2>2
<1>10. seen(na + nb) = Page!Told
  <2>1. 1..(na + nb - na) = 1..nb
    BY <1>2, <1>3
  <2>. QED
    BY <1>3, <2>1
<1>11. Agents(Page!Told) = srv
  <2>1. srv \in [Page!Keys -> Frames \cup {None}]
    BY ToldFacts
  <2>. QED
    BY <2>1, ToldFacts DEF Agents
<1>. QED
  BY <1>5, <1>9, <1>10, <1>11 DEF Good, n, p

(* A frame that speaks of the agents of a session: the directory is read,  *)
(* the model changed, the directory read again.                            *)
LEMMA Flushed ==
  ASSUME NEW m, NEW n, NEW s \in PageSessions, Sound(n), Waiting(n), Fresh(m),
         n = m \/ (Apart(m, n, s) /\ n.cache[s] = "unread")
  PROVE  LET o == Page!Touch(n, s) IN
         Sound(o) /\ Waiting(o) /\ Fresh(o) /\ Said(o) = Said(n) /\ (Placed(n) => Placed(o))
<1>1. Fresh(n)
  BY FreshKept
<1> DEFINE o == Page!Touch(n, s)
<1>2. Sound(o) /\ SameTree(n, o) /\ Fresh(o)
  BY <1>1, Touched
<1> HIDE DEF o
<1>. QED
  BY <1>2, TreeKept DEF o

(* An agent's frame, whatever it declares and in whatever order it comes.  *)
LEMMA AgentFrameHonest ==
  ASSUME Honest, NEW f \in Frames, Page!AgentFrame(f)
  PROVE  Honest'
<1> DEFINE m == Page!Touch(page, f.s)
           n == Page!UpsertAgent(m, f)
           o == Page!Touch(n, f.s)
           k == Page!KeyOf(f)
<1>1. f.s \in PageSessions /\ k \in Page!Keys
  BY PageAssumption, CandidateFacts
<1>2. page' = o /\ srv' = [srv EXCEPT ![k] = f] /\ knot' = (knot \/ Page!Circle(srv'))
  BY DEF Page!AgentFrame
<1> HIDE DEF m, n, o, k
<1>3. Sound(m) /\ SameTree(page, m) /\ Fresh(m)
  BY <1>1, Touched DEF Honest, m
<1>4. Said(m) = srv /\ Waiting(m) /\ (~knot => Placed(m))
  BY <1>3, TreeKept DEF Honest
<1>5. /\ Sound(n) /\ Waiting(n) /\ Said(n) = [srv EXCEPT ![k] = f]
      /\ Placed(m) /\ ~Page!Circle(Said(n)) => Placed(n)
      /\ n.cache[f.s] = "unread" /\ Apart(m, n, f.s)
  BY <1>3, <1>4, Upserted DEF n, k
<1>6. Sound(o) /\ Waiting(o) /\ Fresh(o) /\ Said(o) = Said(n) /\ (Placed(n) => Placed(o))
  <2> DEFINE s == f.s
  <2>1. s \in PageSessions /\ n.cache[s] = "unread" /\ Apart(m, n, s) /\ o = Page!Touch(n, s)
    BY <1>1, <1>5 DEF o
  <2> HIDE DEF s
  <2>. QED
    BY <1>3, <1>5, <2>1, Flushed
<1>7. srv' = Said(n)
  BY <1>2, <1>5
<1>8. ~knot' => Placed(o)
  BY <1>2, <1>4, <1>5, <1>6, <1>7
<1>9. Sound(page') /\ Waiting(page') /\ Fresh(page') /\ srv' = Said(page') /\ (~knot' => Placed(page'))
  BY <1>2, <1>6, <1>7, <1>8
<1>. QED
  BY <1>9 DEF Honest, Sound, Waiting, Fresh, Said, Placed

(* An eviction, of an agent, of a leaf or of a row the page never had.     *)
LEMMA GoneFrameHonest ==
  ASSUME Honest, NEW k \in Page!Keys, Page!GoneFrame(k)
  PROVE  Honest'
<1> DEFINE s == k[1]
           m == Page!Touch(page, s)
           n == Page!RemoveAgent(m, k)
           o == Page!Touch(n, s)
<1>1. s \in PageSessions
  BY DEF Page!Keys
<1>2. page' = o /\ srv' = [srv EXCEPT ![k] = None] /\ knot' = knot
  BY DEF Page!GoneFrame
<1>3. n = Page!RemoveAgent(m, k) /\ m = Page!Touch(page, s) /\ o = Page!Touch(n, s) /\ s = k[1]
  OBVIOUS
<1> HIDE DEF m, n, o, s
<1>4. Sound(m) /\ SameTree(page, m) /\ Fresh(m)
  BY <1>1, <1>3, Touched DEF Honest
<1>5. Said(m) = srv /\ Waiting(m) /\ (~knot => Placed(m))
  BY <1>4, TreeKept DEF Honest
<1>6. /\ Sound(n) /\ Waiting(n) /\ Said(n) = [srv EXCEPT ![k] = None]
      /\ Placed(m) => Placed(n)
      /\ n = m \/ (n.cache[s] = "unread" /\ Apart(m, n, s))
  BY <1>3, <1>4, <1>5, Removed
<1>7. Sound(o) /\ Waiting(o) /\ Fresh(o) /\ Said(o) = Said(n) /\ (Placed(n) => Placed(o))
  BY <1>1, <1>3, <1>4, <1>6, Flushed
<1>8. Sound(page') /\ Waiting(page') /\ Fresh(page') /\ srv' = Said(page') /\ (~knot' => Placed(page'))
  BY <1>2, <1>5, <1>6, <1>7
<1>. QED
  BY <1>8 DEF Honest, Sound, Waiting, Fresh, Said, Placed

(* A session goes: it stays, greyed, while it has rows.                    *)
LEMMA SessionGoneFrameHonest ==
  ASSUME Honest, NEW s \in PageSessions, Page!SessionGoneFrame(s)
  PROVE  Honest'
<1> DEFINE m == Page!Touch(page, s)
           n == Page!RemoveSession(m, s)
<1>1. page' = n /\ srv' = srv /\ knot' = knot
  BY DEF Page!SessionGoneFrame
<1>2. n = Page!RemoveSession(m, s) /\ m = Page!Touch(page, s)
  OBVIOUS
<1> HIDE DEF m, n
<1>3. Sound(m) /\ SameTree(page, m) /\ Fresh(m)
  BY <1>2, Touched DEF Honest
<1>4. Sound(n) /\ SameTree(m, n) /\ (n = m \/ (Apart(m, n, s) /\ n.cache[s] = "unread"))
  BY <1>2, <1>3, SessionRemoved
<1>5. Said(n) = srv /\ Waiting(n) /\ (~knot => Placed(n))
  <2>1. Said(m) = srv /\ Waiting(m) /\ (~knot => Placed(m))
    BY <1>3, TreeKept DEF Honest
  <2>. QED
    BY <1>4, <2>1, TreeKept
<1>6. Fresh(n)
  BY <1>3, <1>4, FreshKept
<1>7. Sound(page') /\ Waiting(page') /\ Fresh(page') /\ srv' = Said(page') /\ (~knot' => Placed(page'))
  BY <1>1, <1>4, <1>5, <1>6
<1>. QED
  BY <1>7 DEF Honest, Sound, Waiting, Fresh, Said, Placed

(* A reconnect, in whatever order the snapshot lists sessions and agents.  *)
LEMMA SnapshotFrameHonest ==
  ASSUME Honest, Page!SnapshotFrame
  PROVE  Honest'
<1>1. PICK q \in Page!SetToSeqs(Page!Told), R \in SUBSET Rows :
        \E r \in Page!SetToSeqs(R) :
          /\ page' = Page!ApplySnapshot(r, [i \in DOMAIN q |-> srv[q[i]]])
          /\ knot' = Page!Circle(srv) /\ srv' = srv
  BY DEF Page!SnapshotFrame
<1>2. PICK r \in Page!SetToSeqs(R) :
        /\ page' = Page!ApplySnapshot(r, [i \in DOMAIN q |-> srv[q[i]]])
        /\ knot' = Page!Circle(srv) /\ srv' = srv
  BY <1>1
<1> DEFINE n == Page!ApplySnapshot(r, [i \in DOMAIN q |-> srv[q[i]]])
<1>3. page' = n
  BY <1>2
<1>4. Sound(n) /\ Waiting(n) /\ Fresh(n) /\ Said(n) = srv /\ (~Page!Circle(srv) => Placed(n))
  BY Rebuilt
<1> HIDE DEF n
<1>5. Sound(page') /\ Waiting(page') /\ Fresh(page') /\ srv' = Said(page') /\ (~knot' => Placed(page'))
  BY <1>2, <1>3, <1>4
<1>. QED
  BY <1>5 DEF Honest, Sound, Waiting, Fresh, Said, Placed

(* Every frame.                                                            *)
LEMMA PageStep == Honest /\ [Page!Next]_<<srv, page, knot>> => Honest'
<1>1. ASSUME Honest, UNCHANGED <<srv, page, knot>> PROVE Honest'
  BY <1>1 DEF Honest, Sound, Waiting, Fresh, Said, Placed
<1>. QED
  BY <1>1, AgentFrameHonest, GoneFrameHonest, SessionGoneFrameHonest, SnapshotFrameHonest DEF Page!Next

(* The page before the first frame.                                        *)
LEMMA PageStart == Page!Init => Honest
BY NewIsSound DEF Page!Init, Honest

(* Whatever agents, sessions and directories there are, and in whatever    *)
(* order their frames, evictions and snapshots come: the rows are a forest *)
(* in which every row hangs once, they are the agents the server told of,  *)
(* each under the parent it declares or waiting for it, none is hidden,    *)
(* and no directory is read from a stale cache.                            *)
THEOREM PagesAreHonest == PageSpec => []PageIsHonest
<1>1. MCInit => Honest
  BY PageStart DEF MCInit
<1>2. Honest /\ [MCNext]_<<part, vars, pageVars, cardVars, omkcVars>> => Honest'
  BY PageStep DEF MCNext, pageVars
<1>3. Honest => PageIsHonest
  BY HonestIsEnough DEF PageIsHonest
<1>. QED
  BY <1>1, <1>2, <1>3, PTL DEF PageSpec
=============================================================================
