---------------------------- MODULE BusOwnership ----------------------------
(***************************************************************************)
(* core/bus/bus.ts with registry.ts, server.ts and bus-daemon.ts: which    *)
(* moamcp process serves the Bus.  A process registers, walks the ports    *)
(* until it binds one or finds a live moamcp to reuse; a reuser watches    *)
(* its host and takes over when it stops answering; an owner hands the     *)
(* port over to a daemon that runs the newer build.  Processes share one   *)
(* home (the instance registry) and one directory (bus.port), and are      *)
(* killed at any point.  A crash stands as well for a session that shuts   *)
(* down in the middle of a start.                                          *)
(*                                                                         *)
(* A definition X_Y is X as a plausible bug would have it.                 *)
(***************************************************************************)
EXTENDS Naturals, FiniteSets

CONSTANTS
  Sessions,       (* MCP server processes                                  *)
  Daemons,        (* headless processes a released port may be handed to   *)
  None, Local,
  LastPort,       (* ports are 1..LastPort; sessions request port 1        *)
  Foreign,        (* ports held by listeners that are not moamcp           *)
  Threshold,      (* reuseWatchFailThreshold                               *)
  MaxDepartures,  (* bound: crashes, shutdowns and releases                *)
  MaxMisses       (* bound: probes a live Bus answers too late             *)

Procs == Sessions \cup Daemons
Ports == 1..LastPort

ASSUME NoneAssumption == {None, Local} \cap (Procs \cup Ports) = {} /\ Sessions \cap Daemons = {}
ASSUME PortAssumption == LastPort \in Nat \ {0} /\ Foreign \subseteq Ports
ASSUME BoundsAssumption == {Threshold, MaxDepartures, MaxMisses} \subseteq Nat

VARIABLES
  pc,           (* where each process is in start(), stop() or release     *)
  want,         (* requestedPort                                           *)
  at,           (* the port the walk has come to                           *)
  host,         (* this.port: the port served, or of the Bus reused        *)
  listening,    (* the port the process's HTTP server is bound to          *)
  entry,        (* the port in the registry's <pid>.json, or None          *)
  fails,        (* hostWatchFails                                          *)
  sink,         (* where domain events go: Local or a port; None before  *)
                (* the first start has settled                             *)
  portFile,     (* who wrote bus.port, or None                             *)
  owns,         (* ownsPortFile: wrotePortFile && !released                *)
  departures, misses

bounds == <<departures, misses>>
vars == <<pc, want, at, host, listening, entry, fails, sink, portFile, owns, bounds>>

Starting == {"register", "bind", "lookup", "probe", "advertise", "write",
             "unregister", "fail"}
Releasing == {"closed", "unlisted"}
Stopping == {"stopped", "delisted"}
Gone == {"off", "dead"}

Init ==
  /\ pc = [p \in Procs |-> "off"]
  /\ want = [p \in Procs |-> 1] /\ at = [p \in Procs |-> 1]
  /\ host = [p \in Procs |-> None]
  /\ listening = [p \in Procs |-> None]
  /\ entry = [p \in Procs |-> None]
  /\ fails = [p \in Procs |-> 0]
  /\ sink = [p \in Procs |-> None]
  /\ portFile = None
  /\ owns = [p \in Procs |-> FALSE]
  /\ departures = 0 /\ misses = 0

Goto(p, from, to) == pc[p] \in from /\ pc' = [pc EXCEPT ![p] = to]

Alive(p) == pc[p] \notin Gone                          (* kill(pid, 0)     *)
Busy(n) == n \in Foreign \/ \E p \in Procs : listening[p] = n
Answers(n) == \E p \in Procs : listening[p] = n        (* GET /tasks       *)

(* sweepStale and listLive unlink the entries of dead processes.           *)
Sweep == [q \in Procs |-> IF Alive(q) THEN entry[q] ELSE None]

(* ---------------------------------------------------------------------- *)
(* start()                                                                 *)

Launch(p) ==
  /\ p \in Sessions
  /\ Goto(p, {"off"}, "register")
  /\ UNCHANGED <<want, at, host, listening, entry, fails, sink, portFile, owns, bounds>>

Register_AfterBind(p) ==
  /\ Goto(p, {"register"}, "bind")
  /\ entry' = Sweep
  /\ at' = [at EXCEPT ![p] = want[p]]
  /\ UNCHANGED <<want, host, listening, fails, sink, portFile, owns, bounds>>
Register(p) ==
  /\ Goto(p, {"register"}, "bind")
  /\ entry' = [Sweep EXCEPT ![p] = want[p]]
  /\ at' = [at EXCEPT ![p] = want[p]]
  /\ UNCHANGED <<want, host, listening, fails, sink, portFile, owns, bounds>>

Bind(p) ==
  /\ Goto(p, {"bind"}, "advertise")
  /\ ~ Busy(at[p])
  /\ listening' = [listening EXCEPT ![p] = at[p]]
  /\ UNCHANGED <<want, at, host, entry, fails, sink, portFile, owns, bounds>>

(* At the end of the walk nobody is looked up any more.                    *)
BindBusy_NoLimit(p) ==
  /\ Goto(p, {"bind"}, "lookup")
  /\ Busy(at[p])
  /\ UNCHANGED <<want, at, host, listening, entry, fails, sink, portFile, owns, bounds>>
BindBusy(p) ==
  /\ Goto(p, {"bind"}, IF at[p] = LastPort THEN "fail" ELSE "lookup")
  /\ Busy(at[p])
  /\ UNCHANGED <<want, at, host, listening, entry, fails, sink, portFile, owns, bounds>>

Holders(p) == {q \in Procs \ {p} : Alive(q) /\ entry[q] = at[p]}

Walk(p) == at' = [at EXCEPT ![p] = @ + 1]

Lookup(p) ==
  /\ Goto(p, {"lookup"}, IF Holders(p) = {} THEN "bind" ELSE "probe")
  /\ entry' = Sweep
  /\ IF Holders(p) = {} THEN Walk(p) ELSE UNCHANGED at
  /\ UNCHANGED <<want, host, listening, fails, sink, portFile, owns, bounds>>

ProbeAnswered(p) ==
  /\ Goto(p, {"probe"}, "unregister")
  /\ Answers(at[p])
  /\ UNCHANGED <<want, at, host, listening, entry, fails, sink, portFile, owns, bounds>>

(* A probe fails because nobody listens, or the answer comes too late.     *)
NoAnswer(n) ==
  \/ ~ Answers(n) /\ UNCHANGED misses
  \/ Answers(n) /\ misses < MaxMisses /\ misses' = misses + 1

ProbeFailed(p) ==
  /\ Goto(p, {"probe"}, "bind")
  /\ NoAnswer(at[p])
  /\ Walk(p)
  /\ UNCHANGED <<want, host, listening, entry, fails, sink, portFile, owns, departures>>

Advertise(p) ==
  /\ Goto(p, {"advertise"}, "write")
  /\ entry' = [entry EXCEPT ![p] = at[p]]
  /\ host' = [host EXCEPT ![p] = at[p]]
  /\ UNCHANGED <<want, at, listening, fails, sink, portFile, owns, bounds>>

(* writePortFile; then main(), or onTakeover, points the sink here.        *)
WritePortFile(p) ==
  /\ Goto(p, {"write"}, "own")
  /\ portFile' = p
  /\ owns' = [owns EXCEPT ![p] = TRUE]
  /\ sink' = [sink EXCEPT ![p] = Local]
  /\ fails' = [fails EXCEPT ![p] = 0]
  /\ UNCHANGED <<want, at, host, listening, entry, bounds>>

(* Reuse: the own entry goes, the host is watched, events are forwarded.   *)
(* A daemon that finds a Bus has no purpose and exits.                     *)
Unregister_KeepsEntry(p) ==
  /\ Goto(p, {"unregister"}, IF p \in Daemons THEN "dead" ELSE "reuse")
  /\ host' = [host EXCEPT ![p] = at[p]]
  /\ fails' = [fails EXCEPT ![p] = 0]
  /\ sink' = [sink EXCEPT ![p] = at[p]]
  /\ UNCHANGED <<want, at, listening, entry, portFile, owns, bounds>>
Unregister(p) ==
  /\ Goto(p, {"unregister"}, IF p \in Daemons THEN "dead" ELSE "reuse")
  /\ entry' = [entry EXCEPT ![p] = None]
  /\ host' = [host EXCEPT ![p] = at[p]]
  /\ fails' = [fails EXCEPT ![p] = 0]
  /\ sink' = [sink EXCEPT ![p] = at[p]]
  /\ UNCHANGED <<want, at, listening, portFile, owns, bounds>>

(* The walk is exhausted: a first start ends the process, a takeover goes  *)
(* back to watching the dead port.                                         *)
StartFails(p) ==
  /\ Goto(p, {"fail"}, IF sink[p] = None THEN "dead" ELSE "reuse")
  /\ entry' = [entry EXCEPT ![p] = None]
  /\ fails' = [fails EXCEPT ![p] = 0]
  /\ UNCHANGED <<want, at, host, listening, sink, portFile, owns, bounds>>

(* ---------------------------------------------------------------------- *)
(* Host watch and takeover                                                 *)

WatchAnswered(p) ==
  /\ pc[p] = "reuse" /\ fails[p] > 0
  /\ Answers(host[p])
  /\ fails' = [fails EXCEPT ![p] = 0]
  /\ UNCHANGED <<pc, want, at, host, listening, entry, sink, portFile, owns, bounds>>

(* At the threshold the host is declared dead and start() runs again.      *)
WatchFailed_NeverDead(p) ==
  /\ pc[p] = "reuse"
  /\ NoAnswer(host[p])
  /\ fails[p] < Threshold
  /\ fails' = [fails EXCEPT ![p] = @ + 1]
  /\ UNCHANGED <<pc, want, at, host, listening, entry, sink, portFile, owns, departures>>
WatchFailed(p) ==
  /\ Goto(p, {"reuse"}, IF fails[p] + 1 < Threshold THEN "reuse" ELSE "register")
  /\ NoAnswer(host[p])
  /\ fails' = [fails EXCEPT ![p] = IF @ + 1 < Threshold THEN @ + 1 ELSE 0]
  /\ UNCHANGED <<want, at, host, listening, entry, sink, portFile, owns, departures>>

(* ---------------------------------------------------------------------- *)
(* Controlled release                                                      *)

Leave == departures < MaxDepartures /\ departures' = departures + 1

(* POST /api/bus/restart: the listener closes first.                       *)
Release(p) ==
  /\ Goto(p, {"own"}, "closed")
  /\ Leave
  /\ listening' = [listening EXCEPT ![p] = None]
  /\ UNCHANGED <<want, at, host, entry, fails, sink, portFile, owns, misses>>

Delist(p) ==
  /\ \/ Goto(p, {"closed"}, "unlisted")
     \/ Goto(p, {"stopped"}, "delisted")
  /\ entry' = [entry EXCEPT ![p] = None]
  /\ UNCHANGED <<want, at, host, listening, fails, sink, portFile, owns, bounds>>

(* removePortFileIfOwned asks only whether this process once wrote it.     *)
RemovePortFile(p) ==
  /\ portFile' = IF owns[p] THEN None ELSE portFile
  /\ owns' = [owns EXCEPT ![p] = FALSE]

(* The daemon is spawned, or the spawn fails; either way the process waits *)
(* for a Bus to answer on the port it gave up.                             *)
HandOver(p) ==
  /\ pc[p] = "unlisted"
  /\ RemovePortFile(p)
  /\ \/ \E d \in Daemons :
          /\ pc[d] = "off"
          /\ pc' = [pc EXCEPT ![p] = "passive", ![d] = "register"]
          /\ want' = [want EXCEPT ![d] = host[p]]
     \/ pc' = [pc EXCEPT ![p] = "passive"] /\ UNCHANGED want
  /\ UNCHANGED <<at, host, listening, entry, fails, sink, bounds>>

(* passiveTick: onTakeover re-points the sink; a daemon exits instead.     *)
Reattach_KeepsSink(p) ==
  /\ Goto(p, {"passive"}, IF p \in Daemons THEN "dead" ELSE "reuse")
  /\ Answers(host[p])
  /\ fails' = [fails EXCEPT ![p] = 0]
  /\ UNCHANGED <<want, at, host, listening, entry, sink, portFile, owns, bounds>>
Reattach(p) ==
  /\ Goto(p, {"passive"}, IF p \in Daemons THEN "dead" ELSE "reuse")
  /\ Answers(host[p])
  /\ sink' = [sink EXCEPT ![p] = host[p]]
  /\ fails' = [fails EXCEPT ![p] = 0]
  /\ UNCHANGED <<want, at, host, listening, entry, portFile, owns, bounds>>

(* ---------------------------------------------------------------------- *)
(* The end of a process                                                    *)

(* stop(): close the listener, drop the entry, then bus.port, then exit.   *)
Shutdown(p) ==
  /\ Goto(p, {"own", "reuse", "passive"}, "stopped")
  /\ Leave
  /\ p \in Sessions
  /\ listening' = [listening EXCEPT ![p] = None]
  /\ UNCHANGED <<want, at, host, entry, fails, sink, portFile, owns, misses>>

Exit(p) ==
  /\ Goto(p, {"delisted"}, "dead")
  /\ RemovePortFile(p)
  /\ UNCHANGED <<want, at, host, listening, entry, fails, sink, bounds>>

(* A daemon that sees another version on disk exits: its exit handler only *)
(* removes bus.port.                                                       *)
VersionExit(d) ==
  /\ d \in Daemons
  /\ Goto(d, {"own"}, "dead")
  /\ Leave
  /\ RemovePortFile(d)
  /\ listening' = [listening EXCEPT ![d] = None]
  /\ UNCHANGED <<want, at, host, entry, fails, sink, misses>>

(* Killed: the socket goes, entry and bus.port stay.                       *)
Crash(p) ==
  /\ Alive(p)
  /\ Leave
  /\ pc' = [pc EXCEPT ![p] = "dead"]
  /\ listening' = [listening EXCEPT ![p] = None]
  /\ UNCHANGED <<want, at, host, entry, fails, sink, portFile, owns, misses>>

(* ---------------------------------------------------------------------- *)

Step(p) ==
  \/ Register(p) \/ Bind(p) \/ BindBusy(p) \/ Lookup(p)
  \/ ProbeAnswered(p) \/ ProbeFailed(p) \/ Advertise(p) \/ WritePortFile(p)
  \/ Unregister(p) \/ StartFails(p)
  \/ Delist(p) \/ HandOver(p) \/ Exit(p)

Tick(p) == WatchAnswered(p) \/ WatchFailed(p) \/ Reattach(p)

Next ==
  \E p \in Procs :
    \/ Launch(p) \/ Step(p) \/ Tick(p)
    \/ Release(p) \/ Shutdown(p) \/ VersionExit(p) \/ Crash(p)

Spec == Init /\ [][Next]_vars

(* The event loop completes what it has begun and timers keep firing;      *)
(* nothing makes a session start, leave or be killed.                      *)
FairSpec == Spec /\ \A p \in Procs : WF_vars(Step(p)) /\ WF_vars(Tick(p))

(* ---------------------------------------------------------------------- *)
(* Properties                                                              *)

TypeOK ==
  /\ pc \in [Procs -> Gone \cup Starting \cup Releasing \cup Stopping
                      \cup {"own", "reuse", "passive"}]
  /\ want \in [Procs -> Ports] /\ at \in [Procs -> Ports]
  /\ host \in [Procs -> Ports \cup {None}]
  /\ listening \in [Procs -> (Ports \ Foreign) \cup {None}]
  /\ entry \in [Procs -> Ports \cup {None}]
  /\ fails \in [Procs -> Nat]
  /\ sink \in [Procs -> Ports \cup {Local, None}]
  /\ portFile \in Procs \cup {None}
  /\ owns \in [Procs -> BOOLEAN]
  /\ departures \in 0..MaxDepartures /\ misses \in 0..MaxMisses

(* Until some process goes away or a probe is lost, all sessions share one *)
(* Bus, however their starts interleave: registering before binding makes  *)
(* the holder of the port recognisable (bus.ts:289-291).                   *)
OneBus ==
  departures = 0 /\ misses = 0 =>
    \A p, q \in Procs : listening[p] # None /\ listening[q] # None => p = q

(* Once a process has settled the registry tells the truth about it: an    *)
(* owner is listed with the port it is bound to, whatever sweeps of other  *)
(* processes ran meanwhile, a reuser is not listed at all.                 *)
SettledRegistry ==
  \A p \in Procs :
    /\ pc[p] = "own" => listening[p] # None /\ entry[p] = listening[p]
    /\ pc[p] \in {"reuse", "passive"} => listening[p] = None /\ entry[p] = None

(* Domain events go where the Bus is: to the own one, or to the host that  *)
(* is being watched, through takeovers, lost races and re-attachments.     *)
SinkFollowsBus ==
  \A p \in Procs :
    /\ pc[p] = "own" => sink[p] = Local
    /\ pc[p] = "reuse" => sink[p] = host[p]

(* Who serves, who is listed and where the events go never disagree.       *)
OneOwner == OneBus /\ SettledRegistry /\ SinkFollowsBus

(* A reuser does not stay "a headless zombie forwarding into a dead port"  *)
(* (bus.ts:317-319): it serves the Bus itself or finds one that answers.   *)
Headless(p) == pc[p] = "reuse" /\ ~ Answers(host[p])
NoZombie ==
  \A p \in Sessions :
    Headless(p) ~> \/ pc[p] \in Gone \cup Stopping \cup {"own"}
                   \/ pc[p] = "reuse" /\ Answers(host[p])

(* A process that gives up bus.port leaves it alone when another process   *)
(* has written it since.                                                   *)
ForeignFileKept ==
  [][\A p \in Procs :
       owns[p] /\ ~ owns'[p] /\ portFile # p => portFile' = portFile]_vars
=============================================================================
