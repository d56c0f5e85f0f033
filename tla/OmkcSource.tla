------------------------------ MODULE OmkcSource ------------------------------
(***************************************************************************)
(* The status service's subscription to the endpoint that a command line   *)
(* agent embeds: a loop probes the ports, reads the stream of the source   *)
(* that it finds until it ends, and probes again.  stop and start may come *)
(* at any time and start does not wait for the end of the loop that was    *)
(* stopped: a loop knows by its generation whether it is still wanted.     *)
(*                                                                         *)
(* Ports, versions, frames and their parsing are left out.                 *)
(*                                                                         *)
(* A definition X_Y is X as a plausible bug would have it.                 *)
(***************************************************************************)
EXTENDS Naturals, FiniteSets

CONSTANTS MaxStarts, MaxChanges        (* bounds: loops; of the source     *)

Loops == 1..MaxStarts
NoLoop == 0

VARIABLES
  running, generation,
  starts,                 (* loops so far: loop g is the g-th              *)
  mine,                   (* loop -> the generation that it captured       *)
  loop,                   (* loop -> where it is                           *)
  abort,                  (* whose attempt the abort controller belongs to *)
  current,                (* the loop whose source is connected            *)
  source,                 (* "up", "silent" (accepts and sends nothing) or *)
                          (* "down"                                        *)
  line,                   (* loop -> its stream: "live", "silent" or       *)
                          (* "closed"                                      *)
  changes,
  told                    (* history: onConnect less onDisconnect          *)

vars == <<running, generation, starts, mine, loop, abort, current, source, line, changes, told>>

Init ==
  /\ running = FALSE /\ generation = 0 /\ starts = 0
  /\ mine = [g \in Loops |-> 0] /\ loop = [g \in Loops |-> "none"]
  /\ abort = NoLoop /\ current = NoLoop
  /\ source \in {"up", "silent", "down"} /\ line = [g \in Loops |-> "closed"]
  /\ changes = 0 /\ told = 0

(* A loop whose attempt was aborted goes on before anything from outside.  *)
Quiet == \A g \in Loops : loop[g] # "ended"

Start ==
  /\ ~running /\ starts < MaxStarts /\ Quiet
  /\ running' = TRUE /\ generation' = generation + 1 /\ starts' = starts + 1
  /\ mine' = [mine EXCEPT ![starts'] = generation']
  /\ loop' = [loop EXCEPT ![starts'] = "probe"]
  /\ UNCHANGED <<abort, current, source, line, changes, told>>

(* The abort ends the attempt that holds the controller, if it still runs. *)
Aborted(l) == IF abort # NoLoop /\ l[abort] \in {"header", "stream"} THEN [l EXCEPT ![abort] = "ended"] ELSE l

Stop ==
  /\ running /\ Quiet
  /\ running' = FALSE /\ generation' = generation + 1
  /\ loop' = Aborted(loop)
  /\ UNCHANGED <<starts, mine, abort, current, source, line, changes, told>>

Wanted_Running(g) == running
Wanted(g) == running /\ mine[g] = generation

(* The answer of the probe: health is answered by a silent source too.     *)
Probed(g, found) ==
  /\ loop[g] = "probe" /\ Quiet
  /\ found => source # "down"
  /\ \/ ~Wanted(g) /\ loop' = [loop EXCEPT ![g] = "gone"] /\ UNCHANGED abort
     \/ Wanted(g) /\ found /\ loop' = [loop EXCEPT ![g] = "header"] /\ abort' = g
     \/ Wanted(g) /\ ~found /\ loop' = [loop EXCEPT ![g] = "sleep"] /\ UNCHANGED abort
  /\ UNCHANGED <<running, generation, starts, mine, current, source, line, changes, told>>

(* The headers of /events arrive, or the attempt fails or takes too long.  *)
Connect(g) ==
  /\ loop[g] = "header" /\ Quiet /\ source # "down"
  /\ loop' = [loop EXCEPT ![g] = "stream"]
  /\ current' = g /\ told' = told + 1
  /\ line' = [line EXCEPT ![g] = IF source = "up" THEN "live" ELSE "silent"]
  /\ UNCHANGED <<running, generation, starts, mine, abort, source, changes>>
Fail(g) ==
  /\ loop[g] = "header" /\ Quiet /\ source # "up"
  /\ loop' = [loop EXCEPT ![g] = "ended"]
  /\ UNCHANGED <<running, generation, starts, mine, abort, current, source, line, changes, told>>

(* The stream ends, or nothing arrives for the idle time: abort.           *)
StreamEnds(g) ==
  /\ loop[g] = "stream" /\ Quiet /\ line[g] = "closed"
  /\ loop' = [loop EXCEPT ![g] = "ended"]
  /\ UNCHANGED <<running, generation, starts, mine, abort, current, source, line, changes, told>>
Idle_Never(g) == loop[g] = "stream" /\ Quiet /\ line[g] = "closed" /\ UNCHANGED vars
Idle(g) ==
  /\ loop[g] = "stream" /\ Quiet /\ line[g] = "silent"
  /\ loop' = [Aborted(loop) EXCEPT ![g] = "ended"]
  /\ UNCHANGED <<running, generation, starts, mine, abort, current, source, line, changes, told>>

(* After the attempt: whatever is connected is reported lost.              *)
Ended_Keeps(g) ==
  /\ loop[g] = "ended"
  /\ loop' = [loop EXCEPT ![g] = IF Wanted(g) THEN "sleep" ELSE "gone"]
  /\ current' = IF Wanted(g) THEN NoLoop ELSE current
  /\ told' = IF Wanted(g) /\ current # NoLoop THEN told - 1 ELSE told
  /\ UNCHANGED <<running, generation, starts, mine, abort, source, line, changes>>
Ended(g) ==
  /\ loop[g] = "ended"
  /\ current' = NoLoop
  /\ told' = IF current = NoLoop THEN told ELSE told - 1
  /\ loop' = [loop EXCEPT ![g] = IF Wanted(g) THEN "sleep" ELSE "gone"]
  /\ UNCHANGED <<running, generation, starts, mine, abort, source, line, changes>>

Wake(g) ==
  /\ loop[g] = "sleep" /\ Quiet
  /\ loop' = [loop EXCEPT ![g] = IF Wanted(g) THEN "probe" ELSE "gone"]
  /\ UNCHANGED <<running, generation, starts, mine, abort, current, source, line, changes, told>>

(* The source comes or goes; the streams of before are closed, or are not  *)
(* and stay silent.                                                        *)
SourceChanges ==
  /\ changes < MaxChanges /\ Quiet
  /\ source' \in {"up", "silent", "down"} \ {source}
  /\ \E end \in {"closed", "silent"} : line' = [g \in Loops |-> IF line[g] = "live" THEN end ELSE line[g]]
  /\ changes' = changes + 1
  /\ UNCHANGED <<running, generation, starts, mine, loop, abort, current, told>>

Work(g) ==
  \/ Probed(g, FALSE) \/ Probed(g, TRUE) \/ Connect(g) \/ Fail(g)
  \/ StreamEnds(g) \/ Idle(g) \/ Ended(g) \/ Wake(g)
Next == Start \/ Stop \/ SourceChanges \/ \E g \in Loops : Work(g)

Spec == Init /\ [][Next]_vars

(* The loops' timers fire and their requests end; not every probe misses   *)
(* a source that is up.                                                    *)
Fairness ==
  \A g \in Loops : /\ WF_vars(Probed(g, FALSE) /\ (source = "down" \/ ~Wanted(g))) /\ SF_vars(Probed(g, TRUE))
                   /\ WF_vars(Connect(g)) /\ WF_vars(Fail(g)) /\ WF_vars(StreamEnds(g))
                   /\ WF_vars(Idle(g)) /\ WF_vars(Ended(g)) /\ WF_vars(Wake(g))
LiveSpec == Spec /\ Fairness

(* ---------------------------------------------------------------------- *)
(* Properties                                                              *)

(* However stop and start follow each other, one loop at most is attached  *)
(* to the source, it is the one that is wanted, the status names it, and   *)
(* connects and disconnects are told in turn (sse-source.ts:108-114).      *)
OneSubscription ==
  Quiet =>
    LET attached == {g \in Loops : loop[g] \in {"header", "stream"}}
    IN /\ Cardinality(attached) <= 1
       /\ \A g \in attached : Wanted(g) /\ abort = g
       /\ \A g \in Loops : loop[g] = "stream" <=> current = g
       /\ told = Cardinality({g \in Loops : loop[g] = "stream"})

(* A service that keeps running is connected in the end to a source that   *)
(* stays up, also after one that fell silent without closing.              *)
ConnectsInTheEnd == <>[](running /\ source = "up") => <>[](current # NoLoop /\ line[current] = "live")
=============================================================================
