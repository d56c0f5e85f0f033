------------------------------ MODULE AgentCard ------------------------------
(***************************************************************************)
(* How the debate page keeps its agent status alive: a probe of /status    *)
(* that tells a server that is starting (503) from one that is gone, the   *)
(* event stream that reconnects by itself, and the timers between them.    *)
(* Three failures hide the card, and a slow probe is to find the server    *)
(* again; frames are drawn in batches, which may come after the hiding.    *)
(*                                                                         *)
(* What is drawn is left out: StatusPage has the model behind it.          *)
(*                                                                         *)
(* A definition X_Y is X as a plausible bug would have it.                 *)
(***************************************************************************)
EXTENDS Naturals

CONSTANTS MaxChanges, MaxProbes        (* bounds: of the server's state;   *)
                                       (* of requests under way            *)

VARIABLES
  server,                 (* "up", "starting" (503) or "down"              *)
  probes,                 (* requests on their way to the server           *)
  replies, bodies,        (* its answers on their way back, by what it was *)
                          (* then; 200s whose body is read                 *)
  retries,                (* timers of a second that probe again           *)
  starting,               (* the timer of two seconds after a 503          *)
  reprobe,                (* the interval of thirty seconds                *)
  fails, hidden, visible,
  sse,                    (* connectSSE: "none", "connecting", "open",     *)
                          (* "waiting"                                     *)
  frames,                 (* a snapshot waits to be drawn                  *)
  changes

requests == <<probes, replies, bodies>>
timers == <<retries, starting, reprobe>>
vars == <<server, requests, timers, fails, hidden, visible, sse, frames, changes>>

Kinds == {"up", "starting", "down"}

Init ==
  /\ server \in Kinds
  /\ probes = 1 /\ replies = [k \in Kinds |-> 0] /\ bodies = 0   (* just asked *)
  /\ retries = 0 /\ starting = FALSE /\ reprobe = FALSE
  /\ fails = 0 /\ hidden = FALSE /\ visible = FALSE
  /\ sse = "none" /\ frames = FALSE /\ changes = 0

(* ---------------------------------------------------------------------- *)
(* probeStatus                                                             *)

Reply ==
  /\ probes > 0
  /\ probes' = probes - 1 /\ replies' = [replies EXCEPT ![server] = @ + 1]
  /\ UNCHANGED <<server, bodies, timers, fails, hidden, visible, sse, frames, changes>>

Gets(k) == replies[k] > 0 /\ replies' = [replies EXCEPT ![k] = @ - 1]

(* 200: the body is still to come.                                         *)
Found ==
  /\ Gets("up") /\ bodies' = bodies + 1
  /\ fails' = 0 /\ hidden' = FALSE /\ reprobe' = FALSE /\ starting' = FALSE
  /\ UNCHANGED <<server, probes, retries, visible, sse, frames, changes>>

Applied ==
  /\ bodies > 0
  /\ bodies' = bodies - 1
  /\ visible' = TRUE
  /\ sse' = IF sse = "none" THEN "connecting" ELSE sse
  /\ UNCHANGED <<server, probes, replies, timers, fails, hidden, frames, changes>>

(* 503 is no failure; a card hidden on purpose stays hidden.               *)
Starting_GivesUp ==
  /\ Gets("starting")
  /\ fails' = 0
  /\ visible' = (visible \/ ~hidden)
  /\ starting' = (starting \/ ~hidden)
  /\ reprobe' = FALSE
  /\ UNCHANGED <<server, probes, bodies, retries, hidden, sse, frames, changes>>
Starting_Shows ==
  /\ Gets("starting")
  /\ fails' = 0
  /\ visible' = TRUE
  /\ starting' = TRUE
  /\ UNCHANGED <<server, probes, bodies, retries, reprobe, hidden, sse, frames, changes>>
Starting ==
  /\ Gets("starting")
  /\ fails' = 0
  /\ visible' = (visible \/ ~hidden)
  /\ starting' = (starting \/ ~hidden)
  /\ UNCHANGED <<server, probes, bodies, retries, reprobe, hidden, sse, frames, changes>>

Strikes == 3
Failed_Once ==
  /\ Gets("down")
  /\ fails' = IF fails < Strikes THEN fails + 1 ELSE fails
  /\ IF fails + 1 < Strikes THEN retries' = retries + 1 /\ UNCHANGED <<starting, reprobe, hidden, visible, sse>>
     ELSE /\ starting' = FALSE /\ hidden' = TRUE /\ visible' = FALSE
          /\ sse' = "none" /\ UNCHANGED <<retries, reprobe>>
  /\ UNCHANGED <<server, probes, bodies, frames, changes>>
Failed ==
  /\ Gets("down")
  /\ fails' = IF fails < Strikes THEN fails + 1 ELSE fails
  /\ IF fails + 1 < Strikes THEN retries' = retries + 1 /\ UNCHANGED <<starting, reprobe, hidden, visible, sse>>
     ELSE /\ starting' = FALSE /\ hidden' = TRUE /\ visible' = FALSE
          /\ sse' = "none" /\ reprobe' = TRUE /\ UNCHANGED retries
  /\ UNCHANGED <<server, probes, bodies, frames, changes>>

Answered == Found \/ Starting \/ Failed

(* The timers probe again.                                                 *)
UnderWay == probes + bodies + replies["up"] + replies["starting"] + replies["down"]
Probe == UnderWay < MaxProbes /\ probes' = probes + 1
Retry ==
  /\ retries > 0 /\ retries' = retries - 1 /\ Probe
  /\ UNCHANGED <<server, replies, bodies, starting, reprobe, fails, hidden, visible, sse, frames, changes>>
StartingTimer ==
  /\ starting /\ starting' = FALSE /\ Probe
  /\ UNCHANGED <<server, replies, bodies, retries, reprobe, fails, hidden, visible, sse, frames, changes>>
Reprobe ==
  /\ reprobe /\ Probe
  /\ UNCHANGED <<server, replies, bodies, timers, fails, hidden, visible, sse, frames, changes>>

(* ---------------------------------------------------------------------- *)
(* The stream: connectSSE and what the page makes of its states            *)

SseOpens ==
  /\ sse = "connecting" /\ server = "up"
  /\ sse' = "open"
  /\ fails' = 0 /\ reprobe' = FALSE /\ starting' = FALSE
  /\ UNCHANGED <<server, requests, retries, hidden, visible, frames, changes>>
SseFails ==
  /\ \/ sse = "connecting" /\ server # "up"
     \/ sse = "open" /\ server # "up"
  /\ sse' = "waiting" /\ Probe
  /\ UNCHANGED <<server, replies, bodies, timers, fails, hidden, visible, frames, changes>>
SseAgain ==
  /\ sse = "waiting" /\ sse' = "connecting"
  /\ UNCHANGED <<server, requests, timers, fails, hidden, visible, frames, changes>>

(* The first frame is a snapshot; it is drawn with the next batch.         *)
Frame ==
  /\ sse = "open" /\ ~frames /\ changes < MaxChanges
  /\ frames' = TRUE
  /\ UNCHANGED <<server, requests, timers, fails, hidden, visible, sse, changes>>
Flush ==
  /\ frames
  /\ frames' = FALSE /\ hidden' = FALSE /\ visible' = TRUE
  /\ UNCHANGED <<server, requests, timers, fails, sse, changes>>

ServerChanges ==
  /\ changes < MaxChanges
  /\ server' \in Kinds \ {server}
  /\ changes' = changes + 1
  /\ UNCHANGED <<requests, timers, fails, hidden, visible, sse, frames>>

Next ==
  \/ Reply \/ Answered \/ Applied \/ Retry \/ StartingTimer \/ Reprobe
  \/ SseOpens \/ SseFails \/ SseAgain \/ Frame \/ Flush \/ ServerChanges

Spec == Init /\ [][Next]_vars

(* Requests are answered and timers fire.                                  *)
Fairness ==
  /\ WF_vars(Reply) /\ WF_vars(Answered) /\ WF_vars(Applied) /\ WF_vars(Retry) /\ WF_vars(StartingTimer)
  /\ WF_vars(Reprobe) /\ WF_vars(SseOpens) /\ WF_vars(SseFails) /\ WF_vars(SseAgain) /\ WF_vars(Flush)
LiveSpec == Spec /\ Fairness

(* ---------------------------------------------------------------------- *)
(* Properties                                                              *)

(* The page never forgets the server: a request, a timer or the stream is  *)
(* always there to find it again; a hidden card holds no stream, and no    *)
(* late answer shows it again without one (debate-card.ts:1560-1626).      *)
Nothing == <<0, [k \in Kinds |-> 0], 0>>
StillLooking ==
  /\ requests # Nothing \/ retries > 0 \/ starting \/ reprobe \/ sse # "none"
  /\ ~visible => sse = "none"
  /\ hidden /\ visible => sse # "none"

(* Once the server stays up the card is shown with an open stream, for     *)
(* good, whatever answers were under way.                                  *)
CardComesBack == <>[](server = "up") => <>[](visible /\ sse = "open")
=============================================================================
