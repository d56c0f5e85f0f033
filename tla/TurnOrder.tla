----------------------------- MODULE TurnOrder -----------------------------
(***************************************************************************)
(* What the debate hub promises its debaters, whatever the clients do:     *)
(* turns are taken in strict rotation over the N preset agents, nobody     *)
(* speaks before the debate opens or after it ends, and it ends only       *)
(* after every scheduled round, on the unanimous vote of the last N turns, *)
(* or by the orchestrator.  README.md:5 states the promise.                *)
(***************************************************************************)
EXTENDS Naturals, Sequences

CONSTANTS
  N,        (* number of agents; an agent is its 0-based position          *)
  Rounds    (* scheduled rounds                                            *)

VARIABLES
  phase,    (* "waiting", "open" or "over"                                 *)
  floor,    (* the agent whose turn it is                                  *)
  lap,      (* the current round                                           *)
  log       (* turns taken so far: [speaker, signoff]                      *)

turnVars == <<phase, floor, lap, log>>

Init ==
  /\ phase = "waiting"
  /\ floor = 0
  /\ lap = 1
  /\ log = <<>>

Open ==
  /\ phase = "waiting"
  /\ phase' = "open"
  /\ UNCHANGED <<floor, lap, log>>

(* The last N turns of a log are all signoffs: every agent agreed.         *)
Unanimous(l) ==
  /\ Len(l) >= N
  /\ \A i \in (Len(l) - N + 1)..Len(l) : l[i].signoff

(* A unanimous vote ends the debate on the spot.                           *)
FinalVote ==
  /\ phase = "open"
  /\ log' = Append(log, [speaker |-> floor, signoff |-> TRUE])
  /\ Unanimous(log')
  /\ phase' = "over"
  /\ UNCHANGED <<floor, lap>>

(* The floor passes to the next agent of the round.                        *)
Speak ==
  /\ phase = "open"
  /\ floor + 1 < N
  /\ \E s \in BOOLEAN :
        log' = Append(log, [speaker |-> floor, signoff |-> s])
  /\ ~ Unanimous(log')
  /\ floor' = floor + 1
  /\ UNCHANGED <<phase, lap>>

(* The last agent of a round hands over to the first one, or ends the      *)
(* debate after the last round.                                            *)
EndRound ==
  /\ phase = "open"
  /\ floor + 1 = N
  /\ \E s \in BOOLEAN :
        log' = Append(log, [speaker |-> floor, signoff |-> s])
  /\ ~ Unanimous(log')
  /\ floor' = 0
  /\ lap' = lap + 1
  /\ phase' = IF lap + 1 > Rounds THEN "over" ELSE "open"

(* The orchestrator may end the debate in any phase.                       *)
Dismiss ==
  /\ phase # "over"
  /\ phase' = "over"
  /\ UNCHANGED <<floor, lap, log>>

Next == Open \/ FinalVote \/ Speak \/ EndRound \/ Dismiss

Spec == Init /\ [][Next]_turnVars
=============================================================================
