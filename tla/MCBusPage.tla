------------------------------ MODULE MCBusPage ------------------------------
(***************************************************************************)
(* BusOwnership, StatusPage, AgentCard and OmkcSource side by side: `part` *)
(* chooses one at the start and only that one moves.  The page is given    *)
(* one session of three agents whose parents may be missing, crossed or    *)
(* the agent itself, and whose lists name the same subagent.               *)
(***************************************************************************)
EXTENDS BusOwnership, TLC

CONSTANTS
  s1, a, b, c, d1, PageSessions, Ids, Frames, Rows,           (* StatusPage *)
  MaxProbes, MaxChanges,                                      (* AgentCard  *)
  MaxStarts, MaxShifts                                        (* OmkcSource *)

ASSUME CountsAssumption == MaxStarts \in Nat

VARIABLES
  part,
  srv, page, knot,
  server, probes, replies, bodies, retries, starting, reprobe, strikes, hidden, visible, sse, frames, changes,
  running, generation, starts, mine, loop, abort, current, source, line, shifts, told

pageVars == <<srv, page, knot>>
cardVars == <<server, probes, replies, bodies, retries, starting, reprobe, strikes, hidden, visible,
              sse, frames, changes>>
omkcVars == <<running, generation, starts, mine, loop, abort, current, source, line, shifts, told>>

AgentRow(i, p, l, busy, hash) ==
  [s |-> s1, id |-> i, parent |-> p, subs |-> l, busy |-> busy, stale |-> FALSE, hash |-> hash]
MCRows == {[s |-> s1, dir |-> d1]}
MCFrames ==
  {AgentRow(a, p, l, FALSE, None) : p \in {None, b}, l \in {<< >>, b :> "running"}}
  \cup {AgentRow(b, p, l, busy, None) : p \in {a, c}, l \in {<< >>, c :> "running"}, busy \in BOOLEAN}
  \cup {AgentRow(c, p, << >>, TRUE, d1) : p \in {a, c}}

Page == INSTANCE StatusPage
(* What a frame speaks of are agents of one session, and None is none; a   *)
(* snapshot's rows are of sessions.                                        *)
ASSUME PageAssumption ==
  /\ IsFiniteSet(PageSessions) /\ IsFiniteSet(Ids) /\ IsFiniteSet(Rows)
  /\ None \notin Frames \cup Ids \cup Page!Keys
  /\ \A f \in Frames : /\ f.s \in PageSessions /\ f.id \in Ids /\ f.parent \in Ids \cup {None}
                       /\ DOMAIN f.subs \subseteq Ids
  /\ \A r \in Rows : r.s \in PageSessions

Card == INSTANCE AgentCard WITH fails <- strikes
Omkc == INSTANCE OmkcSource WITH MaxChanges <- MaxShifts, changes <- shifts

MCInit ==
  /\ part \in {"bus", "page", "card", "omkc"}
  /\ Init /\ Page!Init /\ Card!Init /\ Omkc!Init
  /\ part # "card" => server = "up"
  /\ part # "omkc" => source = "down"
MCNext ==
  \/ part = "bus"  /\ Next      /\ UNCHANGED <<part, pageVars, cardVars, omkcVars>>
  \/ part = "page" /\ Page!Next /\ UNCHANGED <<part, vars, cardVars, omkcVars>>
  \/ part = "card" /\ Card!Next /\ UNCHANGED <<part, vars, pageVars, omkcVars>>
  \/ part = "omkc" /\ Omkc!Next /\ UNCHANGED <<part, vars, pageVars, cardVars>>

(* The fairness of each, for its own part; no loop of OmkcSource runs in   *)
(* the other parts.                                                        *)
OnBus == part = "bus"
OnCard == part = "card"
MCSpec ==
  /\ MCInit /\ [][MCNext]_<<part, vars, pageVars, cardVars, omkcVars>>
  /\ \A p \in Procs : WF_vars(OnBus /\ Step(p)) /\ WF_vars(OnBus /\ Tick(p))
  /\ WF_cardVars(OnCard /\ Card!Reply) /\ WF_cardVars(OnCard /\ Card!Answered)
  /\ WF_cardVars(OnCard /\ Card!Applied) /\ WF_cardVars(OnCard /\ Card!Retry)
  /\ WF_cardVars(OnCard /\ Card!StartingTimer) /\ WF_cardVars(OnCard /\ Card!Reprobe)
  /\ WF_cardVars(OnCard /\ Card!SseOpens) /\ WF_cardVars(OnCard /\ Card!SseFails)
  /\ WF_cardVars(OnCard /\ Card!SseAgain) /\ WF_cardVars(OnCard /\ Card!Flush)
  /\ Omkc!Fairness

(* BusOwnership's property, of its part: a session that its bus abandons   *)
(* does not stay without one.                                              *)
BusIsNeverLost == OnBus => NoZombie

(* StatusPage's properties, of its part: the agents are a tree, every page *)
(* shows what was sent to it, no agent is hidden, and no cache is stale.   *)
PageIsHonest ==
  part = "page" => Page!TreeIsSound /\ Page!ShowsWhatWasSent /\ Page!NothingHidden /\ Page!DirCacheFresh

(* AgentCard's properties, of its part.                                    *)
StillLooking  == OnCard => Card!StillLooking
CardComesBack == OnCard => Card!CardComesBack

(* OmkcSource's properties, of its part.                                   *)
OneSubscription  == part = "omkc" => Omkc!OneSubscription
ConnectsInTheEnd == part = "omkc" => Omkc!ConnectsInTheEnd
=============================================================================
