--------------------------- MODULE MCStatusStream ---------------------------
(***************************************************************************)
(* Two of the page's views against the server they are fed from, side by   *)
(* side: StatusStream on a main agent and its subagent, and BoardPage on   *)
(* three boards, two of which hold an entry of the same key.  `part`       *)
(* chooses one at the start and only that one moves.                       *)
(***************************************************************************)
EXTENDS StatusStream

CONSTANTS
  main, sub, w1, w2, k1, k2,               (* the instance that is checked *)
  Workspaces, Keys, Boarded, Written, Slots, MaxRivals, MaxActs
                                           (* BoardPage; MaxRivals is its  *)
                                           (* bound on the agents' writes  *)

VARIABLES part, store, clock, view, form, asked, stream, writes, acts, unseen
boardVars == <<store, clock, view, form, asked, stream, writes, acts, unseen>>

MCParent == [a \in Agents |-> IF a = main THEN None ELSE main]

MCBoards ==
  [b \in {"global", w1, w2} |->
     [k \in {k1, k2} |-> IF k = k2 \/ b = "global" THEN 0 ELSE IF b = w1 THEN 1 ELSE 2]]
Board == INSTANCE BoardPage WITH MaxWrites <- MaxRivals

MCInit ==
  /\ part \in {"status", "board"} /\ Init /\ Board!Init
  /\ part = "status" => view.workspace = w1
MCNext ==
  \/ part = "status" /\ Next       /\ UNCHANGED <<part, boardVars>>
  \/ part = "board"  /\ Board!Next /\ UNCHANGED <<part, vars>>
MCSpec == MCInit /\ [][MCNext]_<<part, vars, boardVars>>

(* BoardPage's property, of its part.                                      *)
NothingUnseenIsReplaced == part = "board" => Board!NothingUnseenIsReplaced
=============================================================================
