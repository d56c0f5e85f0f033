-------------------------- MODULE MCProjectBoards --------------------------
(***************************************************************************)
(* ProjectBoards and Notes side by side: a behaviour is one of either, the *)
(* other's variables keep their initial values.  ProjectBoards has two     *)
(* requests of one process and one of another; Notes has one request of    *)
(* each of two processes, and two workspaces.                              *)
(***************************************************************************)
EXTENDS ProjectBoards, TLC

CONSTANTS
  p1, p2, c1, c2, c3,
  Clients, Served, Workspaces, Global, Cap, MaxOps, MaxLinks      (* Notes *)

(* A scope is "workspace:<hash>", "project:<id>" or "global".              *)
ASSUME ScopesAssumption ==
  /\ Served \in [Clients -> Procs]
  /\ Workspaces \cap (Projects \cup {Global}) = {}
  /\ None \notin Workspaces \cup Projects \cup {Global}
ASSUME ScanAssumption == Cap \in Nat /\ MaxOps \in Nat /\ MaxLinks \in Nat

VARIABLES part, alias, boards, attic, call, stamp, links, noted, done
mail == <<alias, boards, attic, call, stamp, links, noted, done>>

MCHome == [c \in Calls |-> IF c = c3 THEN p2 ELSE p1]

MCServed == [c \in Clients |-> IF c = c1 THEN p1 ELSE p2]

Notes == INSTANCE Notes WITH Calls <- Clients, Home <- Served, clock <- stamp, acked <- noted

BothInit == Init /\ Notes!Init /\ part \in {"boards", "notes"}
BothNext ==
  \/ part = "boards" /\ Next       /\ UNCHANGED <<part, mail>>
  \/ part = "notes"  /\ Notes!Next /\ UNCHANGED <<part, vars>>
BothSpec == BothInit /\ [][BothNext]_<<part, vars, mail>>

Symmetry == Permutations(Projects) \cup Permutations({c1, c2}) \cup Permutations(Workspaces)

ClaimedOnce      == part = "notes" => Notes!ClaimedOnce
NotesAreKept     == part = "notes" => Notes!PatchesSurvive /\ Notes!ListingsComplete
=============================================================================
