--------------------------- MODULE MCSharedFiles ---------------------------
(***************************************************************************)
(* The two ways in which this system guards a file that others write too,  *)
(* side by side: the append lock between processes (AppendLock) and the    *)
(* hash check of the agent configuration (AgentConfig).  `part` chooses    *)
(* one at the start and only that one moves.                               *)
(***************************************************************************)
EXTENDS AppendLock, Sequences

CONSTANTS Names, Words, Callers, Texts, Changes, MaxSaves, MaxEdits, MaxBusy    (* AgentConfig *)

VARIABLES part, kind, file, call, queue, saves, edits, busy, edited, lost, last

configVars == <<kind, file, call, queue, saves, edits, busy, edited, lost, last>>
allVars == <<part, vars, configVars>>

(* What editors write and what callers ask for: a list over several lines, *)
(* a look-alike of an assignment in a string, an inline table, a dotted    *)
(* key, a quoted header and a string that ends in four quotes.             *)
TP == INSTANCE TomlPatch
H(n) == TP!Line("header", n, TP!Null)
A(f, v) == TP!Line("assign", f, v)
Note == TP!Line("text", "", 7)
MCTexts ==
  { <<H("a"), A("model", 1), A("list", 5), Note, H("b"), A("effort", 1)>>,
    <<H("a"), TP!Quote(A("note", 3)), A("model", 2), H("b"), TP!Quote(TP!Line("text", "", 4)),
      A("model", 1), TP!Line("other", "", TP!Null), A("model", 6)>>,
    <<TP!Line("inline", "a", 1), H("b"), A("effort", 2), TP!Line("quoted", "model", 1)>>,
    <<H("a"), TP!Line("open", "list", 5), TP!Line("item", "", 8), TP!Line("close", "", 9), A("model", 1)>>,
    <<H("a"), TP!Quote(A("model", 3)), TP!Quote(TP!Line("text", "", 4)), H("b"),
      TP!Line("dotted", "x", 1)>>,
    <<H("a"), TP!Quote(A("note", 3)), TP!Fourth(TP!Quote(TP!Line("text", "", 4))), H("b"),
      A("effort", 1)>> }

Patch(n, p) == [name |-> n, delete |-> FALSE, patch |-> p]
Drop(n) == [name |-> n, delete |-> TRUE, patch |-> <<>>]
Field(f, v) == [g \in {f} |-> v]
MCChanges ==
  { <<Patch("a", Field("model", 2))>>, <<Patch("a", Field("model", TP!Null))>>,
    <<Patch("a", Field("effort", 1))>>, <<Patch("b", [model |-> 1, effort |-> TP!Null])>>,
    <<Drop("a")>>, <<Drop("b"), Patch("a", Field("model", 2))>> }

Config == INSTANCE AgentConfig

(* Editors write any text, TOML or not; callers name bindings and patch    *)
(* some of the fields that the service knows.                              *)
ASSUME ConfigAssumption ==
  /\ Names \subseteq Words /\ TP!Fields \subseteq Words /\ "" \in Words
  /\ Texts \subseteq Seq(TP!Lines)
  /\ \A list \in Changes : /\ Len(list) \in Nat /\ DOMAIN list = 1..Len(list)
                           /\ \A k \in DOMAIN list : TP!IsChange(list[k])

MCInit ==
  /\ part \in {"lock", "config"}
  /\ Init /\ Config!Init
  /\ part = "lock" => kind = "toml" /\ file = Config!Absent

MCNext ==
  \/ part = "lock"   /\ Next        /\ UNCHANGED <<part, configVars>>
  \/ part = "config" /\ Config!Next /\ UNCHANGED <<part, vars>>

(* The fairness of AppendLock's FairSpec, for the behaviours of its part.  *)
Locking == part = "lock"
MCSpec ==
  /\ MCInit /\ [][MCNext]_allVars
  /\ \A p \in Procs : /\ WF_vars(Locking /\ Begin(p)) /\ WF_vars(Locking /\ Step(p))
                      /\ WF_vars(Locking /\ Deadline(p))
  /\ WF_vars(Locking /\ Orphaned /\ Age)

(* AppendLock's liveness, of its part: an acquisition ends, and after a    *)
(* crash the lock is free again.                                           *)
LockIsNeverStuck == Locking => AcquisitionSettles /\ NotWedged

(* AgentConfig's properties, of its part.                                  *)
SavesTakeTurns == part = "config" => Config!SavesTakeTurns
SavesAreExact  == part = "config" => Config!SavesAreExact

(* What does not hold of the texts with four quotes.                       *)
EverySaveIsExact == part = "config" => Config!EverySaveIsExact
=============================================================================
