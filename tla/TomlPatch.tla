------------------------------ MODULE TomlPatch ------------------------------
(***************************************************************************)
(* How the structured editor changes one binding in local.toml: not by     *)
(* printing what it parsed but line by line in the text, so that whatever  *)
(* it does not understand stays.  It finds tables and fields by the look   *)
(* of a line, and must not be taken in by strings that span lines, arrays, *)
(* quoted keys or tables in another notation.                              *)
(*                                                                         *)
(* A line is known by its look, what it names, whether it opens or closes  *)
(* a string in triple quotes that goes over several lines, and whether it  *)
(* has four quotes in a row where such a string begins or ends.  Spacing,  *)
(* line ends, comments at the end of a line and the other characters of    *)
(* names and values are left out.  The name of a binding stands for its    *)
(* section and its name.                                                   *)
(*                                                                         *)
(* A definition X_Y is X as a plausible bug would have it.                 *)
(***************************************************************************)
EXTENDS Naturals, FiniteSets, SequencesExt

CONSTANTS
  Names,                  (* of bindings                                   *)
  Words                   (* what headers and keys of a text name          *)

Fields == {"model", "effort"}                    (* of three               *)
Null == 0

(* "header" [subagent.n]; "other" any other table; "assign" key = value;   *)
(* "quoted" "key" = value; "dotted" x.y = value; "inline" n = { ... } in   *)
(* the root; "open", "item", "close" an array over several lines; "text" a *)
(* comment or an empty line.                                               *)
Looks == {"header", "other", "inline", "assign", "quoted", "dotted", "open", "item", "close", "text"}
Lines == [look: Looks, of: Words, value: Nat, quote: BOOLEAN, fourth: BOOLEAN]
Line(look, of, value) == [look |-> look, of |-> of, value |-> value, quote |-> FALSE, fourth |-> FALSE]
Quote(line) == [line EXCEPT !.quote = TRUE]
Fourth(line) == [line EXCEPT !.fourth = TRUE]

(* No line has four quotes in a row.                                       *)
Plain(doc) == \A i \in DOMAIN doc : ~doc[i].fourth

(* lexTomlLine carries its mode from line to line, also that of a string   *)
(* in single quotes, which TOML ends with the line.  The first three       *)
(* quotes close a string in triple quotes; to TOML the first of four still *)
(* belongs to it, to the lexer the last opens another string.              *)
Lex(mode, line) ==
  CASE ~line.quote /\ ~line.fourth -> mode
    [] line.quote /\ ~line.fourth -> IF mode = "none" THEN "multi" ELSE "none"
    [] line.quote /\ line.fourth -> IF mode = "multi" THEN "single" ELSE "multi"
    [] ~line.quote /\ line.fourth -> IF mode = "none" THEN "single" ELSE "multi"
Modes(doc) ==
  LET mode[k \in 0..Len(doc)] == IF k = 0 THEN "none" ELSE Lex(mode[k - 1], doc[k])
  IN mode

(* stateBefore: the line begins inside a string, as the lexer has it.      *)
Inside_Never(doc, i) == FALSE
Inside(doc, i) == Modes(doc)[i - 1] # "none"

(* ---------------------------------------------------------------------- *)
(* What the text means: the TOML parser                                    *)

Within(doc, i) == Cardinality({j \in 1..(i - 1) : doc[j].quote}) % 2 = 1
Code(doc) == {i \in DOMAIN doc : ~Within(doc, i)}
Tables(doc) == {i \in Code(doc) : doc[i].look \in {"header", "other"}}
Keys(doc) == {i \in Code(doc) : doc[i].look \in {"assign", "quoted", "dotted", "open"}}
TableOf(doc, i) == LET before == {h \in Tables(doc) : h < i}
                   IN IF before = {} THEN 0 ELSE CHOOSE h \in before : \A g \in before : g <= h

(* A value may go on in the lines of a string.                             *)
Value(doc, i) ==
  LET ends == {j \in (i + 1)..Len(doc) : doc[j].quote}
      close == IF doc[i].quote THEN CHOOSE j \in ends : \A k \in ends : j <= k ELSE i
  IN [k \in 1..(close - i + 1) |-> doc[i + k - 1].value]

Valid(doc) ==
  LET solid == {i \in Code(doc) : doc[i].look # "text"}
      Prev(i) == {j \in solid : j < i /\ \A k \in solid : k < i => k <= j}
      Next1(i) == {j \in solid : j > i /\ \A k \in solid : k > i => j <= k}
      named == {i \in Code(doc) : doc[i].look \in {"header", "inline"}}
  IN /\ Cardinality({i \in DOMAIN doc : doc[i].quote}) % 2 = 0
     /\ \A i, j \in named : doc[i].of = doc[j].of => i = j
     /\ \A i \in named : doc[i].look = "inline" => TableOf(doc, i) = 0
     /\ \A i, j \in Keys(doc) : TableOf(doc, i) = TableOf(doc, j) /\ doc[i].of = doc[j].of => i = j
     /\ \A i \in solid : doc[i].look \in {"item", "close"} =>
          \E j \in Prev(i) : doc[j].look \in {"open", "item"}
     /\ \A i \in solid : doc[i].look \in {"open", "item"} =>
          \E j \in Next1(i) : doc[j].look \in {"item", "close"}

(* name -> field -> value, for the names that have a table.                *)
Header(doc, n) == {i \in Tables(doc) : doc[i].look = "header" /\ doc[i].of = n}
Parse(doc) ==
  [n \in {m \in Names : \E i \in Code(doc) : doc[i].look \in {"header", "inline"} /\ doc[i].of = m} |->
     LET mine == {i \in Keys(doc) : TableOf(doc, i) \in Header(doc, n)}
     IN [f \in {doc[i].of : i \in mine} |-> Value(doc, CHOOSE i \in mine : doc[i].of = f)]]

(* ---------------------------------------------------------------------- *)
(* The scan by looks                                                       *)

LooksLikeTable(doc, i) == ~Inside(doc, i) /\ doc[i].look \in {"header", "other", "item"}
Blocks(doc, n) == {i \in DOMAIN doc : LooksLikeTable(doc, i) /\ doc[i].look = "header" /\ doc[i].of = n}
BlockEnd(doc, start) ==
  LET after == {i \in (start + 1)..Len(doc) : LooksLikeTable(doc, i)}
  IN IF after = {} THEN Len(doc) + 1 ELSE CHOOSE i \in after : \A j \in after : i <= j

Refusal == Line("refused", "", Null)
Refused == <<Refusal>>                            (* the whole save fails  *)

(* ---------------------------------------------------------------------- *)
(* patchBindingText: a patch gives some fields a value, or Null to remove  *)
(* them                                                                    *)

Given(patch) == LET Kept(f) == IF f \in DOMAIN patch /\ patch[f] # Null THEN <<f>> ELSE <<>>
                IN Kept("model") \o Kept("effort")

AppendTable(doc, n, patch) ==
  IF Given(patch) = <<>> THEN doc
  ELSE Append(doc, Line("header", n, Null))
         \o [k \in DOMAIN Given(patch) |-> Line("assign", Given(patch)[k], patch[Given(patch)[k]])]

PatchLine_Strings(line, value) == IF value = Null THEN Line("text", "", Null) ELSE [line EXCEPT !.value = value]
PatchLine(line, value) ==
  CASE line.quote \/ line.fourth -> Refusal
    [] ~line.quote /\ ~line.fourth /\ value = Null -> Line("text", "", Null)
    [] ~line.quote /\ ~line.fourth /\ value # Null -> [line EXCEPT !.value = value]

(* One field, in the block that begins at start.                           *)
PatchField(doc, start, f, value, known) ==
  LET end == BlockEnd(doc, start)
      found == {i \in (start + 1)..(end - 1) : ~Inside(doc, i) /\ doc[i].look = "assign" /\ doc[i].of = f}
      i == CHOOSE j \in found : TRUE
  IN CASE found = {} /\ value = Null -> IF f \in known THEN Refused ELSE doc
       [] found = {} /\ value # Null -> InsertAt(doc, end, Line("assign", f, value))
       [] found # {} -> IF PatchLine(doc[i], value) = Refusal THEN Refused
                        ELSE [doc EXCEPT ![i] = PatchLine(@, value)]

PatchBlock(doc, n, patch) ==
  LET start == CHOOSE i \in Blocks(doc, n) : TRUE
      mixed == \E i \in (start + 1)..(BlockEnd(doc, start) - 1) : ~Inside(doc, i) /\ doc[i].look = "dotted"
      known == IF n \in DOMAIN Parse(doc) THEN DOMAIN Parse(doc)[n] ELSE {}
      Step(d, f) == IF d = Refused \/ f \notin DOMAIN patch THEN d
                    ELSE PatchField(d, start, f, patch[f], known)
  IN IF mixed THEN Refused ELSE Step(Step(doc, "model"), "effort")

PatchBinding(doc, n, patch) ==
  CASE Blocks(doc, n) = {} -> IF n \in DOMAIN Parse(doc) THEN Refused ELSE AppendTable(doc, n, patch)
    [] Blocks(doc, n) # {} -> PatchBlock(doc, n, patch)

(* deleteBindingText: a table with fields of its own is not deleted.       *)
DeleteBinding_Short(doc, n) ==
  IF Blocks(doc, n) = {} THEN doc
  ELSE LET start == CHOOSE i \in Blocks(doc, n) : TRUE
       IN SubSeq(doc, 1, start - 1) \o SubSeq(doc, BlockEnd(doc, start), Len(doc))
DeleteBinding(doc, n) ==
  CASE n \notin DOMAIN Parse(doc) -> doc
    [] n \in DOMAIN Parse(doc) /\ (Blocks(doc, n) = {} \/ ~(DOMAIN Parse(doc)[n] \subseteq Fields)) -> Refused
    [] OTHER ->
         LET start == CHOOSE i \in Blocks(doc, n) : TRUE
         IN SubSeq(doc, 1, start - 1) \o SubSeq(doc, BlockEnd(doc, start), Len(doc))

(* A change is [name, delete, patch]; the changes of a save are made one   *)
(* after the other, all or none, and the outcome must be TOML again.       *)
IsChange(change) == /\ change.name \in Names /\ change.delete \in BOOLEAN
                    /\ DOMAIN change.patch \subseteq Fields
                    /\ \A f \in DOMAIN change.patch : change.patch[f] \in Nat
Change(doc, change) == IF change.delete THEN DeleteBinding(doc, change.name)
                       ELSE PatchBinding(doc, change.name, change.patch)
ApplyChanges(doc, changes) ==
  LET made[k \in 0..Len(changes)] ==
        IF k = 0 THEN doc
        ELSE IF made[k - 1] = Refused \/ ~Valid(made[k - 1]) THEN Refused
        ELSE Change(made[k - 1], changes[k])
      next == made[Len(changes)]
  IN IF next # Refused /\ Valid(next) THEN next ELSE Refused

(* ---------------------------------------------------------------------- *)
(* What a save is to do, by what the text means                            *)

Meant(parsed, change) ==
  LET n == change.name
      old == IF n \in DOMAIN parsed THEN parsed[n] ELSE [f \in {} |-> Null]
      keep == {f \in DOMAIN old : f \in DOMAIN change.patch => change.patch[f] # Null}
      given == {f \in DOMAIN change.patch : change.patch[f] # Null}
      new == [f \in keep \cup given |-> IF f \in given THEN <<change.patch[f]>> ELSE old[f]]
      stays == ~change.delete /\ (n \in DOMAIN parsed \/ given # {})
  IN [m \in (DOMAIN parsed \ {n}) \cup (IF stays THEN {n} ELSE {}) |-> IF m = n THEN new ELSE parsed[m]]

Exact(before, changes, after) ==
  LET meant[k \in 0..Len(changes)] == IF k = 0 THEN Parse(before) ELSE Meant(meant[k - 1], changes[k])
  IN Parse(after) = meant[Len(changes)]
=============================================================================
