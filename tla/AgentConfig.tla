----------------------------- MODULE AgentConfig -----------------------------
(***************************************************************************)
(* The two kinds of file of a project that the control plane edits:        *)
(* .kimi-code/local.toml, whole or binding by binding, and the profiles    *)
(* agents/<name>.md, whole.  A save names the hash of the version that it  *)
(* was made from; it is refused when the file has another one, at the      *)
(* start of its turn and again just before the new text is put in place.   *)
(* Saves of a file wait for each other; an editor does not.                *)
(*                                                                         *)
(* One file.  The hash of a text is the text.  Symbolic links, names and   *)
(* sizes that are refused before the file is touched, and the directories  *)
(* that are created on the way, are left out.                              *)
(*                                                                         *)
(* A definition X_Y is X as a plausible bug would have it.                 *)
(***************************************************************************)
EXTENDS TomlPatch

CONSTANTS
  Callers,
  Texts,                  (* what editors write: texts of local.toml       *)
  Changes,                (* lists of changes that callers ask for         *)
  MaxSaves, MaxEdits, MaxBusy                                 (* bounds    *)

Absent == <<Line("absent", "", Null)>>
Empty == <<>>

VARIABLES
  kind,                   (* "toml" or "agent": which file it is           *)
  file,                   (* its text, or Absent                           *)
  call,                   (* caller -> its save                            *)
  queue,                  (* the saves of this file, the first one running *)
  saves, edits, busy,
  edited,                 (* history: an outside write since the running   *)
                          (* save looked at the file the last time         *)
  lost,                   (* history: a version was replaced that the save *)
                          (* had not been made from                        *)
  last                    (* history: the last accepted change of bindings *)

vars == <<kind, file, call, queue, saves, edits, busy, edited, lost, last>>

NoChange == [before |-> Empty, changes |-> <<>>, after |-> Empty]
NoSave == [state |-> "idle", base |-> Absent, op |-> "none", arg |-> Empty, next |-> Empty]

Init ==
  /\ kind \in {"toml", "agent"}
  /\ file \in Texts \cup {Absent}
  /\ call = [c \in Callers |-> NoSave] /\ queue = <<>>
  /\ saves = 0 /\ edits = 0 /\ busy = 0
  /\ edited = FALSE /\ lost = FALSE
  /\ last = NoChange

Content(text) == IF text = Absent THEN Empty ELSE text

(* ---------------------------------------------------------------------- *)
(* The caller: loads the file, then sends what it makes of it; the answer  *)
(* to an accepted save holds the hash for the next one                     *)

Load(c) ==
  /\ call[c].state \in {"idle", "answered"} /\ saves < MaxSaves
  /\ call' = [call EXCEPT ![c] = [NoSave EXCEPT !.state = "loaded", !.base = file]]
  /\ UNCHANGED <<kind, file, queue, saves, edits, busy, edited, lost, last>>

Submit(c, op, arg) ==
  /\ call[c].state \in {"loaded", "answered"} /\ saves < MaxSaves
  /\ op = "delete" => kind = "agent"
  /\ op = "bindings" => kind = "toml"
  /\ call' = [call EXCEPT ![c] = [@ EXCEPT !.state = "queued", !.op = op, !.arg = arg]]
  /\ queue' = Append(queue, c)
  /\ saves' = saves + 1
  /\ last' = NoChange
  /\ UNCHANGED <<kind, file, edits, busy, edited, lost>>

(* ---------------------------------------------------------------------- *)
(* The service: the first save of the queue                                *)

Running_AtOnce(c) == c \in ToSet(queue)
Running(c) == queue # <<>> /\ Head(queue) = c

(* The save that runs ends; the next one runs whether it succeeded or not. *)
Answer_Wedges(c, accepted, base) ==
  /\ call' = [call EXCEPT ![c] = [NoSave EXCEPT !.state = "answered", !.base = base]]
  /\ queue' = IF accepted THEN Tail(queue) ELSE queue
Answer(c, accepted, base) ==
  /\ call' = [call EXCEPT ![c] = [NoSave EXCEPT !.state = "answered", !.base = base]]
  /\ queue' = Tail(queue)

Refuse(c) == Answer(c, FALSE, call[c].base)
Accept(c, base) == Answer(c, TRUE, base)

(* assertHashPrecondition, assertSameHash                                  *)
Current(c) == call[c].base = file

NextText(c) == CASE call[c].op = "text" -> call[c].arg
                 [] call[c].op = "bindings" -> ApplyChanges(Content(file), call[c].arg)
                 [] call[c].op = "delete" -> Absent

(* What changes nothing is not written: a list of changes is compared with *)
(* the content, which an absent file has too.                              *)
Same(c) == NextText(c) = (IF call[c].op = "bindings" THEN Content(file) ELSE file)

Made(c, text) ==
  IF call[c].op # "bindings" THEN last
  ELSE [before |-> Content(call[c].base), changes |-> call[c].arg, after |-> text]

Prepare(c) ==
  /\ Running(c) /\ call[c].state = "queued"
  /\ \/ /\ ~Current(c) \/ NextText(c) = Refused
        /\ Refuse(c) /\ UNCHANGED last
     \/ /\ Current(c) /\ NextText(c) # Refused /\ Same(c)
        /\ Accept(c, NextText(c)) /\ last' = Made(c, NextText(c))
     \/ /\ Current(c) /\ NextText(c) # Refused /\ ~Same(c)
        /\ call' = [call EXCEPT ![c] = [@ EXCEPT !.state = "written", !.next = NextText(c)]]
        /\ UNCHANGED <<queue, last>>
  /\ UNCHANGED <<kind, file, saves, edits, busy, edited, lost>>

(* The new text is complete in a file of its own: beforeRename looks once  *)
(* more, as deleteAgent does before unlink.                                *)
CheckAgain_Skipped(c) ==
  /\ Running(c) /\ call[c].state = "written"
  /\ call' = [call EXCEPT ![c].state = "checked"]
  /\ edited' = FALSE
  /\ UNCHANGED <<kind, file, queue, saves, edits, busy, lost, last>>
CheckAgain(c) ==
  /\ Running(c) /\ call[c].state = "written"
  /\ IF Current(c) THEN call' = [call EXCEPT ![c].state = "checked"] /\ UNCHANGED queue ELSE Refuse(c)
  /\ edited' = FALSE
  /\ UNCHANGED <<kind, file, saves, edits, busy, lost, last>>

Replace(c) ==
  /\ Running(c) /\ call[c].state = "checked"
  /\ file' = call[c].next
  /\ lost' = (lost \/ (~Current(c) /\ ~edited))
  /\ last' = Made(c, call[c].next)
  /\ IF call[c].op = "delete" /\ file = Absent THEN Refuse(c) ELSE Accept(c, call[c].next)
  /\ UNCHANGED <<kind, saves, edits, busy, edited>>

(* renameReplace tries again for a while, without another look, and gives  *)
(* up; an error of any other kind ends the save as well.                   *)
FailReplace(c) ==
  /\ Running(c) /\ call[c].state \in {"written", "checked"} /\ busy < MaxBusy
  /\ busy' = busy + 1
  /\ Refuse(c)
  /\ UNCHANGED <<kind, file, saves, edits, edited, lost, last>>

(* An editor, or another process.                                          *)
Edit(text) ==
  /\ edits < MaxEdits /\ text # file
  /\ file' = text /\ edits' = edits + 1
  /\ edited' = TRUE
  /\ UNCHANGED <<kind, call, queue, saves, busy, lost, last>>

Serve(c) == Prepare(c) \/ CheckAgain(c) \/ Replace(c)
Next ==
  \/ \E c \in Callers :
       \/ Load(c) \/ Serve(c) \/ FailReplace(c)
       \/ Submit(c, "delete", Empty)
       \/ \E t \in Texts : Submit(c, "text", t)
       \/ \E list \in Changes : Submit(c, "bindings", list)
  \/ \E t \in Texts \cup {Absent} : Edit(t)

Spec == Init /\ [][Next]_vars

(* ---------------------------------------------------------------------- *)
(* Properties                                                              *)

(* No save replaces a version that it was not made from, whatever other    *)
(* saves and editors do, but for a write from outside between the last     *)
(* look and the rename (agent-config.ts:940, 1236; fs-utils.ts:76); and    *)
(* every save that waits has its place in the queue, behind one that is    *)
(* still being served, whatever became of those before (1246).             *)
SavesTakeTurns ==
  /\ ~lost
  /\ \A c \in Callers : call[c].state \in {"queued", "written", "checked"} <=> c \in ToSet(queue)
  /\ IsInjective(queue)
  /\ \A k \in 2..Len(queue) : call[queue[k]].state = "queued"

(* A save of bindings leaves a text that is TOML, and unless the text it   *)
(* was made from has four quotes in a row, the outcome means what that one *)
(* meant, with just the asked changes, and unless it deletes a table it    *)
(* keeps every comment (agent-config.ts:748, README.md:357).               *)
Notes(doc) ==
  LET upto[i \in 0..Len(doc)] ==
        IF i = 0 THEN <<>>
        ELSE IF doc[i].look = "text" /\ doc[i].value # Null THEN Append(upto[i - 1], doc[i])
        ELSE upto[i - 1]
  IN upto[Len(doc)]
SavesAreExact ==
  LET kept == \A k \in DOMAIN last.changes : ~last.changes[k].delete
  IN /\ Valid(last.after)
     /\ Plain(last.before) =>
          /\ Exact(last.before, last.changes, last.after)
          /\ kept => Notes(last.after) = Notes(last.before)

(* The same of every text, as README.md:357 has it: what the code does not *)
(* do after four quotes, where the lexer misses the headers that follow.   *)
EverySaveIsExact == Exact(last.before, last.changes, last.after)
=============================================================================
