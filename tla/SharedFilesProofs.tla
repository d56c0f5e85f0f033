-------------------------- MODULE SharedFilesProofs --------------------------
(***************************************************************************)
(* Proofs about the files that others write too.  The append lock: for any *)
(* number of processes, crashes and file-system errors, as long as no lock *)
(* file has outlived staleMs.  The saves of the agent configuration: for   *)
(* any callers, texts, names and lists of changes.                         *)
(***************************************************************************)
EXTENDS MCSharedFiles, Sequences, Integers, FiniteSetTheorems, WellFoundedInduction, TLAPS

(* Without a lock file older than staleMs no acquisition ever breaks one.  *)
NeverBroken == ~ stale /\ \A p \in Procs : pc[p] # "reclaim"

(* Exclusion rests on whose file it is: whoever is inside owns it.         *)
Owned == TypeOK /\ (~ aged => NeverBroken /\ OwnTheFile)

(* Nobody holds the lock at the start.                                     *)
LEMMA InitOwned == Init => Owned
<1> SUFFICES ASSUME Init PROVE Owned
  OBVIOUS
<1>1. TypeOK
  <2>1. crashes \in 0..MaxCrashes /\ errors \in 0..MaxErrors
    BY BoundsAssumption DEF Init
  <2>. QED
    BY <2>1 DEF Init, TypeOK
<1>2. NeverBroken /\ OwnTheFile
  BY DEF Init, NeverBroken, OwnTheFile, Holding
<1>. QED
  BY <1>1, <1>2 DEF Owned

(* Each step of an acquisition, a release or a crash keeps the ownership.  *)
LEMMA NextOwned == Owned /\ [Next]_vars => Owned'
<1> SUFFICES ASSUME Owned, [Next]_vars PROVE Owned'
  OBVIOUS
<1> USE BoundsAssumption DEF Owned, TypeOK, NeverBroken, OwnTheFile,
                             Acquiring, Holding
<1>1. ASSUME NEW p \in Procs, Begin(p) PROVE Owned'
  BY <1>1 DEF Begin, Goto
<1>2. ASSUME NEW p \in Procs, OpenWins(p) PROVE Owned'
  <2>1. TypeOK' /\ (~ aged => NeverBroken')
    BY <1>2 DEF OpenWins, Goto
  <2>2. ~ aged => \A q \in Procs : pc[q] \notin Holding
    BY <1>2, NobodyAssumption DEF OpenWins
  <2>3. ~ aged => OwnTheFile'
    BY <1>2, <2>2 DEF OpenWins, Goto
  <2>. QED
    BY <1>2, <2>1, <2>3 DEF OpenWins
<1>3. ASSUME NEW p \in Procs, OpenExists(p) PROVE Owned'
  BY <1>3 DEF OpenExists, Goto
<1>4. ASSUME NEW p \in Procs, Stat(p) PROVE Owned'
  BY <1>4 DEF Stat, Goto, LooksStale
<1>5. ASSUME NEW p \in Procs, Reclaim(p) PROVE Owned'
  BY <1>5 DEF Reclaim, Goto, Unlink
<1>6. ASSUME NEW p \in Procs, Retry(p) PROVE Owned'
  BY <1>6 DEF Retry, Goto
<1>7. ASSUME NEW p \in Procs, GiveUp(p) PROVE Owned'
  BY <1>7 DEF GiveUp, Goto
<1>8. ASSUME NEW p \in Procs, Finish(p) PROVE Owned'
  BY <1>8 DEF Finish, Goto
<1>9. ASSUME NEW p \in Procs, Release(p) PROVE Owned'
  <2>1. TypeOK' /\ (~ aged => NeverBroken')
    BY <1>9 DEF Release, Goto, Unlink
  <2>2. \A q \in Procs : pc'[q] \in Holding => pc[q] \in Holding /\ q # p
    BY <1>9 DEF Release, Goto
  <2>3. ~ aged => lock = p
    BY <1>9 DEF Release, Goto
  <2>4. ~ aged => OwnTheFile'
    BY <2>2, <2>3
  <2>. QED
    BY <1>9, <2>1, <2>4 DEF Release
<1>10. ASSUME NEW p \in Procs, Deadline(p) PROVE Owned'
  BY <1>10 DEF Deadline
<1>11. ASSUME NEW p \in Procs, IoError(p) PROVE Owned'
  BY <1>11 DEF IoError
<1>12. ASSUME NEW p \in Procs, Crash(p) PROVE Owned'
  BY <1>12 DEF Crash
<1>13. ASSUME Age PROVE Owned'
  BY <1>13 DEF Age
<1>14. CASE UNCHANGED vars
  BY <1>14 DEF vars
<1>. QED
  BY <1>1, <1>2, <1>3, <1>4, <1>5, <1>6, <1>7, <1>8, <1>9, <1>10, <1>11,
     <1>12, <1>13, <1>14 DEF Next, Step

(* Inside fn, a process owns the lock file until it removes it itself, as  *)
(* long as no lock file has grown older than staleMs: neither a crash, nor *)
(* a timeout, nor an I/O error of others takes it.                         *)
THEOREM HolderKeepsFile == Spec => []HoldersOwnTheFile
<1>1. Owned => HoldersOwnTheFile
  BY DEF Owned, HoldersOwnTheFile
<1>. QED
  BY <1>1, InitOwned, NextOwned, PTL DEF Spec

(* Two processes are never inside fn together, as long as no lock file     *)
(* has grown older than staleMs.                                           *)
THEOREM Exclusion == Spec => []MutualExclusion
<1>1. Owned => MutualExclusion
  BY DEF Owned, OwnTheFile, MutualExclusion, Exclusive
<1>. QED
  BY <1>1, InitOwned, NextOwned, PTL DEF Spec

(* The variables keep their types on every path through the loop.          *)
THEOREM TypeCorrect == Spec => []TypeOK
<1>1. Owned => TypeOK
  BY DEF Owned
<1>. QED
  BY <1>1, InitOwned, NextOwned, PTL DEF Spec

(* ---------------------------------------------------------------------- *)
(* The files of the agent configuration (AgentConfig)                      *)

(* MCSharedFiles without its fairness.                                     *)
FilesSpec == MCInit /\ [][MCNext]_allVars

(* Texts are of any kind; only the shape of a save matters.                *)
Fields == {"state", "base", "op", "arg", "next"}
IsSave(r) == r = [f \in Fields |-> r[f]]

SaveShape ==
  /\ queue \in Seq(Callers)
  /\ call = [c \in Callers |-> call[c]]
  /\ \A c \in Callers : IsSave(call[c])

Waits(c) == call[c].state \in {"queued", "written", "checked"}

(* A save waits in one place, and only the first one is being served.      *)
InLine ==
  /\ \A c \in Callers : Waits(c) <=> \E k \in 1..Len(queue) : queue[k] = c
  /\ \A j, k \in 1..Len(queue) : queue[j] = queue[k] => j = k
  /\ \A k \in 2..Len(queue) : call[queue[k]].state = "queued"

(* Between its last look and the rename only an outside write can have     *)
(* replaced the version that a save was made from.                         *)
StillCurrent == \A c \in Callers : call[c].state = "checked" /\ ~edited => call[c].base = file

SavesInv == SaveShape /\ InLine /\ StillCurrent /\ ~lost

(* Only a caller's own save changes.                                       *)
LEMMA SaveChanges ==
  ASSUME SaveShape, NEW c \in Callers, NEW save, IsSave(save),
         call' = [call EXCEPT ![c] = save], queue' \in Seq(Callers)
  PROVE  /\ SaveShape' /\ call'[c] = save
         /\ \A d \in Callers : d # c => call'[d] = call[d]
<1>1. \A d \in Callers : call'[d] = IF d = c THEN save ELSE call[d]
  BY DEF SaveShape
<1>2. call' = [d \in Callers |-> call'[d]]
  BY <1>1 DEF SaveShape
<1>3. \A d \in Callers : IsSave(call'[d])
  BY <1>1 DEF SaveShape
<1>4. (\A d \in Callers : IsSave(call[d]))'
  BY <1>3 DEF IsSave
<1>. QED
  BY <1>1, <1>2, <1>4 DEF SaveShape

(* A step of a caller, or of the service that keeps the queue.             *)
LEMMA StateMoves ==
  ASSUME SavesInv, NEW c \in Callers, NEW save, IsSave(save),
         call' = [call EXCEPT ![c] = save], queue' = queue,
         \/ ~Waits(c) /\ save.state = "loaded"
         \/ Config!Running(c) /\ save.state \in {"written", "checked"}
  PROVE  SaveShape' /\ InLine'
<1>1. /\ SaveShape' /\ call'[c] = save
      /\ \A d \in Callers : d # c => call'[d] = call[d]
  BY SaveChanges DEF SavesInv, SaveShape
<1>2. queue \in Seq(Callers) /\ Len(queue) \in Nat /\ \A k \in 1..Len(queue) : queue[k] \in Callers
  BY DEF SavesInv, SaveShape
<1>3. Config!Running(c) => Len(queue) > 0 /\ queue[1] = c
  BY <1>2 DEF Config!Running
<1>4. Waits(c)' <=> Waits(c)
  BY <1>1, <1>2, <1>3 DEF Waits, SavesInv, InLine
<1>5. \A d \in Callers : Waits(d)' <=> Waits(d)
  BY <1>1, <1>4 DEF Waits
<1>6. \A k \in 2..Len(queue) : queue[k] # c
  BY <1>2, <1>3 DEF SavesInv, InLine, Waits
<1>7. \A k \in 2..Len(queue) : call'[queue[k]].state = "queued"
  BY <1>1, <1>2, <1>6 DEF SavesInv, InLine
<1>. QED
  BY <1>1, <1>5, <1>7 DEF SavesInv, InLine

(* The save that runs is answered: the next one is first.                  *)
LEMMA AnswerKeeps ==
  ASSUME SavesInv, NEW c \in Callers, Config!Running(c), NEW accepted, NEW base,
         Config!Answer(c, accepted, base)
  PROVE  SaveShape' /\ InLine' /\ call'[c].state = "answered"
         /\ \A d \in Callers : d # c => call'[d] = call[d]
<1>1. /\ queue \in Seq(Callers) /\ Len(queue) \in Nat /\ Len(queue) > 0 /\ queue[1] = c
      /\ queue' = Tail(queue)
  BY DEF SavesInv, SaveShape, Config!Running, Config!Answer
<1>2. /\ queue' \in Seq(Callers) /\ Len(queue') = Len(queue) - 1
      /\ \A k \in 1..(Len(queue) - 1) : queue'[k] = queue[k + 1]
  BY <1>1
<1> DEFINE answered == [Config!NoSave EXCEPT !.state = "answered", !.base = base]
<1>3. IsSave(answered) /\ answered.state = "answered"
  <2>1. IsSave(Config!NoSave)
    BY DEF IsSave, Fields, Config!NoSave
  <2>. QED
    BY <2>1 DEF IsSave, Fields
<1>10. call' = [call EXCEPT ![c] = answered]
  BY DEF Config!Answer
<1> HIDE DEF answered
<1>4. /\ SaveShape' /\ call'[c].state = "answered"
      /\ \A d \in Callers : d # c => call'[d] = call[d]
  BY <1>2, <1>3, <1>10, SaveChanges DEF SavesInv
<1>5. \A k \in 2..Len(queue) : queue[k] # c /\ queue[k] \in Callers /\ call[queue[k]].state = "queued"
  BY <1>1 DEF SavesInv, InLine
<1>6. \A k \in 1..Len(queue') : /\ queue'[k] # c /\ queue'[k] \in Callers
                                /\ call'[queue'[k]].state = "queued"
  BY <1>1, <1>2, <1>4, <1>5
<1>7. \A d \in Callers : (Waits(d) <=> \E k \in 1..Len(queue) : queue[k] = d)'
  <2> SUFFICES ASSUME NEW d \in Callers
               PROVE  Waits(d)' <=> \E k \in 1..Len(queue') : queue'[k] = d
    BY DEF Waits
  <2>1. CASE d = c
    BY <1>4, <1>6, <2>1 DEF Waits
  <2>2. CASE d # c
    <3>1. Waits(d)' <=> \E k \in 1..Len(queue) : queue[k] = d
      BY <1>4, <2>2 DEF Waits, SavesInv, InLine
    <3>2. ASSUME NEW k \in 1..Len(queue), queue[k] = d PROVE \E j \in 1..Len(queue') : queue'[j] = d
      <4>1. k # 1 /\ k - 1 \in 1..(Len(queue) - 1)
        BY <1>1, <2>2, <3>2
      <4>2. queue'[k - 1] = d
        BY <1>2, <3>2, <4>1
      <4>. QED
        BY <1>2, <4>1, <4>2
    <3>3. ASSUME NEW k \in 1..Len(queue'), queue'[k] = d PROVE \E j \in 1..Len(queue) : queue[j] = d
      <4>1. k + 1 \in 1..Len(queue) /\ queue[k + 1] = d
        BY <1>1, <1>2, <3>3
      <4>. QED
        BY <4>1
    <3>. QED
      BY <3>1, <3>2, <3>3
  <2>. QED
    BY <2>1, <2>2
<1>8. \A j, k \in 1..Len(queue') : queue'[j] = queue'[k] => j = k
  <2> SUFFICES ASSUME NEW j \in 1..Len(queue'), NEW k \in 1..Len(queue'), queue'[j] = queue'[k]
               PROVE  j = k
    OBVIOUS
  <2>1. j + 1 \in 1..Len(queue) /\ k + 1 \in 1..Len(queue) /\ queue[j + 1] = queue[k + 1]
    BY <1>1, <1>2
  <2>2. j + 1 = k + 1
    BY <2>1 DEF SavesInv, InLine
  <2>. QED
    BY <1>1, <1>2, <2>2
<1>9. \A k \in 2..Len(queue') : call'[queue'[k]].state = "queued"
  BY <1>1, <1>2, <1>6
<1>. QED
  BY <1>4, <1>7, <1>8, <1>9 DEF InLine

(* A save joins the queue at its end.                                      *)
LEMMA SubmitKeeps ==
  ASSUME SavesInv, NEW c \in Callers, NEW op, NEW arg, Config!Submit(c, op, arg)
  PROVE  SavesInv'
<1>1. /\ queue \in Seq(Callers) /\ Len(queue) \in Nat /\ queue' = Append(queue, c) /\ ~Waits(c)
      /\ edited' = edited /\ file' = file /\ lost' = lost /\ ~lost
      /\ IsSave(call[c])
      /\ call' = [call EXCEPT ![c] = [call[c] EXCEPT !.state = "queued", !.op = op, !.arg = arg]]
  BY DEF SavesInv, SaveShape, Waits, Config!Submit
<1>2. /\ queue' \in Seq(Callers) /\ Len(queue') = Len(queue) + 1 /\ queue'[Len(queue) + 1] = c
      /\ \A k \in 1..Len(queue) : queue'[k] = queue[k]
  BY <1>1
<1> DEFINE queued == [call[c] EXCEPT !.state = "queued", !.op = op, !.arg = arg]
<1>3. IsSave(queued) /\ queued.state = "queued" /\ call' = [call EXCEPT ![c] = queued]
  BY <1>1 DEF IsSave, Fields
<1> HIDE DEF queued
<1>4. /\ SaveShape' /\ call'[c].state = "queued"
      /\ \A d \in Callers : d # c => call'[d] = call[d]
  BY <1>1, <1>2, <1>3, SaveChanges DEF SavesInv
<1>5. \A k \in 1..Len(queue) : queue[k] # c /\ queue[k] \in Callers
  BY <1>1 DEF SavesInv, InLine
<1>6. \A d \in Callers : Waits(d)' <=> \E k \in 1..Len(queue') : queue'[k] = d
  <2> SUFFICES ASSUME NEW d \in Callers PROVE Waits(d)' <=> \E k \in 1..Len(queue') : queue'[k] = d
    OBVIOUS
  <2>1. CASE d = c
    BY <1>1, <1>2, <1>4, <2>1 DEF Waits
  <2>2. CASE d # c
    <3>1. Waits(d)' <=> \E k \in 1..Len(queue) : queue[k] = d
      BY <1>4, <2>2 DEF Waits, SavesInv, InLine
    <3>2. (\E k \in 1..Len(queue') : queue'[k] = d) <=> \E k \in 1..Len(queue) : queue[k] = d
      BY <1>1, <1>2, <2>2
    <3>. QED
      BY <3>1, <3>2
  <2>. QED
    BY <2>1, <2>2
<1>7. \A j, k \in 1..Len(queue') : queue'[j] = queue'[k] => j = k
  BY <1>1, <1>2, <1>5 DEF SavesInv, InLine
<1>8. \A k \in 2..Len(queue') : call'[queue'[k]].state = "queued"
  BY <1>1, <1>2, <1>4, <1>5 DEF SavesInv, InLine
<1>9. StillCurrent'
  BY <1>1, <1>4 DEF SavesInv, StillCurrent
<1>. QED
  BY <1>1, <1>4, <1>6, <1>7, <1>8, <1>9 DEF SavesInv, InLine

(* A save that was answered, and nothing of the file or its history.       *)
LEMMA AnsweredKeeps ==
  ASSUME SavesInv, NEW c \in Callers, Config!Running(c), NEW accepted, NEW base,
         Config!Answer(c, accepted, base), UNCHANGED <<file, edited, lost>>
  PROVE  SavesInv'
<1>1. /\ SaveShape' /\ InLine' /\ call'[c].state = "answered"
      /\ \A d \in Callers : d # c => call'[d] = call[d]
  BY AnswerKeeps
<1>2. StillCurrent'
  BY <1>1 DEF SavesInv, StillCurrent
<1>. QED
  BY <1>1, <1>2 DEF SavesInv

(* The service's look, its second look and the replacement of the file.    *)
LEMMA ServeKeeps == ASSUME SavesInv, NEW c \in Callers, Config!Serve(c) PROVE SavesInv'
<1>1. SaveShape /\ InLine /\ StillCurrent /\ ~lost /\ IsSave(call[c])
  BY DEF SavesInv, SaveShape
<1>2. CASE Config!Prepare(c)
  <2>1. Config!Running(c) /\ UNCHANGED <<file, edited, lost>>
    BY <1>2 DEF Config!Prepare
  <2>2. \/ \E accepted, base : Config!Answer(c, accepted, base)
        \/ /\ call' = [call EXCEPT ![c] = [call[c] EXCEPT !.state = "written",
                                                          !.next = Config!NextText(c)]]
           /\ queue' = queue
    BY <1>2 DEF Config!Prepare, Config!Refuse, Config!Accept
  <2>3. CASE \E accepted, base : Config!Answer(c, accepted, base)
    BY <2>1, <2>3, AnsweredKeeps
  <2>4. CASE /\ call' = [call EXCEPT ![c] = [call[c] EXCEPT !.state = "written",
                                                            !.next = Config!NextText(c)]]
             /\ queue' = queue
    <3> DEFINE written == [call[c] EXCEPT !.state = "written", !.next = Config!NextText(c)]
    <3>1. IsSave(written) /\ written.state = "written" /\ call' = [call EXCEPT ![c] = written]
      BY <1>1, <2>4 DEF IsSave, Fields
    <3> HIDE DEF written
    <3>2. SaveShape' /\ InLine'
      BY <2>1, <2>4, <3>1, StateMoves
    <3>3. /\ call'[c] = written /\ \A d \in Callers : d # c => call'[d] = call[d]
      BY <1>1, <2>4, <3>1, SaveChanges DEF SaveShape
    <3>4. StillCurrent'
      BY <1>1, <2>1, <3>1, <3>3 DEF StillCurrent
    <3>. QED
      BY <1>1, <2>1, <3>2, <3>4 DEF SavesInv
  <2>. QED
    BY <2>2, <2>3, <2>4
<1>3. CASE Config!CheckAgain(c)
  <2>1. /\ Config!Running(c) /\ file' = file /\ lost' = lost /\ edited' = FALSE
        /\ \/ \E accepted, base : Config!Answer(c, accepted, base)
           \/ /\ call[c].base = file /\ queue' = queue
              /\ call' = [call EXCEPT ![c] = [call[c] EXCEPT !.state = "checked"]]
    BY <1>3 DEF Config!CheckAgain, Config!Refuse, Config!Current
  <2>2. \A d \in Callers : d # c => call[d].state # "checked"
    <3>1. Len(queue) \in Nat /\ Len(queue) > 0 /\ queue[1] = c
      BY <1>1, <2>1 DEF Config!Running, SaveShape
    <3>. QED
      BY <1>1, <3>1 DEF InLine, Waits
  <2>3. CASE \E accepted, base : Config!Answer(c, accepted, base)
    <3>1. /\ SaveShape' /\ InLine' /\ call'[c].state = "answered"
          /\ \A d \in Callers : d # c => call'[d] = call[d]
      BY <2>1, <2>3, AnswerKeeps
    <3>2. StillCurrent'
      BY <2>2, <3>1 DEF StillCurrent
    <3>. QED
      BY <1>1, <2>1, <3>1, <3>2 DEF SavesInv
  <2>4. CASE /\ call[c].base = file /\ queue' = queue
             /\ call' = [call EXCEPT ![c] = [call[c] EXCEPT !.state = "checked"]]
    <3> DEFINE checked == [call[c] EXCEPT !.state = "checked"]
    <3>1. /\ IsSave(checked) /\ checked.state = "checked" /\ checked.base = file
          /\ call' = [call EXCEPT ![c] = checked]
      BY <1>1, <2>4 DEF IsSave, Fields
    <3> HIDE DEF checked
    <3>2. SaveShape' /\ InLine'
      BY <2>1, <2>4, <3>1, StateMoves
    <3>3. /\ call'[c] = checked /\ \A d \in Callers : d # c => call'[d] = call[d]
      BY <1>1, <2>4, <3>1, SaveChanges DEF SaveShape
    <3>4. StillCurrent'
      BY <2>1, <2>2, <3>1, <3>3 DEF StillCurrent
    <3>. QED
      BY <1>1, <2>1, <3>2, <3>4 DEF SavesInv
  <2>. QED
    BY <2>1, <2>3, <2>4
<1>4. CASE Config!Replace(c)
  <2>1. /\ Config!Running(c) /\ call[c].state = "checked" /\ edited' = edited
        /\ lost' = (lost \/ (~(call[c].base = file) /\ ~edited))
        /\ \E accepted, base : Config!Answer(c, accepted, base)
    BY <1>4 DEF Config!Replace, Config!Refuse, Config!Accept, Config!Current
  <2>2. /\ SaveShape' /\ InLine' /\ call'[c].state = "answered"
        /\ \A d \in Callers : d # c => call'[d] = call[d]
    BY <2>1, AnswerKeeps
  <2>3. \A d \in Callers : d # c => call[d].state # "checked"
    <3>1. Len(queue) \in Nat /\ Len(queue) > 0 /\ queue[1] = c
      BY <1>1, <2>1 DEF Config!Running, SaveShape
    <3>. QED
      BY <1>1, <3>1 DEF InLine, Waits
  <2>4. StillCurrent'
    BY <2>2, <2>3 DEF StillCurrent
  <2>5. ~lost'
    BY <1>1, <2>1 DEF StillCurrent
  <2>. QED
    BY <2>2, <2>4, <2>5 DEF SavesInv
<1>. QED
  BY <1>2, <1>3, <1>4 DEF Config!Serve

(* Every step of callers, the service and whoever else writes the file.    *)
LEMMA SavesStep == SavesInv /\ [Config!Next]_configVars => SavesInv'
<1> SUFFICES ASSUME SavesInv, [Config!Next]_configVars PROVE SavesInv'
  OBVIOUS
<1>1. SaveShape /\ InLine /\ StillCurrent /\ ~lost
  BY DEF SavesInv
<1>2. ASSUME NEW c \in Callers, Config!Load(c) PROVE SavesInv'
  <2> DEFINE loaded == [Config!NoSave EXCEPT !.state = "loaded", !.base = file]
  <2>1. IsSave(loaded) /\ loaded.state = "loaded"
    <3>1. IsSave(Config!NoSave)
      BY DEF IsSave, Fields, Config!NoSave
    <3>. QED
      BY <3>1 DEF IsSave, Fields
  <2>2. /\ call' = [call EXCEPT ![c] = loaded] /\ queue' = queue /\ ~Waits(c)
        /\ UNCHANGED <<file, edited, lost>>
    BY <1>2 DEF Config!Load, Waits
  <2> HIDE DEF loaded
  <2>3. SaveShape' /\ InLine'
    BY <2>1, <2>2, StateMoves
  <2>4. /\ call'[c] = loaded /\ \A d \in Callers : d # c => call'[d] = call[d]
    BY <1>1, <2>1, <2>2, SaveChanges DEF SaveShape
  <2>5. StillCurrent'
    BY <1>1, <2>1, <2>2, <2>4 DEF StillCurrent
  <2>. QED
    BY <1>1, <2>2, <2>3, <2>5 DEF SavesInv
<1>3. ASSUME NEW c \in Callers, Config!Serve(c) PROVE SavesInv'
  BY <1>3, ServeKeeps
<1>4. ASSUME NEW c \in Callers, Config!FailReplace(c) PROVE SavesInv'
  <2>1. /\ Config!Running(c) /\ UNCHANGED <<file, edited, lost>>
        /\ \E accepted, base : Config!Answer(c, accepted, base)
    BY <1>4 DEF Config!FailReplace, Config!Refuse
  <2>. QED
    BY <2>1, AnsweredKeeps
<1>5. ASSUME NEW c \in Callers, NEW op, NEW arg, Config!Submit(c, op, arg) PROVE SavesInv'
  BY <1>5, SubmitKeeps
<1>6. ASSUME NEW text, Config!Edit(text) PROVE SavesInv'
  <2>1. edited' = TRUE /\ UNCHANGED <<call, queue, lost>>
    BY <1>6 DEF Config!Edit
  <2>2. SaveShape' /\ InLine'
    BY <1>1, <2>1 DEF SaveShape, IsSave, InLine, Waits
  <2>3. StillCurrent'
    BY <2>1 DEF StillCurrent
  <2>. QED
    BY <1>1, <2>1, <2>2, <2>3 DEF SavesInv
<1>7. CASE UNCHANGED configVars
  BY <1>1, <1>7 DEF configVars, SavesInv, SaveShape, IsSave, InLine, Waits, StillCurrent
<1>. QED
  BY <1>2, <1>3, <1>4, <1>5, <1>6, <1>7 DEF Config!Next

(* No save replaces a version that it was not made from but for a write    *)
(* from outside after the last look, and every save that waits has its     *)
(* place behind the one that is served: for any number of callers, saves   *)
(* and editors and for texts and changes of any kind.                      *)
THEOREM SavesHaveTheirTurn == FilesSpec => []SavesTakeTurns
<1>1. MCInit => SavesInv
  <2> SUFFICES ASSUME Config!Init PROVE SavesInv
    BY DEF MCInit
  <2>1. <<>> \in Seq(Callers) /\ Len(<<>>) = 0
    OBVIOUS
  <2>2. queue = <<>> /\ lost = FALSE
    BY DEF Config!Init
  <2>3. queue \in Seq(Callers) /\ Len(queue) = 0
    BY <2>1, <2>2, Zenon
  <2>4. call = [c \in Callers |-> Config!NoSave]
    BY DEF Config!Init
  <2>5. IsSave(Config!NoSave) /\ Config!NoSave.state = "idle"
    BY DEF IsSave, Fields, Config!NoSave
  <2>6. SaveShape /\ \A c \in Callers : call[c].state = "idle"
    BY <2>3, <2>4, <2>5 DEF SaveShape
  <2>. QED
    BY <2>2, <2>3, <2>6 DEF SavesInv, InLine, Waits, StillCurrent
<1>2. SavesInv /\ [MCNext]_allVars => SavesInv'
  <2> SUFFICES ASSUME SavesInv, [MCNext]_allVars PROVE SavesInv'
    OBVIOUS
  <2>1. [Config!Next]_configVars
    BY DEF MCNext, allVars
  <2>. QED
    BY <2>1, SavesStep
<1>3. SavesInv => SavesTakeTurns
  <2> SUFFICES ASSUME SavesInv PROVE Config!SavesTakeTurns
    BY DEF SavesTakeTurns
  <2>1. DOMAIN queue = 1..Len(queue)
    BY DEF SavesInv, SaveShape
  <2>2. \A c \in Callers : Waits(c) <=> c \in Config!ToSet(queue)
    BY <2>1 DEF SavesInv, InLine, Config!ToSet
  <2>3. Config!IsInjective(queue)
    BY <2>1 DEF SavesInv, InLine, Config!IsInjective
  <2>. QED
    BY <2>2, <2>3 DEF Config!SavesTakeTurns, SavesInv, InLine, Waits
<1>. QED
  BY <1>1, <1>2, <1>3, PTL DEF FilesSpec

(* ---------------------------------------------------------------------- *)
(* What an edit of a text does to its meaning: strings over several lines  *)

(* A set of numbers with 0 and each one's successor has them all.          *)
LEMMA Induct ==
  ASSUME NEW T \in SUBSET Nat, 0 \in T, \A n \in T : n + 1 \in T
  PROVE  T = Nat
<1> SUFFICES ASSUME T # Nat PROVE FALSE
  OBVIOUS
<1> DEFINE B == Nat \ T
           R == OpToRel(<, Nat)
<1>1. B # {} /\ B \subseteq Nat
  OBVIOUS
<1>2. IsWellFoundedOn(R, Nat)
  BY NatLessThanWellFounded
<1>3. R = {ss \in Nat \X Nat : ss[1] < ss[2]}
  BY DEF OpToRel
<1> HIDE DEF R
<1>4. \E x \in B : \A y \in B : ~ (<<y, x>> \in R)
  BY <1>1, <1>2, WFMin
<1>5. PICK x \in B : \A y \in B : ~ (<<y, x>> \in R)
  BY <1>4
<1>6. x # 0 /\ x \in Nat
  OBVIOUS
<1>7. x - 1 \in Nat /\ x - 1 + 1 = x
  BY <1>6
<1>8. <<x - 1, x>> \in R
  BY <1>3, <1>6, <1>7
<1>9. x - 1 \in T
  BY <1>5, <1>7, <1>8
<1>. QED
  BY <1>5, <1>7, <1>9

(* What is made step by step from a, n times, is a function.               *)
StaysIn(h, S, N) == \A k \in 1..N : \A x \in S : h[<<k, x>>] \in S
Runs(g, h, S, a, N) == /\ g \in [0..N -> S] /\ g[0] = a
                       /\ \A k \in 1..N : g[k] = h[<<k, g[k - 1]>>]
(* Such a function exists.                                                 *)
LEMMA Recursion ==
  ASSUME NEW S, NEW a \in S, NEW N \in Nat, NEW h, StaysIn(h, S, N)
  PROVE  \E g : Runs(g, h, S, a, N)
<1>0. \A k \in 1..N : \A x \in S : h[<<k, x>>] \in S
  BY DEF StaysIn
<1> DEFINE Upto(n, f) == f \in [0..n -> S] /\ f[0] = a /\ \A k \in 1..n : f[k] = h[<<k, f[k - 1]>>]
           T == {n \in Nat : n <= N => \E f : Upto(n, f)}
<1> HIDE DEF Upto
<1>1. 0 \in T
  <2>1. Upto(0, [k \in 0..0 |-> a])
    BY DEF Upto
  <2>. QED
    BY <2>1
<1>2. ASSUME NEW n \in T PROVE n + 1 \in T
  <2>0. n \in Nat /\ n + 1 \in Nat
    OBVIOUS
  <2> SUFFICES ASSUME n + 1 <= N PROVE \E f : Upto(n + 1, f)
    BY <2>0
  <2>1. PICK f : Upto(n, f)
    BY <2>0
  <2> DEFINE x == h[<<n + 1, f[n]>>]
             g == [k \in 0..(n + 1) |-> IF k = n + 1 THEN x ELSE f[k]]
  <2>2. f[n] \in S /\ x \in S
    BY <1>0, <2>0, <2>1 DEF Upto
  <2>9. f[0] = a /\ f \in [0..n -> S] /\ \A k \in 1..n : f[k] = h[<<k, f[k - 1]>>]
    BY <2>1 DEF Upto
  <2> HIDE DEF x
  <2>3. g \in [0..(n + 1) -> S] /\ g[0] = a
    BY <2>0, <2>9, <2>2
  <2>4. \A k \in 1..(n + 1) : g[k] = h[<<k, g[k - 1]>>]
    <3> SUFFICES ASSUME NEW k \in 1..(n + 1) PROVE g[k] = h[<<k, g[k - 1]>>]
      OBVIOUS
    <3>1. CASE k = n + 1
      <4>1. g[k] = x /\ g[k - 1] = f[n]
        BY <2>0, <3>1
      <4>. QED
        BY <3>1, <4>1 DEF x
    <3>2. CASE k # n + 1
      <4>1. k \in 1..n /\ g[k] = f[k] /\ g[k - 1] = f[k - 1]
        BY <2>0, <3>2
      <4>. QED
        BY <2>9, <4>1
    <3>. QED
      BY <3>1, <3>2
  <2>5. Upto(n + 1, g)
    BY <2>3, <2>4 DEF Upto
  <2>. QED
    BY <2>5
<1>3. T = Nat
  <2>1. T \subseteq Nat
    OBVIOUS
  <2> HIDE DEF T
  <2>. QED
    BY <1>1, <1>2, <2>1, Induct
<1>4. \E f : Upto(N, f)
  <2>1. N \in T /\ N <= N
    BY <1>3
  <2>. QED
    BY <2>1
<1>. QED
  BY <1>4 DEF Upto, Runs

(* Two lists joined.                                                       *)
LEMMA Joined ==
  ASSUME NEW L, NEW a \in Seq(L), NEW b \in Seq(L)
  PROVE  /\ (a \o b) \in Seq(L) /\ Len(a \o b) = Len(a) + Len(b)
         /\ \A i \in 1..Len(a) : (a \o b)[i] = a[i]
         /\ \A i \in 1..Len(b) : (a \o b)[Len(a) + i] = b[i]
OBVIOUS

(* Texts, and those in which no line has four quotes in a row, where the   *)
(* lexer and the parser agree.                                             *)
AllDocs == Seq(Config!Lines)
PlainLines == {l \in Config!Lines : ~l.fourth}
Docs == Seq(PlainLines)

(* Whether a line begins inside a string depends on the line before.       *)
LEMMA Parity ==
  ASSUME NEW d \in Docs
  PROVE  /\ ~Config!Within(d, 1)
         /\ \A i \in 1..Len(d) : Config!Within(d, i + 1) <=> Config!Within(d, i) # d[i].quote
         /\ \A i : i \in Config!Code(d) <=> i \in 1..Len(d) /\ ~Config!Within(d, i)
         /\ (Cardinality({i \in DOMAIN d : d[i].quote}) % 2 = 0) <=> ~Config!Within(d, Len(d) + 1)
<1> DEFINE P(n) == {j \in 1..n : d[j].quote}
           K(n) == Cardinality(P(n))
<1>0. /\ d \in Seq(PlainLines) /\ Len(d) \in Nat /\ DOMAIN d = 1..Len(d)
      /\ \A i \in 1..Len(d) : d[i].quote \in BOOLEAN
  <2>1. \A i \in 1..Len(d) : d[i] \in PlainLines
    BY DEF Docs
  <2>2. \A l \in PlainLines : l.quote \in BOOLEAN
    BY DEF PlainLines, Config!Lines
  <2>. QED
    BY <2>1, <2>2 DEF Docs
<1>1. \A n \in Nat : IsFiniteSet(P(n)) /\ K(n) \in Nat
  <2> SUFFICES ASSUME NEW n \in Nat PROVE IsFiniteSet(P(n)) /\ K(n) \in Nat
    OBVIOUS
  <2>1. IsFiniteSet(1..n)
    BY FS_Interval
  <2>2. IsFiniteSet(P(n))
    BY <2>1, FS_Subset
  <2>. QED
    BY <2>2, FS_CardinalityType
<1>2. K(0) = 0
  <2>1. P(0) = {}
    OBVIOUS
  <2>. QED
    BY <2>1, FS_EmptySet
<1>3. \A i \in 1..Len(d) : K(i) = IF d[i].quote THEN K(i - 1) + 1 ELSE K(i - 1)
  <2> SUFFICES ASSUME NEW i \in 1..Len(d) PROVE K(i) = IF d[i].quote THEN K(i - 1) + 1 ELSE K(i - 1)
    OBVIOUS
  <2>0. i \in Nat /\ i - 1 \in Nat
    BY <1>0
  <2>1. CASE d[i].quote
    <3>1. P(i) = P(i - 1) \cup {i} /\ i \notin P(i - 1)
      BY <2>0, <2>1
    <3>. QED
      BY <1>1, <2>0, <2>1, <3>1, FS_AddElement
  <2>2. CASE ~d[i].quote
    <3>1. P(i) = P(i - 1)
      BY <2>0, <2>2
    <3>. QED
      BY <2>2, <3>1
  <2>. QED
    BY <2>1, <2>2
<1>4. \A i : Config!Within(d, i) <=> K(i - 1) % 2 = 1
  BY DEF Config!Within, Config!Cardinality, Cardinality
<1>6. {i \in DOMAIN d : d[i].quote} = P(Len(d))
  BY <1>0
<1>7. \A n \in Nat : K(n) % 2 \in {0, 1} /\ (K(n) + 1) % 2 = 1 - (K(n) % 2)
  <2>1. \A x \in Nat : x % 2 \in {0, 1} /\ (x + 1) % 2 = 1 - (x % 2)
    OBVIOUS
  <2> HIDE DEF K
  <2>. QED
    BY <1>1, <2>1
<1> HIDE DEF P, K
<1>8. ~Config!Within(d, 1)
  BY <1>2, <1>4
<1>9. ASSUME NEW i \in 1..Len(d)
      PROVE  Config!Within(d, i + 1) <=> Config!Within(d, i) # d[i].quote
  <2>1. i \in Nat /\ i - 1 \in Nat /\ i + 1 - 1 = i
    BY <1>0
  <2>2. K(i) % 2 = IF d[i].quote THEN 1 - (K(i - 1) % 2) ELSE K(i - 1) % 2
    BY <1>3, <1>7, <2>1
  <2>3. K(i - 1) % 2 \in {0, 1}
    BY <1>7, <2>1
  <2>4. d[i].quote => (Config!Within(d, i + 1) <=> ~Config!Within(d, i))
    BY <1>4, <2>1, <2>2, <2>3
  <2>5. ~d[i].quote => (Config!Within(d, i + 1) <=> Config!Within(d, i))
    BY <1>4, <2>1, <2>2, <2>3
  <2>6. d[i].quote \in BOOLEAN /\ Config!Within(d, i) \in BOOLEAN /\ Config!Within(d, i + 1) \in BOOLEAN
    BY <1>0 DEF Config!Within
  <2>. QED
    BY <2>4, <2>5, <2>6
<1>10. \A i : i \in Config!Code(d) <=> i \in 1..Len(d) /\ ~Config!Within(d, i)
  BY <1>0 DEF Config!Code
<1>11. (Cardinality({i \in DOMAIN d : d[i].quote}) % 2 = 0) <=> ~Config!Within(d, Len(d) + 1)
  <2>1. K(Len(d)) = Cardinality({i \in DOMAIN d : d[i].quote}) /\ K(Len(d)) % 2 \in {0, 1}
    BY <1>0, <1>6, <1>7 DEF K
  <2>. QED
    BY <1>0, <1>4, <2>1
<1>. QED
  BY <1>8, <1>9, <1>10, <1>11

(* ---------------------------------------------------------------------- *)
(* Where tables and values end                                             *)

(* A line of a text.                                                       *)
LEMMA LineOf ==
  ASSUME NEW d \in Docs
  PROVE  /\ Len(d) \in Nat /\ DOMAIN d = 1..Len(d)
         /\ \A i \in 1..Len(d) : d[i] \in PlainLines /\ d[i].quote \in BOOLEAN /\ d[i].look \in Config!Looks
                                 /\ ~d[i].fourth
                                 /\ d[i] = [look |-> d[i].look, of |-> d[i].of, value |-> d[i].value,
                                            quote |-> d[i].quote, fourth |-> FALSE]
<1>1. \A i \in 1..Len(d) : d[i] \in PlainLines
  BY DEF Docs
<1>2. \A l \in PlainLines : /\ l.quote \in BOOLEAN /\ l.look \in Config!Looks /\ ~l.fourth
                              /\ l = [look |-> l.look, of |-> l.of, value |-> l.value,
                                      quote |-> l.quote, fourth |-> l.fourth]
                              /\ l.fourth = FALSE
  BY DEF PlainLines, Config!Lines
<1>3. \A i \in 1..Len(d) : d[i] = [look |-> d[i].look, of |-> d[i].of, value |-> d[i].value,
                                   quote |-> d[i].quote, fourth |-> FALSE]
  <2> SUFFICES ASSUME NEW i \in 1..Len(d)
               PROVE  d[i] = [look |-> d[i].look, of |-> d[i].of, value |-> d[i].value,
                              quote |-> d[i].quote, fourth |-> FALSE]
    OBVIOUS
  <2>1. d[i].fourth = FALSE /\ d[i] = [look |-> d[i].look, of |-> d[i].of, value |-> d[i].value,
                                       quote |-> d[i].quote, fourth |-> d[i].fourth]
    BY <1>1, <1>2
  <2>. QED
    BY <2>1, Zenon
<1>. QED
  BY <1>1, <1>2, <1>3 DEF Docs

(* Without four quotes in a row the lexer's mode at the end of a line says *)
(* whether TOML has a string there that goes on.                           *)
LEMMA Lexed ==
  ASSUME NEW d \in Docs
  PROVE  \A i \in 1..(Len(d) + 1) : Config!Inside(d, i) <=> Config!Within(d, i)
<1> DEFINE N == Len(d)
           M == {"none", "multi"}
           h == [y \in (1..N) \X M |-> IF d[y[1]].quote THEN (IF y[2] = "none" THEN "multi" ELSE "none") ELSE y[2]]
           body(u) == [k \in 0..Len(d) |-> IF k = 0 THEN "none" ELSE Config!Lex(u[k - 1], d[k])]
           g == CHOOSE mode : mode = body(mode)
<1>1. N \in Nat /\ \A k \in 1..N : d[k].quote \in BOOLEAN /\ ~d[k].fourth
  BY LineOf
<1>2. \A k \in 1..N : \A x : Config!Lex(x, d[k]) = IF d[k].quote THEN (IF x = "none" THEN "multi" ELSE "none") ELSE x
  BY <1>1 DEF Config!Lex
<1>3. \A k \in 1..N, x \in M : h[<<k, x>>] = Config!Lex(x, d[k]) /\ h[<<k, x>>] \in M
  BY <1>2
<1>4. StaysIn(h, M, N) /\ "none" \in M
  BY <1>3 DEF StaysIn
<1> HIDE DEF h, N, M
<1>5. PICK f : Runs(f, h, M, "none", N)
  BY <1>1, <1>4, Recursion
<1>6. f \in [0..N -> M] /\ f[0] = "none" /\ \A k \in 1..N : f[k] = h[<<k, f[k - 1]>>]
  BY <1>5 DEF Runs
<1>7. \A k \in 1..N : f[k] = Config!Lex(f[k - 1], d[k])
  <2> SUFFICES ASSUME NEW k \in 1..N PROVE f[k] = Config!Lex(f[k - 1], d[k])
    OBVIOUS
  <2>1. k - 1 \in 0..N
    BY <1>1
  <2>. QED
    BY <1>3, <1>6, <2>1
<1>8. f = body(f)
  <2>1. ASSUME NEW k \in 0..N PROVE f[k] = IF k = 0 THEN "none" ELSE Config!Lex(f[k - 1], d[k])
    <3>1. k = 0 \/ k \in 1..N
      BY <1>1
    <3>. QED
      BY <1>6, <1>7, <3>1
  <2>. QED
    BY <1>6, <2>1 DEF N
<1>9. g = body(g)
  <2> HIDE DEF body
  <2>. QED
    BY <1>8
<1>10. Config!Modes(d) = g
  BY DEF Config!Modes
<1> HIDE DEF g
<1>11. g[0] = "none" /\ \A k \in 1..N : g[k] = Config!Lex(g[k - 1], d[k])
  <2>1. \A k \in 0..N : g[k] = IF k = 0 THEN "none" ELSE Config!Lex(g[k - 1], d[k])
    BY <1>9 DEF N
  <2>2. 0 \in 0..N /\ \A k \in 1..N : k \in 0..N /\ k # 0
    BY <1>1
  <2> HIDE DEF body
  <2>. QED
    BY <2>1, <2>2
<1> HIDE DEF body
<1> DEFINE T == {n \in Nat : n <= N => (g[n] # "none" <=> Config!Within(d, n + 1))}
<1>12. 0 \in T
  <2>1. ~Config!Within(d, 0 + 1)
    <3>1. 0 + 1 = 1
      OBVIOUS
    <3>. QED
      BY <3>1, Parity
  <2>2. 0 \in Nat /\ ~(g[0] # "none")
    BY <1>11
  <2>3. 0 <= N => (g[0] # "none" <=> Config!Within(d, 0 + 1))
    BY <2>1, <2>2, Zenon
  <2>. QED
    BY <2>2, <2>3
<1>13. ASSUME NEW n \in T PROVE n + 1 \in T
  <2>0. n \in Nat
    OBVIOUS
  <2> SUFFICES ASSUME n + 1 <= N PROVE g[n + 1] # "none" <=> Config!Within(d, n + 1 + 1)
    BY <2>0
  <2>1. n + 1 \in 1..N /\ (n + 1) - 1 = n /\ (g[n] # "none" <=> Config!Within(d, n + 1))
    BY <1>1, <2>0
  <2>2. g[n + 1] = Config!Lex(g[n], d[n + 1])
    BY <1>11, <2>1
  <2>3. g[n + 1] = IF d[n + 1].quote THEN (IF g[n] = "none" THEN "multi" ELSE "none") ELSE g[n]
    BY <1>2, <2>1, <2>2
  <2>4. Config!Within(d, n + 1 + 1) <=> Config!Within(d, n + 1) # d[n + 1].quote
    BY <2>1, Parity DEF N
  <2>5. CASE d[n + 1].quote
    <3>1. Config!Within(d, n + 1) \in BOOLEAN /\ d[n + 1].quote = TRUE
      BY <1>1, <2>1, <2>5 DEF Config!Within
    <3>2. Config!Within(d, n + 1 + 1) <=> ~Config!Within(d, n + 1)
      BY <2>4, <3>1
    <3>. QED
      BY <2>1, <2>3, <2>5, <3>2
  <2>6. CASE ~d[n + 1].quote
    <3>1. Config!Within(d, n + 1) \in BOOLEAN /\ d[n + 1].quote = FALSE
      BY <1>1, <2>1, <2>6 DEF Config!Within
    <3>2. Config!Within(d, n + 1 + 1) <=> Config!Within(d, n + 1)
      BY <2>4, <3>1
    <3>. QED
      BY <2>1, <2>3, <2>6, <3>2
  <2>. QED
    BY <2>5, <2>6
<1>14. T \subseteq Nat
  OBVIOUS
<1> HIDE DEF T
<1>15. T = Nat
  BY <1>12, <1>13, <1>14, Induct
<1>16. ASSUME NEW i \in 1..(Len(d) + 1) PROVE Config!Inside(d, i) <=> Config!Within(d, i)
  <2>1. i - 1 \in Nat /\ i - 1 <= N /\ i - 1 + 1 = i
    BY <1>1 DEF N
  <2>2. g[i - 1] # "none" <=> Config!Within(d, i)
    BY <1>15, <2>1 DEF T
  <2>. QED
    BY <1>10, <2>2 DEF Config!Inside
<1>. QED
  BY <1>16

(* What looks like a table is outside strings.                             *)
LEMMA TableLooks ==
  ASSUME NEW d \in Docs, NEW i \in 1..Len(d)
  PROVE  Config!LooksLikeTable(d, i) <=> ~Config!Within(d, i) /\ d[i].look \in {"header", "other", "item"}
<1>1. i \in 1..(Len(d) + 1)
  BY LineOf
<1>2. Config!Inside(d, i) <=> Config!Within(d, i)
  BY <1>1, Lexed
<1>3. Config!LooksLikeTable(d, i) <=> ~Config!Inside(d, i) /\ d[i].look \in {"header", "other", "item"}
  BY DEF Config!LooksLikeTable
<1>. QED
  BY <1>2, <1>3

(* Of some numbers one is the least.                                       *)
LEMMA Least ==
  ASSUME NEW B \in SUBSET Nat, B # {}
  PROVE  \E x \in B : \A y \in B : x <= y
<1> DEFINE R == OpToRel(<, Nat)
<1>1. IsWellFoundedOn(R, Nat)
  BY NatLessThanWellFounded
<1>2. R = {ss \in Nat \X Nat : ss[1] < ss[2]}
  BY DEF OpToRel
<1> HIDE DEF R
<1>3. \E x \in B : \A y \in B : ~ (<<y, x>> \in R)
  BY <1>1, WFMin
<1>4. PICK x \in B : \A y \in B : ~ (<<y, x>> \in R)
  BY <1>3
<1>5. ASSUME NEW y \in B PROVE x <= y
  <2>1. x \in Nat /\ y \in Nat /\ ~(<<y, x>> \in R)
    BY <1>4
  <2>2. ~(y < x)
    BY <1>2, <2>1
  <2>. QED
    BY <2>1, <2>2
<1>. QED
  BY <1>5

(* Of some numbers up to n one is the greatest.                            *)
LEMMA Greatest ==
  ASSUME NEW n \in Nat, NEW B \in SUBSET (0..n), B # {}
  PROVE  \E x \in B : \A y \in B : y <= x
<1> DEFINE M == {n - x : x \in B}
<1>1. M \subseteq Nat /\ M # {}
  <2>1. \A x \in B : n - x \in Nat
    OBVIOUS
  <2>. QED
    BY <2>1
<1> HIDE DEF M
<1>2. PICK m \in M : \A y \in M : m <= y
  BY <1>1, Least
<1>3. PICK x \in B : m = n - x
  BY DEF M
<1>4. ASSUME NEW y \in B PROVE y <= x
  <2>1. n - y \in M
    BY DEF M
  <2>. QED
    BY <1>2, <1>3, <2>1
<1>. QED
  BY <1>4

(* The table that a line belongs to is the nearest above it.               *)
TableIs(d, i, t) ==
  \/ t = 0 /\ \A g \in Config!Tables(d) : ~(g < i)
  \/ t \in Config!Tables(d) /\ t < i /\ \A g \in Config!Tables(d) : g < i => g <= t
(* The table that a place belongs to.                                      *)
LEMMA TableAbove ==
  ASSUME NEW d \in Docs, NEW i \in Nat
  PROVE  /\ Config!Tables(d) \subseteq 1..Len(d)
         /\ TableIs(d, i, Config!TableOf(d, i))
         /\ \A t : TableIs(d, i, t) => Config!TableOf(d, i) = t
<1> DEFINE B == {h \in Config!Tables(d) : h < i}
<1>1. Config!Tables(d) \subseteq 1..Len(d)
  BY Parity DEF Config!Tables
<1>2. B \in SUBSET (0..i)
  BY <1>1
<1>3. ASSUME B = {} PROVE TableIs(d, i, Config!TableOf(d, i))
  <2>1. Config!TableOf(d, i) = 0
    BY <1>3 DEF Config!TableOf
  <2>. QED
    BY <1>3, <2>1 DEF TableIs
<1>4. ASSUME B # {} PROVE TableIs(d, i, Config!TableOf(d, i))
  <2>1. \E h \in B : \A g \in B : g <= h
    BY <1>2, <1>4, Greatest
  <2>2. Config!TableOf(d, i) = CHOOSE h \in B : \A g \in B : g <= h
    BY <1>4 DEF Config!TableOf
  <2>. QED
    BY <2>1, <2>2, <1>2 DEF TableIs
<1>5. TableIs(d, i, Config!TableOf(d, i))
  BY <1>3, <1>4
<1>6. ASSUME NEW t, NEW u, TableIs(d, i, t), TableIs(d, i, u) PROVE t = u
  BY <1>1, <1>6 DEF TableIs
<1>. QED
  BY <1>1, <1>5, <1>6

(* A block ends where the next line looks like a table's, or with the text. *)
LEMMA BlockEnds ==
  ASSUME NEW d, Len(d) \in Nat, NEW s \in 1..Len(d)
  PROVE  /\ Config!BlockEnd(d, s) \in (s + 1)..(Len(d) + 1)
         /\ \A i \in (s + 1)..(Config!BlockEnd(d, s) - 1) : ~Config!LooksLikeTable(d, i)
         /\ Config!BlockEnd(d, s) <= Len(d) => Config!LooksLikeTable(d, Config!BlockEnd(d, s))
<1> DEFINE B == {i \in (s + 1)..Len(d) : Config!LooksLikeTable(d, i)}
<1>1. Len(d) \in Nat
  OBVIOUS
<1>2. B \in SUBSET Nat
  BY <1>1
<1>3. CASE B = {}
  <2>1. Config!BlockEnd(d, s) = Len(d) + 1
    BY <1>3 DEF Config!BlockEnd
  <2>. QED
    BY <1>1, <1>3, <2>1
<1>4. CASE B # {}
  <2>1. \E i \in B : \A j \in B : i <= j
    BY <1>2, <1>4, Least
  <2>2. Config!BlockEnd(d, s) = CHOOSE i \in B : \A j \in B : i <= j
    BY <1>4 DEF Config!BlockEnd
  <2>3. Config!BlockEnd(d, s) \in B /\ \A j \in B : Config!BlockEnd(d, s) <= j
    BY <2>1, <2>2
  <2>. QED
    BY <1>1, <2>3
<1>. QED
  BY <1>3, <1>4

(* The lines of a value.                                                   *)
Ends(d, i, c) ==
  IF d[i].quote THEN c \in (i + 1)..Len(d) /\ d[c].quote /\ \A k \in (i + 1)..(c - 1) : ~d[k].quote
  ELSE c = i
ValueTo(d, i, c) == [k \in 1..(c - i + 1) |-> d[i + k - 1].value]

(* Where the value of a key ends.                                          *)
LEMMA ValueEnds ==
  ASSUME NEW d \in Docs, NEW i \in 1..Len(d), NEW c, Ends(d, i, c)
  PROVE  Config!Value(d, i) = ValueTo(d, i, c)
<1>1. Len(d) \in Nat /\ i \in Nat
  BY LineOf
<1>2. CASE ~d[i].quote
  BY <1>1, <1>2 DEF Ends, ValueTo, Config!Value
<1>3. CASE d[i].quote
  <2> DEFINE B == {j \in (i + 1)..Len(d) : d[j].quote}
             close == CHOOSE j \in B : \A k \in B : j <= k
  <2>1. c \in B /\ \A k \in B : c <= k
    BY <1>1, <1>3 DEF Ends
  <2>2. close \in B /\ \A k \in B : close <= k
    BY <2>1
  <2>3. close = c
    BY <1>1, <2>1, <2>2
  <2>4. Config!Value(d, i) = [k \in 1..(close - i + 1) |-> d[i + k - 1].value]
    BY <1>3 DEF Config!Value
  <2> HIDE DEF close
  <2>. QED
    BY <2>3, <2>4 DEF ValueTo
<1>. QED
  BY <1>2, <1>3

(* A value has ended before any later line that is not inside a string.    *)
LEMMA ValueEndsBefore ==
  ASSUME NEW d \in Docs, NEW i \in Config!Code(d), NEW x \in (i + 1)..(Len(d) + 1), ~Config!Within(d, x)
  PROVE  \E c \in Nat : i <= c /\ c < x /\ Ends(d, i, c)
<1>0. Len(d) \in Nat /\ i \in 1..Len(d) /\ ~Config!Within(d, i)
  BY LineOf, Parity
<1>1. Len(d) \in Nat /\ i \in 1..Len(d) /\ i \in Nat /\ x \in Nat /\ ~Config!Within(d, i)
  BY <1>0
<1>2. CASE ~d[i].quote
  BY <1>1, <1>2 DEF Ends
<1>3. CASE d[i].quote
  <2> DEFINE B == {j \in (i + 1)..(x - 1) : d[j].quote}
  <2>1. B # {}
    <3> SUFFICES ASSUME B = {} PROVE FALSE
      OBVIOUS
    <3> DEFINE T == {n \in Nat : i + 1 + n <= x => Config!Within(d, i + 1 + n)}
    <3>1. 0 \in T
      <4>1. Config!Within(d, i + 1)
        BY <1>1, <1>3, Parity
      <4>. QED
        BY <1>1, <4>1
    <3>2. ASSUME NEW n \in T PROVE n + 1 \in T
      <4>1. n \in Nat
        OBVIOUS
      <4> SUFFICES ASSUME i + 1 + (n + 1) <= x PROVE Config!Within(d, i + 1 + (n + 1))
        BY <4>1
      <4>2. i + 1 + n \in 1..Len(d) /\ i + 1 + n \in (i + 1)..(x - 1) /\ i + 1 + (n + 1) = (i + 1 + n) + 1
        BY <1>1, <4>1
      <4>3. d[i + 1 + n].quote = FALSE /\ Config!Within(d, i + 1 + n)
        BY <4>1, <4>2, LineOf
      <4>. QED
        BY <4>2, <4>3, Parity
    <3>3. T \subseteq Nat
      OBVIOUS
    <3> HIDE DEF T
    <3>4. T = Nat
      BY <3>1, <3>2, <3>3, Induct
    <3>5. x - i - 1 \in Nat /\ i + 1 + (x - i - 1) = x
      BY <1>1
    <3>. QED
      BY <3>4, <3>5 DEF T
  <2>2. B \in SUBSET Nat
    BY <1>1
  <2>3. PICK c \in B : \A k \in B : c <= k
    BY <2>1, <2>2, Least
  <2>. QED
    BY <1>1, <1>3, <2>3 DEF Ends
<1>. QED
  BY <1>2, <1>3

(* ---------------------------------------------------------------------- *)
(* Lines put in or taken out                                               *)

(* e is d with m lines more after its first p, and neither those lines nor *)
(* what follows them begins inside a string.                               *)
Splice(d, e, p, m) ==
  /\ p \in 0..Len(d) /\ m \in Nat /\ Len(e) = Len(d) + m
  /\ \A i \in 1..p : e[i] = d[i]
  /\ \A i \in (p + 1)..Len(d) : e[i + m] = d[i]
  /\ ~Config!Within(e, p + 1) /\ ~Config!Within(e, p + m + 1)
Moved(p, m, i) == IF i <= p THEN i ELSE i + m

(* The lines that move are inside a string or not as they were.            *)
LEMMA SpliceInside ==
  ASSUME NEW d \in Docs, NEW e \in Docs, NEW p, NEW m, Splice(d, e, p, m)
  PROVE  \A i \in 1..(Len(d) + 1) : Config!Within(e, Moved(p, m, i)) <=> Config!Within(d, i)
<1> DEFINE Alike(i) == Config!Within(e, Moved(p, m, i)) <=> Config!Within(d, i)
           T == {n \in Nat : n <= Len(d) =>
                               /\ Alike(n + 1)
                               /\ n + 1 <= p + 1 => (Config!Within(e, n + 1) <=> Config!Within(d, n + 1))}
<1>1. /\ Len(d) \in Nat /\ Len(e) \in Nat /\ p \in 0..Len(d) /\ m \in Nat /\ Len(e) = Len(d) + m
      /\ \A i \in 1..p : e[i] = d[i]
      /\ \A i \in (p + 1)..Len(d) : e[i + m] = d[i]
      /\ ~Config!Within(e, p + 1) /\ ~Config!Within(e, p + m + 1)
  BY LineOf DEF Splice
<1>2. \A i : Config!Within(d, i) \in BOOLEAN /\ Config!Within(e, i) \in BOOLEAN
  BY DEF Config!Within
<1>3. 0 \in T
  <2>1. ~Config!Within(d, 1) /\ ~Config!Within(e, 1)
    BY Parity
  <2>2. Moved(p, m, 1) = 1 \/ (p = 0 /\ Moved(p, m, 1) = p + m + 1)
    BY <1>1 DEF Moved
  <2>. QED
    BY <1>1, <2>1, <2>2
<1>4. ASSUME NEW n \in T PROVE n + 1 \in T
  <2>0. n \in Nat
    OBVIOUS
  <2>1. SUFFICES ASSUME n + 1 <= Len(d)
                 PROVE  /\ Alike(n + 2)
                        /\ n + 2 <= p + 1 => (Config!Within(e, n + 2) <=> Config!Within(d, n + 2))
    BY <2>0
  <2>2. Alike(n + 1) /\ (n + 1 <= p + 1 => (Config!Within(e, n + 1) <=> Config!Within(d, n + 1)))
    BY <1>1, <2>0, <2>1
  <2>3. n + 1 \in 1..Len(d) /\ n + 1 + 1 = n + 2
    BY <1>1, <2>0, <2>1
  <2>4. Config!Within(d, n + 2) <=> Config!Within(d, n + 1) # d[n + 1].quote
    BY <2>3, Parity
  <2>5. CASE n + 1 <= p
    <3>1. n + 1 \in 1..p /\ n + 1 \in 1..Len(e) /\ e[n + 1] = d[n + 1]
      BY <1>1, <2>0, <2>5
    <3>2. Config!Within(e, n + 2) <=> Config!Within(e, n + 1) # e[n + 1].quote
      BY <2>3, <3>1, Parity
    <3>3. Config!Within(e, n + 2) <=> Config!Within(d, n + 2)
      BY <1>1, <1>2, <2>2, <2>4, <2>5, <3>1, <3>2, <2>0
    <3>4. Moved(p, m, n + 2) = n + 2 \/ (n + 2 = p + 1 /\ Moved(p, m, n + 2) = p + m + 1)
      BY <1>1, <2>0, <2>5 DEF Moved
    <3>. QED
      BY <1>1, <3>3, <3>4
  <2>6. CASE ~(n + 1 <= p)
    <3>1. /\ n + 1 \in (p + 1)..Len(d) /\ n + 1 + m \in 1..Len(e) /\ e[n + 1 + m] = d[n + 1]
          /\ Moved(p, m, n + 1) = n + 1 + m /\ Moved(p, m, n + 2) = n + 1 + m + 1
          /\ ~(n + 2 <= p + 1)
      BY <1>1, <2>0, <2>1, <2>6 DEF Moved
    <3>2. Config!Within(e, n + 1 + m + 1) <=> Config!Within(e, n + 1 + m) # e[n + 1 + m].quote
      BY <3>1, Parity
    <3>. QED
      BY <1>2, <2>2, <2>4, <3>1, <3>2
  <2>. QED
    BY <2>5, <2>6
<1>5. T \subseteq Nat
  OBVIOUS
<1> HIDE DEF T
<1>6. T = Nat
  BY <1>3, <1>4, <1>5, Induct
<1>7. ASSUME NEW i \in 1..(Len(d) + 1) PROVE Alike(i)
  <2>1. i - 1 \in Nat /\ i - 1 <= Len(d) /\ i - 1 + 1 = i
    BY <1>1
  <2>. QED
    BY <1>6, <2>1 DEF T
<1>. QED
  BY <1>7

(* A splice that puts no table between a key and the table it belongs to.  *)
Clean(d, e, p, m) ==
  p = Len(d) \/ p + 1 \in Config!Tables(d) \/ \A j \in (p + 1)..(p + m) : j \notin Config!Tables(e)

(* What moves, and what it is afterwards.                                  *)
LEMMA SpliceLines ==
  ASSUME NEW d \in Docs, NEW e \in Docs, NEW p, NEW m, Splice(d, e, p, m)
  PROVE  /\ \A i \in 1..Len(d) :
              LET j == Moved(p, m, i)
              IN /\ j \in 1..Len(e) /\ j \notin (p + 1)..(p + m) /\ e[j] = d[i]
                 /\ j \in Config!Code(e) <=> i \in Config!Code(d)
                 /\ j \in Config!Tables(e) <=> i \in Config!Tables(d)
                 /\ j \in Config!Keys(e) <=> i \in Config!Keys(d)
         /\ \A j \in 1..Len(e) : j \in (p + 1)..(p + m) \/ \E i \in 1..Len(d) : j = Moved(p, m, i)
         /\ \A i, j \in 1..Len(d) : /\ Moved(p, m, i) = Moved(p, m, j) => i = j
                                    /\ i < j <=> Moved(p, m, i) < Moved(p, m, j)
<1>1. /\ Len(d) \in Nat /\ Len(e) \in Nat /\ p \in 0..Len(d) /\ m \in Nat /\ Len(e) = Len(d) + m
      /\ \A i \in 1..p : e[i] = d[i]
      /\ \A i \in (p + 1)..Len(d) : e[i + m] = d[i]
  BY LineOf DEF Splice
<1>2. ASSUME NEW i \in 1..Len(d)
      PROVE  /\ Moved(p, m, i) \in 1..Len(e) /\ Moved(p, m, i) \notin (p + 1)..(p + m)
             /\ e[Moved(p, m, i)] = d[i]
             /\ Moved(p, m, i) \in Config!Code(e) <=> i \in Config!Code(d)
  <2>1. /\ Moved(p, m, i) \in 1..Len(e) /\ Moved(p, m, i) \notin (p + 1)..(p + m)
        /\ e[Moved(p, m, i)] = d[i]
    BY <1>1 DEF Moved
  <2>2. Config!Within(e, Moved(p, m, i)) <=> Config!Within(d, i)
    BY <1>1, SpliceInside
  <2>. QED
    BY <2>1, <2>2, Parity
<1>3. ASSUME NEW i \in 1..Len(d)
      PROVE  /\ Moved(p, m, i) \in Config!Tables(e) <=> i \in Config!Tables(d)
             /\ Moved(p, m, i) \in Config!Keys(e) <=> i \in Config!Keys(d)
  BY <1>2 DEF Config!Tables, Config!Keys
<1>4. ASSUME NEW j \in 1..Len(e)
      PROVE  j \in (p + 1)..(p + m) \/ \E i \in 1..Len(d) : j = Moved(p, m, i)
  <2>1. CASE j <= p
    <3>1. j \in 1..Len(d) /\ j = Moved(p, m, j)
      BY <1>1, <2>1 DEF Moved
    <3>. QED
      BY <3>1
  <2>2. CASE j > p + m
    <3>1. j - m \in 1..Len(d) /\ j = Moved(p, m, j - m)
      BY <1>1, <2>2 DEF Moved
    <3>. QED
      BY <3>1
  <2>. QED
    BY <1>1, <2>1, <2>2
<1>5. \A i, j \in 1..Len(d) : /\ Moved(p, m, i) = Moved(p, m, j) => i = j
                              /\ i < j <=> Moved(p, m, i) < Moved(p, m, j)
  BY <1>1 DEF Moved
<1>. QED
  BY <1>2, <1>3, <1>4, <1>5

(* A key stays in its table.                                               *)
LEMMA SpliceTables ==
  ASSUME NEW d \in Docs, NEW e \in Docs, NEW p, NEW m, Splice(d, e, p, m), Clean(d, e, p, m),
         NEW i \in Config!Keys(d)
  PROVE  Config!TableOf(e, Moved(p, m, i)) =
           IF Config!TableOf(d, i) = 0 THEN 0 ELSE Moved(p, m, Config!TableOf(d, i))
<1> DEFINE t == Config!TableOf(d, i)
           u == IF t = 0 THEN 0 ELSE Moved(p, m, t)
           j == Moved(p, m, i)
<1>0. i \in Config!Code(d) /\ d[i].look \in {"assign", "quoted", "dotted", "open"}
  BY DEF Config!Keys
<1>1. i \in 1..Len(d) /\ i \in Nat /\ Len(d) \in Nat /\ p \in 0..Len(d) /\ m \in Nat
  <2>1. i \in 1..Len(d) /\ Len(d) \in Nat
    BY <1>0, Parity, LineOf
  <2>. QED
    BY <2>1 DEF Splice
<1>2. i \notin Config!Tables(d)
  BY <1>0 DEF Config!Tables
<1>3. TableIs(d, i, t)
  BY <1>1, TableAbove
<1>4. /\ \A k \in 1..Len(d) : /\ Moved(p, m, k) \in 1..Len(e)
                              /\ Moved(p, m, k) \in Config!Tables(e) <=> k \in Config!Tables(d)
                              /\ k < i <=> Moved(p, m, k) < j
                              /\ \A l \in 1..Len(d) : k < l <=> Moved(p, m, k) < Moved(p, m, l)
      /\ \A k \in 1..Len(e) : k \in (p + 1)..(p + m) \/ \E l \in 1..Len(d) : k = Moved(p, m, l)
  BY <1>1, SpliceLines
<1>5. Config!Tables(d) \subseteq 1..Len(d) /\ Config!Tables(e) \subseteq 1..Len(e) /\ Len(e) \in Nat
  BY TableAbove, LineOf
<1>6. j \in Nat /\ j \in 1..Len(e)
  BY <1>1, <1>4, <1>5
<1>7. ASSUME NEW g \in Config!Tables(e), g < j PROVE u # 0 /\ g <= u
  <2>1. CASE \E l \in 1..Len(d) : g = Moved(p, m, l)
    <3>1. PICK l \in 1..Len(d) : g = Moved(p, m, l)
      BY <2>1
    <3>2. l \in Config!Tables(d) /\ l < i
      BY <1>4, <1>7, <3>1
    <3>3. t # 0 /\ t \in Config!Tables(d) /\ l <= t /\ t \in 1..Len(d)
      BY <1>3, <1>5, <3>2 DEF TableIs
    <3>4. g <= Moved(p, m, t) /\ Moved(p, m, t) # 0
      BY <1>4, <1>5, <3>1, <3>3
    <3>. QED
      BY <3>3, <3>4
  <2>2. CASE g \in (p + 1)..(p + m)
    <3>1. p < i /\ p # Len(d)
      BY <1>1, <1>7, <2>2 DEF Moved
    <3>2. p + 1 \in Config!Tables(d)
      BY <2>2, <3>1, <1>7 DEF Clean
    <3>3. p + 1 < i
      BY <1>1, <1>2, <3>1, <3>2
    <3>4. t # 0 /\ p + 1 <= t /\ t \in 1..Len(d)
      BY <1>1, <1>3, <1>5, <3>2, <3>3 DEF TableIs
    <3>5. Moved(p, m, t) = t + m
      BY <1>1, <3>4 DEF Moved
    <3>. QED
      BY <1>1, <2>2, <3>4, <3>5
  <2>. QED
    BY <1>4, <1>5, <2>1, <2>2
<1>8. u = 0 \/ (u \in Config!Tables(e) /\ u < j)
  BY <1>3, <1>4, <1>5 DEF TableIs
<1> HIDE DEF u, j
<1>9. TableIs(e, j, u)
  BY <1>5, <1>6, <1>7, <1>8 DEF TableIs
<1>10. Config!TableOf(e, j) = u
  BY <1>6, <1>9, TableAbove
<1>. QED
  BY <1>10 DEF u, j

(* A key keeps its value.                                                  *)
LEMMA SpliceValues ==
  ASSUME NEW d \in Docs, NEW e \in Docs, NEW p, NEW m, Splice(d, e, p, m),
         ~Config!Within(d, Len(d) + 1), NEW i \in Config!Code(d)
  PROVE  Config!Value(e, Moved(p, m, i)) = Config!Value(d, i)
<1> DEFINE j == Moved(p, m, i)
<1>1. /\ Len(d) \in Nat /\ Len(e) \in Nat /\ p \in 0..Len(d) /\ m \in Nat /\ Len(e) = Len(d) + m
      /\ \A k \in 1..p : e[k] = d[k]
      /\ \A k \in (p + 1)..Len(d) : e[k + m] = d[k]
  BY LineOf DEF Splice
<1>2. i \in 1..Len(d)
  BY Parity
<1>3. CASE i <= p
  <2>1. ~Config!Within(d, p + 1)
    <3>1. p + 1 \in 1..(Len(d) + 1) /\ Moved(p, m, p + 1) = p + m + 1
      BY <1>1, <1>2 DEF Moved
    <3>2. Config!Within(e, Moved(p, m, p + 1)) <=> Config!Within(d, p + 1)
      BY <3>1, SpliceInside
    <3>. QED
      BY <3>1, <3>2 DEF Splice
  <2>2. p + 1 \in (i + 1)..(Len(d) + 1)
    BY <1>1, <1>2, <1>3
  <2>3. PICK c \in Nat : i <= c /\ c < p + 1 /\ Ends(d, i, c)
    BY <2>1, <2>2, ValueEndsBefore
  <2>4. c \in i..p /\ i \in 1..Len(e) /\ Moved(p, m, i) = i
    BY <1>1, <1>2, <1>3, <2>2, <2>3 DEF Moved
  <2>5. \A k \in i..c : e[k] = d[k]
    BY <1>1, <1>2, <2>4
  <2>6. Ends(e, i, c)
    BY <1>1, <1>2, <2>3, <2>4, <2>5 DEF Ends
  <2>7. ValueTo(e, i, c) = ValueTo(d, i, c)
    <3>1. \A k \in 1..(c - i + 1) : i + k - 1 \in i..c
      BY <1>1, <1>2, <2>4
    <3>2. \A k \in 1..(c - i + 1) : e[i + k - 1].value = d[i + k - 1].value
      BY <2>5, <3>1
    <3>. QED
      BY <3>2 DEF ValueTo
  <2>. QED
    BY <1>2, <2>3, <2>4, <2>6, <2>7, ValueEnds
<1>4. CASE ~(i <= p)
  <2>1. Len(d) + 1 \in (i + 1)..(Len(d) + 1)
    BY <1>1, <1>2
  <2>2. PICK c \in Nat : i <= c /\ c < Len(d) + 1 /\ Ends(d, i, c)
    BY <2>1, ValueEndsBefore
  <2>3. c \in i..Len(d) /\ i + m \in 1..Len(e) /\ Moved(p, m, i) = i + m
    BY <1>1, <1>2, <1>4, <2>1, <2>2 DEF Moved
  <2>4. \A k \in i..c : e[k + m] = d[k]
    BY <1>1, <1>2, <1>4, <2>3
  <2>5. Ends(e, i + m, c + m)
    <3>1. e[i + m] = d[i] /\ e[c + m] = d[c]
      BY <1>1, <1>2, <2>3, <2>4
    <3>2. CASE ~d[i].quote
      BY <2>2, <3>1, <3>2, <1>1, <1>2, <2>3 DEF Ends
    <3>3. CASE d[i].quote
      <4>1. c \in (i + 1)..Len(d) /\ d[c].quote /\ \A k \in (i + 1)..(c - 1) : ~d[k].quote
        BY <2>2, <3>3 DEF Ends
      <4>2. ASSUME NEW k \in ((i + m) + 1)..((c + m) - 1) PROVE ~e[k].quote
        <5>1. k - m \in (i + 1)..(c - 1) /\ k - m \in i..c /\ k - m + m = k
          BY <1>1, <1>2, <2>3
        <5>2. e[(k - m) + m] = d[k - m]
          BY <2>4, <5>1
        <5>. QED
          BY <4>1, <5>1, <5>2
      <4>3. c + m \in ((i + m) + 1)..Len(e)
        BY <1>1, <1>2, <2>3, <4>1
      <4>. QED
        BY <3>1, <3>3, <4>1, <4>2, <4>3 DEF Ends
    <3>. QED
      BY <3>2, <3>3
  <2>6. ValueTo(e, i + m, c + m) = ValueTo(d, i, c)
    <3>1. (c + m) - (i + m) + 1 = c - i + 1
      BY <1>1, <1>2, <2>3
    <3>2. \A k \in 1..(c - i + 1) : i + k - 1 \in i..c /\ (i + m) + k - 1 = (i + k - 1) + m
      BY <1>1, <1>2, <2>3
    <3>3. \A k \in 1..(c - i + 1) : e[(i + m) + k - 1].value = d[i + k - 1].value
      BY <2>4, <3>2
    <3>. QED
      BY <3>1, <3>3 DEF ValueTo
  <2>. QED
    BY <1>2, <2>2, <2>3, <2>5, <2>6, ValueEnds
<1>. QED
  BY <1>3, <1>4

(* ---------------------------------------------------------------------- *)
(* What a text says of a name, and one line changed                        *)

(* What a text says: the names that have a table, and of each name and     *)
(* field the values it is given (one, where the text is TOML).             *)
Named(d) == {n \in Names : \E i \in Config!Code(d) : d[i].look \in {"header", "inline"} /\ d[i].of = n}
Places(d, n, f) == {i \in Config!Keys(d) : Config!TableOf(d, i) \in Config!Header(d, n) /\ d[i].of = f}
Says(d, n, f) == {Config!Value(d, i) : i \in Places(d, n, f)}
Once(d, n, f) == \A i, j \in Places(d, n, f) : i = j

(* What the m lines after p have to do with a name and a field.            *)
Unsaid(e, p, m, n, f) == \A j \in (p + 1)..(p + m) : j \notin Places(e, n, f)
NamedBy(e, p, m) == {n \in Names : \E j \in (p + 1)..(p + m) :
                       j \in Config!Code(e) /\ e[j].look \in {"header", "inline"} /\ e[j].of = n}

(* A splice adds what its own lines say and changes nothing else.          *)
LEMMA SpliceSays ==
  ASSUME NEW d \in Docs, NEW e \in Docs, NEW p, NEW m, Splice(d, e, p, m), Clean(d, e, p, m),
         ~Config!Within(d, Len(d) + 1), NEW n, NEW f, Unsaid(e, p, m, n, f)
  PROVE  Says(e, n, f) = Says(d, n, f) /\ (Once(e, n, f) <=> Once(d, n, f))
<1>0. /\ Config!Tables(d) \subseteq 1..Len(d) /\ Config!Keys(d) \subseteq Config!Code(d)
      /\ Config!Keys(e) \subseteq 1..Len(e)
      /\ Config!Keys(d) \subseteq 1..Len(d) /\ Len(d) \in Nat
  BY TableAbove, Parity, LineOf DEF Config!Keys
<1>1. ASSUME NEW i \in Config!Keys(d) PROVE i \in Places(d, n, f) <=> Moved(p, m, i) \in Places(e, n, f)
  <2> DEFINE t == Config!TableOf(d, i)
  <2>1. Config!TableOf(e, Moved(p, m, i)) = IF t = 0 THEN 0 ELSE Moved(p, m, t)
    BY SpliceTables
  <2>2. TableIs(d, i, t) /\ (t = 0 \/ t \in 1..Len(d)) /\ ~(0 \in Config!Tables(d))
    BY <1>0, TableAbove DEF TableIs
  <2>3. 0 \notin Config!Header(d, n) /\ 0 \notin Config!Header(e, n)
    BY TableAbove DEF Config!Header
  <2>4. t # 0 => (Moved(p, m, t) \in Config!Header(e, n) <=> t \in Config!Header(d, n))
    BY <2>2, SpliceLines DEF Config!Header
  <2>5. Moved(p, m, i) \in Config!Keys(e) /\ e[Moved(p, m, i)] = d[i]
    BY <1>0, SpliceLines
  <2> HIDE DEF t
  <2>6. Config!TableOf(e, Moved(p, m, i)) \in Config!Header(e, n) <=> t \in Config!Header(d, n)
    BY <2>1, <2>3, <2>4
  <2>. QED
    BY <2>5, <2>6 DEF Places, t
<1>2. ASSUME NEW j \in Places(e, n, f) PROVE \E i \in Places(d, n, f) : j = Moved(p, m, i)
  <2>1. j \in Config!Keys(e) /\ j \in 1..Len(e)
    BY <1>0 DEF Places
  <2>2. PICK i \in 1..Len(d) : j = Moved(p, m, i)
    BY <2>1, SpliceLines DEF Unsaid
  <2>3. i \in Config!Keys(d)
    BY <2>1, <2>2, SpliceLines
  <2>. QED
    BY <1>1, <2>2, <2>3
<1>3. \A i \in Places(d, n, f) : i \in Config!Keys(d) /\ i \in Config!Code(d) /\ i \in 1..Len(d)
  BY <1>0 DEF Places
<1>4. \A i \in Places(d, n, f) : /\ Moved(p, m, i) \in Places(e, n, f)
                                 /\ Config!Value(e, Moved(p, m, i)) = Config!Value(d, i)
  BY <1>1, <1>3, SpliceValues
<1>5. Says(e, n, f) = Says(d, n, f)
  <2>1. ASSUME NEW v \in Says(e, n, f) PROVE v \in Says(d, n, f)
    BY <1>2, <1>4 DEF Says
  <2>2. ASSUME NEW v \in Says(d, n, f) PROVE v \in Says(e, n, f)
    <3>1. PICK i \in Places(d, n, f) : v = Config!Value(d, i)
      BY DEF Says
    <3>. QED
      BY <1>4, <3>1 DEF Says
  <2>. QED
    BY <2>1, <2>2
<1>6. \A i, j \in Places(d, n, f) : Moved(p, m, i) = Moved(p, m, j) => i = j
  BY <1>3, SpliceLines
<1>7. Once(e, n, f) <=> Once(d, n, f)
  BY <1>2, <1>4, <1>6 DEF Once
<1>. QED
  BY <1>5, <1>7

(* The names of a text grow by those of the lines that are put in.         *)
LEMMA SpliceNamed ==
  ASSUME NEW d \in Docs, NEW e \in Docs, NEW p, NEW m, Splice(d, e, p, m)
  PROVE  Named(e) = Named(d) \cup NamedBy(e, p, m)
<1>1. Config!Code(d) \subseteq 1..Len(d) /\ Config!Code(e) \subseteq 1..Len(e)
  BY Parity
<1>2. /\ \A i \in Config!Code(d) : Moved(p, m, i) \in Config!Code(e) /\ e[Moved(p, m, i)] = d[i]
      /\ \A j \in Config!Code(e) : j \in (p + 1)..(p + m) \/ \E i \in Config!Code(d) : j = Moved(p, m, i)
  BY <1>1, SpliceLines
<1>. QED
  BY <1>2 DEF Named, NamedBy

(* One line that was no more than a line takes the place of another.       *)
Swap(d, e, i) ==
  /\ i \in Config!Keys(d) /\ Len(e) = Len(d)
  /\ \A k \in 1..Len(d) : k # i => e[k] = d[k]
  /\ ~d[i].quote /\ ~e[i].quote
  /\ e[i].look \in {"assign", "text"} /\ (e[i].look = "assign" => d[i].look = "assign" /\ e[i].of = d[i].of)

(* What is inside a string stays inside.                                   *)
LEMMA SwapInside ==
  ASSUME NEW d \in Docs, NEW e \in Docs, NEW i, Swap(d, e, i)
  PROVE  \A k \in 1..(Len(d) + 1) : Config!Within(e, k) <=> Config!Within(d, k)
<1> DEFINE T == {n \in Nat : n <= Len(d) => (Config!Within(e, n + 1) <=> Config!Within(d, n + 1))}
<1>1. 0 \in T
  <2>1. ~Config!Within(d, 1) /\ ~Config!Within(e, 1)
    BY Parity
  <2>. QED
    BY <2>1
<1>2. ASSUME NEW n \in T PROVE n + 1 \in T
  <2>0. n \in Nat /\ Len(d) \in Nat /\ Len(e) = Len(d)
    BY LineOf DEF Swap
  <2> SUFFICES ASSUME n + 1 <= Len(d) PROVE Config!Within(e, n + 1 + 1) <=> Config!Within(d, n + 1 + 1)
    BY <2>0
  <2>1. n + 1 \in 1..Len(d) /\ n + 1 \in 1..Len(e) /\ (Config!Within(e, n + 1) <=> Config!Within(d, n + 1))
    BY <2>0
  <2>2. d[n + 1].quote = e[n + 1].quote
    <3>1. d[n + 1].quote \in BOOLEAN /\ e[n + 1].quote \in BOOLEAN
      BY <2>1, LineOf
    <3>. QED
      BY <2>1, <3>1 DEF Swap
  <2>3. Config!Within(d, n + 1 + 1) <=> Config!Within(d, n + 1) # d[n + 1].quote
    BY <2>1, Parity
  <2>4. Config!Within(e, n + 1 + 1) <=> Config!Within(e, n + 1) # e[n + 1].quote
    BY <2>1, Parity
  <2>5. Config!Within(e, n + 1) \in BOOLEAN /\ Config!Within(d, n + 1) \in BOOLEAN
    BY DEF Config!Within
  <2>. QED
    BY <2>1, <2>2, <2>3, <2>4, <2>5
<1>3. T \subseteq Nat
  OBVIOUS
<1> HIDE DEF T
<1>4. T = Nat
  BY <1>1, <1>2, <1>3, Induct
<1>5. ASSUME NEW k \in 1..(Len(d) + 1) PROVE Config!Within(e, k) <=> Config!Within(d, k)
  <2>1. k - 1 \in Nat /\ k - 1 <= Len(d) /\ k - 1 + 1 = k
    BY LineOf
  <2>. QED
    BY <1>4, <2>1 DEF T
<1>. QED
  BY <1>5

(* Tables, the other keys and their values stay as they are.               *)
LEMMA SwapLines ==
  ASSUME NEW d \in Docs, NEW e \in Docs, NEW i, Swap(d, e, i)
  PROVE  /\ Config!Code(e) = Config!Code(d) /\ Config!Tables(e) = Config!Tables(d)
         /\ \A n : Config!Header(e, n) = Config!Header(d, n)
         /\ Config!Keys(e) = IF e[i].look = "assign" THEN Config!Keys(d) ELSE Config!Keys(d) \ {i}
         /\ \A k \in Nat : Config!TableOf(e, k) = Config!TableOf(d, k)
         /\ Named(e) = Named(d)
<1>1. Len(d) \in Nat /\ Len(e) = Len(d)
  BY LineOf DEF Swap
<1>2. Config!Code(e) = Config!Code(d)
  <2>1. \A k : k \in Config!Code(e) <=> k \in Config!Code(d)
    <3>1. ASSUME NEW k \in 1..Len(d) PROVE k \in Config!Code(e) <=> k \in Config!Code(d)
      <4>1. Config!Within(e, k) <=> Config!Within(d, k)
        BY <1>1, SwapInside
      <4>. QED
        BY <1>1, <4>1, Parity
    <3>. QED
      BY <1>1, <3>1, Parity
  <2>. QED
    BY <2>1
<1>3. i \in Config!Code(d) /\ d[i].look \in {"assign", "quoted", "dotted", "open"}
  BY DEF Swap, Config!Keys
<1>4. \A k \in Config!Code(d) : k # i => e[k] = d[k]
  BY Parity DEF Swap
<1>5. e[i].look \in {"assign", "text"} /\ (e[i].look = "assign" => d[i].look = "assign" /\ e[i].of = d[i].of)
  BY DEF Swap
<1>6. Config!Tables(e) = Config!Tables(d)
  BY <1>2, <1>3, <1>4, <1>5 DEF Config!Tables
<1>7. \A n : Config!Header(e, n) = Config!Header(d, n)
  <2>1. \A k \in Config!Tables(d) : e[k] = d[k]
    BY <1>3, <1>4 DEF Config!Tables
  <2>. QED
    BY <1>6, <2>1 DEF Config!Header
<1>8. Config!Keys(e) = IF e[i].look = "assign" THEN Config!Keys(d) ELSE Config!Keys(d) \ {i}
  BY <1>2, <1>3, <1>4, <1>5 DEF Config!Keys
<1>9. \A k \in Nat : Config!TableOf(e, k) = Config!TableOf(d, k)
  BY <1>6 DEF Config!TableOf
<1>10. Named(e) = Named(d)
  BY <1>2, <1>3, <1>4, <1>5 DEF Named
<1>. QED
  BY <1>2, <1>6, <1>7, <1>8, <1>9, <1>10

(* The values of a text with one line changed.                             *)
LEMMA SwapValues ==
  ASSUME NEW d \in Docs, NEW e \in Docs, NEW i, Swap(d, e, i),
         ~Config!Within(d, Len(d) + 1), NEW k \in Config!Code(d), k # i
  PROVE  Config!Value(e, k) = Config!Value(d, k)
<1>1. Len(d) \in Nat /\ Len(e) = Len(d) /\ k \in 1..Len(d) /\ i \in Config!Code(d) /\ i \in 1..Len(d)
      /\ ~Config!Within(d, i)
  BY LineOf, Parity DEF Swap, Config!Keys
<1>2. \E c \in Nat : k <= c /\ Ends(d, k, c) /\ c <= Len(d) /\ ~(i \in k..c)
  <2>1. CASE k < i
    <3>1. i \in (k + 1)..(Len(d) + 1)
      BY <1>1, <2>1
    <3>2. PICK c \in Nat : k <= c /\ c < i /\ Ends(d, k, c)
      BY <1>1, <3>1, ValueEndsBefore
    <3>. QED
      BY <1>1, <3>2
  <2>2. CASE i < k
    <3>1. Len(d) + 1 \in (k + 1)..(Len(d) + 1)
      BY <1>1
    <3>2. PICK c \in Nat : k <= c /\ c < Len(d) + 1 /\ Ends(d, k, c)
      BY <1>1, <3>1, ValueEndsBefore
    <3>. QED
      BY <1>1, <2>2, <3>2
  <2>. QED
    BY <1>1, <2>1, <2>2
<1>3. PICK c \in Nat : k <= c /\ Ends(d, k, c) /\ c <= Len(d) /\ ~(i \in k..c)
  BY <1>2
<1>4. \A l \in k..c : e[l] = d[l]
  BY <1>1, <1>3 DEF Swap
<1>5. Ends(e, k, c)
  BY <1>1, <1>3, <1>4 DEF Ends
<1>6. ValueTo(e, k, c) = ValueTo(d, k, c)
  <2>1. \A l \in 1..(c - k + 1) : k + l - 1 \in k..c
    BY <1>1, <1>3
  <2>2. \A l \in 1..(c - k + 1) : e[k + l - 1].value = d[k + l - 1].value
    BY <1>4, <2>1
  <2>. QED
    BY <2>2 DEF ValueTo
<1>. QED
  BY <1>1, <1>3, <1>5, <1>6, ValueEnds

(* A swap says something else of the line's own name and field only.       *)
LEMMA SwapSays ==
  ASSUME NEW d \in Docs, NEW e \in Docs, NEW i, Swap(d, e, i), ~Config!Within(d, Len(d) + 1),
         NEW n, NEW f
  PROVE  /\ Places(e, n, f) = IF e[i].look = "assign" THEN Places(d, n, f) ELSE Places(d, n, f) \ {i}
         /\ i \notin Places(d, n, f) => Says(e, n, f) = Says(d, n, f) /\ (Once(d, n, f) => Once(e, n, f))
<1>1. /\ Config!Code(e) = Config!Code(d) /\ Config!Header(e, n) = Config!Header(d, n)
      /\ Config!Keys(e) = IF e[i].look = "assign" THEN Config!Keys(d) ELSE Config!Keys(d) \ {i}
      /\ \A k \in Nat : Config!TableOf(e, k) = Config!TableOf(d, k)
  BY SwapLines
<1>2. \A k \in Config!Keys(d) : k \in Nat /\ k \in 1..Len(d) /\ k \in Config!Code(d)
  <2>1. Config!Keys(d) \subseteq Config!Code(d)
    BY DEF Config!Keys
  <2>2. \A k \in Config!Code(d) : k \in 1..Len(d)
    BY Parity
  <2>. QED
    BY <2>1, <2>2, LineOf
<1>3. /\ \A k \in Config!Keys(d) : k # i => e[k] = d[k]
      /\ e[i].look = "assign" => e[i].of = d[i].of
  BY <1>2 DEF Swap
<1>4. Places(e, n, f) = IF e[i].look = "assign" THEN Places(d, n, f) ELSE Places(d, n, f) \ {i}
  BY <1>1, <1>2, <1>3 DEF Places
<1>5. ASSUME i \notin Places(d, n, f)
      PROVE  Says(e, n, f) = Says(d, n, f) /\ (Once(d, n, f) => Once(e, n, f))
  <2>1. Places(e, n, f) = Places(d, n, f)
    BY <1>4, <1>5
  <2>2. \A k \in Places(d, n, f) : k \in Config!Code(d) /\ k # i
    BY <1>2, <1>5 DEF Places
  <2>3. \A k \in Places(d, n, f) : Config!Value(e, k) = Config!Value(d, k)
    BY <2>2, SwapValues
  <2>. QED
    BY <2>1, <2>3 DEF Says, Once
<1>. QED
  BY <1>4, <1>5

(* ---------------------------------------------------------------------- *)
(* Comments                                                                *)

(* The comments of a text, collected line by line.                         *)
IsNote(l) == l.look = "text" /\ l.value # Config!Null
Collects(d, g) ==
  g[0] = <<>> /\ \A k \in 1..Len(d) : g[k] = IF IsNote(d[k]) THEN Append(g[k - 1], d[k]) ELSE g[k - 1]
(* There is a run through the text that collects its comments.             *)
LEMMA NotesCollected ==
  ASSUME NEW d \in Docs
  PROVE  \E g : Collects(d, g) /\ Config!Notes(d) = g[Len(d)]
<1> DEFINE N == Len(d)
           h == [y \in (1..N) \X Docs |-> IF IsNote(d[y[1]]) THEN Append(y[2], d[y[1]]) ELSE y[2]]
           body(u) == [i \in 0..Len(d) |-> IF i = 0 THEN <<>>
                                             ELSE IF d[i].look = "text" /\ d[i].value # Config!Null
                                                  THEN Append(u[i - 1], d[i]) ELSE u[i - 1]]
           g == CHOOSE upto : upto = body(upto)
<1>1. N \in Nat /\ <<>> \in Docs /\ \A k \in 1..N : d[k] \in PlainLines
  BY LineOf DEF Docs
<1>2. \A k \in 1..N, x \in Docs : h[<<k, x>>] = IF IsNote(d[k]) THEN Append(x, d[k]) ELSE x
  OBVIOUS
<1>3. \A k \in 1..N, x \in Docs : Append(x, d[k]) \in Docs
  BY <1>1 DEF Docs
<1>4. StaysIn(h, Docs, N)
  BY <1>2, <1>3 DEF StaysIn
<1> HIDE DEF h, N
<1>11. PICK u : Runs(u, h, Docs, <<>>, N)
  BY <1>1, <1>4, Recursion
<1>5. u \in [0..N -> Docs] /\ u[0] = <<>> /\ \A k \in 1..N : u[k] = h[<<k, u[k - 1]>>]
  BY <1>11 DEF Runs
<1>6. \A k \in 1..N : u[k] = IF IsNote(d[k]) THEN Append(u[k - 1], d[k]) ELSE u[k - 1]
  <2>1. \A k \in 1..N : k - 1 \in 0..N
    BY <1>1
  <2>. QED
    BY <1>2, <1>5, <2>1
<1>7. u = body(u)
  <2>1. \A i \in 0..N : u[i] = IF i = 0 THEN <<>>
                               ELSE IF IsNote(d[i]) THEN Append(u[i - 1], d[i]) ELSE u[i - 1]
    <3>1. \A i \in 0..N : i = 0 \/ i \in 1..N
      BY <1>1
    <3>2. \A i \in 1..N : i # 0
      BY <1>1
    <3>. QED
      BY <1>5, <1>6, <3>1, <3>2
  <2>. QED
    BY <1>5, <2>1 DEF IsNote, N
<1>8. g = body(g)
  <2> HIDE DEF body
  <2>. QED
    BY <1>7
<1>9. Config!Notes(d) = g[N]
  BY DEF Config!Notes, N
<1> HIDE DEF g
<1>10. Collects(d, g)
  <2>1. \A i \in 1..N : i \in 0..N /\ i # 0
    BY <1>1
  <2>2. \A i \in 0..N : g[i] = IF i = 0 THEN <<>>
                               ELSE IF IsNote(d[i]) THEN Append(g[i - 1], d[i]) ELSE g[i - 1]
    BY <1>8 DEF IsNote, N
  <2>3. 0 \in 0..N
    BY <1>1
  <2>4. \A k \in 1..N : g[k] = IF IsNote(d[k]) THEN Append(g[k - 1], d[k]) ELSE g[k - 1]
    BY <2>1, <2>2
  <2>. QED
    BY <2>2, <2>3, <2>4 DEF Collects, N
<1>. QED
  BY <1>9, <1>10 DEF N

(* Lines that are no comments may come, go or change.                      *)
LEMMA SpliceNotes ==
  ASSUME NEW d \in Docs, NEW e \in Docs, NEW p, NEW m, Splice(d, e, p, m),
         \A j \in (p + 1)..(p + m) : ~IsNote(e[j])
  PROVE  Config!Notes(e) = Config!Notes(d)
<1>1. /\ Len(d) \in Nat /\ Len(e) \in Nat /\ p \in 0..Len(d) /\ m \in Nat /\ Len(e) = Len(d) + m
      /\ \A k \in 1..p : e[k] = d[k]
      /\ \A k \in (p + 1)..Len(d) : e[k + m] = d[k]
  BY LineOf DEF Splice
<1>2. PICK g : Collects(d, g) /\ Config!Notes(d) = g[Len(d)]
  BY NotesCollected
<1>3. PICK h : Collects(e, h) /\ Config!Notes(e) = h[Len(e)]
  BY NotesCollected
<1>4. /\ g[0] = <<>> /\ \A k \in 1..Len(d) : g[k] = IF IsNote(d[k]) THEN Append(g[k - 1], d[k]) ELSE g[k - 1]
      /\ h[0] = <<>> /\ \A k \in 1..Len(e) : h[k] = IF IsNote(e[k]) THEN Append(h[k - 1], e[k]) ELSE h[k - 1]
  BY <1>2, <1>3 DEF Collects
<1> DEFINE at(n) == IF n <= p THEN n ELSE IF n <= p + m THEN p ELSE n - m
           T == {n \in Nat : n <= Len(e) => h[n] = g[at(n)]}
<1>5. 0 \in T
  BY <1>1, <1>4
<1>6. ASSUME NEW n \in T PROVE n + 1 \in T
  <2>0. n \in Nat
    OBVIOUS
  <2> SUFFICES ASSUME n + 1 <= Len(e) PROVE h[n + 1] = g[at(n + 1)]
    BY <2>0
  <2>1. /\ n + 1 \in 1..Len(e) /\ h[n] = g[at(n)] /\ n + 1 - 1 = n
        /\ h[n + 1] = IF IsNote(e[n + 1]) THEN Append(h[n], e[n + 1]) ELSE h[n]
    <3>1. n + 1 \in 1..Len(e) /\ n + 1 - 1 = n /\ n <= Len(e)
      BY <1>1, <2>0
    <3>. QED
      BY <1>4, <3>1
  <2>2. CASE n + 1 <= p
    <3>1. at(n + 1) = n + 1 /\ at(n) = n /\ n + 1 \in 1..Len(d) /\ e[n + 1] = d[n + 1]
      BY <1>1, <2>0, <2>2
    <3>2. g[n + 1] = IF IsNote(d[n + 1]) THEN Append(g[n], d[n + 1]) ELSE g[n]
      BY <1>4, <2>1, <3>1
    <3>. QED
      BY <2>1, <3>1, <3>2
  <2>3. CASE ~(n + 1 <= p) /\ n + 1 <= p + m
    <3>1. at(n + 1) = p /\ at(n) = p /\ ~IsNote(e[n + 1])
      BY <1>1, <2>0, <2>3
    <3>. QED
      BY <2>1, <3>1
  <2>4. CASE ~(n + 1 <= p) /\ ~(n + 1 <= p + m)
    <3> DEFINE k == n + 1 - m
    <3>1. at(n + 1) = k /\ at(n) = k - 1 /\ k \in (p + 1)..Len(d) /\ k \in 1..Len(d) /\ k + m = n + 1
      <4>1. p \in Nat /\ p + m <= n /\ n + 1 <= Len(d) + m
        BY <1>1, <2>0, <2>4
      <4>2. at(n) = k - 1
        BY <1>1, <2>0, <4>1
      <4>. QED
        BY <1>1, <2>0, <2>4, <4>1, <4>2
    <3> HIDE DEF k
    <3>2. e[n + 1] = d[k]
      BY <1>1, <3>1
    <3>3. g[k] = IF IsNote(d[k]) THEN Append(g[k - 1], d[k]) ELSE g[k - 1]
      BY <1>4, <3>1
    <3>. QED
      BY <2>1, <3>1, <3>2, <3>3
  <2>. QED
    BY <2>2, <2>3, <2>4
<1>7. T \subseteq Nat
  OBVIOUS
<1> HIDE DEF T
<1>8. T = Nat
  BY <1>5, <1>6, <1>7, Induct
<1>9. at(Len(e)) = Len(d)
  BY <1>1
<1>10. h[Len(e)] = g[at(Len(e))]
  BY <1>1, <1>8 DEF T
<1>. QED
  BY <1>2, <1>3, <1>9, <1>10

(* A line that is no comment becomes another one that is none.             *)
LEMMA SwapNotes ==
  ASSUME NEW d \in Docs, NEW e \in Docs, NEW i, Swap(d, e, i), ~IsNote(e[i])
  PROVE  Config!Notes(e) = Config!Notes(d)
<1>1. Len(d) \in Nat /\ Len(e) = Len(d) /\ \A k \in 1..Len(d) : k # i => e[k] = d[k]
  BY LineOf DEF Swap
<1>2. ~IsNote(d[i])
  BY DEF Swap, Config!Keys, IsNote
<1>3. PICK g : Collects(d, g) /\ Config!Notes(d) = g[Len(d)]
  BY NotesCollected
<1>4. PICK h : Collects(e, h) /\ Config!Notes(e) = h[Len(e)]
  BY NotesCollected
<1>5. /\ g[0] = <<>> /\ \A k \in 1..Len(d) : g[k] = IF IsNote(d[k]) THEN Append(g[k - 1], d[k]) ELSE g[k - 1]
      /\ h[0] = <<>> /\ \A k \in 1..Len(d) : h[k] = IF IsNote(e[k]) THEN Append(h[k - 1], e[k]) ELSE h[k - 1]
  BY <1>1, <1>3, <1>4 DEF Collects
<1> DEFINE T == {n \in Nat : n <= Len(d) => h[n] = g[n]}
<1>6. 0 \in T
  BY <1>5
<1>7. ASSUME NEW n \in T PROVE n + 1 \in T
  <2>0. n \in Nat
    OBVIOUS
  <2> SUFFICES ASSUME n + 1 <= Len(d) PROVE h[n + 1] = g[n + 1]
    BY <2>0
  <2>1. n + 1 \in 1..Len(d) /\ n + 1 - 1 = n /\ h[n] = g[n]
    BY <1>1, <2>0
  <2>2. /\ h[n + 1] = IF IsNote(e[n + 1]) THEN Append(h[n], e[n + 1]) ELSE h[n]
        /\ g[n + 1] = IF IsNote(d[n + 1]) THEN Append(g[n], d[n + 1]) ELSE g[n]
    BY <1>5, <2>1
  <2>. QED
    BY <1>1, <1>2, <2>1, <2>2
<1>8. T \subseteq Nat
  OBVIOUS
<1> HIDE DEF T
<1>9. T = Nat
  BY <1>6, <1>7, <1>8, Induct
<1>10. h[Len(d)] = g[Len(d)]
  BY <1>1, <1>9 DEF T
<1>. QED
  BY <1>1, <1>3, <1>4, <1>10

(* ---------------------------------------------------------------------- *)
(* patchBindingText: one field                                             *)

(* One line put in.                                                        *)
LEMMA InsertLine ==
  ASSUME NEW d \in Docs, NEW q \in 1..(Len(d) + 1), NEW l \in PlainLines
  PROVE  LET r == Config!InsertAt(d, q, l)
         IN /\ r \in Docs /\ Len(r) = Len(d) + 1 /\ r[q] = l
            /\ \A i \in 1..(q - 1) : r[i] = d[i]
            /\ \A i \in q..Len(d) : r[i + 1] = d[i]
<1> DEFINE L == PlainLines
<1>1. d \in Seq(L) /\ l \in L /\ Len(d) \in Nat
  BY DEF Docs
<1> DEFINE a == SubSeq(d, 1, q - 1)
           b == SubSeq(d, q, Len(d))
           r == (a \o <<l>>) \o b
<1> HIDE DEF L
<1>2. a \in Seq(L) /\ Len(a) = q - 1 /\ \A i \in 1..(q - 1) : a[i] = d[i]
  BY <1>1
<1>3. b \in Seq(L) /\ Len(b) = Len(d) - q + 1 /\ \A i \in 1..(Len(d) - q + 1) : b[i] = d[q + i - 1]
  BY <1>1
<1> HIDE DEF a, b
<1>4. <<l>> \in Seq(L) /\ Len(<<l>>) = 1 /\ <<l>>[1] = l
  BY <1>1
<1>5. /\ a \o <<l>> \in Seq(L) /\ Len(a \o <<l>>) = q
      /\ \A i \in 1..q : (a \o <<l>>)[i] = IF i <= q - 1 THEN a[i] ELSE l
  BY <1>1, <1>2, <1>4
<1>6. /\ r \in Seq(L) /\ Len(r) = Len(d) + 1
      /\ \A i \in 1..(Len(d) + 1) : r[i] = IF i <= q THEN (a \o <<l>>)[i] ELSE b[i - q]
  BY <1>1, <1>3, <1>5
<1>7. r = Config!InsertAt(d, q, l)
  BY DEF Config!InsertAt, a, b
<1> HIDE DEF r
<1>8. r[q] = l /\ \A i \in 1..(q - 1) : r[i] = d[i]
  BY <1>1, <1>2, <1>5, <1>6
<1>9. \A i \in q..Len(d) : r[i + 1] = d[i]
  BY <1>1, <1>3, <1>6
<1>. QED
  BY <1>6, <1>7, <1>8, <1>9 DEF Docs, L

(* The same lines from the first one on are inside strings alike.          *)
LEMMA PrefixInside ==
  ASSUME NEW d \in Docs, NEW e \in Docs, NEW q \in 1..(Len(d) + 1), q <= Len(e) + 1,
         \A i \in 1..(q - 1) : e[i] = d[i]
  PROVE  \A i \in 1..q : Config!Within(e, i) <=> Config!Within(d, i)
<1>0. Len(d) \in Nat /\ Len(e) \in Nat
  BY LineOf
<1> DEFINE T == {k \in Nat : k + 1 <= q => (Config!Within(e, k + 1) <=> Config!Within(d, k + 1))}
<1>1. 0 \in T
  <2>1. ~Config!Within(e, 1) /\ ~Config!Within(d, 1)
    BY Parity
  <2>. QED
    BY <2>1
<1>2. ASSUME NEW k \in T PROVE k + 1 \in T
  <2>0. k \in Nat
    OBVIOUS
  <2> SUFFICES ASSUME k + 1 + 1 <= q PROVE Config!Within(e, k + 1 + 1) <=> Config!Within(d, k + 1 + 1)
    BY <2>0
  <2>1. k + 1 \in 1..Len(d) /\ k + 1 \in 1..Len(e) /\ e[k + 1] = d[k + 1] /\ k + 1 <= q
    BY <1>0, <2>0
  <2>2. Config!Within(e, k + 1 + 1) <=> Config!Within(e, k + 1) # e[k + 1].quote
    BY <2>1, Parity
  <2>3. Config!Within(d, k + 1 + 1) <=> Config!Within(d, k + 1) # d[k + 1].quote
    BY <2>1, Parity
  <2>4. Config!Within(e, k + 1) \in BOOLEAN /\ Config!Within(d, k + 1) \in BOOLEAN
    BY DEF Config!Within
  <2>. QED
    BY <2>1, <2>2, <2>3, <2>4
<1>3. T \subseteq Nat
  OBVIOUS
<1> HIDE DEF T
<1>4. T = Nat
  BY <1>1, <1>2, <1>3, Induct
<1>5. ASSUME NEW i \in 1..q PROVE Config!Within(e, i) <=> Config!Within(d, i)
  <2>1. i - 1 \in Nat /\ i - 1 + 1 = i /\ i <= q
    BY <1>0
  <2>. QED
    BY <1>4, <2>1 DEF T
<1>. QED
  BY <1>5

(* Lines without a string that goes on do not begin one.                   *)
LEMMA PlainRun ==
  ASSUME NEW e \in Docs, NEW a \in 1..(Len(e) + 1), NEW b \in a..(Len(e) + 1), ~Config!Within(e, a),
         \A i \in a..(b - 1) : ~e[i].quote
  PROVE  \A i \in a..b : ~Config!Within(e, i)
<1>0. Len(e) \in Nat
  BY LineOf
<1> DEFINE T == {k \in Nat : a + k <= b => ~Config!Within(e, a + k)}
<1>1. 0 \in T
  BY <1>0
<1>2. ASSUME NEW k \in T PROVE k + 1 \in T
  <2>0. k \in Nat
    OBVIOUS
  <2> SUFFICES ASSUME a + (k + 1) <= b PROVE ~Config!Within(e, a + (k + 1))
    BY <2>0
  <2>1. /\ a + k \in 1..Len(e) /\ a + k \in a..(b - 1) /\ a + k <= b /\ a + (k + 1) = a + k + 1
        /\ ~Config!Within(e, a + k) /\ ~e[a + k].quote
    BY <1>0, <2>0
  <2>2. Config!Within(e, a + k + 1) <=> Config!Within(e, a + k) # e[a + k].quote
    BY <2>1, Parity
  <2>3. Config!Within(e, a + k) \in BOOLEAN /\ e[a + k].quote \in BOOLEAN
    BY <2>1, LineOf DEF Config!Within
  <2>. QED
    BY <2>1, <2>2, <2>3
<1>3. T \subseteq Nat
  OBVIOUS
<1> HIDE DEF T
<1>4. T = Nat
  BY <1>1, <1>2, <1>3, Induct
<1>5. ASSUME NEW i \in a..b PROVE ~Config!Within(e, i)
  <2>1. i - a \in Nat /\ a + (i - a) = i /\ i <= b
    BY <1>0
  <2>. QED
    BY <1>4, <2>1 DEF T
<1>. QED
  BY <1>5

(* Nothing between a table and the end of its block is a table, and the    *)
(* end is no part of a string.                                             *)
LEMMA InBlock ==
  ASSUME NEW d \in Docs, NEW s \in Config!Tables(d)
  PROVE  LET end == Config!BlockEnd(d, s)
         IN /\ s \in 1..Len(d) /\ end \in (s + 1)..(Len(d) + 1)
            /\ \A j \in (s + 1)..(end - 1) : j \notin Config!Tables(d)
            /\ \A i \in (s + 1)..end : Config!TableOf(d, i) = s
            /\ ~Config!Within(d, Len(d) + 1) => ~Config!Within(d, end)
<1> DEFINE end == Config!BlockEnd(d, s)
<1>1. s \in 1..Len(d) /\ Len(d) \in Nat /\ Config!Tables(d) \subseteq 1..Len(d)
  BY TableAbove, LineOf
<1>2. /\ end \in (s + 1)..(Len(d) + 1)
      /\ \A i \in (s + 1)..(end - 1) : ~Config!LooksLikeTable(d, i)
      /\ end <= Len(d) => Config!LooksLikeTable(d, end)
  BY <1>1, BlockEnds
<1> HIDE DEF end
<1>3. \A j \in Config!Tables(d) : Config!LooksLikeTable(d, j)
  <2>1. \A j \in Config!Tables(d) : j \in Config!Code(d) /\ d[j].look \in {"header", "other"}
    BY DEF Config!Tables
  <2>2. \A j \in Config!Code(d) : ~Config!Within(d, j) /\ j \in 1..Len(d)
    BY Parity
  <2>. QED
    BY <2>1, <2>2, TableLooks
<1>4. \A j \in (s + 1)..(end - 1) : j \notin Config!Tables(d)
  BY <1>2, <1>3
<1>5. ASSUME NEW i \in (s + 1)..end PROVE Config!TableOf(d, i) = s
  <2>1. i \in Nat /\ s < i
    BY <1>1, <1>2
  <2>2. \A g \in Config!Tables(d) : g < i => g <= s
    BY <1>1, <1>2, <1>4
  <2>. QED
    BY <2>1, <2>2, TableAbove DEF TableIs
<1>6. ~Config!Within(d, Len(d) + 1) => ~Config!Within(d, end)
  <2>1. end <= Len(d) => end \in 1..Len(d)
    BY <1>1, <1>2
  <2>2. end <= Len(d) => ~Config!Within(d, end)
    BY <1>2, <2>1, TableLooks
  <2>. QED
    BY <1>1, <1>2, <2>2
<1>. QED
  BY <1>1, <1>2, <1>4, <1>5, <1>6 DEF end

(* What one field's step is to do: that field says v, or nothing, and all  *)
(* else stays.                                                             *)
Patched(d, r, s, n, f, v) ==
  /\ r \in Docs /\ ~Config!Within(r, Len(r) + 1) /\ s \in Config!Header(r, n)
  /\ Named(r) = Named(d) /\ Config!Notes(r) = Config!Notes(d)
  /\ \A n2, f2 : n2 # n \/ f2 # f => Says(r, n2, f2) = Says(d, n2, f2) /\ (Once(d, n2, f2) => Once(r, n2, f2))
  /\ v # Config!Null => <<v>> \in Says(r, n, f)
  /\ v = Config!Null => Says(r, n, f) = {}

(* A value of one line.                                                    *)
LEMMA PlainValue ==
  ASSUME NEW d \in Docs, NEW i \in 1..Len(d), ~d[i].quote
  PROVE  Config!Value(d, i) = <<d[i].value>>
<1>1. i \in Nat
  BY LineOf
<1>2. Ends(d, i, i)
  BY DEF Ends
<1>3. ValueTo(d, i, i) = <<d[i].value>>
  <2>1. i - i + 1 = 1 /\ i + 1 - 1 = i
    BY <1>1
  <2>2. ValueTo(d, i, i) = [k \in 1..1 |-> d[i].value]
    <3>1. \A k \in 1..1 : i + k - 1 = i
      BY <1>1
    <3>. QED
      BY <2>1, <3>1 DEF ValueTo
  <2>. QED
    BY <2>2
<1>. QED
  BY <1>2, <1>3, ValueEnds

(* The field is added at the end of the block.                             *)
LEMMA FieldAdded ==
  ASSUME NEW d \in Docs, ~Config!Within(d, Len(d) + 1), NEW n, NEW s \in Config!Header(d, n),
         NEW f \in Words, NEW v \in Nat, v # Config!Null
  PROVE  Patched(d, Config!InsertAt(d, Config!BlockEnd(d, s), Config!Line("assign", f, v)), s, n, f, v)
<1> DEFINE end == Config!BlockEnd(d, s)
           l == Config!Line("assign", f, v)
           r == Config!InsertAt(d, end, l)
           p == end - 1
<1>1. l \in PlainLines /\ l.look = "assign" /\ l.of = f /\ l.value = v /\ l.quote = FALSE
  BY DEF Config!Line, PlainLines, Config!Lines, Config!Looks
<1>2. s \in Config!Tables(d) /\ d[s].look = "header" /\ d[s].of = n
  BY DEF Config!Header
<1>3. /\ s \in 1..Len(d) /\ end \in (s + 1)..(Len(d) + 1) /\ Len(d) \in Nat
      /\ \A j \in (s + 1)..(end - 1) : j \notin Config!Tables(d)
      /\ ~Config!Within(d, end)
  BY <1>2, InBlock, LineOf
<1> HIDE DEF end, l
<1>4. end \in 1..(Len(d) + 1) /\ end \in Nat /\ p \in 0..Len(d) /\ p + 1 = end
  BY <1>3
<1>5. /\ r \in Docs /\ Len(r) = Len(d) + 1 /\ r[end] = l
      /\ \A i \in 1..(end - 1) : r[i] = d[i]
      /\ \A i \in end..Len(d) : r[i + 1] = d[i]
  BY <1>1, <1>4, InsertLine
<1> HIDE DEF r
<1>6. \A i \in 1..end : Config!Within(r, i) <=> Config!Within(d, i)
  <2>1. end <= Len(r) + 1 /\ \A i \in 1..(end - 1) : r[i] = d[i]
    BY <1>3, <1>4, <1>5
  <2>. QED
    BY <1>4, <1>5, <2>1, PrefixInside
<1>7. ~Config!Within(r, end) /\ ~Config!Within(r, end + 1)
  <2>1. ~Config!Within(r, end)
    BY <1>3, <1>4, <1>6
  <2>2. end \in 1..Len(r) /\ r[end].quote = FALSE
    BY <1>1, <1>3, <1>4, <1>5
  <2>3. Config!Within(r, end + 1) <=> Config!Within(r, end) # r[end].quote
    BY <1>5, <2>2, Parity
  <2>4. Config!Within(r, end) \in BOOLEAN /\ Config!Within(r, end + 1) \in BOOLEAN
    BY DEF Config!Within
  <2>. QED
    BY <2>1, <2>2, <2>3, <2>4
<1>8. Splice(d, r, p, 1)
  <2>1. \A i \in (p + 1)..Len(d) : r[i + 1] = d[i]
    BY <1>4, <1>5
  <2>. QED
    BY <1>4, <1>5, <1>7, <2>1 DEF Splice
<1>9. \A j \in (p + 1)..(p + 1) : j = end
  BY <1>4
<1>10. end \in Config!Code(r) /\ end \notin Config!Tables(r) /\ end \in Config!Keys(r)
  <2>1. end \in Config!Code(r)
    BY <1>3, <1>4, <1>5, <1>7, Parity
  <2>. QED
    BY <1>1, <1>5, <2>1 DEF Config!Tables, Config!Keys
<1>11. Clean(d, r, p, 1)
  BY <1>9, <1>10 DEF Clean
<1>12. s \in Config!Header(r, n) /\ Moved(p, 1, s) = s
  <2>1. Moved(p, 1, s) = s
    BY <1>3, <1>4 DEF Moved
  <2>2. s \in Config!Tables(r) /\ r[s] = d[s]
    BY <1>2, <1>3, <1>5, <1>8, <2>1, SpliceLines
  <2>. QED
    BY <1>2, <2>1, <2>2 DEF Config!Header
<1>13. Config!TableOf(r, end) = s
  <2>1. s \in Config!Tables(r) /\ s < end /\ end \in Nat
    BY <1>3, <1>12 DEF Config!Header
  <2>2. ASSUME NEW g \in Config!Tables(r), g < end PROVE g <= s
    <3>1. Config!Tables(r) \subseteq 1..Len(r)
      BY <1>5, TableAbove
    <3>2. g \in 1..Len(d) /\ Moved(p, 1, g) = g
      BY <1>3, <1>4, <2>2, <3>1 DEF Moved
    <3>3. g \in Config!Tables(d)
      BY <1>5, <1>8, <3>2, SpliceLines
    <3>. QED
      BY <1>3, <2>2, <3>2, <3>3
  <2>. QED
    BY <1>5, <2>1, <2>2, TableAbove DEF TableIs
<1>14. ASSUME NEW n2, NEW f2, n2 # n \/ f2 # f
       PROVE  Says(r, n2, f2) = Says(d, n2, f2) /\ (Once(d, n2, f2) => Once(r, n2, f2))
  <2>1. end \notin Places(r, n2, f2)
    <3>1. r[s].of = n
      BY <1>12 DEF Config!Header
    <3>. QED
      BY <1>1, <1>5, <1>13, <1>14, <3>1 DEF Places, Config!Header
  <2>2. Unsaid(r, p, 1, n2, f2)
    BY <1>9, <2>1 DEF Unsaid
  <2>. QED
    BY <1>5, <1>8, <1>11, <2>2, SpliceSays
<1>15. <<v>> \in Says(r, n, f)
  <2>1. end \in Places(r, n, f)
    BY <1>1, <1>5, <1>10, <1>12, <1>13 DEF Places
  <2>2. Config!Value(r, end) = <<v>>
    <3>1. end \in 1..Len(r)
      BY <1>3, <1>4, <1>5
    <3>. QED
      BY <1>1, <1>5, <3>1, PlainValue
  <2>. QED
    BY <2>1, <2>2 DEF Says
<1>16. Named(r) = Named(d)
  <2>1. NamedBy(r, p, 1) = {}
    BY <1>1, <1>5, <1>9 DEF NamedBy
  <2>2. Named(r) = Named(d) \cup NamedBy(r, p, 1)
    BY <1>5, <1>8, SpliceNamed
  <2>. QED
    BY <2>1, <2>2
<1>17. Config!Notes(r) = Config!Notes(d)
  <2>1. \A j \in (p + 1)..(p + 1) : ~IsNote(r[j])
    BY <1>1, <1>5, <1>9 DEF IsNote
  <2>. QED
    BY <1>5, <1>8, <2>1, SpliceNotes
<1>18. ~Config!Within(r, Len(r) + 1)
  <2>1. Moved(p, 1, Len(d) + 1) = Len(r) + 1 /\ Len(d) + 1 \in 1..(Len(d) + 1)
    BY <1>3, <1>4, <1>5 DEF Moved
  <2>. QED
    BY <1>5, <1>8, <2>1, SpliceInside
<1>19. Patched(d, r, s, n, f, v)
  BY <1>5, <1>12, <1>14, <1>15, <1>16, <1>17, <1>18 DEF Patched
<1>. QED
  BY <1>19 DEF r, end, l

(* No text is the answer that stands for a refusal.                        *)
LEMMA NotRefused == ASSUME NEW d \in Docs PROVE d # Config!Refused
<1> SUFFICES ASSUME d = Config!Refused PROVE FALSE
  OBVIOUS
<1>1. Len(d) = 1 /\ d[1] = Config!Refusal
  BY DEF Config!Refused
<1>2. \A i \in 1..Len(d) : d[i].look \in Config!Looks
  BY LineOf
<1>3. Config!Refusal.look = "refused"
  BY DEF Config!Refusal, Config!Line
<1>4. "refused" \notin Config!Looks
  BY DEF Config!Looks
<1>5. 1 \in 1..1
  OBVIOUS
<1>. QED
  BY <1>1, <1>2, <1>3, <1>4, <1>5

(* The field is found in the block and changed, or made a blank line.      *)
LEMMA FieldChanged ==
  ASSUME NEW d \in Docs, ~Config!Within(d, Len(d) + 1), NEW n, NEW s \in Config!Header(d, n),
         NEW f \in Words, NEW v \in Nat, Once(d, n, f),
         NEW i \in (s + 1)..(Config!BlockEnd(d, s) - 1),
         ~Config!Within(d, i), d[i].look = "assign", d[i].of = f, ~d[i].quote
  PROVE  Patched(d, [d EXCEPT ![i] = Config!PatchLine(d[i], v)], s, n, f, v)
<1> DEFINE l == Config!PatchLine(d[i], v)
           r == [d EXCEPT ![i] = l]
<1>1. s \in Config!Tables(d) /\ d[s].look = "header" /\ d[s].of = n
  BY DEF Config!Header
<1>2. /\ s \in 1..Len(d) /\ i \in 1..Len(d) /\ s < i /\ Len(d) \in Nat /\ Config!TableOf(d, i) = s
      /\ i \in Nat
  <2> DEFINE end == Config!BlockEnd(d, s)
  <2>1. /\ s \in 1..Len(d) /\ end \in (s + 1)..(Len(d) + 1) /\ Len(d) \in Nat
        /\ \A k \in (s + 1)..end : Config!TableOf(d, k) = s
    BY <1>1, InBlock, LineOf
  <2>2. i \in (s + 1)..(end - 1)
    OBVIOUS
  <2> HIDE DEF end
  <2>. QED
    BY <2>1, <2>2
<1>3. /\ l \in PlainLines /\ l.quote = FALSE
      /\ v = Config!Null => l.look = "text" /\ l.value = Config!Null
      /\ v # Config!Null => l.look = "assign" /\ l.of = f /\ l.value = v
  <2>1. d[i] \in PlainLines /\ d[i].quote = FALSE /\ ~d[i].fourth
    BY <1>2, LineOf
  <2>2. CASE v = Config!Null
    <3>1. l = Config!Line("text", "", Config!Null)
      BY <2>1, <2>2 DEF Config!PatchLine
    <3>2. LET b == Config!Line("text", "", Config!Null)
          IN b.look = "text" /\ b.value = Config!Null /\ b.quote = FALSE
      BY DEF Config!Line
    <3>3. Config!Line("text", "", Config!Null) \in PlainLines
      BY ConfigAssumption DEF Config!Line, PlainLines, Config!Lines, Config!Looks, Config!Null
    <3> HIDE DEF l
    <3>. QED
      BY <2>2, <3>1, <3>2, <3>3
  <2>3. CASE v # Config!Null
    <3>1. l = [d[i] EXCEPT !.value = v]
      BY <2>1, <2>3 DEF Config!PatchLine
    <3>2. d[i] \in PlainLines
      BY <2>1
    <3>3. l \in PlainLines
      BY <3>1, <3>2 DEF PlainLines, Config!Lines
    <3>4. l.quote = d[i].quote /\ l.look = d[i].look /\ l.of = d[i].of /\ l.value = v
      BY <3>1, <3>2 DEF PlainLines, Config!Lines
    <3>. QED
      BY <2>1, <2>3, <3>3, <3>4
  <2>. QED
    BY <2>2, <2>3
<1> HIDE DEF l
<1>4. /\ r \in Docs /\ Len(r) = Len(d) /\ r[i] = l
      /\ \A k \in 1..Len(d) : k # i => r[k] = d[k]
  <2> DEFINE L == PlainLines
  <2>1. d \in Seq(L) /\ l \in L
    BY <1>3 DEF Docs
  <2> HIDE DEF L
  <2>2. r \in Seq(L) /\ Len(r) = Len(d) /\ r[i] = l /\ \A k \in 1..Len(d) : k # i => r[k] = d[k]
    BY <1>2, <2>1
  <2>. QED
    BY <2>2 DEF Docs, L
<1> HIDE DEF r
<1>5. i \in Config!Keys(d)
  BY <1>2, Parity DEF Config!Keys
<1>6. Swap(d, r, i)
  <2>1. l.look \in {"assign", "text"} /\ (l.look = "assign" => d[i].look = "assign" /\ l.of = d[i].of)
    BY <1>3
  <2>. QED
    BY <1>3, <1>4, <1>5, <2>1 DEF Swap
<1>7. i \in Places(d, n, f)
  BY <1>2, <1>5 DEF Places
<1>8. s \in Config!Header(r, n) /\ Named(r) = Named(d)
  BY <1>4, <1>6, SwapLines
<1>9. Config!Notes(r) = Config!Notes(d)
  <2>1. ~IsNote(r[i])
    BY <1>3, <1>4 DEF IsNote
  <2>. QED
    BY <1>4, <1>6, <2>1, SwapNotes
<1>10. ~Config!Within(r, Len(r) + 1)
  <2>1. Len(d) + 1 \in 1..(Len(d) + 1)
    BY <1>2
  <2>. QED
    BY <1>4, <1>6, <2>1, SwapInside
<1>11. ASSUME NEW n2, NEW f2, n2 # n \/ f2 # f
       PROVE  Says(r, n2, f2) = Says(d, n2, f2) /\ (Once(d, n2, f2) => Once(r, n2, f2))
  <2>1. i \notin Places(d, n2, f2)
    BY <1>1, <1>2, <1>11 DEF Places, Config!Header
  <2>. QED
    BY <1>4, <1>6, <2>1, SwapSays
<1>12. Places(r, n, f) = IF r[i].look = "assign" THEN Places(d, n, f) ELSE Places(d, n, f) \ {i}
  BY <1>4, <1>6, SwapSays
<1>13. v # Config!Null => <<v>> \in Says(r, n, f)
  <2> SUFFICES ASSUME v # Config!Null PROVE <<v>> \in Says(r, n, f)
    OBVIOUS
  <2>1. i \in Places(r, n, f)
    BY <1>3, <1>4, <1>7, <1>12
  <2>2. i \in 1..Len(r) /\ ~r[i].quote /\ r[i].value = v
    BY <1>2, <1>3, <1>4
  <2>3. Config!Value(r, i) = <<r[i].value>>
    BY <1>4, <2>2, PlainValue
  <2>. QED
    BY <2>1, <2>2, <2>3 DEF Says
<1>14. v = Config!Null => Says(r, n, f) = {}
  <2> SUFFICES ASSUME v = Config!Null PROVE Says(r, n, f) = {}
    OBVIOUS
  <2>1. r[i].look # "assign"
    BY <1>3, <1>4
  <2>2. Places(r, n, f) = {}
    BY <1>7, <1>12, <2>1 DEF Once
  <2>. QED
    BY <2>2 DEF Says
<1>15. Patched(d, r, s, n, f, v)
  BY <1>4, <1>8, <1>9, <1>10, <1>11, <1>13, <1>14 DEF Patched
<1>. QED
  BY <1>15 DEF r, l

(* One field of a patch, when the text is not refused.                     *)
LEMMA FieldPatched ==
  ASSUME NEW d \in Docs, ~Config!Within(d, Len(d) + 1), NEW n, NEW s \in Config!Header(d, n),
         NEW f \in Words, NEW v \in Nat, NEW known, Once(d, n, f),
         f \notin known => Says(d, n, f) = {},
         Config!PatchField(d, s, f, v, known) # Config!Refused
  PROVE  Patched(d, Config!PatchField(d, s, f, v, known), s, n, f, v)
<1> DEFINE end == Config!BlockEnd(d, s)
           found == {i \in (s + 1)..(end - 1) : ~Config!Inside(d, i) /\ d[i].look = "assign" /\ d[i].of = f}
           at == CHOOSE j \in found : TRUE
           r == Config!PatchField(d, s, f, v, known)
<1>1. r = CASE found = {} /\ v = Config!Null -> IF f \in known THEN Config!Refused ELSE d
            [] found = {} /\ v # Config!Null -> Config!InsertAt(d, end, Config!Line("assign", f, v))
            [] found # {} -> IF Config!PatchLine(d[at], v) = Config!Refusal THEN Config!Refused
                             ELSE [d EXCEPT ![at] = Config!PatchLine(d[at], v)]
  BY DEF Config!PatchField
<1> HIDE DEF r
<1>2. CASE found = {} /\ v = Config!Null
  <2>1. r = d /\ f \notin known
    BY <1>1, <1>2 DEF r
  <2>2. Patched(d, d, s, n, f, v)
    BY <1>2, <2>1 DEF Patched
  <2>3. Patched(d, r, s, n, f, v)
    BY <2>1, <2>2
  <2>. QED
    BY <2>3 DEF r
<1>3. CASE found = {} /\ v # Config!Null
  <2>1. r = Config!InsertAt(d, end, Config!Line("assign", f, v))
    BY <1>1, <1>3
  <2>. QED
    BY <1>3, <2>1, FieldAdded DEF r
<1>4. CASE found # {}
  <2>1. at \in found
    BY <1>4
  <2> HIDE DEF at
  <2>2. Config!PatchLine(d[at], v) # Config!Refusal /\ r = [d EXCEPT ![at] = Config!PatchLine(d[at], v)]
    BY <1>1, <1>4 DEF r
  <2>3. ~d[at].quote
    BY <2>2 DEF Config!PatchLine
  <2>4. at \in (s + 1)..(Config!BlockEnd(d, s) - 1) /\ ~Config!Within(d, at)
        /\ d[at].look = "assign" /\ d[at].of = f
    <3>1. at \in (s + 1)..(end - 1) /\ ~Config!Inside(d, at) /\ d[at].look = "assign" /\ d[at].of = f
      BY <2>1
    <3>2. s \in Config!Tables(d)
      BY DEF Config!Header
    <3>3. /\ Len(d) \in Nat /\ s \in 1..Len(d) /\ end \in (s + 1)..(Len(d) + 1)
      BY <3>2, InBlock, LineOf
    <3> HIDE DEF end
    <3>4. at \in 1..(Len(d) + 1)
      BY <3>1, <3>3
    <3>5. ~Config!Within(d, at)
      BY <3>1, <3>4, Lexed
    <3>. QED
      BY <3>1, <3>5 DEF end
  <2>5. Patched(d, [d EXCEPT ![at] = Config!PatchLine(d[at], v)], s, n, f, v)
    BY <2>3, <2>4, FieldChanged
  <2>6. Patched(d, r, s, n, f, v)
    BY <2>2, <2>5
  <2>. QED
    BY <2>6 DEF r
<1>. QED
  BY <1>2, <1>3, <1>4

(* ---------------------------------------------------------------------- *)
(* patchBindingText: one binding                                           *)

(* In a text that is TOML a name has one table, a field one place.         *)
LEMMA ValidOnce ==
  ASSUME NEW d \in Docs, Config!Valid(d)
  PROVE  /\ ~Config!Within(d, Len(d) + 1)
         /\ \A i, j \in Config!Code(d) :
              d[i].look \in {"header", "inline"} /\ d[j].look \in {"header", "inline"} /\ d[i].of = d[j].of => i = j
         /\ \A n, f : Once(d, n, f)
<1>1. /\ Config!Cardinality({i \in DOMAIN d : d[i].quote}) % 2 = 0
      /\ \A i, j \in {k \in Config!Code(d) : d[k].look \in {"header", "inline"}} : d[i].of = d[j].of => i = j
      /\ \A i, j \in Config!Keys(d) : Config!TableOf(d, i) = Config!TableOf(d, j) /\ d[i].of = d[j].of => i = j
  BY DEF Config!Valid
<1>2. ~Config!Within(d, Len(d) + 1)
  BY <1>1, Parity DEF Config!Cardinality, Cardinality
<1>3. \A i, j \in Config!Code(d) :
        d[i].look \in {"header", "inline"} /\ d[j].look \in {"header", "inline"} /\ d[i].of = d[j].of => i = j
  BY <1>1
<1>4. ASSUME NEW n, NEW f PROVE Once(d, n, f)
  <2>1. \A g, h \in Config!Header(d, n) : g = h
    BY <1>3 DEF Config!Header, Config!Tables
  <2>. QED
    BY <1>1, <2>1 DEF Once, Places
<1>. QED
  BY <1>2, <1>3, <1>4

(* What TOML means is what the text says.                                  *)
Reads(d, parsed) ==
  /\ parsed = [n \in Named(d) |-> parsed[n]]
  /\ \A n \in Named(d) :
       /\ parsed[n] = [f \in DOMAIN parsed[n] |-> parsed[n][f]]
       /\ \A f : f \in DOMAIN parsed[n] <=> Says(d, n, f) # {}
       /\ \A f \in DOMAIN parsed[n] : Says(d, n, f) = {parsed[n][f]}
(* The parser reads what the text says.                                    *)
LEMMA ParseReads ==
  ASSUME NEW d \in Docs, Config!Valid(d)
  PROVE  Reads(d, Config!Parse(d))
<1> DEFINE mine(n) == {i \in Config!Keys(d) : Config!TableOf(d, i) \in Config!Header(d, n)}
           row(n) == [f \in {d[i].of : i \in mine(n)} |-> Config!Value(d, CHOOSE i \in mine(n) : d[i].of = f)]
<1>1. Config!Parse(d) = [n \in Named(d) |-> row(n)]
  BY DEF Config!Parse, Named
<1>2. ASSUME NEW n \in Named(d)
      PROVE  /\ \A f : f \in DOMAIN row(n) <=> Says(d, n, f) # {}
             /\ \A f \in DOMAIN row(n) : Says(d, n, f) = {row(n)[f]}
             /\ row(n) = [f \in DOMAIN row(n) |-> row(n)[f]]
  <2> DEFINE M == mine(n)
             R == row(n)
  <2>1. \A f : Places(d, n, f) = {i \in M : d[i].of = f}
    BY DEF Places
  <2>2. R = [f \in {d[i].of : i \in M} |-> Config!Value(d, CHOOSE i \in M : d[i].of = f)]
    OBVIOUS
  <2> HIDE DEF M, R
  <2>3. \A f : f \in DOMAIN R <=> \E i \in M : d[i].of = f
    BY <2>2
  <2>4. \A f : f \in DOMAIN R <=> Says(d, n, f) # {}
    BY <2>1, <2>3 DEF Says
  <2>5. ASSUME NEW f \in DOMAIN R PROVE Says(d, n, f) = {R[f]}
    <3> DEFINE at == CHOOSE i \in M : d[i].of = f
    <3>1. at \in M /\ d[at].of = f
      BY <2>3
    <3>2. R[f] = Config!Value(d, at)
      BY <2>2
    <3> HIDE DEF at
    <3>3. Places(d, n, f) = {at}
      BY <2>1, <3>1, ValidOnce DEF Once
    <3>. QED
      BY <3>2, <3>3 DEF Says
  <2>6. R = [f \in DOMAIN R |-> R[f]]
    BY <2>2
  <2>. QED
    BY <2>4, <2>5, <2>6 DEF R
<1> HIDE DEF row
<1>. QED
  BY <1>1, <1>2 DEF Reads

(* What a whole change of one binding is to do.                            *)
Gives(patch) == {f \in DOMAIN patch : patch[f] # Config!Null}
Meets(d, r, n, patch) ==
  /\ r \in Docs /\ Config!Notes(r) = Config!Notes(d)
  /\ Named(r) = Named(d) \cup (IF n \in Named(d) \/ Gives(patch) # {} THEN {n} ELSE {})
  /\ \A n2, f : n2 # n \/ f \notin DOMAIN patch => Says(r, n2, f) = Says(d, n2, f)
  /\ \A f \in Gives(patch) : <<patch[f]>> \in Says(r, n, f)
  /\ \A f \in DOMAIN patch : f \notin Gives(patch) => Says(r, n, f) = {}

(* A patch: values for some of the fields, or none for those to remove.    *)
IsPatch(patch) == DOMAIN patch \subseteq Config!Fields /\ \A f \in DOMAIN patch : patch[f] \in Nat

(* The two fields of a patch, one after the other, in the block of n.      *)
LEMMA BlockPatched ==
  ASSUME NEW d \in Docs, Config!Valid(d), NEW n \in Names, NEW patch, IsPatch(patch),
         Config!Blocks(d, n) # {}, Config!PatchBlock(d, n, patch) # Config!Refused
  PROVE  Meets(d, Config!PatchBlock(d, n, patch), n, patch)
<1> DEFINE s == CHOOSE i \in Config!Blocks(d, n) : TRUE
           known == IF n \in DOMAIN Config!Parse(d) THEN DOMAIN Config!Parse(d)[n] ELSE {}
           Put(e, f) == IF e = Config!Refused \/ f \notin DOMAIN patch THEN e
                         ELSE Config!PatchField(e, s, f, patch[f], known)
           d1 == Put(d, "model")
           d2 == Put(d1, "effort")
<1>1. Config!PatchBlock(d, n, patch) = d2
  BY DEF Config!PatchBlock
<1>2. s \in Config!Header(d, n)
  <2>1. s \in Config!Blocks(d, n)
    OBVIOUS
  <2>2. s \in DOMAIN d /\ ~Config!Within(d, s) /\ d[s].look = "header" /\ d[s].of = n
    <3>1. s \in 1..Len(d) /\ Config!LooksLikeTable(d, s) /\ d[s].look = "header" /\ d[s].of = n /\ s \in DOMAIN d
      BY <2>1, LineOf DEF Config!Blocks
    <3>. QED
      BY <3>1, TableLooks
  <2>3. s \in Config!Code(d)
    BY <2>2, LineOf, Parity
  <2>. QED
    BY <2>2, <2>3 DEF Config!Header, Config!Tables
<1>3. n \in Named(d)
  BY <1>2 DEF Named, Config!Header, Config!Tables
<1>4. \A f : f \notin known => Says(d, n, f) = {}
  <2>1. DOMAIN Config!Parse(d) = Named(d)
    BY ParseReads DEF Reads
  <2>. QED
    BY <1>3, <2>1, ParseReads DEF Reads
<1>5. ~Config!Within(d, Len(d) + 1) /\ \A f : Once(d, n, f)
  BY ValidOnce
<1> HIDE DEF s, known
<1>6. "model" \in Words /\ "effort" \in Words /\ DOMAIN patch \subseteq {"model", "effort"}
      /\ \A f \in DOMAIN patch : patch[f] \in Nat
  BY ConfigAssumption DEF TP!Fields, Config!Fields, IsPatch
<1>7. d # Config!Refused
  BY NotRefused
<1>8. IF "model" \in DOMAIN patch THEN Patched(d, d1, s, n, "model", patch["model"]) ELSE d1 = d
  <2> SUFFICES ASSUME "model" \in DOMAIN patch PROVE Patched(d, d1, s, n, "model", patch["model"])
    OBVIOUS
  <2>1. d1 = Config!PatchField(d, s, "model", patch["model"], known)
    BY <1>7
  <2>2. d1 # Config!Refused
    BY <1>1
  <2> HIDE DEF d1
  <2>. QED
    BY <1>2, <1>4, <1>5, <1>6, <2>1, <2>2, FieldPatched
<1>9. d2 = IF d1 = Config!Refused \/ "effort" \notin DOMAIN patch THEN d1
           ELSE Config!PatchField(d1, s, "effort", patch["effort"], known)
  OBVIOUS
<1>10. d2 # Config!Refused
  BY <1>1
<1> HIDE DEF d1, d2
<1>11. /\ d1 \in Docs /\ ~Config!Within(d1, Len(d1) + 1) /\ s \in Config!Header(d1, n)
       /\ Named(d1) = Named(d) /\ Config!Notes(d1) = Config!Notes(d)
       /\ Once(d1, n, "effort")
       /\ \A n2, f : n2 # n \/ f # "model" => Says(d1, n2, f) = Says(d, n2, f)
  BY <1>2, <1>5, <1>8 DEF Patched
<1>12. IF "effort" \in DOMAIN patch THEN Patched(d1, d2, s, n, "effort", patch["effort"]) ELSE d2 = d1
  <2>1. CASE "effort" \notin DOMAIN patch
    BY <1>9, <2>1
  <2>2. CASE "effort" \in DOMAIN patch
    <3>1. d2 = Config!PatchField(d1, s, "effort", patch["effort"], known)
      BY <1>9, <1>11, <2>2, NotRefused
    <3>2. "effort" \notin known => Says(d1, n, "effort") = {}
      BY <1>4, <1>11
    <3>. QED
      BY <1>6, <1>10, <1>11, <2>2, <3>1, <3>2, FieldPatched
  <2>. QED
    BY <2>1, <2>2
<1>13. /\ d2 \in Docs /\ Named(d2) = Named(d) /\ Config!Notes(d2) = Config!Notes(d)
       /\ \A n2, f : n2 # n \/ f # "effort" => Says(d2, n2, f) = Says(d1, n2, f)
  BY <1>11, <1>12 DEF Patched
<1>14. ASSUME NEW n2, NEW f, n2 # n \/ f \notin DOMAIN patch PROVE Says(d2, n2, f) = Says(d, n2, f)
  <2>1. Says(d1, n2, f) = Says(d, n2, f)
    BY <1>8, <1>11, <1>14
  <2>2. Says(d2, n2, f) = Says(d1, n2, f)
    BY <1>12, <1>13, <1>14
  <2>. QED
    BY <2>1, <2>2
<1>15. ASSUME NEW f \in DOMAIN patch
       PROVE  IF patch[f] # Config!Null THEN <<patch[f]>> \in Says(d2, n, f) ELSE Says(d2, n, f) = {}
  <2>1. CASE f = "model"
    <3>1. IF patch[f] # Config!Null THEN <<patch[f]>> \in Says(d1, n, f) ELSE Says(d1, n, f) = {}
      BY <1>8, <2>1 DEF Patched
    <3>2. Says(d2, n, f) = Says(d1, n, f)
      BY <1>13, <2>1
    <3>. QED
      BY <3>1, <3>2
  <2>2. CASE f = "effort"
    BY <1>12, <2>2 DEF Patched
  <2>. QED
    BY <1>6, <2>1, <2>2
<1>16. Named(d2) = Named(d) \cup (IF n \in Named(d) \/ Gives(patch) # {} THEN {n} ELSE {})
  BY <1>3, <1>13
<1>17. Meets(d, d2, n, patch)
  BY <1>13, <1>14, <1>15, <1>16 DEF Meets, Gives
<1>. QED
  BY <1>1, <1>17

(* ---------------------------------------------------------------------- *)
(* A table appended, a table removed                                       *)

(* The fields that a patch gives a value, in the order they are written.   *)
LEMMA GivenFields ==
  ASSUME NEW patch, IsPatch(patch)
  PROVE  LET g == Config!Given(patch)
         IN /\ g \in Seq(Words) /\ (g = <<>> <=> Gives(patch) = {}) /\ (Len(g) = 0 => g = <<>>)
            /\ \A k \in 1..Len(g) : g[k] \in Gives(patch)
            /\ \A f \in Gives(patch) : \E k \in 1..Len(g) : g[k] = f
<1> DEFINE a == IF "model" \in Gives(patch) THEN <<"model">> ELSE <<>>
           b == IF "effort" \in Gives(patch) THEN <<"effort">> ELSE <<>>
           g == a \o b
<1>1. Config!Given(patch) = g
  BY DEF Config!Given, Gives
<1>2. Gives(patch) \subseteq {"model", "effort"} /\ "model" \in Words /\ "effort" \in Words
  BY ConfigAssumption DEF IsPatch, Gives, Config!Fields, TP!Fields
<1>3. /\ g \in Seq(Words) /\ (g = <<>> <=> Gives(patch) = {}) /\ (Len(g) = 0 => g = <<>>)
      /\ \A k \in 1..Len(g) : g[k] \in Gives(patch)
      /\ \A f \in Gives(patch) : \E k \in 1..Len(g) : g[k] = f
  <2>1. CASE "model" \in Gives(patch) /\ "effort" \in Gives(patch)
    <3>1. /\ a \in Seq(Words) /\ Len(a) = 1 /\ a[1] = "model"
          /\ b \in Seq(Words) /\ Len(b) = 1 /\ b[1] = "effort"
      BY <1>2, <2>1
    <3> HIDE DEF a, b
    <3>5. /\ g \in Seq(Words) /\ Len(g) = Len(a) + Len(b)
          /\ \A i \in 1..Len(a) : g[i] = a[i]
          /\ \A i \in 1..Len(b) : g[Len(a) + i] = b[i]
      <4>1. a \in Seq(Words) /\ b \in Seq(Words)
        BY <3>1
      <4>. QED
        BY <4>1
    <3> HIDE DEF g
    <3>2. Len(g) = 2 /\ g[1] = "model" /\ g[2] = "effort" /\ g \in Seq(Words)
      BY <3>1, <3>5
    <3> HIDE DEF g
    <3>3. Len(<<>>) = 0
      OBVIOUS
    <3>4. g # <<>>
      BY <3>2, <3>3
    <3>. QED
      BY <1>2, <2>1, <3>2, <3>4
  <2>2. CASE "model" \in Gives(patch) /\ "effort" \notin Gives(patch)
    <3>1. g = <<"model">>
      BY <2>2
    <3> HIDE DEF g
    <3>2. Len(g) = 1 /\ g[1] = "model" /\ g \in Seq(Words) /\ g # <<>>
      BY <1>2, <3>1
    <3>. QED
      BY <1>2, <2>2, <3>2
  <2>3. CASE "model" \notin Gives(patch) /\ "effort" \in Gives(patch)
    <3>1. g = <<"effort">>
      BY <2>3
    <3> HIDE DEF g
    <3>2. Len(g) = 1 /\ g[1] = "effort" /\ g \in Seq(Words) /\ g # <<>>
      BY <1>2, <3>1
    <3>. QED
      BY <1>2, <2>3, <3>2
  <2>4. CASE "model" \notin Gives(patch) /\ "effort" \notin Gives(patch)
    <3>1. g = <<>>
      BY <2>4
    <3> HIDE DEF g
    <3>2. Len(g) = 0 /\ g \in Seq(Words)
      BY <3>1
    <3>3. Gives(patch) = {}
      BY <1>2, <2>4
    <3>. QED
      BY <3>1, <3>2, <3>3
  <2>. QED
    BY <2>1, <2>2, <2>3, <2>4
<1>. QED
  BY <1>1, <1>3

(* The table that is appended for a name that has none.                    *)
LEMMA Appended ==
  ASSUME NEW d \in Docs, NEW n \in Names, NEW patch, IsPatch(patch), Gives(patch) # {}
  PROVE  LET r == Config!AppendTable(d, n, patch)
             g == Config!Given(patch)
         IN /\ r \in Docs /\ Len(r) = Len(d) + (1 + Len(g))
            /\ \A i \in 1..Len(d) : r[i] = d[i]
            /\ r[Len(d) + 1] = Config!Line("header", n, Config!Null)
            /\ \A k \in 1..Len(g) : r[Len(d) + 1 + k] = Config!Line("assign", g[k], patch[g[k]])
<1> DEFINE L == PlainLines
           g == Config!Given(patch)
           h == Config!Line("header", n, Config!Null)
           a == Append(d, h)
           b == [k \in DOMAIN g |-> Config!Line("assign", g[k], patch[g[k]])]
           r == a \o b
<1>1. /\ g \in Seq(Words) /\ g # <<>> /\ Len(g) \in Nat
      /\ \A k \in 1..Len(g) : g[k] \in Gives(patch) /\ g[k] \in Words
  BY GivenFields
<1>2. Config!AppendTable(d, n, patch) = r
  BY <1>1 DEF Config!AppendTable
<1>3. h \in L
  BY ConfigAssumption DEF Config!Line, PlainLines, Config!Lines, Config!Looks, Config!Null
<1>4. \A k \in 1..Len(g) : Config!Line("assign", g[k], patch[g[k]]) \in L
  <2> SUFFICES ASSUME NEW k \in 1..Len(g) PROVE Config!Line("assign", g[k], patch[g[k]]) \in L
    OBVIOUS
  <2>1. g[k] \in Words /\ patch[g[k]] \in Nat
    BY <1>1 DEF IsPatch, Gives
  <2> HIDE DEF g
  <2>. QED
    BY <2>1 DEF Config!Line, PlainLines, Config!Lines, Config!Looks
<1>5. d \in Seq(L)
  BY DEF Docs
<1> HIDE DEF L, h, g
<1>6. a \in Seq(L) /\ Len(a) = Len(d) + 1 /\ a[Len(d) + 1] = h /\ \A i \in 1..Len(d) : a[i] = d[i]
  BY <1>3, <1>5
<1>7. DOMAIN g = 1..Len(g)
  BY <1>1
<1>8. b \in Seq(L) /\ Len(b) = Len(g) /\ \A k \in 1..Len(g) : b[k] = Config!Line("assign", g[k], patch[g[k]])
  BY <1>1, <1>4, <1>7
<1> HIDE DEF a, b
<1>9. /\ r \in Seq(L) /\ Len(r) = Len(a) + Len(b)
      /\ \A i \in 1..Len(a) : r[i] = a[i]
      /\ \A k \in 1..Len(b) : r[Len(a) + k] = b[k]
  <2>1. a \in Seq(L) /\ b \in Seq(L)
    BY <1>6, <1>8
  <2>. QED
    BY <2>1, Joined
<1> HIDE DEF r
<1>10. Len(d) \in Nat
  BY LineOf
<1>11. \A i \in 1..Len(d) : r[i] = d[i]
  BY <1>6, <1>9, <1>10
<1>12. r[Len(d) + 1] = h
  BY <1>6, <1>9, <1>10
<1>13. \A k \in 1..Len(g) : r[Len(d) + 1 + k] = Config!Line("assign", g[k], patch[g[k]])
  BY <1>6, <1>8, <1>9
<1>14. Len(r) = Len(d) + (1 + Len(g))
  BY <1>1, <1>6, <1>8, <1>9, <1>10
<1>. QED
  BY <1>2, <1>9, <1>11, <1>12, <1>13, <1>14 DEF Docs, L, h, g

(* A binding without a table gets one at the end.                          *)
LEMMA TableAppended ==
  ASSUME NEW d \in Docs, Config!Valid(d), NEW n \in Names, NEW patch, IsPatch(patch),
         Config!Blocks(d, n) = {}, n \notin Named(d)
  PROVE  Meets(d, Config!AppendTable(d, n, patch), n, patch)
<1> DEFINE g == Config!Given(patch)
           r == Config!AppendTable(d, n, patch)
           N == Len(d)
           m == 1 + Len(g)
<1>1. CASE Gives(patch) = {}
  <2>1. r = d
    BY <1>1, GivenFields DEF Config!AppendTable
  <2>2. Meets(d, d, n, patch)
    <3>1. \A f : Says(d, n, f) = {}
      <4>1. Config!Header(d, n) = {}
        BY DEF Config!Header, Config!Tables, Named
      <4>. QED
        BY <4>1 DEF Says, Places
    <3>. QED
      BY <1>1, <3>1 DEF Meets
  <2> HIDE DEF r
  <2>3. Meets(d, r, n, patch)
    BY <2>1, <2>2
  <2>. QED
    BY <2>3 DEF r
<1>2. CASE Gives(patch) # {}
  <2>1. /\ g \in Seq(Words) /\ Len(g) \in Nat
        /\ \A k \in 1..Len(g) : g[k] \in Gives(patch)
        /\ \A f \in Gives(patch) : \E k \in 1..Len(g) : g[k] = f
    BY GivenFields
  <2>2. /\ r \in Docs /\ Len(r) = N + m
        /\ \A i \in 1..N : r[i] = d[i]
        /\ r[N + 1] = Config!Line("header", n, Config!Null)
        /\ \A k \in 1..Len(g) : r[N + 1 + k] = Config!Line("assign", g[k], patch[g[k]])
    BY <1>2, Appended
  <2> HIDE DEF r, g
  <2>3. N \in Nat /\ m \in Nat /\ N + 1 \in 1..(N + m) /\ DOMAIN d = 1..N
    BY <2>1, LineOf
  <2> HIDE DEF N
  <2>4. r[N + 1].look = "header" /\ r[N + 1].of = n /\ r[N + 1].quote = FALSE
    BY <2>2 DEF Config!Line
  <2>5. ASSUME NEW j \in (N + 2)..(N + m)
        PROVE  LET k == j - N - 1
               IN /\ k \in 1..Len(g) /\ r[j].look = "assign" /\ r[j].of = g[k] /\ r[j].value = patch[g[k]]
                  /\ r[j].quote = FALSE
    <3>1. j - N - 1 \in 1..Len(g) /\ N + 1 + (j - N - 1) = j
      BY <2>1, <2>3
    <3>2. r[j] = Config!Line("assign", g[j - N - 1], patch[g[j - N - 1]])
      BY <2>2, <3>1
    <3>. QED
      BY <3>1, <3>2 DEF Config!Line
  <2>6. \A j \in (N + 1)..(N + m) : j = N + 1 \/ j \in (N + 2)..(N + m)
    BY <2>3
  <2>7. \A j \in (N + 1)..(N + m) : ~r[j].quote /\ ~IsNote(r[j])
    BY <2>4, <2>5, <2>6 DEF IsNote
  <2>8. \A i \in (N + 1)..(N + m + 1) : ~Config!Within(r, i)
    <3>1. ~Config!Within(d, N + 1)
      BY ValidOnce DEF N
    <3>2. N + 1 \in 1..(Len(d) + 1) /\ N + 1 <= Len(r) + 1 /\ \A i \in 1..((N + 1) - 1) : r[i] = d[i]
      BY <2>2, <2>3 DEF N
    <3>3. N + 1 \in 1..(N + 1)
      BY <2>3
    <3>4. ~Config!Within(r, N + 1)
      BY <2>2, <3>1, <3>2, <3>3, PrefixInside
    <3> DEFINE e == N + m + 1
    <3>5. N + 1 \in 1..(Len(r) + 1) /\ e \in (N + 1)..(Len(r) + 1) /\ \A i \in (N + 1)..(e - 1) : ~r[i].quote
      BY <2>2, <2>3, <2>7
    <3> HIDE DEF e
    <3>6. \A i \in (N + 1)..e : ~Config!Within(r, i)
      BY <2>2, <3>4, <3>5, PlainRun
    <3>. QED
      BY <3>6 DEF e
  <2>9. Splice(d, r, N, m)
    <3>1. ~Config!Within(r, N + 1) /\ ~Config!Within(r, N + m + 1)
      BY <2>3, <2>8
    <3>2. N = Len(d)
      BY DEF N
    <3> HIDE DEF m
    <3>. QED
      BY <2>2, <2>3, <3>1, <3>2 DEF Splice
  <2>10. Clean(d, r, N, m)
    BY DEF Clean, N
  <2>11. \A j \in (N + 1)..(N + m) : j \in Config!Code(r)
    <3>1. \A j \in (N + 1)..(N + m) : j \in 1..Len(r) /\ j \in (N + 1)..(N + m + 1)
      BY <2>2, <2>3
    <3>. QED
      BY <2>2, <2>8, <3>1, Parity
  <2>12. N + 1 \in Config!Header(r, n) /\ N + 1 \notin Config!Keys(r)
    BY <2>3, <2>4, <2>11 DEF Config!Header, Config!Tables, Config!Keys
  <2>13. ASSUME NEW j \in (N + 2)..(N + m) PROVE Config!TableOf(r, j) = N + 1 /\ j \in Config!Keys(r)
    <3>1. j \in Nat /\ N + 1 < j /\ N + 1 \in Config!Tables(r) /\ j \in (N + 1)..(N + m)
      BY <2>3, <2>12 DEF Config!Header
    <3>2. ASSUME NEW t \in Config!Tables(r), t < j PROVE t <= N + 1
      <4>1. Config!Tables(r) \subseteq 1..(N + m)
        BY <2>2, TableAbove
      <4>2. t \in (N + 2)..(N + m) => r[t].look = "assign"
        BY <2>5
      <4>3. r[t].look \in {"header", "other"}
        BY DEF Config!Tables
      <4>. QED
        BY <2>3, <3>1, <3>2, <4>1, <4>2, <4>3
    <3>3. Config!TableOf(r, j) = N + 1
      BY <2>2, <3>1, <3>2, TableAbove DEF TableIs
    <3>. QED
      BY <2>5, <2>11, <3>1, <3>3 DEF Config!Keys
  <2>14. ASSUME NEW n2, NEW f, n2 # n \/ f \notin Gives(patch) PROVE Says(r, n2, f) = Says(d, n2, f)
    <3>1. ASSUME NEW j \in (N + 1)..(N + m), j \in Places(r, n2, f) PROVE FALSE
      <4>1. j # N + 1 /\ Config!TableOf(r, j) \in Config!Header(r, n2) /\ r[j].of = f
        BY <2>12, <3>1 DEF Places
      <4>2. j \in (N + 2)..(N + m) /\ Config!TableOf(r, j) = N + 1
        BY <2>6, <2>13, <4>1
      <4>3. n2 = n
        BY <2>4, <4>1, <4>2 DEF Config!Header
      <4>4. f \in Gives(patch)
        BY <2>1, <2>5, <4>1, <4>2
      <4>. QED
        BY <2>14, <4>3, <4>4
    <3>2. Unsaid(r, N, m, n2, f)
      BY <3>1 DEF Unsaid
    <3>3. ~Config!Within(d, Len(d) + 1)
      BY ValidOnce
    <3> HIDE DEF m
    <3>. QED
      BY <2>2, <2>9, <2>10, <3>2, <3>3, SpliceSays
  <2>15. ASSUME NEW f \in Gives(patch) PROVE <<patch[f]>> \in Says(r, n, f)
    <3>1. PICK k \in 1..Len(g) : g[k] = f
      BY <2>1
    <3> DEFINE j == N + 1 + k
    <3>2. j \in (N + 2)..(N + m) /\ j \in 1..Len(r) /\ j - N - 1 = k
      BY <2>1, <2>2, <2>3
    <3>3. r[j].of = f /\ r[j].value = patch[f] /\ r[j].quote = FALSE
      BY <2>5, <3>1, <3>2
    <3>4. j \in Places(r, n, f)
      BY <2>12, <2>13, <3>2, <3>3 DEF Places
    <3> HIDE DEF j
    <3>5. Config!Value(r, j) = <<r[j].value>>
      BY <2>2, <3>2, <3>3, PlainValue
    <3>. QED
      BY <3>3, <3>4, <3>5 DEF Says
  <2>16. Named(r) = Named(d) \cup {n}
    <3>1. NamedBy(r, N, m) = {n}
      <4>1. N + 1 \in (N + 1)..(N + m)
        BY <2>3
      <4>2. \A j \in (N + 1)..(N + m) : r[j].look \in {"header", "inline"} => r[j].of = n
        BY <2>4, <2>5, <2>6
      <4>. QED
        BY <2>4, <2>11, <4>1, <4>2 DEF NamedBy
    <3> HIDE DEF m
    <3>. QED
      BY <2>2, <2>9, <3>1, SpliceNamed
  <2>17. Config!Notes(r) = Config!Notes(d)
    <3> HIDE DEF m
    <3>. QED
      BY <2>2, <2>7, <2>9, SpliceNotes
  <2>18. \A f : Says(d, n, f) = {}
    <3>1. Config!Header(d, n) = {}
      BY DEF Config!Header, Config!Tables, Named
    <3>. QED
      BY <3>1 DEF Says, Places
  <2>19. Meets(d, r, n, patch)
    <3>1. \A n2, f : n2 # n \/ f \notin DOMAIN patch => Says(r, n2, f) = Says(d, n2, f)
      BY <2>14 DEF Gives
    <3>2. \A f \in DOMAIN patch : f \notin Gives(patch) => Says(r, n, f) = {}
      BY <2>14, <2>18
    <3>. QED
      BY <1>2, <2>2, <2>15, <2>16, <2>17, <3>1, <3>2 DEF Meets
  <2>. QED
    BY <2>19 DEF r
<1>. QED
  BY <1>1, <1>2

(* A block cut out.                                                        *)
LEMMA CutLines ==
  ASSUME NEW d \in Docs, NEW s \in 1..Len(d), NEW end \in (s + 1)..(Len(d) + 1)
  PROVE  LET r == SubSeq(d, 1, s - 1) \o SubSeq(d, end, Len(d))
         IN /\ r \in Docs /\ Len(r) = (s - 1) + (Len(d) - end + 1)
            /\ \A i \in 1..(s - 1) : r[i] = d[i]
            /\ \A i \in s..Len(r) : r[i] = d[i + (end - s)]
<1> DEFINE L == PlainLines
           a == SubSeq(d, 1, s - 1)
           b == SubSeq(d, end, Len(d))
           r == a \o b
<1>1. d \in Seq(L) /\ Len(d) \in Nat
  BY DEF Docs
<1> HIDE DEF L
<1>2. a \in Seq(L) /\ Len(a) = s - 1 /\ \A i \in 1..(s - 1) : a[i] = d[i]
  BY <1>1
<1>3. b \in Seq(L) /\ Len(b) = Len(d) - end + 1 /\ \A i \in 1..(Len(d) - end + 1) : b[i] = d[end + i - 1]
  BY <1>1
<1> HIDE DEF a, b
<1>4. /\ r \in Seq(L) /\ Len(r) = Len(a) + Len(b)
      /\ \A i \in 1..Len(a) : r[i] = a[i]
      /\ \A i \in 1..Len(b) : r[Len(a) + i] = b[i]
  <2>1. a \in Seq(L) /\ b \in Seq(L)
    BY <1>2, <1>3
  <2>. QED
    BY <2>1, Joined
<1> HIDE DEF r
<1>5. \A i \in 1..(s - 1) : r[i] = d[i]
  BY <1>2, <1>4
<1>6. ASSUME NEW i \in s..Len(r) PROVE r[i] = d[i + (end - s)]
  <2>1. i - (s - 1) \in 1..Len(b) /\ Len(a) + (i - (s - 1)) = i /\ end + (i - (s - 1)) - 1 = i + (end - s)
        /\ i - (s - 1) \in 1..(Len(d) - end + 1)
    BY <1>1, <1>2, <1>3, <1>4
  <2>. QED
    BY <1>3, <1>4, <2>1
<1>7. Len(r) = (s - 1) + (Len(d) - end + 1)
  BY <1>2, <1>3, <1>4
<1>. QED
  BY <1>4, <1>5, <1>6, <1>7 DEF Docs, L, r, a, b

(* The table of n is gone, and nothing else.                               *)
Removes(d, r, n) ==
  /\ r \in Docs /\ Named(r) = Named(d) \ {n}
  /\ \A n2, f : n2 # n => Says(r, n2, f) = Says(d, n2, f)

(* Both texts are TOML, so no line of an array ends the block.             *)
LEMMA NotAnItem ==
  ASSUME NEW d \in Docs, NEW r \in Docs, Config!Valid(d), Config!Valid(r), NEW s \in Config!Code(d),
         d[s].look = "header", s \in Config!Code(r),
         \A i \in 1..(s - 1) : r[i] = d[i]
  PROVE  r[s].look # "item"
<1> DEFINE solid(e) == {i \in Config!Code(e) : e[i].look # "text"}
           Prev(e, i) == {j \in solid(e) : j < i /\ \A k \in solid(e) : k < i => k <= j}
           Next1(e, i) == {j \in solid(e) : j > i /\ \A k \in solid(e) : k > i => j <= k}
<1>1. \A i \in solid(r) : r[i].look \in {"item", "close"} => \E j \in Prev(r, i) : r[j].look \in {"open", "item"}
  BY DEF Config!Valid
<1>2. \A i \in solid(d) : d[i].look \in {"open", "item"} => \E j \in Next1(d, i) : d[j].look \in {"item", "close"}
  BY DEF Config!Valid
<1>3. /\ Len(d) \in Nat /\ Len(r) \in Nat /\ s \in 1..Len(d) /\ s \in 1..Len(r)
      /\ Config!Code(d) \subseteq 1..Len(d) /\ Config!Code(r) \subseteq 1..Len(r)
  BY LineOf, Parity
<1>4. \A i \in 1..(s - 1) : i \in solid(r) <=> i \in solid(d)
  <2>1. s \in 1..(Len(d) + 1) /\ s <= Len(r) + 1
    BY <1>3
  <2>2. \A i \in 1..s : Config!Within(r, i) <=> Config!Within(d, i)
    BY <2>1, PrefixInside
  <2>3. \A i \in 1..(s - 1) : i \in 1..s /\ i \in 1..Len(d) /\ i \in 1..Len(r)
    BY <1>3
  <2>4. \A i \in 1..(s - 1) : i \in Config!Code(r) <=> i \in Config!Code(d)
    BY <2>2, <2>3, Parity
  <2>. QED
    BY <2>4
<1>5. s \in solid(d)
  OBVIOUS
<1> SUFFICES ASSUME r[s].look = "item" PROVE FALSE
  OBVIOUS
<1>6. s \in solid(r)
  OBVIOUS
<1>7. PICK j \in Prev(r, s) : r[j].look \in {"open", "item"}
  BY <1>1, <1>6
<1>8. j \in solid(r) /\ j < s /\ \A k \in solid(r) : k < s => k <= j
  OBVIOUS
<1>9. j \in 1..(s - 1) /\ j \in solid(d) /\ d[j].look \in {"open", "item"}
  BY <1>3, <1>4, <1>7, <1>8
<1>10. PICK l \in Next1(d, j) : d[l].look \in {"item", "close"}
  BY <1>2, <1>9
<1>11. l \in solid(d) /\ l > j /\ l <= s
  BY <1>5, <1>8
<1>12. l # s
  BY <1>10
<1>13. l \in 1..(s - 1)
  BY <1>3, <1>11, <1>12
<1>14. l \in solid(r)
  BY <1>4, <1>11, <1>13
<1>. QED
  BY <1>3, <1>8, <1>9, <1>11, <1>13, <1>14

(* The table of a binding is cut out.                                      *)
LEMMA TableRemoved ==
  ASSUME NEW d \in Docs, Config!Valid(d), NEW n \in Names, n \in Named(d),
         Config!DeleteBinding(d, n) # Config!Refused, Config!Valid(Config!DeleteBinding(d, n))
  PROVE  Removes(d, Config!DeleteBinding(d, n), n)
<1> DEFINE s == CHOOSE i \in Config!Blocks(d, n) : TRUE
           end == Config!BlockEnd(d, s)
           r == SubSeq(d, 1, s - 1) \o SubSeq(d, end, Len(d))
           p == s - 1
           m == end - s
<1>1. DOMAIN Config!Parse(d) = Named(d)
  BY ParseReads DEF Reads
<1>2. Config!Blocks(d, n) # {} /\ Config!DeleteBinding(d, n) = r
  BY <1>1 DEF Config!DeleteBinding
<1>3. /\ s \in 1..Len(d) /\ Len(d) \in Nat /\ s \in Config!Code(d) /\ d[s].look = "header" /\ d[s].of = n
      /\ s \in Config!Tables(d)
  <2>1. s \in Config!Blocks(d, n)
    BY <1>2
  <2>2. s \in DOMAIN d /\ ~Config!Within(d, s) /\ d[s].look = "header" /\ d[s].of = n
    <3>1. s \in 1..Len(d) /\ Config!LooksLikeTable(d, s) /\ d[s].look = "header" /\ d[s].of = n /\ s \in DOMAIN d
      BY <2>1, LineOf DEF Config!Blocks
    <3>. QED
      BY <3>1, TableLooks
  <2>3. s \in Config!Code(d) /\ s \in 1..Len(d) /\ Len(d) \in Nat
    BY <2>2, LineOf, Parity
  <2>. QED
    BY <2>2, <2>3 DEF Config!Tables
<1> HIDE DEF s
<1>4. /\ end \in (s + 1)..(Len(d) + 1)
      /\ \A j \in (s + 1)..(end - 1) : j \notin Config!Tables(d)
      /\ \A i \in (s + 1)..end : Config!TableOf(d, i) = s
      /\ ~Config!Within(d, end)
  BY <1>3, InBlock, ValidOnce
<1>5. end <= Len(d) => d[end].look \in {"header", "other", "item"}
  <2>1. end \in (s + 1)..(Len(d) + 1) /\ (end <= Len(d) => Config!LooksLikeTable(d, end))
    BY <1>3, BlockEnds
  <2>2. end <= Len(d) => end \in 1..Len(d)
    BY <1>3, <2>1
  <2>. QED
    BY <2>1, <2>2, TableLooks
<1> HIDE DEF end
<1>6. /\ r \in Docs /\ Len(r) = (s - 1) + (Len(d) - end + 1)
      /\ \A i \in 1..(s - 1) : r[i] = d[i]
      /\ \A i \in s..Len(r) : r[i] = d[i + (end - s)]
  BY <1>3, <1>4, CutLines
<1>7. Config!Valid(r)
  BY <1>2
<1> HIDE DEF r
<1>8. p \in 0..Len(r) /\ m \in Nat /\ Len(d) = Len(r) + m /\ p + 1 = s /\ p + m + 1 = end /\ p + m = end - 1
  <2>1. /\ s \in Int /\ end \in Int /\ Len(d) \in Int /\ 1 <= s /\ s + 1 <= end /\ end <= Len(d) + 1
        /\ Len(r) = (s - 1) + (Len(d) - end + 1)
    BY <1>3, <1>4, <1>6
  <2>2. p \in Int /\ m \in Int /\ p = s - 1 /\ m = end - s
    BY <2>1
  <2> HIDE DEF p, m
  <2>. QED
    BY <2>1, <2>2
<1> HIDE DEF p, m
<1>9. Splice(r, d, p, m)
  <2>1. \A i \in 1..p : d[i] = r[i]
    BY <1>6 DEF p
  <2>2. \A i \in (p + 1)..Len(r) : d[i + m] = r[i]
    BY <1>3, <1>4, <1>6, <1>8 DEF m
  <2>3. ~Config!Within(d, p + 1) /\ ~Config!Within(d, p + m + 1)
    BY <1>3, <1>4, <1>8, Parity
  <2>. QED
    BY <1>8, <2>1, <2>2, <2>3 DEF Splice
<1>10. ~Config!Within(r, Len(r) + 1)
  BY <1>6, <1>7, ValidOnce
<1>11. Clean(r, d, p, m)
  <2>1. CASE p = Len(r)
    BY <2>1 DEF Clean
  <2>2. CASE p # Len(r)
    <3>1. s \in 1..Len(r) /\ Moved(p, m, s) = end /\ end \in 1..Len(d) /\ end <= Len(d)
      <4>1. /\ s \in Int /\ end \in Int /\ p \in Int /\ Len(r) \in Int /\ m \in Int /\ Len(d) \in Int
            /\ 1 <= s /\ s + 1 <= end /\ p <= Len(r)
        BY <1>3, <1>4, <1>6, <1>8
      <4>2. p + 1 = s /\ p + m + 1 = end /\ Len(d) = Len(r) + m
        BY <1>8
      <4>3. s <= Len(r) /\ ~(s <= p) /\ s + m = end /\ end <= Len(d)
        BY <2>2, <4>1, <4>2
      <4>. QED
        BY <4>1, <4>3 DEF Moved
    <3>2. end \in Config!Code(d)
      BY <1>4, <3>1, Parity
    <3>3. s \in Config!Code(r) /\ r[s] = d[end]
      BY <1>6, <1>9, <3>1, <3>2, SpliceLines
    <3>4. r[s].look # "item"
      BY <1>3, <1>6, <1>7, <3>3, NotAnItem
    <3>5. s \in Config!Tables(r)
      BY <1>5, <3>1, <3>3, <3>4 DEF Config!Tables
    <3>. QED
      BY <1>8, <3>5 DEF Clean
  <2>. QED
    BY <2>1, <2>2
<1>12. ASSUME NEW n2, NEW f, n2 # n PROVE Says(r, n2, f) = Says(d, n2, f)
  <2>1. ASSUME NEW j \in (p + 1)..(p + m), j \in Places(d, n2, f) PROVE FALSE
    <3>1. j \in Config!Keys(d) /\ Config!TableOf(d, j) \in Config!Header(d, n2)
      BY <2>1 DEF Places
    <3>2. j # s
      BY <1>3, <3>1 DEF Config!Keys
    <3>3. j \in (s + 1)..end
      BY <1>3, <1>4, <1>8, <3>2
    <3>4. Config!TableOf(d, j) = s
      BY <1>4, <3>3
    <3>. QED
      BY <1>3, <1>12, <3>1, <3>4 DEF Config!Header
  <2>2. Unsaid(d, p, m, n2, f)
    BY <2>1 DEF Unsaid
  <2>. QED
    BY <1>6, <1>9, <1>10, <1>11, <2>2, SpliceSays
<1>13. Named(r) = Named(d) \ {n}
  <2>1. NamedBy(d, p, m) = {n}
    <3>1. ASSUME NEW j \in (p + 1)..(p + m), j \in Config!Code(d), d[j].look \in {"header", "inline"}
          PROVE  d[j].of = n
      <4>1. CASE j = s
        BY <1>3, <4>1
      <4>2. CASE j # s
        <5>1. j \in (s + 1)..(end - 1) /\ j \in (s + 1)..end
          BY <1>3, <1>4, <1>8, <4>2
        <5>2. d[j].look # "header"
          BY <1>4, <3>1, <5>1 DEF Config!Tables
        <5>3. Config!TableOf(d, j) = s
          BY <1>4, <5>1
        <5>4. \A i \in {k \in Config!Code(d) : d[k].look \in {"header", "inline"}} :
                 d[i].look = "inline" => Config!TableOf(d, i) = 0
          BY DEF Config!Valid
        <5>. QED
          BY <1>3, <3>1, <5>2, <5>3, <5>4
      <4>. QED
        BY <4>1, <4>2
    <3>2. s \in (p + 1)..(p + m)
      BY <1>3, <1>4, <1>8
    <3>. QED
      BY <1>3, <3>1, <3>2 DEF NamedBy
  <2>2. n \notin Named(r)
    <3> SUFFICES ASSUME n \in Named(r) PROVE FALSE
      OBVIOUS
    <3>1. PICK i \in Config!Code(r) : r[i].look \in {"header", "inline"} /\ r[i].of = n
      BY DEF Named
    <3>2. i \in 1..Len(r)
      BY <1>6, Parity
    <3>3. /\ Moved(p, m, i) \in Config!Code(d) /\ d[Moved(p, m, i)] = r[i]
          /\ Moved(p, m, i) \notin (p + 1)..(p + m)
      BY <1>6, <1>9, <3>2, SpliceLines
    <3>4. Moved(p, m, i) # s
      BY <1>3, <1>4, <1>8, <3>3
    <3>. QED
      BY <1>3, <3>1, <3>3, <3>4, ValidOnce
  <2>3. Named(d) = Named(r) \cup NamedBy(d, p, m)
    BY <1>6, <1>9, SpliceNamed
  <2>. QED
    BY <2>1, <2>2, <2>3
<1>14. Removes(d, r, n)
  BY <1>6, <1>12, <1>13 DEF Removes
<1>. QED
  BY <1>2, <1>14

(* ---------------------------------------------------------------------- *)
(* One change, and the changes of a save                                   *)

(* Two readings that say the same of a name are the same there.            *)
LEMMA SameRow ==
  ASSUME NEW d, NEW r, NEW P, NEW Q, Reads(d, P), Reads(r, Q), NEW n, n \in Named(d), n \in Named(r),
         \A f : Says(r, n, f) = Says(d, n, f)
  PROVE  Q[n] = P[n]
<1> DEFINE a == P[n]
           b == Q[n]
<1>1. /\ a = [f \in DOMAIN a |-> a[f]] /\ b = [f \in DOMAIN b |-> b[f]]
      /\ \A f : f \in DOMAIN a <=> Says(d, n, f) # {}
      /\ \A f : f \in DOMAIN b <=> Says(r, n, f) # {}
      /\ \A f \in DOMAIN a : Says(d, n, f) = {a[f]}
      /\ \A f \in DOMAIN b : Says(r, n, f) = {b[f]}
  BY DEF Reads
<1> HIDE DEF a, b
<1>2. DOMAIN a = DOMAIN b
  BY <1>1
<1>3. \A f \in DOMAIN a : a[f] = b[f]
  BY <1>1
<1>4. a = b
  BY <1>1, <1>2, <1>3
<1>. QED
  BY <1>4 DEF a, b

(* A name without a table has no fields.                                   *)
LEMMA Unnamed ==
  ASSUME NEW d, NEW n \in Names, n \notin Named(d)
  PROVE  \A f : Says(d, n, f) = {}
<1>1. Config!Header(d, n) = {}
  BY DEF Config!Header, Config!Tables, Named
<1>. QED
  BY <1>1 DEF Says, Places

(* A patch that meets its task is what it means.                           *)
LEMMA PatchIsMeant ==
  ASSUME NEW d, NEW r, NEW P, NEW Q, Reads(d, P), Reads(r, Q), NEW c, c.name \in Names, ~c.delete,
         IsPatch(c.patch), Meets(d, r, c.name, c.patch)
  PROVE  Q = Config!Meant(P, c)
<1> DEFINE n == c.name
           patch == c.patch
           given == {f \in DOMAIN patch : patch[f] # Config!Null}
           old == IF n \in DOMAIN P THEN P[n] ELSE [f \in {} |-> Config!Null]
           keep == {f \in DOMAIN old : f \in DOMAIN patch => patch[f] # Config!Null}
           new == [f \in keep \cup given |-> IF f \in given THEN <<patch[f]>> ELSE old[f]]
           stays == n \in DOMAIN P \/ given # {}
           D == (DOMAIN P \ {n}) \cup (IF stays THEN {n} ELSE {})
<1>1. Config!Meant(P, c) = [m \in D |-> IF m = n THEN new ELSE P[m]]
  BY DEF Config!Meant
<1>2. DOMAIN P = Named(d) /\ DOMAIN Q = Named(r) /\ Q = [m \in Named(r) |-> Q[m]]
  BY DEF Reads
<1>3. given = Gives(patch)
  BY DEF Gives
<1>4. /\ Named(r) = Named(d) \cup (IF n \in Named(d) \/ Gives(patch) # {} THEN {n} ELSE {})
      /\ \A n2, f : n2 # n \/ f \notin DOMAIN patch => Says(r, n2, f) = Says(d, n2, f)
      /\ \A f \in Gives(patch) : <<patch[f]>> \in Says(r, n, f)
      /\ \A f \in DOMAIN patch : f \notin Gives(patch) => Says(r, n, f) = {}
  BY DEF Meets
<1>5. Named(r) = D
  BY <1>2, <1>3, <1>4
<1>6. ASSUME NEW m \in D, m # n PROVE Q[m] = P[m]
  <2>1. m \in Named(d) /\ m \in Named(r) /\ \A f : Says(r, m, f) = Says(d, m, f)
    BY <1>2, <1>4, <1>5, <1>6
  <2>. QED
    BY <2>1, SameRow
<1>7. ASSUME n \in D PROVE Q[n] = new
  <2>1. \A f : f \in DOMAIN old <=> Says(d, n, f) # {}
    BY <1>2, Unnamed DEF Reads
  <2>2. \A f \in DOMAIN old : Says(d, n, f) = {old[f]}
    BY <1>2 DEF Reads
  <2> DEFINE b == Q[n]
  <2>3. /\ b = [f \in DOMAIN b |-> b[f]]
        /\ \A f : f \in DOMAIN b <=> Says(r, n, f) # {}
        /\ \A f \in DOMAIN b : Says(r, n, f) = {b[f]}
    BY <1>5, <1>7 DEF Reads
  <2>9. /\ DOMAIN new = keep \cup given
        /\ \A f \in keep \cup given : new[f] = IF f \in given THEN <<patch[f]>> ELSE old[f]
    OBVIOUS
  <2>10. \A f : f \in keep <=> f \in DOMAIN old /\ (f \in DOMAIN patch => patch[f] # Config!Null)
    OBVIOUS
  <2>11. \A f : f \in given <=> f \in DOMAIN patch /\ patch[f] # Config!Null
    OBVIOUS
  <2>12. new = [f \in DOMAIN new |-> new[f]]
    OBVIOUS
  <2> HIDE DEF b, old, new, keep, given, patch
  <2>4. ASSUME NEW f PROVE f \in DOMAIN b <=> f \in keep \cup given
    <3>1. CASE f \in given
      BY <1>3, <1>4, <2>3, <3>1
    <3>2. CASE f \notin given /\ f \in DOMAIN patch
      BY <1>3, <1>4, <2>3, <2>10, <2>11, <3>2
    <3>3. CASE f \notin DOMAIN patch
      BY <1>4, <2>1, <2>3, <2>10, <2>11, <3>3
    <3>. QED
      BY <3>1, <3>2, <3>3
  <2>5. ASSUME NEW f \in DOMAIN b PROVE b[f] = new[f]
    <3>1. CASE f \in given
      BY <1>3, <1>4, <2>3, <2>9, <3>1
    <3>2. CASE f \notin given
      <4>1. f \in keep /\ f \in DOMAIN old /\ f \notin DOMAIN patch
        BY <2>4, <2>10, <2>11, <3>2
      <4>2. {b[f]} = {old[f]}
        BY <1>4, <2>2, <2>3, <4>1
      <4>. QED
        BY <2>9, <3>2, <4>1, <4>2
    <3>. QED
      BY <3>1, <3>2
  <2>6. DOMAIN b = DOMAIN new
    BY <2>4, <2>9
  <2>7. b = new
    BY <2>3, <2>5, <2>6, <2>12
  <2>. QED
    BY <2>7 DEF b
<1> HIDE DEF new
<1>. QED
  BY <1>1, <1>2, <1>5, <1>6, <1>7

(* A table that is removed is what deleting a binding means.               *)
LEMMA RemovalIsMeant ==
  ASSUME NEW d, NEW r, NEW P, NEW Q, Reads(d, P), Reads(r, Q), NEW c, c.delete, Removes(d, r, c.name)
  PROVE  Q = Config!Meant(P, c)
<1> DEFINE n == c.name
           D == DOMAIN P \ {n}
<1>1. Config!Meant(P, c) = [m \in D |-> P[m]]
  <2>1. \A new : [m \in (DOMAIN P \ {n}) \cup {} |-> IF m = n THEN new ELSE P[m]] = [m \in D |-> P[m]]
    OBVIOUS
  <2>. QED
    BY <2>1 DEF Config!Meant
<1>2. DOMAIN P = Named(d) /\ Q = [m \in Named(r) |-> Q[m]] /\ Named(r) = D
  BY DEF Reads, Removes
<1>3. ASSUME NEW m \in D PROVE Q[m] = P[m]
  <2>1. m \in Named(d) /\ m \in Named(r) /\ \A f : Says(r, m, f) = Says(d, m, f)
    BY <1>2, <1>3 DEF Removes
  <2>. QED
    BY <2>1, SameRow
<1>. QED
  BY <1>1, <1>2, <1>3

(* A change that is not refused and leaves TOML is what it means, and      *)
(* unless it deletes a table it keeps the comments.                        *)
LEMMA ChangeIsMeant ==
  ASSUME NEW d \in Docs, Config!Valid(d), NEW c, Config!IsChange(c),
         Config!Change(d, c) # Config!Refused, Config!Valid(Config!Change(d, c))
  PROVE  LET r == Config!Change(d, c)
         IN /\ r \in Docs /\ Config!Parse(r) = Config!Meant(Config!Parse(d), c)
            /\ ~c.delete => Config!Notes(r) = Config!Notes(d)
<1> DEFINE r == Config!Change(d, c)
           n == c.name
           P == Config!Parse(d)
<1>1. n \in Names /\ c.delete \in BOOLEAN /\ IsPatch(c.patch)
  BY DEF Config!IsChange, IsPatch
<1>2. Reads(d, P)
  BY ParseReads
<1>3. DOMAIN P = Named(d)
  BY <1>2 DEF Reads
<1>4. CASE ~c.delete
  <2>1. r = Config!PatchBinding(d, n, c.patch)
    BY <1>4 DEF Config!Change
  <2>2. Meets(d, r, n, c.patch)
    <3>1. CASE Config!Blocks(d, n) = {}
      <4>1. n \notin DOMAIN P /\ r = Config!AppendTable(d, n, c.patch)
        BY <2>1, <3>1 DEF Config!PatchBinding
      <4> HIDE DEF r, P
      <4>2. Meets(d, Config!AppendTable(d, n, c.patch), n, c.patch)
        BY <1>1, <1>3, <3>1, <4>1, TableAppended
      <4>. QED
        BY <4>1, <4>2
    <3>2. CASE Config!Blocks(d, n) # {}
      <4>1. r = Config!PatchBlock(d, n, c.patch) /\ r # Config!Refused
        BY <2>1, <3>2 DEF Config!PatchBinding
      <4> HIDE DEF r
      <4>2. Meets(d, Config!PatchBlock(d, n, c.patch), n, c.patch)
        BY <1>1, <3>2, <4>1, BlockPatched
      <4>. QED
        BY <4>1, <4>2
    <3>. QED
      BY <3>1, <3>2
  <2>3. r \in Docs /\ Config!Notes(r) = Config!Notes(d)
    BY <2>2 DEF Meets
  <2>4. Reads(r, Config!Parse(r))
    BY <2>3, ParseReads
  <2> HIDE DEF r, P
  <2>5. Config!Parse(r) = Config!Meant(P, c)
    BY <1>1, <1>2, <1>4, <2>2, <2>4, PatchIsMeant
  <2>. QED
    BY <2>3, <2>5 DEF r, P
<1>5. CASE c.delete
  <2>1. r = Config!DeleteBinding(d, n)
    BY <1>5 DEF Config!Change
  <2>2. Removes(d, r, n)
    <3>1. CASE n \notin Named(d)
      <4>1. r = d
        BY <1>3, <2>1, <3>1 DEF Config!DeleteBinding
      <4>2. Removes(d, d, n)
        BY <3>1 DEF Removes
      <4> HIDE DEF r
      <4>. QED
        BY <4>1, <4>2
    <3>2. CASE n \in Named(d)
      <4>1. Config!DeleteBinding(d, n) # Config!Refused /\ Config!Valid(Config!DeleteBinding(d, n))
        BY <2>1
      <4>2. Removes(d, Config!DeleteBinding(d, n), n)
        BY <1>1, <3>2, <4>1, TableRemoved
      <4> HIDE DEF r
      <4>. QED
        BY <2>1, <4>2
    <3>. QED
      BY <3>1, <3>2
  <2>3. r \in Docs
    BY <2>2 DEF Removes
  <2>4. Reads(r, Config!Parse(r))
    BY <2>3, ParseReads
  <2> HIDE DEF r, P
  <2>5. Config!Parse(r) = Config!Meant(P, c)
    BY <1>2, <1>5, <2>2, <2>4, RemovalIsMeant
  <2>. QED
    BY <1>5, <2>3, <2>5 DEF r, P
<1>. QED
  BY <1>1, <1>4, <1>5

(* The changes of a save are made one after the other, until one is        *)
(* refused or leaves a text that is not TOML.                              *)
OneMore(d, c) == IF d = Config!Refused \/ ~Config!Valid(d) THEN Config!Refused ELSE Config!Change(d, c)
Makes(f, d, list, n) == f[0] = d /\ \A k \in 1..n : f[k] = OneMore(f[k - 1], list[k])
(* Such a row of texts exists, and its last one is the outcome.            *)
LEMMA ChangesMade ==
  ASSUME NEW d, NEW list, Len(list) \in Nat, Config!ApplyChanges(d, list) # Config!Refused
  PROVE  \E f : /\ Makes(f, d, list, Len(list)) /\ Config!ApplyChanges(d, list) = f[Len(list)]
                /\ Config!Valid(f[Len(list)])
<1> DEFINE N == Len(list)
           Upto(n, f) == f = [k \in 0..n |-> IF k = 0 THEN d ELSE OneMore(f[k - 1], list[k])]
           T == {n \in Nat : \E f : Upto(n, f)}
<1>1. 0 \in T
  <2>1. Upto(0, [k \in 0..0 |-> d])
    OBVIOUS
  <2>. QED
    BY <2>1
<1>2. ASSUME NEW n \in T PROVE n + 1 \in T
  <2>0. n \in Nat /\ n + 1 \in Nat
    OBVIOUS
  <2>1. PICK f : Upto(n, f)
    OBVIOUS
  <2> DEFINE x == OneMore(f[n], list[n + 1])
             g == [k \in 0..(n + 1) |-> IF k = n + 1 THEN x ELSE f[k]]
  <2>2. \A k \in 0..n : f[k] = IF k = 0 THEN d ELSE OneMore(f[k - 1], list[k])
    BY <2>1
  <2> HIDE DEF x
  <2>3. \A k \in 0..(n + 1) : g[k] = IF k = n + 1 THEN x ELSE f[k]
    OBVIOUS
  <2>4. ASSUME NEW k \in 0..(n + 1) PROVE g[k] = IF k = 0 THEN d ELSE OneMore(g[k - 1], list[k])
    <3>1. CASE k = n + 1
      <4>1. k # 0 /\ k - 1 = n /\ k - 1 \in 0..(n + 1) /\ k - 1 # n + 1
        BY <2>0, <3>1
      <4>2. g[k] = x /\ g[k - 1] = f[n]
        BY <2>3, <3>1, <4>1
      <4>. QED
        BY <3>1, <4>1, <4>2 DEF x
    <3>2. CASE k = 0
      <4>1. k \in 0..n /\ k # n + 1
        BY <2>0, <3>2
      <4>. QED
        BY <2>2, <2>3, <3>2, <4>1
    <3>3. CASE k # 0 /\ k # n + 1
      <4>1. k \in 0..n /\ k - 1 \in 0..(n + 1) /\ k - 1 # n + 1
        BY <2>0, <3>3
      <4>2. g[k] = f[k] /\ g[k - 1] = f[k - 1]
        BY <2>3, <3>3, <4>1
      <4> HIDE DEF g
      <4>. QED
        BY <2>2, <3>3, <4>1, <4>2
    <3>. QED
      BY <3>1, <3>2, <3>3
  <2>5. g = [k \in 0..(n + 1) |-> g[k]]
    OBVIOUS
  <2> HIDE DEF g
  <2>6. Upto(n + 1, g)
    BY <2>4, <2>5
  <2>. QED
    BY <2>0, <2>6
<1>3. T = Nat
  <2>1. T \subseteq Nat
    OBVIOUS
  <2> HIDE DEF T
  <2>. QED
    BY <1>1, <1>2, <2>1, Induct
<1> DEFINE body(u) == [k \in 0..Len(list) |->
                         IF k = 0 THEN d
                         ELSE IF u[k - 1] = Config!Refused \/ ~Config!Valid(u[k - 1]) THEN Config!Refused
                         ELSE Config!Change(u[k - 1], list[k])]
           f == CHOOSE made : made = body(made)
<1>4. PICK u : u = body(u)
  <2>1. PICK u : Upto(N, u)
    BY <1>3
  <2>2. u = body(u)
    BY <2>1 DEF OneMore
  <2>. QED
    BY <2>2
<1>5. f = body(f)
  <2> HIDE DEF body
  <2>. QED
    BY <1>4
<1>6. Config!ApplyChanges(d, list) = IF f[N] # Config!Refused /\ Config!Valid(f[N]) THEN f[N] ELSE Config!Refused
  BY DEF Config!ApplyChanges
<1> HIDE DEF f
<1>7. \A k \in 0..N : f[k] = IF k = 0 THEN d ELSE OneMore(f[k - 1], list[k])
  BY <1>5 DEF OneMore
<1>8. 0 \in 0..N /\ \A k \in 1..N : k \in 0..N /\ k # 0
  OBVIOUS
<1> HIDE DEF N
<1>9. Makes(f, d, list, N)
  BY <1>7, <1>8 DEF Makes
<1>. QED
  BY <1>6, <1>9 DEF N

(* When the last text is no refusal, none before it is one.                *)
LEMMA NoneRefused ==
  ASSUME NEW d, NEW list, NEW N \in Nat, NEW f, Makes(f, d, list, N), f[N] # Config!Refused
  PROVE  \A k \in 1..N : /\ f[k] # Config!Refused /\ f[k - 1] # Config!Refused /\ Config!Valid(f[k - 1])
                         /\ f[k] = Config!Change(f[k - 1], list[k])
<1>1. \A k \in 1..N : f[k] = OneMore(f[k - 1], list[k])
  BY DEF Makes
<1> DEFINE T == {j \in Nat : j <= N => f[N - j] # Config!Refused}
<1>2. 0 \in T
  OBVIOUS
<1>3. ASSUME NEW j \in T PROVE j + 1 \in T
  <2>1. j \in Nat /\ j + 1 \in Nat
    OBVIOUS
  <2> SUFFICES ASSUME j + 1 <= N PROVE f[N - (j + 1)] # Config!Refused
    BY <2>1
  <2>2. j <= N /\ N - j \in 1..N /\ (N - j) - 1 = N - (j + 1)
    BY <2>1
  <2>3. f[N - j] # Config!Refused
    BY <2>2
  <2>. QED
    BY <1>1, <2>2, <2>3 DEF OneMore
<1>4. T = Nat
  <2>1. T \subseteq Nat
    OBVIOUS
  <2> HIDE DEF T
  <2>. QED
    BY <1>2, <1>3, <2>1, Induct
<1>5. ASSUME NEW k \in 1..N PROVE f[k] # Config!Refused
  <2>1. N - k \in Nat /\ N - k <= N /\ N - (N - k) = k
    OBVIOUS
  <2>2. N - k \in T
    BY <1>4, <2>1
  <2>. QED
    BY <2>1, <2>2
<1>6. ASSUME NEW k \in 1..N
      PROVE  f[k - 1] # Config!Refused /\ Config!Valid(f[k - 1]) /\ f[k] = Config!Change(f[k - 1], list[k])
  BY <1>1, <1>5, <1>6 DEF OneMore
<1>. QED
  BY <1>5, <1>6

(* A save of bindings that is not refused leaves TOML that means what the  *)
(* old text meant with just the asked changes, and keeps the comments      *)
(* unless a binding is deleted; for texts without four quotes in a row.    *)
IsList(list) == /\ Len(list) \in Nat /\ DOMAIN list = 1..Len(list)
                /\ \A k \in DOMAIN list : Config!IsChange(list[k])
Keeps(list) == \A k \in DOMAIN list : ~list[k].delete
Saved(before, list, after) == /\ Config!Valid(after) /\ Config!Exact(before, list, after)
                              /\ Keeps(list) => Config!Notes(after) = Config!Notes(before)
(* The outcome of a whole list of changes.                                 *)
THEOREM ListIsMeant ==
  ASSUME NEW d \in Docs, NEW list, IsList(list), Config!ApplyChanges(d, list) # Config!Refused
  PROVE  /\ Config!ApplyChanges(d, list) \in Docs
         /\ Saved(d, list, Config!ApplyChanges(d, list))
<1> DEFINE N == Len(list)
           r == Config!ApplyChanges(d, list)
<1>1. N \in Nat /\ DOMAIN list = 1..N /\ \A k \in 1..N : Config!IsChange(list[k])
  BY DEF IsList
<1>2. PICK f : Makes(f, d, list, N) /\ r = f[N] /\ Config!Valid(f[N])
  BY <1>1, ChangesMade
<1>3. f[0] = d /\ f[N] # Config!Refused
  BY <1>2 DEF Makes
<1> HIDE DEF r, N
<1>4. \A k \in 1..N : /\ f[k] # Config!Refused /\ f[k - 1] # Config!Refused /\ Config!Valid(f[k - 1])
                      /\ f[k] = Config!Change(f[k - 1], list[k])
  BY <1>1, <1>2, <1>3, NoneRefused
<1>5. \A k \in 1..N : Config!Valid(f[k])
  <2> SUFFICES ASSUME NEW k \in 1..N PROVE Config!Valid(f[k])
    OBVIOUS
  <2>1. k = N \/ (k + 1 \in 1..N /\ (k + 1) - 1 = k)
    BY <1>1
  <2>. QED
    BY <1>2, <1>4, <2>1
<1> DEFINE Good(n) == /\ f[n] \in Docs
                      /\ Keeps(list) => Config!Notes(f[n]) = Config!Notes(d)
           OneStep(n) == Config!Parse(f[n]) = Config!Meant(Config!Parse(f[n - 1]), list[n])
           T == {n \in Nat : n <= N => Good(n) /\ (n # 0 => OneStep(n))}
<1>6. 0 \in T
  BY <1>3
<1>7. ASSUME NEW n \in T PROVE n + 1 \in T
  <2>1. n \in Nat /\ n + 1 \in Nat /\ n + 1 # 0 /\ (n + 1) - 1 = n
    OBVIOUS
  <2> SUFFICES ASSUME n + 1 <= N PROVE Good(n + 1) /\ OneStep(n + 1)
    BY <2>1
  <2>2. n <= N /\ n + 1 \in 1..N
    BY <1>1, <2>1
  <2>3. Good(n)
    BY <2>2
  <2> DEFINE x == f[n]
             y == f[n + 1]
             c == list[n + 1]
  <2>4. /\ x \in Docs /\ Config!Valid(x) /\ Config!IsChange(c)
        /\ y = Config!Change(x, c) /\ y # Config!Refused /\ Config!Valid(y)
    BY <1>1, <1>4, <1>5, <2>1, <2>2, <2>3
  <2>5. Keeps(list) => ~c.delete
    BY <1>1, <2>2 DEF Keeps
  <2>6. Keeps(list) => Config!Notes(x) = Config!Notes(d)
    BY <2>3
  <2> HIDE DEF x, y, c
  <2>7. /\ y \in Docs /\ Config!Parse(y) = Config!Meant(Config!Parse(x), c)
        /\ ~c.delete => Config!Notes(y) = Config!Notes(x)
    BY <2>4, ChangeIsMeant
  <2>. QED
    BY <2>1, <2>5, <2>6, <2>7 DEF x, y, c
<1>8. T = Nat
  <2>1. T \subseteq Nat
    OBVIOUS
  <2> HIDE DEF T
  <2>. QED
    BY <1>6, <1>7, <2>1, Induct
<1>9. Good(N) /\ \A k \in 1..N : OneStep(k)
  <2>1. N \in T /\ \A k \in 1..N : k \in T /\ k <= N /\ k # 0
    BY <1>1, <1>8
  <2>. QED
    BY <1>1, <2>1
<1> HIDE DEF T
<1>10. Config!Exact(d, list, r)
  <2> DEFINE body(u) == [k \in 0..Len(list) |->
                           IF k = 0 THEN Config!Parse(d) ELSE Config!Meant(u[k - 1], list[k])]
             P == [k \in 0..N |-> Config!Parse(f[k])]
             g == CHOOSE meant : meant = body(meant)
  <2>1. P = body(P)
    <3>1. ASSUME NEW k \in 0..N PROVE P[k] = IF k = 0 THEN Config!Parse(d) ELSE Config!Meant(P[k - 1], list[k])
      <4>1. CASE k = 0
        BY <1>3, <4>1
      <4>2. CASE k # 0
        <5>1. k \in 1..N /\ k - 1 \in 0..N
          BY <1>1, <4>2
        <5>. QED
          BY <1>9, <4>2, <5>1
      <4>. QED
        BY <4>1, <4>2
    <3>2. P = [k \in 0..N |-> P[k]]
      OBVIOUS
    <3> HIDE DEF P
    <3>. QED
      BY <3>1, <3>2 DEF N
  <2>2. g = body(g)
    <3> HIDE DEF body, P
    <3>. QED
      BY <2>1
  <2>3. Config!Exact(d, list, r) <=> Config!Parse(r) = g[Len(list)]
    BY DEF Config!Exact
  <2> HIDE DEF g
  <2>4. g[0] = Config!Parse(d) /\ \A k \in 1..N : g[k] = Config!Meant(g[k - 1], list[k])
    <3>1. 0 \in 0..N /\ \A k \in 1..N : k \in 0..N /\ k # 0
      BY <1>1
    <3>2. \A k \in 0..N : g[k] = IF k = 0 THEN Config!Parse(d) ELSE Config!Meant(g[k - 1], list[k])
      BY <2>2 DEF N
    <3> HIDE DEF body
    <3>. QED
      BY <3>1, <3>2
  <2> HIDE DEF body, P
  <2> DEFINE S == {n \in Nat : n <= N => g[n] = Config!Parse(f[n])}
  <2>5. 0 \in S
    BY <1>3, <2>4
  <2>6. ASSUME NEW n \in S PROVE n + 1 \in S
    <3>1. n \in Nat /\ n + 1 \in Nat /\ (n + 1) - 1 = n
      OBVIOUS
    <3> SUFFICES ASSUME n + 1 <= N PROVE g[n + 1] = Config!Parse(f[n + 1])
      BY <3>1
    <3>2. n <= N /\ n + 1 \in 1..N
      BY <1>1, <3>1
    <3>3. g[n] = Config!Parse(f[n])
      BY <3>2
    <3>. QED
      BY <1>9, <2>4, <3>1, <3>2, <3>3
  <2>7. S = Nat
    <3>1. S \subseteq Nat
      OBVIOUS
    <3> HIDE DEF S
    <3>. QED
      BY <2>5, <2>6, <3>1, Induct
  <2>8. g[N] = Config!Parse(f[N])
    BY <1>1, <2>7
  <2>. QED
    BY <1>2, <2>3, <2>8 DEF N
<1>. QED
  BY <1>2, <1>9, <1>10 DEF Saved, r

(* ---------------------------------------------------------------------- *)
(* Any text, also one with four quotes in a row, stays a text              *)

(* The lines of a text.                                                    *)
LEMMA AnyLine ==
  ASSUME NEW d \in AllDocs
  PROVE  d \in Seq(Config!Lines) /\ Len(d) \in Nat /\ DOMAIN d = 1..Len(d) /\ \A i \in 1..Len(d) : d[i] \in Config!Lines
BY DEF AllDocs

(* A text without four quotes in a row.                                    *)
LEMMA PlainText == ASSUME NEW d \in AllDocs, Config!Plain(d) PROVE d \in Docs
<1>1. Len(d) \in Nat /\ DOMAIN d = 1..Len(d) /\ d = [i \in 1..Len(d) |-> d[i]]
  BY DEF AllDocs
<1>2. \A i \in 1..Len(d) : d[i] \in PlainLines
  BY <1>1, AnyLine DEF PlainLines, Config!Plain
<1>3. d \in [1..Len(d) -> PlainLines]
  BY <1>1, <1>2
<1>. QED
  BY <1>1, <1>3 DEF Docs

(* One field: the text gets no shorter.                                    *)
LEMMA FieldTyped ==
  ASSUME NEW d \in AllDocs, NEW s \in 1..Len(d), NEW f \in Words, NEW v \in Nat, NEW known,
         Config!PatchField(d, s, f, v, known) # Config!Refused
  PROVE  LET r == Config!PatchField(d, s, f, v, known) IN r \in AllDocs /\ Len(r) >= Len(d)
<1> DEFINE L == Config!Lines
           end == Config!BlockEnd(d, s)
           found == {i \in (s + 1)..(end - 1) : ~Config!Inside(d, i) /\ d[i].look = "assign" /\ d[i].of = f}
           at == CHOOSE j \in found : TRUE
           r == Config!PatchField(d, s, f, v, known)
<1>1. r = CASE found = {} /\ v = Config!Null -> IF f \in known THEN Config!Refused ELSE d
            [] found = {} /\ v # Config!Null -> Config!InsertAt(d, end, Config!Line("assign", f, v))
            [] found # {} -> IF Config!PatchLine(d[at], v) = Config!Refusal THEN Config!Refused
                             ELSE [d EXCEPT ![at] = Config!PatchLine(d[at], v)]
  BY DEF Config!PatchField
<1>2. d \in Seq(L) /\ Len(d) \in Nat /\ (\A i \in 1..Len(d) : d[i] \in L) /\ end \in (s + 1)..(Len(d) + 1)
  BY AnyLine, BlockEnds
<1>3. Config!Line("assign", f, v) \in L
  BY DEF Config!Line, Config!Lines, Config!Looks
<1>4. found \subseteq 1..Len(d)
  <2> HIDE DEF end
  <2>. QED
    BY <1>2
<1> HIDE DEF r, end
<1>5. CASE found = {} /\ v = Config!Null
  <2>1. r = d
    BY <1>1, <1>5 DEF r
  <2>. QED
    BY <1>2, <2>1 DEF r
<1>6. CASE found = {} /\ v # Config!Null
  <2>1. r = Config!InsertAt(d, end, Config!Line("assign", f, v))
    BY <1>1, <1>6
  <2>2. end \in 1..(Len(d) + 1)
    BY <1>2
  <2> DEFINE x == Config!Line("assign", f, v)
             a == SubSeq(d, 1, end - 1)
             b == SubSeq(d, end, Len(d))
  <2>3. x \in L
    BY <1>3
  <2> HIDE DEF x, L
  <2>4. a \in Seq(L) /\ b \in Seq(L) /\ <<x>> \in Seq(L) /\ Len(a) = end - 1 /\ Len(b) = Len(d) - end + 1 /\ Len(<<x>>) = 1
    BY <1>2, <2>2, <2>3
  <2>5. Config!InsertAt(d, end, x) = (a \o <<x>>) \o b
    BY DEF Config!InsertAt
  <2> HIDE DEF a, b
  <2>6. a \o <<x>> \in Seq(L) /\ Len(a \o <<x>>) = Len(a) + 1
    BY <2>4
  <2>7. (a \o <<x>>) \o b \in Seq(L) /\ Len((a \o <<x>>) \o b) = Len(a) + 1 + Len(b)
    BY <2>4, <2>6
  <2>8. Len(a) + 1 + Len(b) >= Len(d)
    BY <1>2, <2>2, <2>4
  <2>9. r = (a \o <<x>>) \o b
    BY <2>1, <2>5 DEF x
  <2>10. r \in Seq(L) /\ Len(r) >= Len(d)
    BY <2>7, <2>8, <2>9
  <2>. QED
    BY <2>10 DEF r, L, AllDocs
<1>7. CASE found # {}
  <2> DEFINE x == Config!PatchLine(d[at], v)
  <2>1. at \in found /\ at \in 1..Len(d)
    BY <1>4, <1>7
  <2> HIDE DEF at, found
  <2>2. x # Config!Refusal /\ r = [d EXCEPT ![at] = x]
    BY <1>1, <1>7 DEF r
  <2>3. d[at] \in L /\ ~d[at].quote /\ ~d[at].fourth
    BY <1>2, <2>1, <2>2 DEF Config!PatchLine
  <2>4. x \in L
    <3>1. Config!Line("text", "", Config!Null) \in L
      BY ConfigAssumption DEF Config!Line, Config!Lines, Config!Looks, Config!Null
    <3>2. [d[at] EXCEPT !.value = v] \in L
      BY <2>3 DEF Config!Lines
    <3>. QED
      BY <2>3, <3>1, <3>2 DEF Config!PatchLine
  <2> HIDE DEF x, L
  <2>5. [d EXCEPT ![at] = x] \in Seq(L) /\ Len([d EXCEPT ![at] = x]) = Len(d)
    BY <1>2, <2>1, <2>4
  <2>. QED
    BY <1>2, <2>2, <2>5 DEF r, L, AllDocs
<1>. QED
  BY <1>5, <1>6, <1>7

(* A table that is appended.                                               *)
LEMMA AppendTyped ==
  ASSUME NEW d \in AllDocs, NEW n \in Names, NEW patch, IsPatch(patch)
  PROVE  Config!AppendTable(d, n, patch) \in AllDocs
<1> DEFINE L == Config!Lines
           g == Config!Given(patch)
           h == Config!Line("header", n, Config!Null)
           b == [k \in DOMAIN g |-> Config!Line("assign", g[k], patch[g[k]])]
<1>1. g \in Seq(Words) /\ \A k \in 1..Len(g) : g[k] \in Gives(patch) /\ g[k] \in Words
  BY GivenFields
<1>2. Config!AppendTable(d, n, patch) = IF g = <<>> THEN d ELSE Append(d, h) \o b
  BY DEF Config!AppendTable
<1>3. h \in L
  BY ConfigAssumption DEF Config!Line, Config!Lines, Config!Looks, Config!Null
<1>4. \A k \in 1..Len(g) : Config!Line("assign", g[k], patch[g[k]]) \in L
  <2> SUFFICES ASSUME NEW k \in 1..Len(g) PROVE Config!Line("assign", g[k], patch[g[k]]) \in L
    OBVIOUS
  <2>1. g[k] \in Words /\ patch[g[k]] \in Nat
    BY <1>1 DEF IsPatch, Gives
  <2> HIDE DEF g
  <2>. QED
    BY <2>1 DEF Config!Line, Config!Lines, Config!Looks
<1>5. d \in Seq(L)
  BY DEF AllDocs
<1> HIDE DEF L, h, g
<1>6. DOMAIN g = 1..Len(g) /\ Len(g) \in Nat
  BY <1>1
<1>7. b \in Seq(L) /\ Append(d, h) \in Seq(L)
  BY <1>3, <1>4, <1>5, <1>6
<1> HIDE DEF b
<1>8. Append(d, h) \o b \in Seq(L)
  BY <1>7
<1>. QED
  BY <1>2, <1>5, <1>8 DEF AllDocs, L

(* One change.                                                             *)
LEMMA ChangeTyped ==
  ASSUME NEW d \in AllDocs, NEW c, Config!IsChange(c), Config!Change(d, c) # Config!Refused
  PROVE  Config!Change(d, c) \in AllDocs
<1> DEFINE n == c.name
           patch == c.patch
           r == Config!Change(d, c)
<1>1. n \in Names /\ c.delete \in BOOLEAN /\ IsPatch(patch)
  BY DEF Config!IsChange, IsPatch
<1> DEFINE s == CHOOSE i \in Config!Blocks(d, n) : TRUE
<1>2. Config!Blocks(d, n) # {} => s \in 1..Len(d)
  <2>1. Config!Blocks(d, n) \subseteq 1..Len(d)
    BY AnyLine DEF Config!Blocks
  <2>2. Config!Blocks(d, n) # {} => s \in Config!Blocks(d, n)
    OBVIOUS
  <2> HIDE DEF s
  <2>. QED
    BY <2>1, <2>2
<1>3. CASE c.delete
  <2>1. r = Config!DeleteBinding(d, n) /\ r # Config!Refused
    BY <1>3 DEF Config!Change
  <2> DEFINE a == SubSeq(d, 1, s - 1)
             b == SubSeq(d, Config!BlockEnd(d, s), Len(d))
  <2>2. r = d \/ (Config!Blocks(d, n) # {} /\ r = a \o b)
    BY <2>1 DEF Config!DeleteBinding
  <2> HIDE DEF r, s
  <2>3. ASSUME Config!Blocks(d, n) # {} PROVE a \o b \in AllDocs
    <3>1. /\ d \in Seq(Config!Lines) /\ Len(d) \in Nat /\ s \in 1..Len(d)
          /\ Config!BlockEnd(d, s) \in (s + 1)..(Len(d) + 1)
      BY <1>2, <2>3, AnyLine, BlockEnds
    <3> DEFINE L == Config!Lines
    <3>2. d \in Seq(L)
      BY <3>1
    <3> HIDE DEF L
    <3>3. a \in Seq(L) /\ b \in Seq(L)
      BY <3>1, <3>2
    <3> HIDE DEF a, b
    <3>4. a \o b \in Seq(L)
      BY <3>3
    <3>. QED
      BY <3>4 DEF L, AllDocs
  <2> HIDE DEF a, b
  <2>4. r \in AllDocs
    BY <2>2, <2>3
  <2>. QED
    BY <2>4 DEF r
<1>4. CASE ~c.delete
  <2>1. r = Config!PatchBinding(d, n, patch) /\ r # Config!Refused
    BY <1>4 DEF Config!Change
  <2>2. CASE Config!Blocks(d, n) = {}
    <3>1. r = Config!AppendTable(d, n, patch)
      BY <2>1, <2>2 DEF Config!PatchBinding
    <3>. QED
      BY <1>1, <3>1, AppendTyped
  <2>3. CASE Config!Blocks(d, n) # {}
    <3> DEFINE known == IF n \in DOMAIN Config!Parse(d) THEN DOMAIN Config!Parse(d)[n] ELSE {}
               Put(e, f) == IF e = Config!Refused \/ f \notin DOMAIN patch THEN e
                             ELSE Config!PatchField(e, s, f, patch[f], known)
               d1 == Put(d, "model")
               d2 == Put(d1, "effort")
    <3>1. r = d2
      BY <2>1, <2>3 DEF Config!PatchBinding, Config!PatchBlock
    <3>2. "model" \in Words /\ "effort" \in Words /\ \A f \in DOMAIN patch : patch[f] \in Nat
      BY <1>1, ConfigAssumption DEF TP!Fields, Config!Fields, IsPatch
    <3> HIDE DEF s, known, r, patch
    <3>3. ASSUME NEW e, NEW f \in Words, Put(e, f) # Config!Refused, e \in AllDocs, s \in 1..Len(e)
          PROVE  Put(e, f) \in AllDocs /\ s \in 1..Len(Put(e, f))
      <4>1. CASE Put(e, f) = e
        BY <3>3, <4>1
      <4>2. CASE Put(e, f) # e
        <5>1. f \in DOMAIN patch /\ Put(e, f) = Config!PatchField(e, s, f, patch[f], known)
          BY <4>2
        <5> HIDE DEF Put
        <5>2. Put(e, f) \in AllDocs /\ Len(Put(e, f)) >= Len(e)
          BY <3>2, <3>3, <5>1, FieldTyped
        <5>3. Len(e) \in Nat /\ Len(Put(e, f)) \in Nat
          BY <3>3, <5>2, AnyLine
        <5>. QED
          BY <3>3, <5>2, <5>3
      <4>. QED
        BY <4>1, <4>2
    <3>4. d2 # Config!Refused /\ (d1 = Config!Refused => d2 = d1)
      BY <2>1, <3>1
    <3>5. d1 # Config!Refused
      BY <3>4
    <3> HIDE DEF Put
    <3>6. d1 \in AllDocs /\ s \in 1..Len(d1)
      BY <1>2, <2>3, <3>2, <3>3, <3>5
    <3> HIDE DEF d1
    <3>7. d2 \in AllDocs
      BY <3>2, <3>3, <3>4, <3>6
    <3>. QED
      BY <3>1, <3>7 DEF r
  <2>. QED
    BY <2>2, <2>3
<1>. QED
  BY <1>1, <1>3, <1>4

(* A whole list of changes.                                                *)
LEMMA ListTyped ==
  ASSUME NEW d \in AllDocs, NEW list, IsList(list), Config!ApplyChanges(d, list) # Config!Refused
  PROVE  Config!ApplyChanges(d, list) \in AllDocs /\ Config!Valid(Config!ApplyChanges(d, list))
<1> DEFINE N == Len(list)
           r == Config!ApplyChanges(d, list)
<1>1. N \in Nat /\ DOMAIN list = 1..N /\ \A k \in 1..N : Config!IsChange(list[k])
  BY DEF IsList
<1>2. PICK f : Makes(f, d, list, N) /\ r = f[N] /\ Config!Valid(f[N])
  BY <1>1, ChangesMade
<1>3. f[0] = d /\ f[N] # Config!Refused
  BY <1>2 DEF Makes
<1> HIDE DEF r, N
<1>4. \A k \in 1..N : f[k] # Config!Refused /\ f[k] = Config!Change(f[k - 1], list[k])
  BY <1>1, <1>2, <1>3, NoneRefused
<1> DEFINE T == {n \in Nat : n <= N => f[n] \in AllDocs}
<1>5. 0 \in T
  BY <1>3
<1>6. ASSUME NEW n \in T PROVE n + 1 \in T
  <2>1. n \in Nat /\ (n + 1) - 1 = n
    OBVIOUS
  <2> SUFFICES ASSUME n + 1 <= N PROVE f[n + 1] \in AllDocs
    BY <2>1
  <2>2. f[n] \in AllDocs /\ n + 1 \in 1..N
    BY <1>1, <2>1
  <2>. QED
    BY <1>1, <1>4, <2>1, <2>2, ChangeTyped
<1>7. T \subseteq Nat
  OBVIOUS
<1> HIDE DEF T
<1>8. T = Nat
  BY <1>5, <1>6, <1>7, Induct
<1>9. f[N] \in AllDocs
  BY <1>1, <1>8 DEF T
<1>. QED
  BY <1>2, <1>9 DEF r

(* ---------------------------------------------------------------------- *)
(* The texts that saves leave, while callers and editors go on             *)

(* What a file may hold, and what a save knows of it: the version that it  *)
(* was made from and, before the file is replaced, what the changes make   *)
(* of that version.                                                        *)
IsText(t) == t \in AllDocs \cup {Config!Absent}
Knows(r) ==
  /\ IsText(r.base)
  /\ r.state \in {"queued", "written", "checked"} =>
       /\ r.op \in {"text", "bindings", "delete"}
       /\ r.op = "text" => r.arg \in Texts
       /\ r.op = "bindings" => r.arg \in Changes
  /\ r.state \in {"written", "checked"} =>
       /\ IsText(r.next)
       /\ r.op = "bindings" => /\ r.next = Config!ApplyChanges(Config!Content(r.base), r.arg)
                               /\ r.next # Config!Refused
Outcome(before, list, after) == /\ before \in AllDocs /\ Config!Valid(after)
                                /\ before \in Docs => Saved(before, list, after)
LastSaved == Outcome(last.before, last.changes, last.after)
TextsInv == SaveShape /\ IsText(file) /\ (\A c \in Callers : Knows(call[c])) /\ LastSaved

(* The text of a file that may not be there.                               *)
LEMMA ContentIsText == ASSUME NEW t, IsText(t) PROVE Config!Content(t) \in AllDocs
<1>1. Config!Empty \in AllDocs
  BY DEF AllDocs, Config!Empty
<1>. QED
  BY <1>1 DEF IsText, Config!Content

(* A text of an editor is a text.                                          *)
LEMMA TextsAreTexts == \A t \in Texts : IsText(t)
<1>1. TP!Lines = Config!Lines
  BY DEF TP!Lines, Config!Lines, TP!Looks, Config!Looks
<1>2. Texts \subseteq AllDocs
  BY <1>1, ConfigAssumption DEF AllDocs
<1>. QED
  BY <1>2 DEF IsText

(* What callers ask for is a list of changes.                              *)
LEMMA ChangesAreLists == \A list \in Changes : IsList(list)
<1>1. \A c : TP!IsChange(c) <=> Config!IsChange(c)
  BY DEF TP!IsChange, Config!IsChange, TP!Fields, Config!Fields
<1>. QED
  BY <1>1, ConfigAssumption DEF IsList

(* What a save of bindings makes of the version that it was made from.     *)
LEMMA BindingsSaved ==
  ASSUME NEW base, IsText(base), NEW list \in Changes,
         Config!ApplyChanges(Config!Content(base), list) # Config!Refused
  PROVE  LET next == Config!ApplyChanges(Config!Content(base), list)
         IN next \in AllDocs /\ Outcome(Config!Content(base), list, next)
<1>1. Config!Content(base) \in AllDocs /\ IsList(list)
  BY ContentIsText, ChangesAreLists
<1>. QED
  BY <1>1, ListIsMeant, ListTyped DEF Outcome

(* Nothing to do is done.                                                  *)
LEMMA NothingSaved == Outcome(Config!Empty, <<>>, Config!Empty)
<1>1. Len(<<>>) = 0 /\ <<>> \in AllDocs /\ DOMAIN <<>> = {}
  BY DEF AllDocs
<1>2. Config!Empty = <<>>
  BY DEF Config!Empty
<1>3. Config!Valid(<<>>)
  <2>1. Config!Code(<<>>) = {}
    BY <1>1 DEF Config!Code
  <2>2. {i \in DOMAIN <<>> : <<>>[i].quote} = {}
    BY <1>1
  <2>3. Cardinality({}) = 0 /\ Config!Cardinality({}) = Cardinality({})
    BY FS_EmptySet DEF Config!Cardinality, Cardinality
  <2>4. Config!Tables(<<>>) = {} /\ Config!Keys(<<>>) = {}
    BY <2>1 DEF Config!Tables, Config!Keys
  <2>5. 0 % 2 = 0
    OBVIOUS
  <2>. QED
    BY <2>1, <2>2, <2>3, <2>4, <2>5 DEF Config!Valid
<1>4. Config!Exact(<<>>, <<>>, <<>>)
  <2> DEFINE P == Config!Parse(<<>>)
             body(u) == [k \in 0..Len(<<>>) |-> IF k = 0 THEN P ELSE Config!Meant(u[k - 1], <<>>[k])]
             g == CHOOSE meant : meant = body(meant)
             z == [k \in 0..0 |-> P]
  <2>1. z = body(z)
    <3>1. \A k \in 0..0 : k = 0
      OBVIOUS
    <3>. QED
      BY <1>1, <3>1
  <2>2. g = body(g)
    <3> HIDE DEF body
    <3>. QED
      BY <2>1
  <2>3. Config!Exact(<<>>, <<>>, <<>>) <=> P = g[Len(<<>>)]
    BY DEF Config!Exact
  <2> HIDE DEF g
  <2>4. g[0] = P
    BY <1>1, <2>2
  <2>. QED
    BY <1>1, <2>3, <2>4
<1>. QED
  BY <1>1, <1>2, <1>3, <1>4 DEF Saved, Outcome

(* A caller's own save changes, and nothing else of what is known.         *)
LEMMA KnowsMore ==
  ASSUME SaveShape, NEW c \in Callers, NEW save, IsSave(save),
         call' = [call EXCEPT ![c] = save], queue' \in Seq(Callers),
         \A d \in Callers : Knows(call[d]), Knows(save)
  PROVE  SaveShape' /\ \A d \in Callers : Knows(call'[d])
<1>1. /\ SaveShape' /\ call'[c] = save
      /\ \A d \in Callers : d # c => call'[d] = call[d]
  BY SaveChanges
<1>. QED
  BY <1>1

(* The save that runs is answered with a version of the file.              *)
LEMMA AnswerKnows ==
  ASSUME TextsInv, NEW c \in Callers, Config!Running(c), NEW accepted, NEW base, IsText(base),
         Config!Answer(c, accepted, base)
  PROVE  SaveShape' /\ \A d \in Callers : Knows(call'[d])
<1>1. SaveShape /\ queue \in Seq(Callers) /\ \A d \in Callers : Knows(call[d])
  BY DEF TextsInv, SaveShape
<1>2. queue' \in Seq(Callers)
  <2>1. queue # <<>> /\ queue' = Tail(queue)
    BY DEF Config!Running, Config!Answer
  <2>. QED
    BY <1>1, <2>1
<1> DEFINE answered == [Config!NoSave EXCEPT !.state = "answered", !.base = base]
<1>3. IsSave(answered) /\ answered.state = "answered" /\ answered.base = base
  <2>1. IsSave(Config!NoSave)
    BY DEF IsSave, Fields, Config!NoSave
  <2>. QED
    BY <2>1 DEF IsSave, Fields
<1>4. call' = [call EXCEPT ![c] = answered]
  BY DEF Config!Answer
<1> HIDE DEF answered
<1>5. Knows(answered)
  BY <1>3 DEF Knows
<1>. QED
  BY <1>1, <1>2, <1>3, <1>4, <1>5, KnowsMore

(* A caller loads the file.                                                *)
LEMMA LoadKnows == ASSUME TextsInv, NEW c \in Callers, Config!Load(c) PROVE TextsInv'
<1> DEFINE loaded == [Config!NoSave EXCEPT !.state = "loaded", !.base = file]
<1>1. IsSave(loaded) /\ loaded.state = "loaded" /\ loaded.base = file
  <2>1. IsSave(Config!NoSave)
    BY DEF IsSave, Fields, Config!NoSave
  <2>. QED
    BY <2>1 DEF IsSave, Fields
<1>2. call' = [call EXCEPT ![c] = loaded] /\ queue' = queue /\ file' = file /\ last' = last
  BY DEF Config!Load
<1> HIDE DEF loaded
<1>3. Knows(loaded)
  BY <1>1 DEF Knows, TextsInv
<1>4. SaveShape' /\ \A d \in Callers : Knows(call'[d])
  BY <1>1, <1>2, <1>3, KnowsMore DEF TextsInv, SaveShape
<1>. QED
  BY <1>2, <1>4 DEF TextsInv, LastSaved

(* A caller asks for a save.                                               *)
LEMMA SubmitKnows ==
  ASSUME TextsInv, NEW c \in Callers, NEW op \in {"text", "bindings", "delete"}, NEW arg,
         op = "text" => arg \in Texts, op = "bindings" => arg \in Changes, Config!Submit(c, op, arg)
  PROVE  TextsInv'
<1> DEFINE queued == [call[c] EXCEPT !.state = "queued", !.op = op, !.arg = arg]
<1>0. IsSave(call[c]) /\ Knows(call[c]) /\ SaveShape /\ IsText(file) /\ queue \in Seq(Callers)
  BY DEF TextsInv, SaveShape
<1>1. /\ IsSave(queued) /\ queued.state = "queued" /\ queued.base = call[c].base
      /\ queued.op = op /\ queued.arg = arg
  BY <1>0 DEF IsSave, Fields
<1>2. call' = [call EXCEPT ![c] = queued] /\ queue' = Append(queue, c) /\ file' = file /\ last' = Config!NoChange
  BY DEF Config!Submit
<1> HIDE DEF queued
<1>3. Knows(queued)
  BY <1>0, <1>1 DEF Knows
<1>4. queue' \in Seq(Callers)
  BY <1>0, <1>2
<1>5. SaveShape' /\ \A d \in Callers : Knows(call'[d])
  BY <1>0, <1>1, <1>2, <1>3, <1>4, KnowsMore DEF TextsInv
<1>6. LastSaved'
  BY <1>2, NothingSaved DEF LastSaved, Config!NoChange
<1>. QED
  BY <1>0, <1>2, <1>5, <1>6 DEF TextsInv

(* The service prepares a save: what it writes is what the changes make of *)
(* the version that it was made from.                                      *)
LEMMA PrepareKnows == ASSUME TextsInv, NEW c \in Callers, Config!Prepare(c) PROVE TextsInv'
<1> DEFINE next == Config!NextText(c)
           r == call[c]
<1>0. /\ IsSave(r) /\ Knows(r) /\ SaveShape /\ IsText(file) /\ queue \in Seq(Callers)
      /\ \A d \in Callers : Knows(call[d])
      /\ LastSaved
  BY DEF TextsInv, SaveShape
<1>1. Config!Running(c) /\ r.state = "queued" /\ file' = file
  BY DEF Config!Prepare
<1>2. /\ r.op \in {"text", "bindings", "delete"}
      /\ IsText(r.base)
      /\ r.op = "text" => r.arg \in Texts
      /\ r.op = "bindings" => r.arg \in Changes
  BY <1>0, <1>1 DEF Knows
<1>3. /\ r.op = "text" => next = r.arg
      /\ r.op = "bindings" => next = Config!ApplyChanges(Config!Content(file), r.arg)
      /\ r.op = "delete" => next = Config!Absent
  BY DEF Config!NextText
<1>4. \/ /\ Config!Answer(c, FALSE, r.base) /\ last' = last
      \/ /\ r.base = file /\ next # Config!Refused
         /\ Config!Answer(c, TRUE, next) /\ last' = Config!Made(c, next)
      \/ /\ r.base = file /\ next # Config!Refused
         /\ call' = [call EXCEPT ![c] = [r EXCEPT !.state = "written", !.next = next]]
         /\ queue' = queue /\ last' = last
  BY DEF Config!Prepare, Config!Refuse, Config!Accept, Config!Current
<1> HIDE DEF next, r
<1>5. ASSUME r.base = file, next # Config!Refused
      PROVE  /\ IsText(next)
             /\ r.op = "bindings" => Outcome(Config!Content(r.base), r.arg, next)
  <2>1. CASE r.op = "bindings"
    BY <1>2, <1>3, <1>5, <2>1, BindingsSaved DEF IsText
  <2>2. CASE r.op = "text"
    BY <1>2, <1>3, <2>2, TextsAreTexts
  <2>3. CASE r.op = "delete"
    BY <1>3, <2>3 DEF IsText
  <2>. QED
    BY <1>2, <2>1, <2>2, <2>3
<1>6. CASE Config!Answer(c, FALSE, r.base) /\ last' = last
  <2>1. SaveShape' /\ \A d \in Callers : Knows(call'[d])
    BY <1>1, <1>2, <1>6, AnswerKnows
  <2>. QED
    BY <1>0, <1>1, <1>6, <2>1 DEF TextsInv, LastSaved
<1>7. CASE /\ r.base = file /\ next # Config!Refused
           /\ Config!Answer(c, TRUE, next) /\ last' = Config!Made(c, next)
  <2>1. SaveShape' /\ \A d \in Callers : Knows(call'[d])
    BY <1>1, <1>5, <1>7, AnswerKnows
  <2>2. LastSaved'
    <3>1. CASE r.op = "bindings"
      <4>1. last' = [before |-> Config!Content(r.base), changes |-> r.arg, after |-> next]
        BY <1>7, <3>1 DEF Config!Made, r
      <4>. QED
        BY <1>5, <1>7, <3>1, <4>1 DEF LastSaved
    <3>2. CASE r.op # "bindings"
      <4>1. last' = last
        BY <1>7, <3>2 DEF Config!Made, r
      <4>. QED
        BY <1>0, <4>1 DEF LastSaved
    <3>. QED
      BY <3>1, <3>2
  <2>. QED
    BY <1>0, <1>1, <2>1, <2>2 DEF TextsInv
<1>8. CASE /\ r.base = file /\ next # Config!Refused
           /\ call' = [call EXCEPT ![c] = [r EXCEPT !.state = "written", !.next = next]]
           /\ queue' = queue /\ last' = last
  <2> DEFINE written == [r EXCEPT !.state = "written", !.next = next]
  <2>1. /\ IsSave(written) /\ written.state = "written" /\ written.next = next
        /\ written.base = r.base /\ written.op = r.op /\ written.arg = r.arg
    BY <1>0 DEF IsSave, Fields
  <2>2. call' = [call EXCEPT ![c] = written]
    BY <1>8
  <2> HIDE DEF written
  <2>3. Knows(written)
    BY <1>2, <1>3, <1>5, <1>8, <2>1 DEF Knows
  <2>4. SaveShape' /\ \A d \in Callers : Knows(call'[d])
    BY <1>0, <1>8, <2>1, <2>2, <2>3, KnowsMore
  <2>. QED
    BY <1>0, <1>1, <1>8, <2>4 DEF TextsInv, LastSaved
<1>. QED
  BY <1>4, <1>6, <1>7, <1>8

(* The second look.                                                        *)
LEMMA CheckAgainKnows == ASSUME TextsInv, NEW c \in Callers, Config!CheckAgain(c) PROVE TextsInv'
<1>0. /\ IsSave(call[c]) /\ Knows(call[c]) /\ SaveShape /\ IsText(file) /\ queue \in Seq(Callers)
      /\ LastSaved
  BY DEF TextsInv, SaveShape
<1>1. /\ Config!Running(c) /\ call[c].state = "written" /\ file' = file /\ last' = last
      /\ \/ Config!Answer(c, FALSE, call[c].base)
         \/ call' = [call EXCEPT ![c] = [call[c] EXCEPT !.state = "checked"]] /\ queue' = queue
  BY DEF Config!CheckAgain, Config!Refuse
<1>2. CASE Config!Answer(c, FALSE, call[c].base)
  <2>1. IsText(call[c].base)
    BY <1>0 DEF Knows
  <2>2. SaveShape' /\ \A d \in Callers : Knows(call'[d])
    BY <1>1, <1>2, <2>1, AnswerKnows
  <2>. QED
    BY <1>0, <1>1, <2>2 DEF TextsInv, LastSaved
<1>3. CASE call' = [call EXCEPT ![c] = [call[c] EXCEPT !.state = "checked"]] /\ queue' = queue
  <2> DEFINE checked == [call[c] EXCEPT !.state = "checked"]
  <2>1. /\ IsSave(checked) /\ checked.state = "checked" /\ checked.next = call[c].next
        /\ checked.base = call[c].base /\ checked.op = call[c].op /\ checked.arg = call[c].arg
    BY <1>0 DEF IsSave, Fields
  <2>2. call' = [call EXCEPT ![c] = checked]
    BY <1>3
  <2> HIDE DEF checked
  <2>3. Knows(checked)
    BY <1>0, <1>1, <2>1 DEF Knows
  <2>4. SaveShape' /\ \A d \in Callers : Knows(call'[d])
    BY <1>0, <1>3, <2>1, <2>2, <2>3, KnowsMore DEF TextsInv
  <2>. QED
    BY <1>0, <1>1, <2>4 DEF TextsInv, LastSaved
<1>. QED
  BY <1>1, <1>2, <1>3

(* The file is replaced by what was written.                               *)
LEMMA ReplaceKnows == ASSUME TextsInv, NEW c \in Callers, Config!Replace(c) PROVE TextsInv'
<1> DEFINE r == call[c]
<1>0. IsSave(r) /\ Knows(r) /\ SaveShape /\ IsText(file) /\ LastSaved
  BY DEF TextsInv, SaveShape
<1>1. /\ Config!Running(c) /\ r.state = "checked" /\ file' = r.next
      /\ last' = Config!Made(c, r.next)
      /\ \/ Config!Answer(c, FALSE, r.base)
         \/ Config!Answer(c, TRUE, r.next)
  BY DEF Config!Replace, Config!Refuse, Config!Accept
<1>2. last' = IF r.op = "bindings" THEN [before |-> Config!Content(r.base), changes |-> r.arg, after |-> r.next]
              ELSE last
  BY <1>1 DEF Config!Made
<1> HIDE DEF r
<1>3. /\ IsText(r.base) /\ IsText(r.next)
      /\ r.op = "bindings" => /\ r.arg \in Changes
                              /\ r.next = Config!ApplyChanges(Config!Content(r.base), r.arg)
                              /\ r.next # Config!Refused
  BY <1>0, <1>1 DEF Knows
<1>4. SaveShape' /\ \A d \in Callers : Knows(call'[d])
  BY <1>1, <1>3, AnswerKnows
<1>5. LastSaved'
  <2>1. CASE r.op = "bindings"
    <3>1. Outcome(Config!Content(r.base), r.arg, r.next)
      BY <1>3, <2>1, BindingsSaved
    <3>. QED
      BY <1>2, <2>1, <3>1 DEF LastSaved
  <2>2. CASE r.op # "bindings"
    BY <1>0, <1>2, <2>2 DEF LastSaved
  <2>. QED
    BY <2>1, <2>2
<1>. QED
  BY <1>1, <1>3, <1>4, <1>5 DEF TextsInv

(* Every step of callers, the service and whoever else writes the file.    *)
LEMMA TextsStep == TextsInv /\ [Config!Next]_configVars => TextsInv'
<1> SUFFICES ASSUME TextsInv, [Config!Next]_configVars PROVE TextsInv'
  OBVIOUS
<1>1. ASSUME NEW c \in Callers, Config!Load(c) PROVE TextsInv'
  BY <1>1, LoadKnows
<1>2. ASSUME NEW c \in Callers, Config!Serve(c) PROVE TextsInv'
  BY <1>2, PrepareKnows, CheckAgainKnows, ReplaceKnows DEF Config!Serve
<1>3. ASSUME NEW c \in Callers, Config!FailReplace(c) PROVE TextsInv'
  <2>1. /\ Config!Running(c) /\ file' = file /\ last' = last
        /\ Config!Answer(c, FALSE, call[c].base)
    BY <1>3 DEF Config!FailReplace, Config!Refuse
  <2>2. IsText(call[c].base)
    BY DEF TextsInv, Knows
  <2>3. SaveShape' /\ \A d \in Callers : Knows(call'[d])
    BY <2>1, <2>2, AnswerKnows
  <2>. QED
    BY <2>1, <2>3 DEF TextsInv, LastSaved
<1>4. ASSUME NEW c \in Callers, Config!Submit(c, "delete", Config!Empty) PROVE TextsInv'
  BY <1>4, SubmitKnows
<1>5. ASSUME NEW c \in Callers, NEW t \in Texts, Config!Submit(c, "text", t) PROVE TextsInv'
  BY <1>5, SubmitKnows
<1>6. ASSUME NEW c \in Callers, NEW list \in Changes, Config!Submit(c, "bindings", list) PROVE TextsInv'
  BY <1>6, SubmitKnows
<1>7. ASSUME NEW t \in Texts \cup {Config!Absent}, Config!Edit(t) PROVE TextsInv'
  <2>1. file' = t /\ call' = call /\ queue' = queue /\ last' = last
    BY <1>7 DEF Config!Edit
  <2>2. IsText(t)
    BY TextsAreTexts DEF IsText
  <2>. QED
    BY <2>1, <2>2 DEF TextsInv, SaveShape, IsSave, LastSaved
<1>8. CASE UNCHANGED configVars
  BY <1>8 DEF configVars, TextsInv, SaveShape, IsSave, LastSaved
<1>. QED
  BY <1>1, <1>2, <1>3, <1>4, <1>5, <1>6, <1>7, <1>8 DEF Config!Next

(* A save of bindings leaves a text that is TOML, and where the text it    *)
(* was made from has no four quotes in a row, it means what that one       *)
(* meant, with just the asked changes, and keeps every comment unless it   *)
(* deletes a table: for any texts, names and lists of changes, any number  *)
(* of callers and whatever editors write in between, such texts too.       *)
THEOREM EditsAreExact == FilesSpec => []SavesAreExact
<1>1. MCInit => TextsInv
  <2> SUFFICES ASSUME Config!Init PROVE TextsInv
    BY DEF MCInit
  <2>1. queue = <<>> /\ call = [c \in Callers |-> Config!NoSave] /\ last = Config!NoChange
        /\ file \in Texts \cup {Config!Absent}
    BY DEF Config!Init
  <2>2. IsText(file)
    BY <2>1, TextsAreTexts DEF IsText
  <2>3. IsSave(Config!NoSave) /\ Knows(Config!NoSave)
    BY DEF IsSave, Fields, Config!NoSave, Knows, IsText
  <2>4. <<>> \in Seq(Callers)
    OBVIOUS
  <2>5. queue \in Seq(Callers)
    BY <2>1, <2>4, Zenon
  <2>6. SaveShape /\ \A c \in Callers : Knows(call[c])
    BY <2>1, <2>3, <2>5 DEF SaveShape
  <2>7. LastSaved
    BY <2>1, NothingSaved DEF LastSaved, Config!NoChange
  <2>. QED
    BY <2>2, <2>6, <2>7 DEF TextsInv
<1>2. TextsInv /\ [MCNext]_allVars => TextsInv'
  <2> SUFFICES ASSUME TextsInv, [MCNext]_allVars PROVE TextsInv'
    OBVIOUS
  <2>1. [Config!Next]_configVars
    BY DEF MCNext, allVars
  <2>. QED
    BY <2>1, TextsStep
<1>3. TextsInv => SavesAreExact
  <2> SUFFICES ASSUME TextsInv PROVE Config!SavesAreExact
    BY DEF SavesAreExact
  <2>1. last.before \in AllDocs /\ Config!Valid(last.after)
        /\ (last.before \in Docs => Saved(last.before, last.changes, last.after))
    BY DEF TextsInv, LastSaved, Outcome
  <2>2. Config!Plain(last.before) => Saved(last.before, last.changes, last.after)
    BY <2>1, PlainText
  <2>. QED
    BY <2>1, <2>2 DEF Saved, Keeps, Config!SavesAreExact
<1>. QED
  BY <1>1, <1>2, <1>3, PTL DEF FilesSpec
=============================================================================
