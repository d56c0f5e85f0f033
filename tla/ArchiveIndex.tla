---------------------------- MODULE ArchiveIndex ----------------------------
(***************************************************************************)
(* The index of archived debates: a scan looks at the files of a task with *)
(* one system call after the other while moa_complete rewrites them in     *)
(* place and somebody else may delete them or put others there.  It takes  *)
(* no lock: what it opens must be what it looked at, and still be there    *)
(* when it has been read.                                                  *)
(*                                                                         *)
(* One task and two of its four files (the others are scanned like         *)
(* "events").  The content of a version is two blocks; what the summary    *)
(* picks from it, the size limits, symbolic links and the order of the     *)
(* list are left out.                                                      *)
(*                                                                         *)
(* A definition X_Y is X as a plausible bug would have it.                 *)
(***************************************************************************)
EXTENDS Naturals, Sequences

CONSTANTS MaxVersions, MaxNodes          (* bounds: archives, new files    *)

Files == {"events", "result"}
Nodes == 1..MaxNodes
None == 0

VARIABLES
  numbered,               (* the file system reports file numbers          *)
  dir,                    (* name -> file number, or None                  *)
  node,                   (* file number -> [version, blocks on disk]      *)
  used,                   (* file numbers handed out                       *)
  writer,                 (* moa_complete: the file it writes, or its next *)
  version,
  scan,                   (* file -> what the scan knows of it             *)
  reader,                 (* readResult                                    *)
  entry,                  (* the last entry listed                         *)
  inPlace                 (* history: versions of result.json that were    *)
                          (* whole and in place since the scan began       *)

disk == <<dir, node, used, writer, version>>
index == <<scan, reader, entry>>
vars == <<numbered, disk, index, inPlace>>

NoStat == [on |-> None, version |-> 0, blocks |-> 0]
Idle == [step |-> "idle", stat |-> NoStat, error |-> FALSE]
NoReader == [step |-> "wait", stat |-> NoStat, buffer |-> <<>>]
NoEntry == [summary |-> {}, stat |-> NoStat, read |-> NoStat, degraded |-> FALSE]

Init ==
  /\ numbered \in BOOLEAN
  /\ dir = [f \in Files |-> None] /\ node = [i \in Nodes |-> [version |-> 0, blocks |-> 0]]
  /\ used = 0 /\ writer = [next |-> "events", on |-> None] /\ version = 0
  /\ scan = [f \in Files |-> Idle] /\ reader = NoReader /\ entry = NoEntry
  /\ inPlace = {}

Whole(f) == IF dir'[f] # None /\ node'[dir'[f]].blocks = 2 THEN {node'[dir'[f]].version} ELSE {}
Witness == inPlace' = inPlace \cup Whole("result")

(* ---------------------------------------------------------------------- *)
(* The disk                                                                *)

(* complete writes events.jsonl and then result.json: opening a file       *)
(* truncates or creates it.                                                *)
Truncate(f) ==
  /\ writer = [next |-> f, on |-> None]
  /\ version' = IF f = "events" THEN version + 1 ELSE version
  /\ used' = IF dir[f] = None THEN used + 1 ELSE used
  /\ version' <= MaxVersions /\ used' <= MaxNodes
  /\ LET i == IF dir[f] = None THEN used' ELSE dir[f]
     IN /\ dir' = [dir EXCEPT ![f] = i]
        /\ node' = [node EXCEPT ![i] = [version |-> version', blocks |-> 0]]
        /\ writer' = [writer EXCEPT !.on = i]
  /\ Witness
  /\ UNCHANGED <<numbered, index>>

WriteBlock ==
  /\ writer.on # None
  /\ node' = [node EXCEPT ![writer.on].blocks = @ + 1]
  /\ writer' = IF node'[writer.on].blocks = 1 THEN writer
               ELSE [next |-> IF writer.next = "events" THEN "result" ELSE "events", on |-> None]
  /\ UNCHANGED <<numbered, dir, used, version, index>>
  /\ Witness

(* Somebody deletes a file; the next complete creates another.            *)
Delete(f) ==
  /\ dir[f] # None
  /\ dir' = [dir EXCEPT ![f] = None]
  /\ UNCHANGED <<numbered, node, used, writer, version, index>>
  /\ Witness

(* ---------------------------------------------------------------------- *)
(* The scan                                                                *)

Stat(i) == [on |-> i, version |-> node[i].version, blocks |-> node[i].blocks]

(* Without file numbers, size and time stand for the identity.             *)
SameFile_Sized(a, b) == a.blocks = b.blocks
SameFile(a, b) == IF numbered THEN a.on = b.on ELSE a.version = b.version /\ a.blocks = b.blocks

There(f, stat) == dir[f] # None /\ SameFile(stat, Stat(dir[f]))

List ==
  /\ \A f \in Files : scan[f].step = "idle"
  /\ scan' = [f \in Files |-> [Idle EXCEPT !.step = "lstat"]]
  /\ entry' = NoEntry
  /\ UNCHANGED <<numbered, disk, reader>>
  /\ inPlace' = Whole("result")

Lstat(f) ==
  /\ scan[f].step = "lstat"
  /\ scan' = [scan EXCEPT ![f] = IF dir[f] = None THEN [@ EXCEPT !.step = "done"]
                                 ELSE [@ EXCEPT !.step = "open", !.stat = Stat(dir[f])]]
  /\ UNCHANGED <<numbered, disk, reader, entry, inPlace>>

Open(f) ==
  /\ scan[f].step = "open"
  /\ scan' = [scan EXCEPT ![f].step = "done", ![f].error = ~There(f, scan[f].stat)]
  /\ UNCHANGED <<numbered, disk, reader, entry, inPlace>>

(* readResult opens the file once more, reads it to its end and looks      *)
(* whether it is still the one in place.                                   *)
OpenResult ==
  /\ \A f \in Files : scan[f].step = "done"
  /\ reader.step = "wait" /\ scan["result"].stat # NoStat /\ ~scan["result"].error
  /\ reader' = IF There("result", scan["result"].stat)
               THEN [reader EXCEPT !.step = "read", !.stat = Stat(dir["result"])]
               ELSE [reader EXCEPT !.step = "failed"]
  /\ UNCHANGED <<numbered, disk, scan, entry, inPlace>>

ReadBlocks ==
  /\ reader.step = "read"
  /\ LET file == node[reader.stat.on]
         more == file.blocks - Len(reader.buffer)
     IN reader' = IF more > 0 THEN [reader EXCEPT !.buffer = @ \o [k \in 1..more |-> file.version]]
                  ELSE [reader EXCEPT !.step = "check"]
  /\ UNCHANGED <<numbered, disk, scan, entry, inPlace>>

(* Half a result is not JSON.                                              *)
CheckResult_Trusts == reader.step = "check" /\ Len(reader.buffer) = 2
CheckResult ==
  /\ reader.step = "check"
  /\ There("result", reader.stat) /\ Len(reader.buffer) = 2

ListEntry(summary, failed) ==
  /\ entry' = [summary |-> summary, stat |-> scan["result"].stat, read |-> reader.stat,
               degraded |-> failed \/ \E f \in Files : scan[f].error]
  /\ scan' = [f \in Files |-> Idle] /\ reader' = NoReader
  /\ UNCHANGED <<numbered, disk, inPlace>>

Summarize ==
  \/ CheckResult /\ ListEntry({reader.buffer[k] : k \in 1..2}, FALSE)
  \/ reader.step \in {"check", "failed"} /\ ~CheckResult /\ ListEntry({}, TRUE)
  \/ /\ \A f \in Files : scan[f].step = "done"
     /\ scan["result"].stat = NoStat \/ scan["result"].error
     /\ ListEntry({}, FALSE)

Scan == List \/ (\E f \in Files : Lstat(f) \/ Open(f)) \/ OpenResult \/ ReadBlocks \/ Summarize
Next == (\E f \in Files : Truncate(f) \/ Delete(f)) \/ WriteBlock \/ Scan

Spec == Init /\ [][Next]_vars

(* ---------------------------------------------------------------------- *)
(* Properties                                                              *)

(* A summary comes from results that were complete, under their name,      *)
(* while the scan was running, never from one half written or deleted      *)
(* before; and what the entry says of the file and the summary are about   *)
(* the same file (archive-index.ts:299, 305).                              *)
SummaryWasInPlace ==
  entry.summary # {} =>
    /\ entry.summary \subseteq inPlace
    /\ SameFile(entry.stat, entry.read)
=============================================================================
