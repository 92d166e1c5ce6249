----------------------------- MODULE TableCache -----------------------------
(***************************************************************************)
(* SevenCardLookupTable's constructor (src/csrc/src/game/poker/            *)
(* hand_evaluator.cc): processes that share one cache path load the table  *)
(* or build it and save it through one temporary file.  A file is a header *)
(* and TableSize cells; the stream hands header and table to the system in *)
(* one write, of which a crash or a full disk leaves a prefix.             *)
(***************************************************************************)
EXTENDS Naturals

CONSTANTS
  Procs, Inodes, NoInode,
  TableSize,        \* cells of the table; a file of this version has TableSize + 1
  Found,            \* what the path may hold at first: files, or NoInode
  MaxFaults         \* bound on crashes, failed writes and failed opens

ASSUME TableCacheAssumption ==
  /\ NoInode \notin Inodes /\ TableSize \in Nat \ {0} /\ MaxFaults \in Nat
  /\ Found \subseteq [valid : BOOLEAN, size : Nat]

FullSize == TableSize + 1
Files == [valid : BOOLEAN, size : Nat]  \* valid: the header is this version's
Empty == [valid |-> TRUE, size |-> 0]

VARIABLES
  pc, fd,      \* each process: where it is, the file it has open
  cells,       \* the cells of its table that hold the strength they should
  file,        \* [Inodes -> Files]
  path, tmp,   \* the inode at the cache path and at its ".tmp", or NoInode
  faults

vars == <<pc, fd, cells, file, path, tmp, faults>>

Goto(p, to) == pc' = [pc EXCEPT ![p] = to]
Fault == faults < MaxFaults /\ faults' = faults + 1
NoFault == UNCHANGED faults
Directory == <<file, path, tmp>>

Init ==
  /\ pc = [p \in Procs |-> "load"] /\ fd = [p \in Procs |-> NoInode]
  /\ cells = [p \in Procs |-> 0] /\ faults = 0 /\ tmp = NoInode
  /\ \/ path = NoInode /\ file = [i \in Inodes |-> Empty]
     \/ \E i \in Inodes, f \in Found :
          path = i /\ file = [j \in Inodes |-> IF j = i THEN f ELSE Empty]

(***************************************************************************)
(* LoadTable: every early return false goes on to BuildTable.              *)
(***************************************************************************)
OpenCache(p) ==
  /\ pc[p] = "load"
  /\ \/ path /= NoInode /\ Goto(p, "header")
     \/ path = NoInode /\ Goto(p, "build")
  /\ fd' = [fd EXCEPT ![p] = path]
  /\ UNCHANGED <<cells, Directory>> /\ NoFault

ReadHeader(p) ==
  /\ pc[p] = "header"
  /\ LET f == file[fd[p]]
     IN  \/ f.size > 0 /\ f.valid /\ Goto(p, "table")
         \/ (f.size = 0 \/ ~f.valid) /\ Goto(p, "build")
  /\ UNCHANGED <<fd, cells, Directory>> /\ NoFault

Least(a, b) == IF a <= b THEN a ELSE b
CellsIn(f) == IF f.valid /\ f.size > 0 THEN Least(f.size - 1, TableSize) ELSE 0

\* Fault: the stream's state is not tested after the table.
ReadTableUnchecked(p) ==
  /\ pc[p] = "table" /\ Goto(p, "extra")
  /\ cells' = [cells EXCEPT ![p] = CellsIn(file[fd[p]])]
  /\ UNCHANGED <<fd, Directory>> /\ NoFault

ReadTable(p) ==
  /\ pc[p] = "table"
  /\ \/ file[fd[p]].size >= FullSize /\ Goto(p, "extra")
          /\ cells' = [cells EXCEPT ![p] = CellsIn(file[fd[p]])]
     \/ file[fd[p]].size < FullSize /\ Goto(p, "build") /\ UNCHANGED cells
  /\ UNCHANGED <<fd, Directory>> /\ NoFault

ReadExtra(p) ==
  /\ pc[p] = "extra"
  /\ \/ file[fd[p]].size <= FullSize /\ Goto(p, "done") /\ UNCHANGED cells
     \/ file[fd[p]].size > FullSize /\ Goto(p, "build")
          /\ cells' = [cells EXCEPT ![p] = 0]
  /\ fd' = [fd EXCEPT ![p] = NoInode] /\ UNCHANGED Directory /\ NoFault

BuildTable(p) ==
  /\ pc[p] = "build" /\ Goto(p, "save")
  /\ cells' = [cells EXCEPT ![p] = TableSize] /\ fd' = [fd EXCEPT ![p] = NoInode]
  /\ UNCHANGED Directory /\ NoFault

(***************************************************************************)
(* SaveTable.  An inode nobody names or has open is free again.            *)
(***************************************************************************)
Free(i) == i \notin {path, tmp} /\ \A q \in Procs : fd[q] /= i

OpenTmp(p) ==
  /\ pc[p] = "save" /\ Goto(p, "write")
  /\ \E i \in Inodes :
       /\ IF tmp = NoInode THEN Free(i) ELSE i = tmp
       /\ tmp' = i /\ file' = [file EXCEPT ![i] = Empty] /\ fd' = [fd EXCEPT ![p] = i]
  /\ UNCHANGED <<cells, path>> /\ NoFault

CannotOpen(p) ==
  /\ pc[p] = "save" /\ Goto(p, "done") /\ Fault
  /\ UNCHANGED <<fd, cells, Directory>>

DirectoryFails(p) ==
  /\ pc[p] = "save" /\ Goto(p, "threw") /\ Fault
  /\ UNCHANGED <<fd, cells, Directory>>

\* Another process's write may already have reached further into the file.
Grown(f, size) == IF f.size < size THEN [f EXCEPT !.size = size] ELSE f

Write(p) ==
  /\ pc[p] = "write" /\ Goto(p, "rename")
  /\ file' = [file EXCEPT ![fd[p]] = Grown(@, FullSize)]
  /\ fd' = [fd EXCEPT ![p] = NoInode]
  /\ UNCHANGED <<cells, path, tmp>> /\ NoFault

WriteFails(p) ==
  /\ pc[p] = "write" /\ Goto(p, "discard") /\ Fault
  /\ \E size \in 0 .. TableSize : file' = [file EXCEPT ![fd[p]] = Grown(@, size)]
  /\ fd' = [fd EXCEPT ![p] = NoInode]
  /\ UNCHANGED <<cells, path, tmp>>

Discard(p) ==
  /\ pc[p] = "discard" /\ Goto(p, "done") /\ tmp' = NoInode
  /\ UNCHANGED <<fd, cells, file, path>> /\ NoFault

MoveTmp == path' = tmp /\ tmp' = NoInode

Rename(p) ==
  /\ pc[p] = "rename"
  /\ \/ tmp /= NoInode /\ MoveTmp /\ Goto(p, "done")
     \/ tmp = NoInode /\ Goto(p, "remove") /\ UNCHANGED <<path, tmp>>
  /\ UNCHANGED <<fd, cells, file>> /\ NoFault

RemovePath(p) ==
  /\ pc[p] = "remove" /\ Goto(p, "rename_again") /\ path' = NoInode
  /\ UNCHANGED <<fd, cells, file, tmp>> /\ NoFault

RenameAgain(p) ==
  /\ pc[p] = "rename_again" /\ Goto(p, "done")
  /\ IF tmp /= NoInode THEN MoveTmp ELSE UNCHANGED <<path, tmp>>
  /\ UNCHANGED <<fd, cells, file>> /\ NoFault

\* The process dies, anywhere; one that was writing leaves a prefix.
Crash(p) ==
  /\ pc[p] \notin {"done", "threw", "crashed"} /\ pc' = [pc EXCEPT ![p] = "crashed"] /\ Fault
  /\ IF pc[p] = "write"
     THEN \E size \in 0 .. FullSize : file' = [file EXCEPT ![fd[p]] = Grown(@, size)]
     ELSE UNCHANGED file
  /\ fd' = [fd EXCEPT ![p] = NoInode] /\ cells' = [cells EXCEPT ![p] = 0]
  /\ UNCHANGED <<path, tmp>>

\* The next process, after one that crashed, failed or came to its end.
Start(p) ==
  /\ pc[p] \in {"done", "threw", "crashed"} /\ pc' = [pc EXCEPT ![p] = "load"]
  /\ cells' = [cells EXCEPT ![p] = 0]
  /\ UNCHANGED <<fd, Directory>> /\ NoFault

Next ==
  \E p \in Procs :
    \/ OpenCache(p) \/ ReadHeader(p) \/ ReadTable(p) \/ ReadExtra(p) \/ BuildTable(p)
    \/ OpenTmp(p) \/ CannotOpen(p) \/ DirectoryFails(p) \/ Write(p) \/ WriteFails(p)
    \/ Discard(p) \/ Rename(p) \/ RemovePath(p) \/ RenameAgain(p)
    \/ Crash(p) \/ Start(p)

Spec == Init /\ [][Next]_vars

\* The type invariant.
TypeOK ==
  /\ pc \in [Procs -> {"load", "header", "table", "extra", "build", "save", "write",
                       "discard", "rename", "remove", "rename_again", "done", "threw",
                       "crashed"}]
  /\ fd \in [Procs -> Inodes \cup {NoInode}] /\ cells \in [Procs -> 0 .. TableSize]
  /\ file \in [Inodes -> Files]
  /\ path \in Inodes \cup {NoInode} /\ tmp \in Inodes \cup {NoInode}
  /\ faults \in 0 .. MaxFaults

\* A lookup table that came out of its constructor holds the right strength in
\* every cell, whatever other processes wrote, truncated, renamed, removed or
\* left half-written at its path while it was read: LoadTable's checks refuse
\* every file that is not whole ("lookup cache load should preserve strength").
LoadedTableIsBuilt == \A p \in Procs : pc[p] = "done" => cells[p] = TableSize

\* Once every constructor returned and nothing failed, the cache is there to
\* load ("lookup cache should be written").
CacheWritten ==
  faults = 0 /\ (\A p \in Procs : pc[p] = "done") => path /= NoInode
=============================================================================
