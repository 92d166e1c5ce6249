---------------------------- MODULE StoreProofs ----------------------------
(***************************************************************************)
(* What is shared or kept is right, whoever else writes it and whatever    *)
(* dies while writing, for every number of processes, threads, files,      *)
(* samples and faults: a constructed lookup table whatever the other       *)
(* processes that share its cache path do, the directory that a run of a   *)
(* data script leaves at its end, and the references that threads take     *)
(* into the caches of terminal values.                                     *)
(***************************************************************************)
EXTENDS TableCache, DataFiles, TerminalCaches, FiniteSetTheorems, SequenceTheorems, TLAPS

(***************************************************************************)
(* The lookup table                                                        *)
(***************************************************************************)

Reading == {"header", "table", "extra"}
Built == {"save", "write", "discard", "rename", "remove", "rename_again", "done"}

\* A reader and a writer hold a file open.
OpenOK == \A p \in Procs : pc[p] \in Reading \cup {"write"} => fd[p] \in Inodes

\* A file whose header was read stays one of this version: its size may change
\* under the reader, by another process's truncation, but not its kind.
HeaderOK == \A p \in Procs : pc[p] \in {"table", "extra"} => file[fd[p]].valid

\* The table is whole from the moment it was read or built.
CellsOK == \A p \in Procs : pc[p] \in Built \cup {"extra"} => cells[p] = TableSize

IInv == TypeOK /\ OpenOK /\ HeaderOK /\ CellsOK

LEMMA InitIInv == Init => IInv
<1> SUFFICES ASSUME Init PROVE IInv
  OBVIOUS
<1> USE TableCacheAssumption DEF Init
<1>1. Empty \in Files /\ Found \subseteq Files
  BY DEF Empty, Files
<1>2. file \in [Inodes -> Files] /\ path \in Inodes \cup {NoInode}
  BY <1>1
<1>3. TypeOK
  BY <1>2 DEF TypeOK
<1>4. OpenOK /\ HeaderOK /\ CellsOK
  BY DEF OpenOK, HeaderOK, CellsOK, Reading, Built
<1>5. QED
  BY <1>3, <1>4 DEF IInv

\* Growing a file keeps its kind.
LEMMA GrownFile ==
  ASSUME NEW f \in Files, NEW n \in Nat
  PROVE  Grown(f, n) \in Files /\ Grown(f, n).valid = f.valid
  BY DEF Grown, Files

\* ... and every file's, as one of them grows.
LEMMA FileGrows ==
  ASSUME file \in [Inodes -> Files], NEW i \in Inodes, NEW n \in Nat,
         file' = [file EXCEPT ![i] = Grown(@, n)]
  PROVE  /\ file' \in [Inodes -> Files]
         /\ \A j \in Inodes : file'[j].valid = file[j].valid
<1>1. file[i] \in Files
  OBVIOUS
<1>2. Grown(file[i], n) \in Files /\ Grown(file[i], n).valid = file[i].valid
  BY <1>1, GrownFile
<1>3. QED
  BY <1>2

\* A step of one process that leaves the files' kinds alone.
LEMMA StepIInv ==
  ASSUME IInv, NEW p \in Procs,
         \/ OpenCache(p) \/ ReadHeader(p) \/ ReadTable(p) \/ ReadExtra(p) \/ BuildTable(p)
  PROVE  IInv'
<1> USE TableCacheAssumption
           DEF IInv, TypeOK, OpenOK, HeaderOK, CellsOK, Reading, Built, Goto, NoFault,
               Directory, FullSize
<1>1. CASE OpenCache(p)
  BY <1>1 DEF OpenCache
<1>2. CASE ReadHeader(p)
  BY <1>2 DEF ReadHeader
<1>3. CASE ReadTable(p)
  <2>1. fd[p] \in Inodes /\ file[fd[p]] \in Files /\ file[fd[p]].valid
    BY <1>3 DEF ReadTable
  <2>2. file[fd[p]].size >= TableSize + 1 => CellsIn(file[fd[p]]) = TableSize
    BY <2>1 DEF CellsIn, Least, Files
  <2>3. QED
    BY <1>3, <2>1, <2>2 DEF ReadTable
<1>4. CASE ReadExtra(p)
  BY <1>4 DEF ReadExtra
<1>5. CASE BuildTable(p)
  BY <1>5 DEF BuildTable
<1>6. QED
  BY <1>1, <1>2, <1>3, <1>4, <1>5

LEMMA SaveIInv ==
  ASSUME IInv, NEW p \in Procs,
         \/ OpenTmp(p) \/ CannotOpen(p) \/ DirectoryFails(p) \/ Write(p) \/ WriteFails(p)
         \/ Discard(p) \/ Rename(p) \/ RemovePath(p) \/ RenameAgain(p)
  PROVE  IInv'
<1> USE TableCacheAssumption
           DEF IInv, TypeOK, OpenOK, HeaderOK, CellsOK, Reading, Built, Goto, NoFault, Fault,
               Directory
<1>1. CASE OpenTmp(p)
  BY <1>1 DEF OpenTmp, Empty, Files
<1>2. CASE CannotOpen(p)
  BY <1>2 DEF CannotOpen
<1>3. CASE DirectoryFails(p)
  BY <1>3 DEF DirectoryFails
<1>4. CASE Write(p)
  <2>1. fd[p] \in Inodes /\ FullSize \in Nat
    BY <1>4 DEF Write, FullSize
  <2>2. file' \in [Inodes -> Files] /\ \A j \in Inodes : file'[j].valid = file[j].valid
    BY <1>4, <2>1, FileGrows DEF Write
  <2>3. QED
    BY <1>4, <2>2 DEF Write
<1>5. CASE WriteFails(p)
  <2>1. PICK size \in 0 .. TableSize : file' = [file EXCEPT ![fd[p]] = Grown(@, size)]
    BY <1>5 DEF WriteFails
  <2>2. fd[p] \in Inodes /\ size \in Nat
    BY <1>5 DEF WriteFails
  <2>3. file' \in [Inodes -> Files] /\ \A j \in Inodes : file'[j].valid = file[j].valid
    BY <2>1, <2>2, FileGrows
  <2>4. QED
    BY <1>5, <2>3 DEF WriteFails
<1>6. CASE Discard(p)
  BY <1>6 DEF Discard
<1>7. CASE Rename(p)
  BY <1>7 DEF Rename, MoveTmp
<1>8. CASE RemovePath(p)
  BY <1>8 DEF RemovePath
<1>9. CASE RenameAgain(p)
  BY <1>9 DEF RenameAgain, MoveTmp
<1>10. QED
  BY <1>1, <1>2, <1>3, <1>4, <1>5, <1>6, <1>7, <1>8, <1>9

LEMMA CrashIInv ==
  ASSUME IInv, NEW p \in Procs, Crash(p) \/ Start(p)
  PROVE  IInv'
<1> USE TableCacheAssumption
           DEF IInv, TypeOK, OpenOK, HeaderOK, CellsOK, Reading, Built, NoFault, Fault, Directory
<1>1. CASE Crash(p) /\ pc[p] = "write"
  <2>1. PICK size \in 0 .. FullSize : file' = [file EXCEPT ![fd[p]] = Grown(@, size)]
    BY <1>1 DEF Crash
  <2>2. fd[p] \in Inodes /\ size \in Nat
    BY <1>1 DEF FullSize
  <2>3. file' \in [Inodes -> Files] /\ \A j \in Inodes : file'[j].valid = file[j].valid
    BY <2>1, <2>2, FileGrows
  <2>4. QED
    BY <1>1, <2>3 DEF Crash
<1>2. CASE Crash(p) /\ pc[p] /= "write"
  BY <1>2 DEF Crash
<1>3. CASE Start(p)
  BY <1>3 DEF Start
<1>4. QED
  BY <1>1, <1>2, <1>3

LEMMA NextIInv == IInv /\ [Next]_vars => IInv'
<1> SUFFICES ASSUME IInv, [Next]_vars PROVE IInv'
  OBVIOUS
<1>1. CASE Next
  BY <1>1, StepIInv, SaveIInv, CrashIInv DEF Next
<1>2. CASE UNCHANGED vars
  BY <1>2 DEF vars, IInv, TypeOK, OpenOK, HeaderOK, CellsOK
<1>3. QED
  BY <1>1, <1>2

\* Every table that came out of the constructor is whole and of this version.
THEOREM SpecLoadedTableIsBuilt == Spec => []LoadedTableIsBuilt
<1>1. IInv => LoadedTableIsBuilt
  BY DEF IInv, CellsOK, LoadedTableIsBuilt, Built
<1>2. QED
  BY <1>1, InitIInv, NextIInv, PTL DEF Spec

\* The type invariant, from the same strengthening.
THEOREM SpecTypeOK == Spec => []TypeOK
<1>1. IInv => TypeOK
  BY DEF IInv
<1>2. QED
  BY <1>1, InitIInv, NextIInv, PTL DEF Spec

(***************************************************************************)
(* Joining sequences                                                       *)
(***************************************************************************)

\* Induction over the natural numbers, with a set for the predicate.
LEMMA NatInduct ==
  ASSUME NEW S, 0 \in S, \A n \in Nat : n \in S => n + 1 \in S
  PROVE  Nat \subseteq S
<1> SUFFICES ASSUME NEW k \in Nat, k \notin S PROVE FALSE
  OBVIOUS
<1> DEFINE T == {0 .. n : n \in Nat \ S}
           R == StrictSubsetOrdering(Nat)
           F == FiniteSubsetsOf(Nat)
<1>1. IsWellFoundedOn(R, F)
  BY FS_StrictSubsetOrderingWellFounded
<1>2. T \subseteq F /\ T # {}
  <2>1. \A n \in Nat : IsFiniteSet(0 .. n)
    BY FS_Interval
  <2> QED BY <2>1 DEF FiniteSubsetsOf
<1>3. \E x \in T : \A y \in T : ~ (<<y, x>> \in R)
  <2> HIDE DEF T, R, F
  <2> QED BY <1>1, <1>2, WFMin
<1>4. PICK m \in Nat \ S : \A y \in T : ~ (<<y, 0 .. m>> \in R)
  BY <1>3
<1>5. m # 0 /\ m - 1 \in Nat \ S
  <2>1. m # 0
    OBVIOUS
  <2>2. m - 1 \in Nat /\ (m - 1) + 1 = m
    BY <2>1
  <2> QED BY <2>1, <2>2
<1>6. 0 .. m - 1 \in T
  BY <1>5
<1>7. <<0 .. m - 1, 0 .. m>> \in R
  <2>1. 0 .. m - 1 \subseteq 0 .. m /\ m \in 0 .. m /\ m \notin 0 .. m - 1
    BY <1>5
  <2>2. 0 .. m - 1 \in SUBSET Nat /\ 0 .. m \in SUBSET Nat
    OBVIOUS
  <2> QED BY <2>1, <2>2 DEF StrictSubsetOrdering
<1> QED BY <1>4, <1>6, <1>7

\* What is joined of a sequence of sequences up to the k-th, and how long it is.
Upto(seqs, k) ==
  LET joined[i \in 0 .. Len(seqs)] == IF i = 0 THEN <<>> ELSE joined[i - 1] \o seqs[i]
  IN  joined[k]
Offset(seqs, k) == Len(Upto(seqs, k))

\* There is a function that joins one after the other, and Upto is it.
LEMMA UptoStep ==
  ASSUME NEW seqs, Len(seqs) \in Nat
  PROVE  /\ Upto(seqs, 0) = <<>>
         /\ \A k \in 1 .. Len(seqs) : Upto(seqs, k) = Upto(seqs, k - 1) \o seqs[k]
<1> DEFINE Next1(g, i) == g[i - 1] \o seqs[i]
           Value(g, i) == IF i = 0 THEN <<>> ELSE Next1(g, i)
           Body(g, n) == [i \in 0 .. n |-> Value(g, i)]
           N == {n \in Nat : \E g : g = Body(g, n)}
           joined == CHOOSE g : g = Body(g, Len(seqs))
<1>1. 0 \in N
  <2> DEFINE f == [i \in 0 .. 0 |-> <<>>]
  <2>1. f = Body(f, 0)
    OBVIOUS
  <2> QED BY <2>1
<1>2. \A n \in Nat : \A g : g = Body(g, n) => \E h : h = Body(h, n + 1)
  <2> SUFFICES ASSUME NEW n \in Nat, NEW g, g = Body(g, n) PROVE \E h : h = Body(h, n + 1)
    BY Zenon
  <2> DEFINE h == [i \in 0 .. n + 1 |-> IF i = n + 1 THEN Next1(g, n + 1) ELSE g[i]]
  <2>1. \A i \in 0 .. n : h[i] = g[i]
    <3> HIDE DEF Next1
    <3> QED OBVIOUS
  <2>2. h[n + 1] = Next1(g, n + 1)
    <3> HIDE DEF Next1
    <3> QED OBVIOUS
  <2>3. \A i \in 0 .. n : g[i] = Value(g, i)
    <3> HIDE DEF Value
    <3> QED OBVIOUS
  <2>4. \A i \in 1 .. n + 1 : Next1(h, i) = Next1(g, i)
    <3> SUFFICES ASSUME NEW i \in 1 .. n + 1 PROVE h[i - 1] = g[i - 1]
      OBVIOUS
    <3>1. i - 1 \in 0 .. n
      OBVIOUS
    <3> QED BY <2>1, <3>1
  <2>5. \A i \in 0 .. n + 1 : h[i] = Value(h, i)
    <3> HIDE DEF Next1, h
    <3>1. \A i \in 0 .. n + 1 : i = n + 1 \/ i \in 0 .. n
      OBVIOUS
    <3>2. \A i \in 0 .. n : Value(h, i) = Value(g, i)
      BY <2>4
    <3>3. Value(h, n + 1) = Next1(g, n + 1)
      BY <2>4
    <3> QED BY <2>1, <2>2, <2>3, <3>1, <3>2, <3>3
  <2>6. h = [i \in 0 .. n + 1 |-> h[i]]
    OBVIOUS
  <2> HIDE DEF Value, h
  <2>7. h = Body(h, n + 1)
    BY <2>5, <2>6
  <2> QED BY <2>7
<1>3. Len(seqs) \in N
  <2>1. \A n \in Nat : n \in N => n + 1 \in N
    <3> HIDE DEF Body
    <3> QED BY <1>2
  <2> HIDE DEF N
  <2> QED BY <1>1, <2>1, NatInduct
<1>4. joined = Body(joined, Len(seqs))
  BY <1>3
<1>5. \A k : Upto(seqs, k) = joined[k]
  BY DEF Upto
<1> HIDE DEF joined, Next1
<1>6. \A k \in 0 .. Len(seqs) : joined[k] = Value(joined, k)
  <2> HIDE DEF Value
  <2> QED BY <1>4
<1>7. joined[0] = <<>>
  BY <1>6
<1>8. \A k \in 1 .. Len(seqs) : joined[k] = Next1(joined, k)
  BY <1>6
<1> QED BY <1>5, <1>7, <1>8 DEF Next1

\* ... of sequences over S it makes sequences over S.
LEMMA UptoInSeq ==
  ASSUME NEW S, NEW seqs \in Seq(Seq(S))
  PROVE  \A k \in 0 .. Len(seqs) : Upto(seqs, k) \in Seq(S)
<1> DEFINE N == {k \in Nat : k <= Len(seqs) => Upto(seqs, k) \in Seq(S)}
<1>0. Len(seqs) \in Nat
  OBVIOUS
<1>1. 0 \in N
  <2>1. Upto(seqs, 0) \in Seq(S)
    BY <1>0, UptoStep, EmptySeq
  <2> QED BY <2>1
<1>2. \A k \in Nat : k \in N => k + 1 \in N
  <2> SUFFICES ASSUME NEW k \in Nat, k \in N, k + 1 <= Len(seqs)
               PROVE  Upto(seqs, k + 1) \in Seq(S)
    OBVIOUS
  <2>1. Upto(seqs, k) \in Seq(S) /\ seqs[k + 1] \in Seq(S)
    OBVIOUS
  <2>2. Upto(seqs, k + 1) = Upto(seqs, k) \o seqs[k + 1]
    <3>1. k + 1 \in 1 .. Len(seqs) /\ (k + 1) - 1 = k
      BY <1>0
    <3> QED BY <1>0, <3>1, UptoStep
  <2> QED BY <2>1, <2>2, ConcatProperties
<1>3. Nat \subseteq N
  <2> HIDE DEF N
  <2> QED BY <1>1, <1>2, NatInduct
<1> QED BY <1>3

\* A part that was joined stays where it is as more is.
LEMMA UptoPrefix ==
  ASSUME NEW S, NEW seqs \in Seq(Seq(S)), NEW k \in 0 .. Len(seqs), NEW m \in k .. Len(seqs)
  PROVE  /\ Offset(seqs, k) <= Offset(seqs, m)
         /\ \A i \in 1 .. Offset(seqs, k) : Upto(seqs, m)[i] = Upto(seqs, k)[i]
<1> DEFINE Kept(n) == /\ Offset(seqs, k) <= Offset(seqs, n)
                      /\ \A i \in 1 .. Offset(seqs, k) : Upto(seqs, n)[i] = Upto(seqs, k)[i]
           N == {n \in Nat : n \in k .. Len(seqs) => Kept(n)}
<1>0. \A n \in 0 .. Len(seqs) : Offset(seqs, n) \in Nat
  BY UptoInSeq DEF Offset
<1>1. Kept(k)
  BY <1>0
<1>2. \A n \in k .. Len(seqs) - 1 : Kept(n) => Kept(n + 1)
  <2> SUFFICES ASSUME NEW n \in k .. Len(seqs) - 1, Kept(n) PROVE Kept(n + 1)
    OBVIOUS
  <2>1. n \in 0 .. Len(seqs) /\ n + 1 \in 1 .. Len(seqs) /\ (n + 1) - 1 = n
    OBVIOUS
  <2>2. Upto(seqs, n) \in Seq(S) /\ seqs[n + 1] \in Seq(S)
    BY <2>1, UptoInSeq
  <2>3. Upto(seqs, n + 1) = Upto(seqs, n) \o seqs[n + 1]
    <3>1. Len(seqs) \in Nat
      OBVIOUS
    <3> QED BY <2>1, <3>1, UptoStep
  <2>4. /\ Len(Upto(seqs, n + 1)) = Len(Upto(seqs, n)) + Len(seqs[n + 1])
        /\ \A i \in 1 .. Len(Upto(seqs, n)) : Upto(seqs, n + 1)[i] = Upto(seqs, n)[i]
    BY ONLY <2>2, <2>3, ConcatProperties
  <2>5. Len(seqs[n + 1]) \in Nat /\ Offset(seqs, n) \in Nat /\ Offset(seqs, k) \in Nat
    BY <2>1, <2>2, <1>0
  <2> QED BY <2>4, <2>5 DEF Offset
<1>3. 0 \in N
  BY <1>1
<1>4. \A n \in Nat : n \in N => n + 1 \in N
  <2> SUFFICES ASSUME NEW n \in Nat, n \in N, n + 1 \in k .. Len(seqs) PROVE Kept(n + 1)
    OBVIOUS
  <2>1. CASE n + 1 = k
    BY <1>1, <2>1
  <2>2. CASE n \in k .. Len(seqs) - 1
    <3>1. Kept(n)
      BY <2>2
    <3> HIDE DEF Kept
    <3> QED BY <1>2, <2>2, <3>1
  <2> QED BY <2>1, <2>2
<1>5. Nat \subseteq N
  <2> HIDE DEF N
  <2> QED BY <1>3, <1>4, NatInduct
<1> QED BY <1>5

\* The library's operator joins them all.
LEMMA FlattenIsUpto ==
  ASSUME NEW S, NEW seqs \in Seq(Seq(S))
  PROVE  FlattenSeq(seqs) = Upto(seqs, Len(seqs))
<1>0. Len(seqs) \in Nat
  OBVIOUS
<1>1. CASE Len(seqs) = 0
  <2>1. seqs = <<>>
    BY <1>1
  <2> QED BY <1>0, <1>1, <2>1, UptoStep DEF FlattenSeq
<1>2. CASE Len(seqs) # 0
  <2> DEFINE Then(g, i) == g[i - 1] \o seqs[i]
             Value(g, i) == IF i = 1 THEN seqs[i] ELSE Then(g, i)
             Body(g) == [i \in 1 .. Len(seqs) |-> Value(g, i)]
             flatten == CHOOSE g : g = Body(g)
             f == [i \in 1 .. Len(seqs) |-> Upto(seqs, i)]
             At(n) == n \in 1 .. Len(seqs) => flatten[n] = Upto(seqs, n)
             N == {n \in Nat : At(n)}
  <2>1. FlattenSeq(seqs) = flatten[Len(seqs)]
    BY <1>2 DEF FlattenSeq
  <2>2. Upto(seqs, 1) = seqs[1]
    <3>1. 1 \in 1 .. Len(seqs) /\ seqs[1] \in Seq(S)
      BY <1>0, <1>2
    <3>2. Upto(seqs, 1) = Upto(seqs, 1 - 1) \o seqs[1] /\ Upto(seqs, 0) = <<>>
      BY <1>0, <3>1, UptoStep
    <3>3. Upto(seqs, 1) = <<>> \o seqs[1]
      BY ONLY <3>2, 1 - 1 = 0
    <3> QED BY ONLY <3>1, <3>3, ConcatEmptySeq
  <2>3. \A i \in 1 .. Len(seqs) : i # 1 => Upto(seqs, i) = Upto(seqs, i - 1) \o seqs[i]
    BY <1>0, UptoStep
  <2>4. f = Body(f)
    <3>1. \A i \in 1 .. Len(seqs) : f[i] = Value(f, i)
      <4> SUFFICES ASSUME NEW i \in 1 .. Len(seqs) PROVE f[i] = Value(f, i)
        OBVIOUS
      <4>1. CASE i = 1
        BY <2>2, <4>1
      <4>2. CASE i # 1
        <5>1. f[i] = Upto(seqs, i) /\ f[i - 1] = Upto(seqs, i - 1)
          BY <4>2
        <5>2. Upto(seqs, i) = Upto(seqs, i - 1) \o seqs[i]
          BY <2>3, <4>2
        <5>3. f[i] = Then(f, i)
          BY ONLY <5>1, <5>2
        <5> HIDE DEF f, Then
        <5> QED BY <4>2, <5>3
      <4> QED BY <4>1, <4>2
    <3>2. f = [i \in 1 .. Len(seqs) |-> f[i]]
      OBVIOUS
    <3> HIDE DEF f, Value
    <3> QED BY <3>1, <3>2
  <2>5. flatten = Body(flatten)
    <3> HIDE DEF f, Body
    <3> QED BY <2>4
  <2> HIDE DEF flatten
  <2>6. \A i \in 1 .. Len(seqs) : flatten[i] = Value(flatten, i)
    <3> HIDE DEF Value
    <3> QED BY <2>5
  <2>7. \A n \in Nat : n \in N => n + 1 \in N
    <3> HIDE DEF Body, Value, Then, f
    <3>1. ASSUME NEW n \in Nat, n \in 1 .. Len(seqs) => flatten[n] = Upto(seqs, n),
                 n + 1 \in 1 .. Len(seqs)
          PROVE  flatten[n + 1] = Upto(seqs, n + 1)
      <4>1. CASE n = 0
        <5>1. flatten[1] = seqs[1]
          BY <2>6, <1>0, <1>2 DEF Value
        <5> QED BY ONLY <2>2, <4>1, <5>1
      <4>2. CASE n # 0
        <5>1. n \in 1 .. Len(seqs) /\ n + 1 # 1 /\ (n + 1) - 1 = n
          BY <1>0, <3>1, <4>2
        <5>2. flatten[n] = Upto(seqs, n)
          BY <3>1, <5>1
        <5>3. flatten[n + 1] = flatten[(n + 1) - 1] \o seqs[n + 1]
          <6>1. flatten[n + 1] = Then(flatten, n + 1)
            BY <2>6, <3>1, <5>1 DEF Value
          <6> QED BY ONLY <6>1 DEF Then
        <5>4. Upto(seqs, n + 1) = Upto(seqs, (n + 1) - 1) \o seqs[n + 1]
          BY ONLY <2>3, <3>1, <5>1
        <5> QED BY ONLY <5>1, <5>2, <5>3, <5>4
      <4> QED BY <4>1, <4>2
    <3>2. \A n \in Nat : At(n) => At(n + 1)
      BY <3>1
    <3> HIDE DEF At
    <3> QED BY <3>2
  <2>8. 0 \in N
    OBVIOUS
  <2>9. Len(seqs) \in N
    <3> HIDE DEF N
    <3> QED BY <1>0, <2>7, <2>8, NatInduct
  <2> QED BY <1>0, <1>2, <2>1, <2>9
<1> QED BY <1>1, <1>2

\* Where the elements of the k-th are in the whole.
LEMMA Joining ==
  ASSUME NEW S, NEW seqs \in Seq(Seq(S))
  PROVE  /\ FlattenSeq(seqs) \in Seq(S)
         /\ Offset(seqs, 0) = 0
         /\ Offset(seqs, Len(seqs)) = Len(FlattenSeq(seqs))
         /\ \A k \in 0 .. Len(seqs) :
              Offset(seqs, k) \in Nat /\ Offset(seqs, k) <= Len(FlattenSeq(seqs))
         /\ \A k \in 1 .. Len(seqs) :
              /\ Offset(seqs, k) = Offset(seqs, k - 1) + Len(seqs[k])
              /\ \A i \in 1 .. Len(seqs[k]) :
                   FlattenSeq(seqs)[Offset(seqs, k - 1) + i] = seqs[k][i]
<1>0. Len(seqs) \in Nat
  OBVIOUS
<1>1. FlattenSeq(seqs) = Upto(seqs, Len(seqs))
  BY FlattenIsUpto
<1>2. \A k \in 0 .. Len(seqs) : Upto(seqs, k) \in Seq(S)
  BY UptoInSeq
<1>3. FlattenSeq(seqs) \in Seq(S)
  BY <1>0, <1>1, <1>2
<1>4. Offset(seqs, 0) = 0 /\ Offset(seqs, Len(seqs)) = Len(FlattenSeq(seqs))
  <2>1. Upto(seqs, 0) = <<>>
    BY <1>0, UptoStep
  <2> QED BY <1>1, <2>1 DEF Offset
<1>5. ASSUME NEW k \in 0 .. Len(seqs)
      PROVE  Offset(seqs, k) \in Nat /\ Offset(seqs, k) <= Len(FlattenSeq(seqs))
  <2>1. Len(seqs) \in k .. Len(seqs)
    BY <1>0
  <2>2. Offset(seqs, k) \in Nat
    BY <1>2 DEF Offset
  <2>3. Offset(seqs, k) <= Offset(seqs, Len(seqs))
    BY <2>1, UptoPrefix
  <2> QED BY <1>4, <2>2, <2>3
<1>6. ASSUME NEW k \in 1 .. Len(seqs)
      PROVE  /\ Offset(seqs, k) = Offset(seqs, k - 1) + Len(seqs[k])
             /\ \A i \in 1 .. Len(seqs[k]) :
                  FlattenSeq(seqs)[Offset(seqs, k - 1) + i] = seqs[k][i]
  <2>0. k \in 0 .. Len(seqs) /\ k - 1 \in 0 .. Len(seqs) /\ Len(seqs) \in k .. Len(seqs)
    BY <1>0
  <2>1. Upto(seqs, k - 1) \in Seq(S) /\ seqs[k] \in Seq(S)
    BY <1>2, <2>0
  <2>2. Upto(seqs, k) = Upto(seqs, k - 1) \o seqs[k]
    BY <1>0, UptoStep
  <2> DEFINE a == Upto(seqs, k - 1)
             b == seqs[k]
             c == Upto(seqs, k)
  <2>3. /\ Len(c) = Len(a) + Len(b)
        /\ \A i \in 1 .. Len(a) + Len(b) : c[i] = IF i <= Len(a) THEN a[i] ELSE b[i - Len(a)]
    <3>1. c = a \o b /\ a \in Seq(S) /\ b \in Seq(S)
      BY ONLY <2>1, <2>2
    <3> HIDE DEF a, b, c
    <3> QED BY ONLY <3>1, ConcatProperties
  <2>3a. /\ Offset(seqs, k) = Offset(seqs, k - 1) + Len(seqs[k])
        /\ \A i \in 1 .. Offset(seqs, k - 1) + Len(seqs[k]) :
             Upto(seqs, k)[i] = IF i <= Offset(seqs, k - 1) THEN Upto(seqs, k - 1)[i]
                                ELSE seqs[k][i - Offset(seqs, k - 1)]
    BY <2>3 DEF Offset
  <2>4. \A i \in 1 .. Offset(seqs, k) : FlattenSeq(seqs)[i] = Upto(seqs, k)[i]
    BY <1>1, <2>0, UptoPrefix
  <2>5. Offset(seqs, k - 1) \in Nat /\ Len(seqs[k]) \in Nat
    BY <1>5, <2>0, <2>1
  <2>6. ASSUME NEW i \in 1 .. Len(seqs[k])
        PROVE  FlattenSeq(seqs)[Offset(seqs, k - 1) + i] = seqs[k][i]
    <3> DEFINE o == Offset(seqs, k - 1)
    <3> HIDE DEF o
    <3>1. o + i \in 1 .. o + Len(seqs[k]) /\ ~ (o + i <= o) /\ (o + i) - o = i
      BY <2>5 DEF o
    <3>2. Upto(seqs, k)[o + i] = seqs[k][i]
      BY ONLY <2>3a, <3>1 DEF o
    <3>3. FlattenSeq(seqs)[o + i] = Upto(seqs, k)[o + i]
      BY ONLY <2>3a, <2>4, <3>1 DEF o
    <3> QED BY ONLY <3>2, <3>3 DEF o
  <2> QED BY <2>3a, <2>6
<1> QED BY <1>3, <1>4, <1>5, <1>6

\* Joining one more appends its elements.
LEMMA FlattenAppend ==
  ASSUME NEW S, NEW seqs \in Seq(Seq(S)), NEW s \in Seq(S)
  PROVE  FlattenSeq(Append(seqs, s)) = FlattenSeq(seqs) \o s
<1> DEFINE more == Append(seqs, s)
           N == {n \in Nat : n <= Len(seqs) => Upto(more, n) = Upto(seqs, n)}
<1>1. /\ more \in Seq(Seq(S)) /\ Len(more) = Len(seqs) + 1
      /\ \A i \in 1 .. Len(seqs) : more[i] = seqs[i]
      /\ more[Len(seqs) + 1] = s
  BY AppendProperties
<1>2. Len(seqs) \in Nat /\ Len(more) \in Nat
  BY <1>1
<1> HIDE DEF more
<1>3. 0 \in N
  <2>1. Upto(more, 0) = <<>> /\ Upto(seqs, 0) = <<>>
    BY <1>2, UptoStep
  <2> QED BY <2>1
<1>4. \A n \in Nat : n \in N => n + 1 \in N
  <2> SUFFICES ASSUME NEW n \in Nat, n \in N, n + 1 <= Len(seqs)
               PROVE  Upto(more, n + 1) = Upto(seqs, n + 1)
    OBVIOUS
  <2>1. n + 1 \in 1 .. Len(seqs) /\ n + 1 \in 1 .. Len(more) /\ (n + 1) - 1 = n
    BY <1>1, <1>2
  <2>2. Upto(more, n) = Upto(seqs, n)
    BY <1>2
  <2>3. Upto(more, n + 1) = Upto(more, n) \o more[n + 1]
    BY ONLY <1>2, <2>1, UptoStep
  <2>4. Upto(seqs, n + 1) = Upto(seqs, n) \o seqs[n + 1]
    BY ONLY <1>2, <2>1, UptoStep
  <2>5. more[n + 1] = seqs[n + 1]
    BY <1>1, <2>1
  <2> QED BY ONLY <2>2, <2>3, <2>4, <2>5
<1>5. Upto(more, Len(seqs)) = Upto(seqs, Len(seqs))
  <2>1. Nat \subseteq N
    <3> HIDE DEF N
    <3> QED BY <1>3, <1>4, NatInduct
  <2> QED BY <1>2, <2>1
<1>6. Upto(more, Len(more)) = Upto(more, Len(seqs)) \o s
  <2>1. Len(more) \in 1 .. Len(more) /\ Len(more) - 1 = Len(seqs) /\ more[Len(more)] = s
    BY <1>1, <1>2
  <2>2. Upto(more, Len(more)) = Upto(more, Len(more) - 1) \o more[Len(more)]
    BY ONLY <1>2, <2>1, UptoStep
  <2> QED BY ONLY <2>1, <2>2
<1>7. FlattenSeq(more) = Upto(more, Len(more)) /\ FlattenSeq(seqs) = Upto(seqs, Len(seqs))
  BY <1>1, FlattenIsUpto
<1> QED BY ONLY <1>5, <1>6, <1>7 DEF more

(***************************************************************************)
(* The directory of a data script: what its inputs yield                   *)
(***************************************************************************)

\* Per checkpoint that a root runs, per root and per file, the samples there are.
Seen(r) == {c \in DOMAIN r : \A b \in 1 .. c - 1 : ~r[b].converged}
CheckpointsYield(r) == [c \in Seen(r) |-> r[c].samples]
RootsYield(d) == [r \in DOMAIN d |-> OfRoot(d[r])]
FilesYield(fs) == [i \in DOMAIN fs |-> fs[i].samples]

Roots == Seq(Checkpoints) \ {<<>>}
OutputFiles == [whole : BOOLEAN, samples : Seq(Samples)]

\* The checkpoints a root runs are the first ones.
LEMMA SeenIsPrefix ==
  ASSUME NEW r \in Roots
  PROVE  \E k \in Nat : Seen(r) = 1 .. k
<1> DEFINE Open(c) == \A b \in 1 .. c - 1 : ~r[b].converged
           First(n) == {c \in 1 .. n : Open(c)}
           Good(n) == \E k \in Nat : First(n) = 1 .. k
           N == {n \in Nat : Good(n)}
<1>0. Len(r) \in Nat /\ DOMAIN r = 1 .. Len(r)
  BY DEF Roots
<1>1. 0 \in N
  <2>1. First(0) = 1 .. 0
    OBVIOUS
  <2> QED BY <2>1
<1>2. ASSUME NEW n \in Nat, Good(n) PROVE Good(n + 1)
  <2>0. PICK k \in Nat : First(n) = 1 .. k
    BY <1>2
  <2>1. CASE Open(n + 1)
    <3>1. \A c \in 1 .. n + 1 : Open(c)
      BY <2>1
    <3>2. First(n + 1) = 1 .. n + 1
      BY <3>1
    <3> QED BY <3>2
  <2>2. CASE ~Open(n + 1)
    <3> HIDE DEF Open
    <3>1. First(n + 1) = First(n)
      BY <2>2
    <3> HIDE DEF First
    <3> QED BY <2>0, <3>1
  <2> QED BY <2>1, <2>2
<1>3. Len(r) \in N
  <2>1. \A n \in Nat : n \in N => n + 1 \in N
    <3> HIDE DEF Good
    <3> QED BY <1>2
  <2> HIDE DEF N
  <2> QED BY <1>0, <1>1, <2>1, NatInduct
<1>4. Seen(r) = First(Len(r))
  BY <1>0 DEF Seen
<1> QED BY <1>3, <1>4

\* ... the last of which converged, or is the root's last.
LEMMA CheckpointsOfRoot ==
  ASSUME NEW r \in Roots
  PROVE  /\ CheckpointsYield(r) \in Seq(Seq(Samples))
         /\ OfRoot(r) = FlattenSeq(CheckpointsYield(r))
         /\ Seen(r) = 1 .. Len(CheckpointsYield(r)) /\ 1 \in Seen(r)
         /\ \A c \in Seen(r) :
              /\ c \in 1 .. Len(r)
              /\ r[c] \in Checkpoints /\ CheckpointsYield(r)[c] = r[c].samples
              /\ IF r[c].converged \/ c = Len(r) THEN c = Len(CheckpointsYield(r))
                 ELSE c + 1 \in Seen(r)
<1>0. /\ Len(r) \in Nat \ {0} /\ DOMAIN r = 1 .. Len(r)
      /\ \A c \in 1 .. Len(r) : r[c] \in Checkpoints /\ r[c].samples \in Seq(Samples)
  <2>1. r \in Seq(Checkpoints) /\ r # <<>>
    BY DEF Roots
  <2>2. Len(r) \in Nat \ {0} /\ DOMAIN r = 1 .. Len(r)
    BY <2>1
  <2>3. \A c \in 1 .. Len(r) : r[c] \in Checkpoints
    BY <2>1
  <2> QED BY <2>2, <2>3 DEF Checkpoints
<1>1. PICK k \in Nat : Seen(r) = 1 .. k
  BY SeenIsPrefix
<1>2. Seen(r) \subseteq 1 .. Len(r) /\ 1 \in Seen(r)
  BY <1>0 DEF Seen
<1>3. CheckpointsYield(r) \in Seq(Seq(Samples)) /\ Len(CheckpointsYield(r)) = k
  <2> DEFINE y == [c \in 1 .. k |-> r[c].samples]
  <2>1. \A c \in 1 .. k : r[c].samples \in Seq(Samples)
    BY <1>0, <1>1, <1>2
  <2>2. y \in [1 .. k -> Seq(Samples)]
    BY <2>1
  <2>3. CheckpointsYield(r) = y
    BY <1>1 DEF CheckpointsYield
  <2> HIDE DEF y
  <2> QED BY <2>2, <2>3
<1>4. OfRoot(r) = FlattenSeq(CheckpointsYield(r))
  BY DEF OfRoot, CheckpointsYield, Seen
<1>5. ASSUME NEW c \in Seen(r)
      PROVE  /\ c \in 1 .. Len(r)
             /\ r[c] \in Checkpoints /\ CheckpointsYield(r)[c] = r[c].samples
             /\ IF r[c].converged \/ c = Len(r) THEN c = Len(CheckpointsYield(r))
                ELSE c + 1 \in Seen(r)
  <2>1. c \in 1 .. Len(r) /\ c \in 1 .. k /\ k \in Seen(r) /\ k \in 1 .. Len(r)
    BY <1>0, <1>1, <1>2
  <2>2. \A b \in 1 .. c - 1 : ~r[b].converged
    BY DEF Seen
  <2>3. \A b \in 1 .. k - 1 : ~r[b].converged
    BY <2>1 DEF Seen
  <2>4. CASE r[c].converged \/ c = Len(r)
    <3>1. r[c].converged => ~(c \in 1 .. k - 1)
      BY <2>3
    <3>2. c = k
      <4>1. c \in Int /\ k \in Int /\ 1 <= c /\ c <= k /\ k <= Len(r) /\ Len(r) \in Int
        BY <1>0, <2>1
      <4>2. CASE r[c].converged
        <5>1. ~(c \in 1 .. k - 1)
          BY <3>1, <4>2
        <5> QED BY ONLY <4>1, <5>1
      <4>3. CASE c = Len(r)
        BY ONLY <4>1, <4>3
      <4> QED BY <2>4, <4>2, <4>3
    <3> QED BY <1>0, <1>3, <2>1, <2>4, <3>2 DEF CheckpointsYield
  <2>5. CASE ~(r[c].converged \/ c = Len(r))
    <3>1. c + 1 \in DOMAIN r
      <4>1. c \in 1 .. Len(r) /\ c # Len(r) /\ Len(r) \in Nat
        BY <1>0, <2>1, <2>5
      <4>2. c + 1 \in 1 .. Len(r)
        BY ONLY <4>1
      <4> QED BY <1>0, <4>2
    <3>2. \A b \in 1 .. (c + 1) - 1 : b = c \/ b \in 1 .. c - 1
      BY <2>1
    <3>3. \A b \in 1 .. (c + 1) - 1 : ~r[b].converged
      BY <2>2, <2>5, <3>2
    <3>4. c + 1 \in Seen(r)
      BY <3>1, <3>3 DEF Seen
    <3> QED BY <1>0, <2>1, <2>5, <3>4 DEF CheckpointsYield
  <2> QED BY <2>4, <2>5
<1> QED BY <1>1, <1>2, <1>3, <1>4, <1>5

\* What the roots yield, and what the files hold, are sequences of samples.
LEMMA RootsYieldSeq ==
  ASSUME NEW d \in Seq(Roots)
  PROVE  /\ RootsYield(d) \in Seq(Seq(Samples)) /\ Len(RootsYield(d)) = Len(d)
         /\ \A i \in 1 .. Len(d) : RootsYield(d)[i] = OfRoot(d[i])
<1>1. \A i \in 1 .. Len(d) : d[i] \in Roots
  OBVIOUS
<1>2. \A i \in 1 .. Len(d) : OfRoot(d[i]) \in Seq(Samples)
  <2> SUFFICES ASSUME NEW r \in Roots PROVE OfRoot(r) \in Seq(Samples)
    BY <1>1
  <2>1. CheckpointsYield(r) \in Seq(Seq(Samples))
    BY CheckpointsOfRoot
  <2>2. FlattenSeq(CheckpointsYield(r)) \in Seq(Samples)
    BY <2>1, Joining
  <2> QED BY <2>2, CheckpointsOfRoot
<1>3. Len(d) \in Nat /\ DOMAIN d = 1 .. Len(d)
  OBVIOUS
<1>4. RootsYield(d) \in [1 .. Len(d) -> Seq(Samples)]
  BY <1>2, <1>3 DEF RootsYield
<1>5. RootsYield(d) \in Seq(Seq(Samples)) /\ Len(RootsYield(d)) = Len(d)
  BY <1>3, <1>4
<1> QED BY <1>3, <1>5 DEF RootsYield

LEMMA FilesYieldSeq ==
  ASSUME NEW fs \in Seq(OutputFiles)
  PROVE  /\ FilesYield(fs) \in Seq(Seq(Samples)) /\ Len(FilesYield(fs)) = Len(fs)
         /\ \A i \in 1 .. Len(fs) : FilesYield(fs)[i] = fs[i].samples
         /\ Collected(fs) = FlattenSeq(FilesYield(fs))
<1>1. Len(fs) \in Nat /\ DOMAIN fs = 1 .. Len(fs)
  OBVIOUS
<1>2. \A i \in 1 .. Len(fs) : fs[i].samples \in Seq(Samples)
  <2>1. \A i \in 1 .. Len(fs) : fs[i] \in OutputFiles
    OBVIOUS
  <2> QED BY <2>1 DEF OutputFiles
<1>3. FilesYield(fs) \in [1 .. Len(fs) -> Seq(Samples)]
  BY <1>1, <1>2 DEF FilesYield
<1>4. FilesYield(fs) \in Seq(Seq(Samples)) /\ Len(FilesYield(fs)) = Len(fs)
  BY <1>1, <1>3
<1> QED BY <1>1, <1>4 DEF FilesYield, Collected

(***************************************************************************)
(* ... and the invariant of a run                                          *)
(***************************************************************************)

\* What the inputs of a stage yield, and what it is to write of that.
YieldsOf(s, d, fs) == IF s = 1 THEN RootsYield(d) ELSE FilesYield(fs)
PromisedOf(s, d, fs, most) ==
  LET all == FlattenSeq(YieldsOf(s, d, fs))
  IN  IF s = 1 THEN all ELSE SubSeq(all, 1, IF most < Len(all) THEN most ELSE Len(all))

\* ... in the running script, and how many samples of it were taken.
Yields == YieldsOf(stage, dataset, files[1])
All == FlattenSeq(Yields)
TakenOf(ys, s, d, r, c) ==
  Offset(ys, r - 1)
    + IF s = 1 /\ r \in DOMAIN d THEN Offset(CheckpointsYield(d[r]), c - 1) ELSE 0
Taken == TakenOf(Yields, stage, dataset, root, checkpoint)

PerFile == args.perFile[stage]

ScriptTypeOK ==
  /\ dataset \in Datasets /\ args \in Arguments
  /\ stage \in {1, 2} /\ step \in Running \cup {"raised", "crashed", "done"}
  /\ root \in Nat \ {0} /\ checkpoint \in Nat \ {0}
  /\ pending \in Seq(Samples) /\ buffer \in Seq(Samples)
  /\ index \in Nat /\ generated \in Nat
  /\ files \in [{1, 2} -> Seq(OutputFiles)]

\* No file is one too many, whatever run left it.
DirectoryOK ==
  /\ stage = 1 => files[2] = <<>>
  /\ files[stage] /= <<>> => (Len(files[stage]) - 1) * PerFile < Len(Promised(stage))

\* The loops run through the inputs, and hold what comes next of them.
LoopsOK ==
  /\ root <= Len(Yields) + 1
  /\ stage = 1 /\ root \in DOMAIN dataset => checkpoint \in Seen(dataset[root])
  /\ step = "fetch" => pending = <<>>
  /\ stage = 2 => generated <= args.maxSamples
  /\ generated + Len(pending) <= Len(All)
  /\ \A i \in 1 .. Len(pending) : pending[i] = All[generated + i]
  /\ ~Enough => generated + Len(pending) = Taken

Ended == NoMoreInput /\ pending = <<>>

\* The buffer holds the last samples generated, and all but the last of the files
\* written before are full.
BufferOK ==
  /\ Len(buffer) <= PerFile
  /\ step \in {"fetch", "append"} => Len(buffer) < PerFile
  /\ step \in {"flush", "write"} => buffer /= <<>> /\ (Len(buffer) = PerFile \/ Ended)
  /\ \/ generated = index * PerFile + Len(buffer)
     \/ generated < index * PerFile /\ buffer = <<>> /\ Ended

Written(fs, n) == [i \in 1 .. n |-> fs[i].samples]
Flat == FlattenSeq(Written(files[stage], index))

\* What was written and what is in the buffer is what was promised, so far.
WrittenOK ==
  /\ index <= Len(files[stage])
  /\ step = "write" => index < Len(files[stage])
  /\ \A i \in 1 .. index :
       /\ files[stage][i].whole
       /\ i < index \/ buffer /= <<>> \/ ~Ended => Len(files[stage][i].samples) = PerFile
  /\ Len(Flat) + Len(buffer) = generated
  /\ \A i \in 1 .. Len(Flat) : Flat[i] = Promised(stage)[i]
  /\ \A i \in 1 .. Len(buffer) : buffer[i] = Promised(stage)[Len(Flat) + i]

RunOK == step \in Running => LoopsOK /\ BufferOK /\ WrittenOK

ScriptIInv == ScriptTypeOK /\ DirectoryOK /\ RunOK /\ FinishedRunComplete

(***************************************************************************)
(* Facts of one state                                                      *)
(***************************************************************************)

\* A dataset is a sequence of roots.
LEMMA DatasetSeq ==
  ASSUME NEW d \in Datasets
  PROVE  d \in Seq(Roots) /\ Len(d) \in Nat /\ DOMAIN d = 1 .. Len(d)
<1>1. d \in Seq(Roots)
  BY DataFilesAssumption DEF Roots
<1> QED BY <1>1

LEMMA YieldsTyped ==
  ASSUME NEW s \in {1, 2}, NEW d \in Datasets, NEW fs \in Seq(OutputFiles)
  PROVE  /\ YieldsOf(s, d, fs) \in Seq(Seq(Samples))
         /\ FlattenSeq(YieldsOf(s, d, fs)) \in Seq(Samples)
         /\ Len(YieldsOf(s, d, fs)) \in Nat /\ Len(FlattenSeq(YieldsOf(s, d, fs))) \in Nat
         /\ Len(YieldsOf(s, d, fs)) = IF s = 1 THEN Len(d) ELSE Len(fs)
<1>1. CASE s = 1
  <2>1. YieldsOf(s, d, fs) = RootsYield(d)
    BY <1>1 DEF YieldsOf
  <2>2. RootsYield(d) \in Seq(Seq(Samples)) /\ Len(RootsYield(d)) = Len(d)
    BY DatasetSeq, RootsYieldSeq
  <2>3. FlattenSeq(RootsYield(d)) \in Seq(Samples)
    BY <2>2, Joining
  <2>4. Len(RootsYield(d)) \in Nat /\ Len(FlattenSeq(RootsYield(d))) \in Nat
    BY <2>2, <2>3
  <2> QED BY <1>1, <2>1, <2>2, <2>3, <2>4
<1>2. CASE s = 2
  <2>1. YieldsOf(s, d, fs) = FilesYield(fs)
    BY <1>2 DEF YieldsOf
  <2>2. FilesYield(fs) \in Seq(Seq(Samples)) /\ Len(FilesYield(fs)) = Len(fs)
    BY FilesYieldSeq
  <2>3. FlattenSeq(FilesYield(fs)) \in Seq(Samples)
    BY <2>2, Joining
  <2>4. Len(FilesYield(fs)) \in Nat /\ Len(FlattenSeq(FilesYield(fs))) \in Nat
    BY <2>2, <2>3
  <2> QED BY <1>2, <2>1, <2>2, <2>3, <2>4
<1> QED BY <1>1, <1>2

LEMMA PromisedTyped ==
  ASSUME NEW s \in {1, 2}, NEW d \in Datasets, NEW fs \in Seq(OutputFiles), NEW most \in Nat
  PROVE  LET all == FlattenSeq(YieldsOf(s, d, fs))
             p == PromisedOf(s, d, fs, most)
         IN  /\ p \in Seq(Samples)
             /\ Len(p) = IF s = 2 /\ most < Len(all) THEN most ELSE Len(all)
             /\ \A i \in 1 .. Len(p) : p[i] = all[i]
<1> DEFINE all == FlattenSeq(YieldsOf(s, d, fs))
           p == PromisedOf(s, d, fs, most)
           n == IF most < Len(all) THEN most ELSE Len(all)
           Typed == /\ p \in Seq(Samples)
                    /\ Len(p) = IF s = 2 /\ most < Len(all) THEN most ELSE Len(all)
                    /\ \A i \in 1 .. Len(p) : p[i] = all[i]
<1>1. all \in Seq(Samples) /\ Len(all) \in Nat
  BY YieldsTyped
<1>2. ASSUME s = 1 PROVE Typed
  <2>1. p = all
    BY <1>2 DEF PromisedOf
  <2> HIDE DEF all, p
  <2> QED BY <1>1, <1>2, <2>1 DEF Typed
<1>3. ASSUME s = 2 PROVE Typed
  <2>1. p = SubSeq(all, 1, n)
    BY <1>3 DEF PromisedOf
  <2> HIDE DEF all, p
  <2>2. n \in Nat /\ n <= Len(all) /\ n \in Int
    BY <1>1
  <2>3. \A i \in 1 .. n : all[i] \in Samples
    BY <1>1, <2>2
  <2>4. /\ SubSeq(all, 1, n) \in Seq(Samples)
        /\ Len(SubSeq(all, 1, n)) = IF 1 <= n THEN n - 1 + 1 ELSE 0
        /\ \A i \in 1 .. n - 1 + 1 : SubSeq(all, 1, n)[i] = all[1 + i - 1]
    <3> HIDE DEF n
    <3> QED BY <2>2, <2>3, SubSeqProperties
  <2>5. Len(p) = n /\ \A i \in 1 .. n : p[i] = all[i]
    <3> HIDE DEF n
    <3>1. n - 1 + 1 = n /\ \A i \in 1 .. n : 1 + i - 1 = i
      BY <2>2
    <3> QED BY <2>1, <2>2, <2>4, <3>1
  <2> QED BY <1>3, <2>1, <2>4, <2>5 DEF Typed
<1> QED BY <1>2, <1>3 DEF Typed

\* What FinishedRunComplete calls promised is that.
LEMMA PromisedIs ==
  ASSUME ScriptTypeOK
  PROVE  Promised(stage) = PromisedOf(stage, dataset, files[1], args.maxSamples)
<1>1. stage \in {1, 2} /\ files[1] \in Seq(OutputFiles)
  BY DEF ScriptTypeOK
<1>2. FlattenSeq(RootsYield(dataset)) = FlattenSeq([r \in DOMAIN dataset |-> OfRoot(dataset[r])])
  BY DEF RootsYield
<1>3. Collected(files[1]) = FlattenSeq(FilesYield(files[1]))
  BY <1>1, FilesYieldSeq
<1> QED BY <1>1, <1>2, <1>3 DEF Promised, PromisedOf, YieldsOf

\* The samples of a checkpoint are the next to be taken, and then are.
LEMMA CheckpointTaken ==
  ASSUME NEW d \in Datasets, NEW fs \in Seq(OutputFiles), NEW ys, ys = YieldsOf(1, d, fs),
         NEW r \in DOMAIN d, NEW c \in Seen(d[r]), NEW t, t = TakenOf(ys, 1, d, r, c),
         NEW n, n = d[r][c].samples
  PROVE  /\ n \in Seq(Samples) /\ t \in Nat /\ t + Len(n) <= Len(FlattenSeq(ys))
         /\ \A i \in 1 .. Len(n) : FlattenSeq(ys)[t + i] = n[i]
         /\ IF d[r][c].converged \/ c = Len(d[r])
            THEN TakenOf(ys, 1, d, r + 1, 1) = t + Len(n)
            ELSE c + 1 \in Seen(d[r]) /\ TakenOf(ys, 1, d, r, c + 1) = t + Len(n)
<1> DEFINE root1 == d[r]
           cs == CheckpointsYield(root1)
           before == Offset(ys, r - 1)
           within == Offset(cs, c - 1)
           all == FlattenSeq(ys)
           mine == FlattenSeq(cs)
<1>1. /\ d \in Seq(Roots) /\ Len(d) \in Nat /\ DOMAIN d = 1 .. Len(d)
      /\ root1 \in Roots /\ r \in 1 .. Len(d)
  BY DatasetSeq
<1>2. /\ ys \in Seq(Seq(Samples)) /\ Len(ys) = Len(d) /\ ys[r] = mine
  <2>1. ys = RootsYield(d)
    BY DEF YieldsOf
  <2>2. OfRoot(root1) = mine
    BY <1>1, CheckpointsOfRoot
  <2> QED BY <1>1, <2>1, <2>2, RootsYieldSeq
<1>3. /\ cs \in Seq(Seq(Samples)) /\ Len(cs) \in Nat /\ c \in 1 .. Len(cs) /\ cs[c] = n
      /\ c \in 1 .. Len(root1) /\ root1[c] \in Checkpoints
      /\ IF root1[c].converged \/ c = Len(root1) THEN c = Len(cs) ELSE c + 1 \in Seen(root1)
  <2> HIDE DEF cs, root1
  <2>1. /\ CheckpointsYield(root1) \in Seq(Seq(Samples)) /\ c \in Seen(root1)
        /\ Seen(root1) = 1 .. Len(CheckpointsYield(root1))
    BY <1>1, CheckpointsOfRoot DEF root1
  <2>2. /\ c \in 1 .. Len(root1)
        /\ root1[c] \in Checkpoints /\ CheckpointsYield(root1)[c] = root1[c].samples
        /\ IF root1[c].converged \/ c = Len(root1) THEN c = Len(CheckpointsYield(root1))
           ELSE c + 1 \in Seen(root1)
    BY ONLY <1>1, <2>1, CheckpointsOfRoot
  <2> QED BY <2>1, <2>2 DEF cs, root1
<1> HIDE DEF root1
<1>4. n \in Seq(Samples) /\ Len(n) \in Nat
  BY <1>3
<1>5. /\ before \in Nat /\ before + Len(mine) = Offset(ys, r)
      /\ Offset(ys, r) \in Nat /\ Offset(ys, r) <= Len(all)
      /\ \A j \in 1 .. Len(mine) : all[before + j] = mine[j]
  <2>1. r \in 1 .. Len(ys) /\ r - 1 \in 0 .. Len(ys) /\ r \in 0 .. Len(ys)
    BY <1>1, <1>2
  <2> QED BY ONLY <1>2, <2>1, Joining DEF before, mine, all
<1>6. /\ within \in Nat /\ within + Len(n) = Offset(cs, c)
      /\ Offset(cs, c) \in Nat /\ Offset(cs, c) <= Len(mine)
      /\ \A i \in 1 .. Len(n) : mine[within + i] = n[i]
      /\ mine \in Seq(Samples) /\ Len(mine) \in Nat /\ Offset(cs, Len(cs)) = Len(mine)
  <2>1. c \in 1 .. Len(cs) /\ c - 1 \in 0 .. Len(cs) /\ c \in 0 .. Len(cs)
    BY <1>3
  <2> HIDE DEF cs
  <2>2. mine \in Seq(Samples) /\ Offset(cs, Len(cs)) = Len(mine)
    BY ONLY <1>3, Joining DEF mine
  <2>3. /\ Offset(cs, c - 1) \in Nat /\ Offset(cs, c - 1) + Len(cs[c]) = Offset(cs, c)
        /\ Offset(cs, c) \in Nat /\ Offset(cs, c) <= Len(FlattenSeq(cs))
        /\ \A i \in 1 .. Len(cs[c]) : FlattenSeq(cs)[Offset(cs, c - 1) + i] = cs[c][i]
    BY ONLY <1>3, <2>1, Joining
  <2> QED BY <1>3, <2>2, <2>3 DEF mine, within
<1>7. t = before + within
  BY <1>1 DEF TakenOf, root1
<1> HIDE DEF before, within, all, mine, cs
<1>8. Len(all) \in Nat
  BY <1>2, Joining DEF all
<1>9. t \in Nat /\ t + Len(n) <= Len(all)
  BY ONLY <1>4, <1>5, <1>6, <1>7, <1>8
<1>10. \A i \in 1 .. Len(n) : all[t + i] = n[i]
  <2> SUFFICES ASSUME NEW i \in 1 .. Len(n) PROVE all[t + i] = n[i]
    OBVIOUS
  <2>1. within + i \in 1 .. Len(mine) /\ before + (within + i) = t + i
    BY ONLY <1>4, <1>5, <1>6, <1>7, i \in 1 .. Len(n)
  <2> QED BY ONLY <1>5, <1>6, <2>1, i \in 1 .. Len(n)
<1>11. ASSUME root1[c].converged \/ c = Len(root1)
       PROVE  TakenOf(ys, 1, d, r + 1, 1) = t + Len(n)
  <2>1. within + Len(n) = Len(mine)
    BY <1>3, <1>6, <1>11
  <2>2. TakenOf(ys, 1, d, r + 1, 1) = Offset(ys, r)
    <3>1. (r + 1) - 1 = r /\ 1 - 1 = 0
      BY <1>1
    <3>2. ASSUME r + 1 \in DOMAIN d PROVE Offset(CheckpointsYield(d[r + 1]), 0) = 0
      <4>1. d[r + 1] \in Roots
        BY <1>1, <3>2
      <4> QED BY <4>1, CheckpointsOfRoot, Joining
    <3>3. Offset(ys, r) + 0 = Offset(ys, r)
      BY <1>5
    <3> QED BY <3>1, <3>2, <3>3 DEF TakenOf
  <2> QED BY ONLY <1>4, <1>5, <1>6, <1>7, <2>1, <2>2
<1>12. ASSUME ~(root1[c].converged \/ c = Len(root1))
       PROVE  c + 1 \in Seen(root1) /\ TakenOf(ys, 1, d, r, c + 1) = t + Len(n)
  <2>1. c + 1 \in Seen(root1)
    BY <1>3, <1>12
  <2>2. (c + 1) - 1 = c
    BY <1>3
  <2>3. TakenOf(ys, 1, d, r, c + 1) = before + Offset(cs, c)
    BY <1>1, <2>2 DEF TakenOf, before, cs, root1
  <2> QED BY ONLY <1>4, <1>5, <1>6, <1>7, <2>1, <2>3
<1> QED BY <1>4, <1>9, <1>10, <1>11, <1>12 DEF all, root1

\* ... and so are the samples of a file.
LEMMA FileTaken ==
  ASSUME NEW d \in Datasets, NEW fs \in Seq(OutputFiles), NEW ys, ys = YieldsOf(2, d, fs),
         NEW r \in 1 .. Len(fs), NEW c, NEW t, t = TakenOf(ys, 2, d, r, c),
         NEW n, n = fs[r].samples
  PROVE  /\ n \in Seq(Samples) /\ t \in Nat /\ t + Len(n) <= Len(FlattenSeq(ys))
         /\ \A i \in 1 .. Len(n) : FlattenSeq(ys)[t + i] = n[i]
         /\ TakenOf(ys, 2, d, r + 1, c) = t + Len(n)
<1>1. ys \in Seq(Seq(Samples)) /\ Len(ys) = Len(fs) /\ ys[r] = n
  <2>1. ys = FilesYield(fs)
    BY DEF YieldsOf
  <2>2. FilesYield(fs) \in Seq(Seq(Samples)) /\ Len(FilesYield(fs)) = Len(fs)
    BY FilesYieldSeq
  <2>3. FilesYield(fs)[r] = n
    BY FilesYieldSeq
  <2> QED BY <2>1, <2>2, <2>3
<1>2. r \in 1 .. Len(ys) /\ r - 1 \in 0 .. Len(ys) /\ r \in 0 .. Len(ys) /\ (r + 1) - 1 = r
  BY <1>1
<1>3. /\ Offset(ys, r - 1) \in Nat /\ Offset(ys, r) = Offset(ys, r - 1) + Len(n)
      /\ Offset(ys, r) \in Nat /\ Offset(ys, r) <= Len(FlattenSeq(ys))
      /\ \A i \in 1 .. Len(n) : FlattenSeq(ys)[Offset(ys, r - 1) + i] = n[i]
  BY ONLY <1>1, <1>2, Joining
<1>4. t = Offset(ys, r - 1) /\ TakenOf(ys, 2, d, r + 1, c) = Offset(ys, r)
  BY <1>2, <1>3 DEF TakenOf
<1>5. n \in Seq(Samples)
  BY <1>1, <1>2
<1> QED BY ONLY <1>3, <1>4, <1>5

\* Nothing is taken at the start, and everything at the end.
LEMMA TakenEnds ==
  ASSUME NEW s \in {1, 2}, NEW d \in Datasets, NEW fs \in Seq(OutputFiles),
         NEW ys, ys = YieldsOf(s, d, fs)
  PROVE  /\ TakenOf(ys, s, d, 1, 1) = 0
         /\ \A c : TakenOf(ys, s, d, Len(ys) + 1, c) = Len(FlattenSeq(ys))
<1>1. ys \in Seq(Seq(Samples)) /\ Len(ys) \in Nat /\ (s = 1 => Len(ys) = Len(d))
  BY YieldsTyped
<1>2. Offset(ys, 0) = 0 /\ Offset(ys, Len(ys)) = Len(FlattenSeq(ys))
  BY <1>1, Joining
<1>3. d \in Seq(Roots) /\ DOMAIN d = 1 .. Len(d)
  BY DatasetSeq
<1>4. TakenOf(ys, s, d, 1, 1) = 0
  <2>1. ASSUME 1 \in DOMAIN d PROVE Offset(CheckpointsYield(d[1]), 0) = 0
    <3>1. d[1] \in Roots
      BY <1>3, <2>1
    <3> QED BY <3>1, CheckpointsOfRoot, Joining
  <2>2. 1 - 1 = 0 /\ 0 + 0 = 0
    OBVIOUS
  <2> QED BY <1>2, <2>1, <2>2 DEF TakenOf
<1>5. ASSUME NEW c PROVE TakenOf(ys, s, d, Len(ys) + 1, c) = Len(FlattenSeq(ys))
  <2>1. ~(s = 1 /\ Len(ys) + 1 \in DOMAIN d)
    BY <1>1, <1>3
  <2>2. (Len(ys) + 1) - 1 = Len(ys) /\ Len(FlattenSeq(ys)) + 0 = Len(FlattenSeq(ys))
    BY <1>1, Joining
  <2> QED BY <1>2, <2>1, <2>2 DEF TakenOf
<1> QED BY <1>4, <1>5

(***************************************************************************)
(* The steps                                                               *)
(***************************************************************************)

LEMMA StateFacts ==
  ASSUME ScriptTypeOK
  PROVE  /\ PerFile \in Nat \ {0} /\ args.maxSamples \in Nat
         /\ files[1] \in Seq(OutputFiles) /\ files[2] \in Seq(OutputFiles)
         /\ files[stage] \in Seq(OutputFiles) /\ Len(files[stage]) \in Nat
         /\ Yields \in Seq(Seq(Samples)) /\ All \in Seq(Samples)
         /\ Len(Yields) = Len(Inputs) /\ Len(Yields) \in Nat /\ Len(All) \in Nat
         /\ Len(pending) \in Nat /\ Len(buffer) \in Nat
<1>1. /\ PerFile \in Nat \ {0} /\ args.maxSamples \in Nat
  BY DataFilesAssumption DEF ScriptTypeOK, PerFile
<1>2. /\ files[1] \in Seq(OutputFiles) /\ files[2] \in Seq(OutputFiles)
      /\ files[stage] \in Seq(OutputFiles)
      /\ stage \in {1, 2} /\ dataset \in Datasets
  BY DEF ScriptTypeOK
<1>3. Len(files[stage]) \in Nat
  BY <1>2
<1>4. /\ Yields \in Seq(Seq(Samples)) /\ All \in Seq(Samples)
      /\ Len(Yields) \in Nat /\ Len(All) \in Nat
      /\ Len(Yields) = IF stage = 1 THEN Len(dataset) ELSE Len(files[1])
  BY <1>2, YieldsTyped DEF Yields, All
<1>5. Len(Yields) = Len(Inputs)
  BY <1>4 DEF Inputs
<1>6. Len(pending) \in Nat /\ Len(buffer) \in Nat
  BY DEF ScriptTypeOK
<1> QED BY <1>1, <1>2, <1>3, <1>4, <1>5, <1>6

LEMMA PromisedFacts ==
  ASSUME ScriptTypeOK
  PROVE  /\ Promised(stage) \in Seq(Samples)
         /\ Len(Promised(stage)) \in Nat /\ Len(Promised(stage)) <= Len(All)
         /\ stage = 1 => Len(Promised(stage)) = Len(All)
         /\ stage = 2 => Len(Promised(stage)) = IF args.maxSamples < Len(All)
                                               THEN args.maxSamples ELSE Len(All)
         /\ \A i \in 1 .. Len(Promised(stage)) : Promised(stage)[i] = All[i]
<1> DEFINE p == PromisedOf(stage, dataset, files[1], args.maxSamples)
<1>1. /\ stage \in {1, 2} /\ dataset \in Datasets /\ files[1] \in Seq(OutputFiles)
      /\ args.maxSamples \in Nat /\ Len(All) \in Nat
  BY StateFacts DEF ScriptTypeOK
<1>2. /\ p \in Seq(Samples)
      /\ Len(p) = IF stage = 2 /\ args.maxSamples < Len(All) THEN args.maxSamples ELSE Len(All)
      /\ \A i \in 1 .. Len(p) : p[i] = All[i]
  BY <1>1, PromisedTyped DEF All, Yields
<1>3. Promised(stage) = p
  BY PromisedIs
<1> HIDE DEF p
<1>4. Len(p) \in Nat
  BY <1>2
<1> QED BY <1>1, <1>2, <1>3, <1>4

\* A step within a run changes neither what its inputs yield nor what it is to write.
LEMMA SameInputs ==
  ASSUME ScriptTypeOK, ScriptTypeOK', UNCHANGED <<dataset, args, stage>>,
         stage = 2 => files'[1] = files[1]
  PROVE  Yields' = Yields /\ All' = All /\ PerFile' = PerFile
         /\ Promised(stage)' = Promised(stage)
<1>1. stage \in {1, 2}
  BY DEF ScriptTypeOK
<1>2. YieldsOf(stage, dataset, files'[1]) = YieldsOf(stage, dataset, files[1])
  BY <1>1 DEF YieldsOf
<1>3. Yields' = Yields
  BY <1>2 DEF Yields
<1>4. All' = All
  BY <1>3 DEF All
<1>5. PromisedOf(stage, dataset, files'[1], args.maxSamples)
        = PromisedOf(stage, dataset, files[1], args.maxSamples)
  BY <1>2 DEF PromisedOf
<1>6. Promised(stage) = PromisedOf(stage, dataset, files[1], args.maxSamples)
  BY PromisedIs
<1>7. stage' \in {1, 2} /\ files'[1] \in Seq(OutputFiles)
  BY DEF ScriptTypeOK
<1>8. FlattenSeq(RootsYield(dataset'))
        = FlattenSeq([r \in DOMAIN dataset' |-> OfRoot(dataset'[r])])
  BY DEF RootsYield
<1>9. Collected(files'[1]) = FlattenSeq(FilesYield(files'[1]))
  BY <1>7, FilesYieldSeq
<1>10. Promised(stage)' = PromisedOf(stage', dataset', files'[1], args'.maxSamples)
  BY <1>7, <1>8, <1>9 DEF Promised, PromisedOf, YieldsOf
<1> QED BY <1>3, <1>4, <1>5, <1>6, <1>10 DEF PerFile

\* A step that leaves the directory alone keeps it in order.
LEMMA SameFiles ==
  ASSUME ScriptTypeOK, ScriptTypeOK', DirectoryOK, UNCHANGED <<dataset, args, stage, files>>
  PROVE  DirectoryOK'
<1>1. PerFile' = PerFile /\ Promised(stage)' = Promised(stage)
  BY SameInputs
<1> QED BY <1>1 DEF DirectoryOK

\* As long as it does not end, a run has nothing to show yet.
LEMMA NotDone ==
  ASSUME step' # "done"
  PROVE  FinishedRunComplete'
  BY DEF FinishedRunComplete

\* The files written are files of samples.
LEMMA FlatTyped ==
  ASSUME ScriptTypeOK, WrittenOK
  PROVE  /\ Written(files[stage], index) \in Seq(Seq(Samples))
         /\ Len(Written(files[stage], index)) = index
         /\ Flat \in Seq(Samples) /\ Len(Flat) \in Nat
<1> DEFINE w == Written(files[stage], index)
<1>1. files[stage] \in Seq(OutputFiles) /\ index \in Nat /\ index <= Len(files[stage])
  BY DEF ScriptTypeOK, WrittenOK
<1>2. \A i \in 1 .. index : files[stage][i] \in OutputFiles
  BY <1>1
<1>3. w \in [1 .. index -> Seq(Samples)]
  BY <1>2 DEF Written, OutputFiles
<1> HIDE DEF w
<1>4. w \in Seq(Seq(Samples)) /\ Len(w) = index
  BY <1>1, <1>3
<1>5. Flat = FlattenSeq(w)
  BY DEF Flat, w
<1>6. FlattenSeq(w) \in Seq(Samples)
  BY <1>4, Joining
<1>7. Flat \in Seq(Samples) /\ Len(Flat) \in Nat
  BY <1>5, <1>6
<1> QED BY <1>4, <1>7 DEF w

LEMMA RunCheckpointIInv ==
  ASSUME ScriptIInv, RunCheckpoint
  PROVE  ScriptIInv'
<1> DEFINE r == dataset[root]
           n == r[checkpoint].samples
           last == r[checkpoint].converged \/ checkpoint = Len(r)
<1>1. /\ ScriptTypeOK /\ DirectoryOK /\ LoopsOK /\ BufferOK /\ WrittenOK /\ pending = <<>>
      /\ stage = 1 /\ root \in DOMAIN dataset /\ checkpoint \in Seen(r) /\ dataset \in Datasets
      /\ files[1] \in Seq(OutputFiles) /\ ~Enough
  <2>1. /\ ScriptTypeOK /\ DirectoryOK /\ LoopsOK /\ BufferOK /\ WrittenOK
        /\ pending = <<>> /\ stage = 1
    BY DEF ScriptIInv, RunOK, Running, RunCheckpoint, LoopsOK
  <2>2. root \in Nat \ {0} /\ dataset \in Datasets /\ ~(root > Len(dataset)) /\ ~Enough
    BY <2>1 DEF RunCheckpoint, NoMoreInput, Inputs, ScriptTypeOK
  <2>3. root \in DOMAIN dataset
    BY <2>2, DatasetSeq
  <2> QED BY <2>1, <2>2, <2>3, StateFacts DEF LoopsOK
<1>2. /\ pending' = n /\ step' = "append"
      /\ root' = (IF last THEN root + 1 ELSE root)
      /\ checkpoint' = (IF last THEN 1 ELSE checkpoint + 1)
      /\ UNCHANGED <<dataset, args, stage, buffer, index, generated, files>>
  BY DEF RunCheckpoint
<1>3. /\ n \in Seq(Samples) /\ Taken \in Nat /\ Taken + Len(n) <= Len(All)
      /\ \A i \in 1 .. Len(n) : All[Taken + i] = n[i]
      /\ IF last THEN TakenOf(Yields, 1, dataset, root + 1, 1) = Taken + Len(n)
         ELSE /\ checkpoint + 1 \in Seen(r)
              /\ TakenOf(Yields, 1, dataset, root, checkpoint + 1) = Taken + Len(n)
  <2>1. Yields = YieldsOf(1, dataset, files[1]) /\ All = FlattenSeq(Yields)
    BY <1>1 DEF Yields, All
  <2>2. Taken = TakenOf(Yields, 1, dataset, root, checkpoint)
    BY <1>1 DEF Taken
  <2> QED BY <1>1, <2>1, <2>2, CheckpointTaken
<1>4. /\ generated \in Nat /\ generated = Taken /\ root \in Nat \ {0} /\ checkpoint \in Nat \ {0}
      /\ Len(n) \in Nat /\ Len(pending) = 0
  <2>1. Len(pending) = 0
    BY <1>1
  <2> QED BY <1>1, <1>3, <2>1 DEF LoopsOK, ScriptTypeOK
<1> HIDE DEF n, last
<1>5. ScriptTypeOK'
  BY <1>1, <1>2, <1>3, <1>4 DEF ScriptTypeOK, Running
<1>6. Yields' = Yields /\ All' = All /\ PerFile' = PerFile /\ Promised(stage)' = Promised(stage)
  BY <1>1, <1>2, <1>5, SameInputs
<1>7. LoopsOK'
  <2>1. Taken' = Taken + Len(n)
    BY <1>1, <1>2, <1>3, <1>6 DEF Taken
  <2>2. root' <= Len(Yields') + 1
    <3>1. root <= Len(Yields) /\ Len(Yields) \in Nat
      <4>1. /\ Len(Yields) = Len(dataset) /\ Len(dataset) \in Nat
            /\ DOMAIN dataset = 1 .. Len(dataset)
        BY <1>1, StateFacts, DatasetSeq DEF Inputs
      <4> QED BY <1>1, <4>1
    <3> QED BY <1>2, <1>4, <1>6, <3>1
  <2>3. ASSUME root' \in DOMAIN dataset' PROVE checkpoint' \in Seen(dataset'[root'])
    <3>1. CASE last
      <4>1. dataset'[root'] \in Roots
        BY <1>1, <1>2, <2>3, DatasetSeq
      <4> QED BY <1>2, <3>1, <4>1, CheckpointsOfRoot
    <3>2. CASE ~last
      BY <1>2, <1>3, <3>2
    <3> QED BY <3>1, <3>2
  <2>4. generated' + Len(pending') <= Len(All') /\ generated' + Len(pending') = Taken'
    BY <1>2, <1>3, <1>4, <1>6, <2>1
  <2>5. \A i \in 1 .. Len(pending') : pending'[i] = All'[generated' + i]
    BY <1>2, <1>3, <1>4, <1>6
  <2> QED BY <1>1, <1>2, <2>2, <2>3, <2>4, <2>5 DEF LoopsOK
<1>8. BufferOK' /\ WrittenOK'
  <2>1. ~Ended
    BY DEF Ended, RunCheckpoint
  <2>2. Flat' = Flat
    BY <1>2 DEF Flat
  <2>3. BufferOK'
    BY <1>1, <1>2, <1>6, <2>1 DEF BufferOK, RunCheckpoint
  <2>4. WrittenOK'
    BY <1>1, <1>2, <1>6, <2>1, <2>2 DEF WrittenOK
  <2> QED BY <2>3, <2>4
<1>9. DirectoryOK' /\ FinishedRunComplete'
  BY <1>1, <1>2, <1>5, SameFiles, NotDone
<1> QED BY <1>5, <1>7, <1>8, <1>9 DEF ScriptIInv, RunOK

LEMMA LoadInputIInv ==
  ASSUME ScriptIInv, LoadInput
  PROVE  ScriptIInv'
<1> DEFINE n == files[1][root].samples
<1>1. /\ ScriptTypeOK /\ DirectoryOK /\ LoopsOK /\ BufferOK /\ WrittenOK /\ pending = <<>>
      /\ stage = 2 /\ root \in 1 .. Len(files[1]) /\ dataset \in Datasets
      /\ files[1] \in Seq(OutputFiles) /\ ~Enough
  <2>1. /\ ScriptTypeOK /\ DirectoryOK /\ LoopsOK /\ BufferOK /\ WrittenOK
        /\ pending = <<>> /\ stage = 2
    BY DEF ScriptIInv, RunOK, Running, LoadInput, LoopsOK
  <2>2. root \in Nat \ {0} /\ dataset \in Datasets /\ ~(root > Len(files[1])) /\ ~Enough
    BY <2>1 DEF LoadInput, NoMoreInput, Inputs, ScriptTypeOK
  <2>3. files[1] \in Seq(OutputFiles)
    BY <2>1, StateFacts
  <2> QED BY <2>1, <2>2, <2>3
<1>2. /\ root' = root + 1
      /\ \/ step' = "append" /\ pending' = n
         \/ step' = "raised" /\ pending' = pending
      /\ UNCHANGED <<dataset, args, stage, checkpoint, buffer, index, generated, files>>
  BY DEF LoadInput
<1>3. /\ n \in Seq(Samples) /\ Taken \in Nat /\ Taken + Len(n) <= Len(All)
      /\ \A i \in 1 .. Len(n) : All[Taken + i] = n[i]
      /\ TakenOf(Yields, 2, dataset, root + 1, checkpoint) = Taken + Len(n)
  <2>1. Yields = YieldsOf(2, dataset, files[1]) /\ All = FlattenSeq(Yields)
    BY <1>1 DEF Yields, All
  <2>2. Taken = TakenOf(Yields, 2, dataset, root, checkpoint)
    BY <1>1 DEF Taken
  <2> QED BY <1>1, <2>1, <2>2, FileTaken
<1>4. /\ generated \in Nat /\ generated = Taken /\ root \in Nat \ {0}
      /\ Len(n) \in Nat /\ Len(pending) = 0
  <2>1. Len(pending) = 0
    BY <1>1
  <2> QED BY <1>1, <1>3, <2>1 DEF LoopsOK, ScriptTypeOK
<1> HIDE DEF n
<1>5. ScriptTypeOK'
  <2>1. pending' \in Seq(Samples)
    BY <1>1, <1>2, <1>3 DEF ScriptTypeOK
  <2>2. step' \in {"append", "raised"} /\ root' \in Nat \ {0}
    BY <1>2, <1>4
  <2> QED BY <1>1, <1>2, <2>1, <2>2 DEF ScriptTypeOK, Running
<1>6. Yields' = Yields /\ All' = All /\ PerFile' = PerFile /\ Promised(stage)' = Promised(stage)
  BY <1>1, <1>2, <1>5, SameInputs
<1>7. DirectoryOK' /\ FinishedRunComplete'
  BY <1>1, <1>2, <1>5, SameFiles, NotDone
<1>8. ASSUME step' = "append" PROVE LoopsOK'
  <2>1. Taken' = Taken + Len(n) /\ pending' = n
    BY <1>1, <1>2, <1>3, <1>6, <1>8 DEF Taken
  <2>2. root' <= Len(Yields') + 1
    <3>1. Len(Yields) = Len(files[1]) /\ Len(Yields) \in Nat
      BY <1>1, StateFacts DEF Inputs
    <3> QED BY <1>1, <1>2, <1>4, <1>6, <3>1
  <2>3. generated' + Len(pending') <= Len(All') /\ generated' + Len(pending') = Taken'
    BY <1>2, <1>3, <1>4, <1>6, <2>1
  <2>4. \A i \in 1 .. Len(pending') : pending'[i] = All'[generated' + i]
    BY <1>2, <1>3, <1>4, <1>6, <2>1
  <2>5. stage' = 2 /\ generated' <= args'.maxSamples
    BY <1>1, <1>2 DEF LoopsOK
  <2> QED BY <1>8, <2>2, <2>3, <2>4, <2>5 DEF LoopsOK
<1>9. ASSUME step' = "append" PROVE BufferOK' /\ WrittenOK'
  <2>1. ~Ended
    BY DEF Ended, LoadInput
  <2>2. Flat' = Flat
    BY <1>2 DEF Flat
  <2>3. BufferOK'
    BY <1>1, <1>2, <1>6, <1>9, <2>1 DEF BufferOK, LoadInput
  <2>4. WrittenOK'
    BY <1>1, <1>2, <1>6, <1>9, <2>1, <2>2 DEF WrittenOK
  <2> QED BY <2>3, <2>4
<1>10. RunOK'
  BY <1>2, <1>8, <1>9 DEF RunOK, Running
<1> QED BY <1>5, <1>7, <1>10 DEF ScriptIInv

LEMMA AppendSampleIInv ==
  ASSUME ScriptIInv, AppendSample
  PROVE  ScriptIInv'
<1> DEFINE p == Promised(stage)
<1>1. /\ ScriptTypeOK /\ DirectoryOK /\ LoopsOK /\ BufferOK /\ WrittenOK
      /\ step = "append" /\ pending # <<>> /\ ~Enough
  BY DEF ScriptIInv, RunOK, Running, AppendSample
<1>2. UNCHANGED <<dataset, args, stage, root, checkpoint, index, files>>
  BY DEF AppendSample
<1>3. \/ step' = "raised" /\ UNCHANGED <<pending, buffer, generated>>
      \/ /\ buffer' = Append(buffer, Head(pending)) /\ pending' = Tail(pending)
         /\ generated' = generated + 1
         /\ step' = IF Len(buffer') >= PerFile THEN "flush" ELSE "append"
  BY DEF AppendSample, PerFile
<1>4. /\ pending \in Seq(Samples) /\ buffer \in Seq(Samples) /\ generated \in Nat
      /\ stage \in {1, 2} /\ index \in Nat
  BY <1>1 DEF ScriptTypeOK
<1>5. /\ Head(pending) = pending[1] /\ Head(pending) \in Samples
      /\ Tail(pending) \in Seq(Samples) /\ Len(pending) \in Nat \ {0}
      /\ Len(Tail(pending)) = Len(pending) - 1
      /\ \A i \in 1 .. Len(Tail(pending)) : Tail(pending)[i] = pending[i + 1]
  BY <1>1, <1>4, HeadTailProperties
<1>6. LET more == Append(buffer, Head(pending))
      IN  /\ more \in Seq(Samples) /\ more # <<>> /\ Len(more) = Len(buffer) + 1
          /\ \A i \in 1 .. Len(buffer) : more[i] = buffer[i]
          /\ more[Len(buffer) + 1] = Head(pending)
  BY <1>4, <1>5, AppendProperties
<1>7. ScriptTypeOK'
  <2>1. step' \in {"raised", "flush", "append"} /\ pending' \in Seq(Samples)
        /\ buffer' \in Seq(Samples) /\ generated' \in Nat
    <3>1. CASE step' = "raised" /\ UNCHANGED <<pending, buffer, generated>>
      BY <1>4, <3>1
    <3>2. CASE buffer' = Append(buffer, Head(pending)) /\ pending' = Tail(pending)
      <4>1. generated' = generated + 1 \/ generated' = generated
        BY <1>3
      <4>2. step' \in {"raised", "flush", "append"}
        BY <1>3
      <4> QED BY ONLY <1>4, <1>5, <1>6, <3>2, <4>1, <4>2
    <3> QED BY <1>3, <3>1, <3>2
  <2> QED BY <1>1, <1>2, <2>1 DEF ScriptTypeOK, Running
<1>8. Yields' = Yields /\ All' = All /\ PerFile' = PerFile /\ Promised(stage)' = Promised(stage)
  BY <1>1, <1>2, <1>7, SameInputs
<1>9. DirectoryOK' /\ FinishedRunComplete'
  <2>1. step' # "done"
    BY <1>3
  <2> QED BY <1>1, <1>2, <1>7, <2>1, SameFiles, NotDone
<1>10. CASE step' = "raised"
  BY <1>7, <1>9, <1>10 DEF ScriptIInv, RunOK, Running
<1>11. CASE /\ buffer' = Append(buffer, Head(pending)) /\ pending' = Tail(pending)
            /\ generated' = generated + 1
            /\ step' = IF Len(buffer') >= PerFile THEN "flush" ELSE "append"
  <2>1. /\ buffer' # <<>> /\ Len(buffer') = Len(buffer) + 1
        /\ \A i \in 1 .. Len(buffer) : buffer'[i] = buffer[i]
        /\ buffer'[Len(buffer) + 1] = pending[1]
        /\ Len(buffer) \in Nat /\ PerFile \in Nat \ {0} /\ Len(All) \in Nat
        /\ args.maxSamples \in Nat
    BY <1>1, <1>4, <1>5, <1>6, <1>11, StateFacts
  <2>2. /\ Len(buffer) < PerFile /\ ~Ended
        /\ generated = index * PerFile + Len(buffer)
        /\ generated + Len(pending) = Taken /\ generated + Len(pending) <= Len(All)
        /\ \A i \in 1 .. Len(pending) : pending[i] = All[generated + i]
        /\ stage = 2 => generated < args.maxSamples
    <3>1. ~Ended
      BY <1>1 DEF Ended
    <3>2. stage = 2 => generated < args.maxSamples
      BY <1>1, <1>4, <2>1 DEF Enough
    <3> QED BY <1>1, <3>1, <3>2 DEF LoopsOK, BufferOK
  <2>3. pending[1] = p[generated + 1] /\ generated + 1 <= Len(p) /\ Len(p) \in Nat
    <3>1. generated + 1 <= Len(All)
      BY <1>4, <1>5, <2>1, <2>2
    <3>2. Len(p) = Len(All) \/ (stage = 2 /\ Len(p) = args.maxSamples)
      BY <1>1, <1>4, PromisedFacts
    <3>3. generated + 1 <= Len(p)
      BY <1>4, <2>1, <2>2, <3>1, <3>2
    <3>4. 1 \in 1 .. Len(pending) /\ generated + 1 \in 1 .. Len(p) /\ Len(p) \in Nat
      BY <1>1, <1>4, <1>5, <3>3, PromisedFacts
    <3>5. pending[1] = All[generated + 1]
      BY <2>2, <3>4
    <3>6. p[generated + 1] = All[generated + 1]
      BY <1>1, <3>4, PromisedFacts
    <3> QED BY <3>3, <3>4, <3>5, <3>6
  <2>4. LoopsOK'
    <3>1. Taken' = Taken
      BY <1>2, <1>8 DEF Taken
    <3>2. /\ generated' + Len(pending') = Taken' /\ generated' + Len(pending') <= Len(All')
          /\ stage' = 2 => generated' <= args'.maxSamples
      BY <1>2, <1>4, <1>5, <1>8, <1>11, <2>1, <2>2, <3>1
    <3>3. ASSUME NEW i \in 1 .. Len(pending') PROVE pending'[i] = All'[generated' + i]
      <4>1. i \in 1 .. Len(Tail(pending)) /\ i + 1 \in 1 .. Len(pending)
        BY <1>5, <1>11, <3>3
      <4>2. generated + (i + 1) = generated' + i
        BY <1>4, <1>11, <4>1
      <4> QED BY <1>5, <1>8, <1>11, <2>2, <4>1, <4>2
    <3>4. root' <= Len(Yields') + 1
          /\ (stage' = 1 /\ root' \in DOMAIN dataset' => checkpoint' \in Seen(dataset'[root']))
      BY <1>1, <1>2, <1>8 DEF LoopsOK
    <3>5. step' # "fetch"
      BY <1>11
    <3> QED BY <3>2, <3>3, <3>4, <3>5 DEF LoopsOK
  <2>5. BufferOK'
    <3>1. Len(buffer') <= PerFile /\ generated' = index' * PerFile + Len(buffer')
      <4>1. index * PerFile \in Nat
        BY <1>4, <2>1
      <4> DEFINE first == index * PerFile
      <4> HIDE DEF first
      <4>2. first + Len(buffer) + 1 = first + Len(buffer')
        BY <2>1, <4>1 DEF first
      <4>3. generated' = first + Len(buffer')
        BY <1>4, <1>11, <2>1, <2>2, <4>2 DEF first
      <4>4. Len(buffer') <= PerFile
        BY <2>1, <2>2
      <4> QED BY <1>2, <4>3, <4>4 DEF first
    <3>2. step' \in {"fetch", "append"} => Len(buffer') < PerFile
      BY <1>11, <2>1
    <3>3. step' \in {"flush", "write"} => buffer' # <<>> /\ Len(buffer') = PerFile
      BY <1>11, <2>1, <3>1
    <3> QED BY <1>8, <3>1, <3>2, <3>3 DEF BufferOK
  <2>6. WrittenOK'
    <3>1. Flat' = Flat
      BY <1>2 DEF Flat
    <3>2. /\ Len(Flat) + Len(buffer) = generated
          /\ \A i \in 1 .. Len(Flat) : Flat[i] = p[i]
          /\ \A i \in 1 .. Len(buffer) : buffer[i] = p[Len(Flat) + i]
      BY <1>1 DEF WrittenOK
    <3>3. Len(Flat) \in Nat
      BY <1>1, FlatTyped
    <3>4. Len(Flat) + Len(buffer') = generated'
      BY <1>4, <1>11, <2>1, <3>2, <3>3
    <3>5. ASSUME NEW i \in 1 .. Len(buffer') PROVE buffer'[i] = p[Len(Flat) + i]
      <4>1. i \in 1 .. Len(buffer) \/ i = Len(buffer) + 1
        BY <2>1
      <4>2. ASSUME i = Len(buffer) + 1 PROVE Len(Flat) + i = generated + 1
        BY ONLY <1>4, <2>1, <3>2, <3>3, <4>2
      <4> QED BY <2>1, <2>3, <3>2, <4>1, <4>2
    <3>6. step' # "write"
      BY <1>11
    <3>7. \A i \in 1 .. index' : /\ files'[stage'][i].whole
                                 /\ Len(files'[stage'][i].samples) = PerFile
      BY <1>1, <1>2, <2>2 DEF WrittenOK
    <3>8. index' <= Len(files'[stage'])
      BY <1>1, <1>2 DEF WrittenOK
    <3> QED BY <1>8, <3>1, <3>2, <3>4, <3>5, <3>6, <3>7, <3>8 DEF WrittenOK
  <2> QED BY <1>7, <1>9, <2>4, <2>5, <2>6 DEF ScriptIInv, RunOK
<1> QED BY <1>3, <1>10, <1>11

LEMMA InnerLoopEndsIInv ==
  ASSUME ScriptIInv, InnerLoopEnds
  PROVE  ScriptIInv'
<1>1. /\ ScriptTypeOK /\ DirectoryOK /\ LoopsOK /\ BufferOK /\ WrittenOK
      /\ step = "append" /\ (pending = <<>> \/ Enough) /\ step' = "fetch" /\ pending' = <<>>
      /\ UNCHANGED <<dataset, args, stage, root, checkpoint, buffer, index, generated, files>>
  BY DEF ScriptIInv, RunOK, Running, InnerLoopEnds
<1>2. ScriptTypeOK'
  <2>1. <<>> \in Seq(Samples)
    OBVIOUS
  <2> QED BY <1>1, <2>1 DEF ScriptTypeOK, Running
<1>3. Yields' = Yields /\ All' = All /\ PerFile' = PerFile /\ Promised(stage)' = Promised(stage)
  BY <1>1, <1>2, SameInputs
<1>4. DirectoryOK' /\ FinishedRunComplete'
  BY <1>1, <1>2, SameFiles, NotDone
<1>5. /\ Enough' = Enough /\ Taken' = Taken /\ Flat' = Flat
      /\ Len(<<>>) = 0 /\ generated \in Nat /\ Len(pending) \in Nat /\ Len(All) \in Nat
  <2>1. Enough' = Enough /\ Taken' = Taken /\ Flat' = Flat
    BY <1>1, <1>3 DEF Enough, Taken, Flat
  <2> QED BY <1>1, <2>1, StateFacts DEF ScriptTypeOK
<1>6. LoopsOK'
  <2>1. generated' + Len(pending') <= Len(All')
    BY <1>1, <1>3, <1>5 DEF LoopsOK
  <2>2. ASSUME ~Enough' PROVE generated' + Len(pending') = Taken'
    BY <1>1, <1>5, <2>2 DEF LoopsOK
  <2>3. \A i \in 1 .. Len(pending') : pending'[i] = All'[generated' + i]
    BY <1>1, <1>5
  <2> QED BY <1>1, <1>3, <2>1, <2>2, <2>3 DEF LoopsOK
<1>7. Ended => Ended'
  BY <1>1, <1>5 DEF Ended, NoMoreInput, Inputs
<1>8. BufferOK'
  BY <1>1, <1>3, <1>7 DEF BufferOK
<1>9. WrittenOK'
  BY <1>1, <1>3, <1>5, <1>7 DEF WrittenOK
<1> QED BY <1>2, <1>4, <1>6, <1>8, <1>9 DEF ScriptIInv, RunOK

\* A number of files that is too small by one is too small.
LEMMA FewerFiles ==
  ASSUME NEW a \in Nat, NEW b \in Nat, NEW p \in Nat \ {0}, a * p < b * p
  PROVE  a < b
<1> SUFFICES ASSUME b <= a PROVE FALSE
  OBVIOUS
<1>1. PICK d \in Nat : a = b + d
  <2>1. a - b \in Nat /\ a = b + (a - b)
    OBVIOUS
  <2> QED BY <2>1
<1>2. d * p \in Nat /\ b * p \in Nat
  OBVIOUS
<1>3. a * p = b * p + d * p
  BY <1>1
<1> QED BY <1>2, <1>3

\* No more is generated than is promised; at the end, no less.
LEMMA GeneratedOfPromised ==
  ASSUME ScriptTypeOK, LoopsOK
  PROVE  /\ generated <= Len(Promised(stage))
         /\ Ended => generated = Len(Promised(stage))
<1>1. /\ generated \in Nat /\ stage \in {1, 2} /\ args.maxSamples \in Nat
      /\ Len(pending) \in Nat /\ Len(All) \in Nat /\ Len(Promised(stage)) \in Nat
  BY StateFacts, PromisedFacts DEF ScriptTypeOK
<1>2. generated <= Len(All) /\ (stage = 2 => generated <= args.maxSamples)
  BY <1>1 DEF LoopsOK
<1>3. generated <= Len(Promised(stage))
  BY <1>1, <1>2, PromisedFacts
<1>4. ASSUME Ended PROVE generated = Len(Promised(stage))
  <2>1. CASE Enough
    <3>1. stage = 2 /\ generated = args.maxSamples
      BY <1>1, <1>2, <2>1 DEF Enough
    <3> QED BY <1>1, <1>2, <3>1, PromisedFacts
  <2>2. CASE ~Enough
    <3>1. root > Len(Yields) /\ root <= Len(Yields) + 1 /\ root \in Nat /\ Len(Yields) \in Nat
      BY <1>4, <2>2, StateFacts DEF Ended, NoMoreInput, LoopsOK, ScriptTypeOK
    <3>2. root = Len(Yields) + 1
      BY ONLY <3>1
    <3>3. Taken = Len(All)
      <4>1. files[1] \in Seq(OutputFiles) /\ dataset \in Datasets
        BY StateFacts DEF ScriptTypeOK
      <4> QED BY <1>1, <3>2, <4>1, TakenEnds DEF Taken, Yields, All
    <3>4. Len(pending) = 0
      BY <1>4 DEF Ended
    <3>5. generated = Len(All)
      BY <1>1, <2>2, <3>3, <3>4 DEF LoopsOK
    <3> QED BY <1>1, <1>2, <1>3, <3>5, PromisedFacts
  <2> QED BY <2>1, <2>2
<1> QED BY <1>3, <1>4

\* When the loops and the buffer are through, the directory is complete.
LEMMA EndIsComplete ==
  ASSUME ScriptTypeOK, DirectoryOK, LoopsOK, BufferOK, WrittenOK, Ended, buffer = <<>>
  PROVE  /\ Collected(files[stage]) = Promised(stage)
         /\ \A i \in DOMAIN files[stage] :
              /\ files[stage][i].whole
              /\ i < Len(files[stage]) => Len(files[stage][i].samples) = args.perFile[stage]
<1> DEFINE fs == files[stage]
           p == Promised(stage)
<1>1. /\ fs \in Seq(OutputFiles) /\ Len(fs) \in Nat /\ PerFile \in Nat \ {0} /\ index \in Nat
      /\ generated \in Nat /\ p \in Seq(Samples) /\ Len(p) \in Nat /\ Len(buffer) = 0
      /\ DOMAIN fs = 1 .. Len(fs)
  <2>1. fs \in Seq(OutputFiles)
    BY StateFacts
  <2> QED BY <2>1, StateFacts, PromisedFacts DEF ScriptTypeOK
<1>2. generated = Len(p) /\ generated <= index * PerFile /\ index <= Len(fs)
  <2>1. index * PerFile \in Nat
    BY <1>1
  <2>2. generated = index * PerFile + Len(buffer) \/ generated < index * PerFile
    BY DEF BufferOK
  <2>3. generated <= index * PerFile
    BY ONLY <1>1, <2>1, <2>2
  <2> QED BY <2>3, GeneratedOfPromised DEF WrittenOK
<1>3. index = Len(fs)
  <2> HIDE DEF fs, p
  <2>1. CASE Len(fs) = 0
    BY <1>1, <1>2, <2>1
  <2>2. CASE Len(fs) # 0
    <3>1. fs # <<>>
      BY <2>2
    <3>2. (Len(fs) - 1) * PerFile < Len(p)
      BY <3>1 DEF DirectoryOK, fs, p
    <3>3. Len(fs) - 1 \in Nat /\ index * PerFile \in Nat /\ (Len(fs) - 1) * PerFile \in Nat
      BY <1>1, <2>2
    <3>4. (Len(fs) - 1) * PerFile < index * PerFile
      BY ONLY <1>1, <1>2, <3>2, <3>3
    <3>5. Len(fs) - 1 < index
      BY <1>1, <3>3, <3>4, FewerFiles
    <3>6. Len(fs) \in Nat /\ index \in Nat /\ index <= Len(fs)
      BY <1>1, <1>2
    <3> QED BY ONLY <3>5, <3>6
  <2> QED BY <2>1, <2>2
<1>4. Collected(fs) = Flat
  <2>1. FilesYield(fs) = Written(fs, index)
    BY <1>1, <1>3 DEF FilesYield, Written
  <2>2. Collected(fs) = FlattenSeq(FilesYield(fs))
    BY <1>1, FilesYieldSeq
  <2> QED BY <2>1, <2>2 DEF Flat
<1>5. Flat = p
  <2>1. Flat \in Seq(Samples) /\ Len(Flat) \in Nat
    BY FlatTyped
  <2>2. Len(Flat) = Len(p) /\ \A i \in 1 .. Len(Flat) : Flat[i] = p[i]
    BY <1>1, <1>2, <2>1 DEF WrittenOK
  <2> HIDE DEF p
  <2> QED BY <1>1, <2>1, <2>2, SeqEqual
<1>6. ASSUME NEW i \in DOMAIN fs
      PROVE  fs[i].whole /\ (i < Len(fs) => Len(fs[i].samples) = PerFile)
  <2>1. i \in 1 .. index
    BY <1>1, <1>3
  <2> QED BY <1>3, <2>1 DEF WrittenOK
<1> QED BY <1>4, <1>5, <1>6 DEF PerFile

LEMMA OuterLoopEndsIInv ==
  ASSUME ScriptIInv, OuterLoopEnds
  PROVE  ScriptIInv'
<1>1. /\ ScriptTypeOK /\ DirectoryOK /\ LoopsOK /\ BufferOK /\ WrittenOK
      /\ step = "fetch" /\ pending = <<>> /\ NoMoreInput
      /\ step' = (IF buffer /= <<>> THEN "flush"
                  ELSE IF stage = 2 /\ generated = 0 THEN "raised" ELSE "done")
      /\ UNCHANGED <<dataset, args, stage, root, checkpoint, pending, generated, buffer, index,
                     files>>
  BY DEF ScriptIInv, RunOK, Running, OuterLoopEnds, LoopsOK, loops
<1>2. ScriptTypeOK'
  BY <1>1 DEF ScriptTypeOK, Running
<1>3. Yields' = Yields /\ All' = All /\ PerFile' = PerFile /\ Promised(stage)' = Promised(stage)
  BY <1>1, <1>2, SameInputs
<1>4. DirectoryOK'
  BY <1>1, <1>2, SameFiles
<1>5. Ended
  BY <1>1 DEF Ended
<1>6. CASE buffer /= <<>>
  <2>1. step' = "flush" /\ FinishedRunComplete'
    BY <1>1, <1>6, NotDone
  <2>2. Enough' = Enough /\ Taken' = Taken /\ Flat' = Flat /\ Ended'
    BY <1>1, <1>3, <1>5 DEF Enough, Taken, Flat, Ended, NoMoreInput, Inputs
  <2>3. LoopsOK'
    BY <1>1, <1>3, <2>1, <2>2 DEF LoopsOK
  <2>4. BufferOK'
    BY <1>1, <1>3, <1>6, <2>1, <2>2 DEF BufferOK
  <2>5. WrittenOK'
    BY <1>1, <1>3, <1>5, <2>1, <2>2 DEF WrittenOK
  <2> QED BY <1>2, <1>4, <2>1, <2>3, <2>4, <2>5 DEF ScriptIInv, RunOK
<1>7. CASE buffer = <<>> /\ stage = 2 /\ generated = 0
  <2>1. step' = "raised" /\ FinishedRunComplete'
    BY <1>1, <1>7, NotDone
  <2> QED BY <1>2, <1>4, <2>1 DEF ScriptIInv, RunOK, Running
<1>8. CASE buffer = <<>> /\ ~(stage = 2 /\ generated = 0)
  <2>1. step' = "done"
    BY <1>1, <1>8
  <2>2. FinishedRunComplete'
    <3>1. /\ Collected(files[stage]) = Promised(stage)
          /\ \A i \in DOMAIN files[stage] :
               /\ files[stage][i].whole
               /\ i < Len(files[stage]) => Len(files[stage][i].samples) = args.perFile[stage]
      BY <1>1, <1>5, <1>8, EndIsComplete
    <3> QED BY <1>1, <1>3, <3>1 DEF FinishedRunComplete
  <2> QED BY <1>2, <1>4, <2>1, <2>2 DEF ScriptIInv, RunOK, Running
<1> QED BY <1>6, <1>7, <1>8

\* Putting a file at the end of those written, over what is there or after it.
LEMMA FilePut ==
  ASSUME ScriptTypeOK, index <= Len(files[stage]), NEW f \in OutputFiles, PutFile(stage, index, f)
  PROVE  /\ files' \in [{1, 2} -> Seq(OutputFiles)]
         /\ \A s \in {1, 2} : s # stage => files'[s] = files[s]
         /\ Len(files'[stage]) = IF index < Len(files[stage]) THEN Len(files[stage])
                                 ELSE Len(files[stage]) + 1
         /\ files'[stage][index + 1] = f
         /\ \A i \in 1 .. index : files'[stage][i] = files[stage][i]
<1> DEFINE fs == files[stage]
           gs == IF index < Len(fs) THEN ReplaceAt(fs, index + 1, f) ELSE Append(fs, f)
<1>1. /\ stage \in {1, 2} /\ files \in [{1, 2} -> Seq(OutputFiles)] /\ index \in Nat
      /\ fs \in Seq(OutputFiles) /\ Len(fs) \in Nat /\ index <= Len(fs)
  BY StateFacts DEF ScriptTypeOK
<1>2. files' = [files EXCEPT ![stage] = gs]
  BY DEF PutFile
<1> HIDE DEF fs
<1>3. /\ gs \in Seq(OutputFiles)
      /\ Len(gs) = (IF index < Len(fs) THEN Len(fs) ELSE Len(fs) + 1)
      /\ gs[index + 1] = f /\ \A i \in 1 .. index : gs[i] = fs[i]
  <2>1. CASE index < Len(fs)
    <3>1. gs = [fs EXCEPT ![index + 1] = f] /\ index + 1 \in 1 .. Len(fs)
      BY <1>1, <2>1 DEF ReplaceAt
    <3> HIDE DEF gs
    <3>2. /\ gs \in Seq(OutputFiles) /\ Len(gs) = Len(fs)
          /\ \A j \in 1 .. Len(fs) : gs[j] = IF j = index + 1 THEN f ELSE fs[j]
      BY <1>1, <3>1, ExceptSeq
    <3>3. \A i \in 1 .. index : i \in 1 .. Len(fs) /\ i # index + 1
      BY <1>1
    <3> QED BY <2>1, <3>1, <3>2, <3>3
  <2>2. CASE ~(index < Len(fs))
    <3>1. gs = Append(fs, f) /\ index = Len(fs)
      BY <1>1, <2>2
    <3> HIDE DEF gs
    <3>2. /\ gs \in Seq(OutputFiles) /\ Len(gs) = Len(fs) + 1
          /\ \A i \in 1 .. Len(fs) : gs[i] = fs[i]
          /\ gs[Len(fs) + 1] = f
      BY <1>1, <3>1, AppendProperties
    <3> QED BY <2>2, <3>1, <3>2
  <2> QED BY <2>1, <2>2
<1> HIDE DEF gs
<1>4. files'[stage] = gs /\ \A s \in {1, 2} : s # stage => files'[s] = files[s]
  BY <1>1, <1>2
<1>5. files' \in [{1, 2} -> Seq(OutputFiles)]
  BY <1>1, <1>2, <1>3
<1> QED BY <1>3, <1>4, <1>5 DEF fs

LEMMA OpenFileIInv ==
  ASSUME ScriptIInv, OpenFile
  PROVE  ScriptIInv'
<1> DEFINE half == [whole |-> FALSE, samples |-> <<>>]
<1>1. /\ ScriptTypeOK /\ DirectoryOK /\ LoopsOK /\ BufferOK /\ WrittenOK
      /\ step = "flush" /\ step' = "write" /\ PutFile(stage, index, half)
      /\ UNCHANGED <<dataset, args, stage, root, checkpoint, pending, generated, buffer, index>>
  BY DEF ScriptIInv, RunOK, Running, OpenFile, loops
<1>2. half \in OutputFiles /\ index <= Len(files[stage])
  BY <1>1 DEF OutputFiles, WrittenOK
<1> HIDE DEF half
<1>3. /\ files' \in [{1, 2} -> Seq(OutputFiles)]
      /\ \A s \in {1, 2} : s # stage => files'[s] = files[s]
      /\ Len(files'[stage]) = (IF index < Len(files[stage]) THEN Len(files[stage])
                               ELSE Len(files[stage]) + 1)
      /\ \A i \in 1 .. index : files'[stage][i] = files[stage][i]
  BY <1>1, <1>2, FilePut
<1>4. ScriptTypeOK'
  BY <1>1, <1>3 DEF ScriptTypeOK, Running
<1>5. stage = 2 => files'[1] = files[1]
  BY <1>3
<1>6. Yields' = Yields /\ All' = All /\ PerFile' = PerFile /\ Promised(stage)' = Promised(stage)
  BY <1>1, <1>4, <1>5, SameInputs
<1>7. /\ Enough' = Enough /\ Taken' = Taken
      /\ Ended' = Ended
  <2>1. Enough' = Enough /\ Taken' = Taken
    BY <1>1, <1>6 DEF Enough, Taken
  <2>2. Len(Inputs') = Len(Inputs)
    BY <1>1, <1>5 DEF Inputs, ScriptTypeOK
  <2> QED BY <1>1, <2>1, <2>2 DEF Ended, NoMoreInput
<1>8. Flat' = Flat
  <2>1. Written(files'[stage], index) = Written(files[stage], index)
    BY <1>3 DEF Written
  <2> QED BY <1>1, <2>1 DEF Flat
<1>9. /\ index \in Nat /\ Len(files[stage]) \in Nat /\ PerFile \in Nat \ {0}
      /\ Len(buffer) \in Nat /\ generated \in Nat /\ Len(Promised(stage)) \in Nat
  BY <1>1, StateFacts, PromisedFacts DEF ScriptTypeOK
<1>10. DirectoryOK'
  <2>1. stage' = 1 => files'[2] = <<>>
    BY <1>1, <1>3 DEF DirectoryOK
  <2>2. (Len(files'[stage]) - 1) * PerFile < Len(Promised(stage))
    <3>1. CASE index < Len(files[stage])
      <4>1. files[stage] # <<>> /\ Len(files'[stage]) = Len(files[stage])
        BY <1>3, <1>9, <3>1
      <4> QED BY <1>1, <4>1 DEF DirectoryOK
    <3>2. CASE ~(index < Len(files[stage]))
      <4>1. Len(files'[stage]) - 1 = index
        BY <1>2, <1>3, <1>9, <3>2
      <4>2. buffer # <<>> /\ generated = index * PerFile + Len(buffer)
        BY <1>1 DEF BufferOK
      <4>3. Len(buffer) # 0 /\ index * PerFile \in Nat
        BY <1>1, <1>9, <4>2 DEF ScriptTypeOK
      <4>4. generated <= Len(Promised(stage))
        BY <1>1, GeneratedOfPromised
      <4>5. index * PerFile < Len(Promised(stage))
        BY ONLY <1>9, <4>2, <4>3, <4>4
      <4> QED BY <4>1, <4>5
    <3> QED BY <3>1, <3>2
  <2> QED BY <1>1, <1>6, <2>1, <2>2 DEF DirectoryOK
<1>11. LoopsOK'
  BY <1>1, <1>6, <1>7 DEF LoopsOK
<1>12. BufferOK'
  BY <1>1, <1>6, <1>7 DEF BufferOK
<1>13. WrittenOK'
  <2>1. index < Len(files'[stage]) /\ index <= Len(files'[stage])
    BY <1>2, <1>3, <1>9
  <2> QED BY <1>1, <1>3, <1>6, <1>7, <1>8, <2>1 DEF WrittenOK
<1> QED BY <1>1, <1>4, <1>10, <1>11, <1>12, <1>13, NotDone DEF ScriptIInv, RunOK

LEMMA WriteFileIInv ==
  ASSUME ScriptIInv, WriteFile
  PROVE  ScriptIInv'
<1> DEFINE whole == [whole |-> TRUE, samples |-> buffer]
           p == Promised(stage)
<1>1. /\ ScriptTypeOK /\ DirectoryOK /\ LoopsOK /\ BufferOK /\ WrittenOK
      /\ step = "write" /\ step' = "append" /\ PutFile(stage, index, whole)
      /\ index' = index + 1 /\ buffer' = <<>>
      /\ UNCHANGED <<dataset, args, stage, root, checkpoint, pending, generated>>
  BY DEF ScriptIInv, RunOK, Running, WriteFile, loops
<1>2. /\ whole \in OutputFiles /\ index < Len(files[stage])
      /\ whole.whole /\ whole.samples = buffer
      /\ index <= Len(files[stage]) /\ index \in Nat
  BY <1>1 DEF OutputFiles, WrittenOK, ScriptTypeOK
<1> HIDE DEF whole
<1>3. /\ files' \in [{1, 2} -> Seq(OutputFiles)]
      /\ \A s \in {1, 2} : s # stage => files'[s] = files[s]
      /\ Len(files'[stage]) = Len(files[stage])
      /\ files'[stage][index + 1] = whole
      /\ \A i \in 1 .. index : files'[stage][i] = files[stage][i]
  BY <1>1, <1>2, FilePut
<1>4. ScriptTypeOK'
  <2>1. <<>> \in Seq(Samples) /\ index + 1 \in Nat
    BY <1>2
  <2> QED BY <1>1, <1>3, <2>1 DEF ScriptTypeOK, Running
<1>5. stage = 2 => files'[1] = files[1]
  BY <1>3
<1>6. Yields' = Yields /\ All' = All /\ PerFile' = PerFile /\ Promised(stage)' = Promised(stage)
  BY <1>1, <1>4, <1>5, SameInputs
<1>7. Enough' = Enough /\ Taken' = Taken /\ Ended' = Ended
  <2>1. Enough' = Enough /\ Taken' = Taken
    BY <1>1, <1>6 DEF Enough, Taken
  <2>2. Len(Inputs') = Len(Inputs)
    BY <1>1, <1>5 DEF Inputs, ScriptTypeOK
  <2> QED BY <1>1, <2>1, <2>2 DEF Ended, NoMoreInput
<1>8. /\ Len(files[stage]) \in Nat /\ PerFile \in Nat \ {0} /\ Len(buffer) \in Nat
      /\ generated \in Nat /\ Len(Flat) \in Nat
      /\ Flat \in Seq(Samples) /\ buffer \in Seq(Samples)
  BY <1>1, StateFacts, FlatTyped DEF ScriptTypeOK
<1>9. /\ buffer # <<>> /\ Len(buffer) # 0 /\ (Len(buffer) = PerFile \/ Ended)
      /\ generated = index * PerFile + Len(buffer) /\ Len(buffer) <= PerFile
  <2>1. /\ buffer # <<>> /\ (Len(buffer) = PerFile \/ Ended)
        /\ generated = index * PerFile + Len(buffer) /\ Len(buffer) <= PerFile
    BY <1>1 DEF BufferOK
  <2> QED BY <1>8, <2>1
<1>10. DirectoryOK'
  <2>1. stage' = 1 => files'[2] = <<>>
    BY <1>1, <1>3 DEF DirectoryOK
  <2>2. files[stage] # <<>>
    BY <1>2, <1>8
  <2>3. (Len(files'[stage]) - 1) * PerFile < Len(Promised(stage))
    BY <1>1, <1>3, <2>2 DEF DirectoryOK
  <2> QED BY <1>1, <1>6, <2>1, <2>3 DEF DirectoryOK
<1>11. LoopsOK'
  BY <1>1, <1>6, <1>7 DEF LoopsOK
<1>12. BufferOK'
  <2>1. Len(buffer') = 0
    BY <1>1
  <2>2. index * PerFile \in Nat /\ index' * PerFile = index * PerFile + PerFile
    BY <1>1, <1>2, <1>8
  <2> DEFINE first == index * PerFile
             next == index' * PerFile
  <2> HIDE DEF first, next
  <2>3. first \in Nat /\ next = first + PerFile /\ generated = first + Len(buffer)
    BY <1>9, <2>2 DEF first, next
  <2>4. CASE Len(buffer) = PerFile
    <3>1. generated = next + 0
      BY ONLY <1>8, <2>3, <2>4
    <3> QED BY <1>1, <1>6, <1>8, <2>1, <3>1 DEF BufferOK, next
  <2>5. CASE Len(buffer) # PerFile
    <3>1. generated < next /\ Ended
      BY ONLY <1>8, <1>9, <2>3, <2>5
    <3> QED BY <1>1, <1>6, <1>7, <1>8, <2>1, <3>1 DEF BufferOK, next
  <2> QED BY <2>4, <2>5
<1>13. WrittenOK'
  <2>1. Flat' = Flat \o buffer
    <3> DEFINE w == Written(files[stage], index)
    <3>1. w \in Seq(Seq(Samples)) /\ Len(w) = index
      BY <1>1, FlatTyped
    <3>2. Written(files'[stage], index + 1) = Append(w, buffer)
      <4> DEFINE u == Written(files'[stage], index + 1)
                 v == Append(w, buffer)
      <4>1. /\ v \in Seq(Seq(Samples)) /\ Len(v) = index + 1 /\ v[index + 1] = buffer
            /\ \A i \in 1 .. index : v[i] = w[i]
        <5> HIDE DEF w
        <5> QED BY <1>8, <3>1, AppendProperties
      <4>2. v = [i \in 1 .. index + 1 |-> v[i]]
        <5> HIDE DEF v
        <5> QED BY <4>1
      <4>3. \A i \in 1 .. index + 1 : v[i] = files'[stage][i].samples
        <5> SUFFICES ASSUME NEW i \in 1 .. index + 1 PROVE v[i] = files'[stage][i].samples
          OBVIOUS
        <5>1. CASE i = index + 1
          BY <1>2, <1>3, <4>1, <5>1
        <5>2. CASE i \in 1 .. index
          <6>1. v[i] = w[i] /\ files'[stage][i] = files[stage][i]
            BY <1>3, <4>1, <5>2
          <6>2. w[i] = files[stage][i].samples
            BY <5>2 DEF Written
          <6> HIDE DEF v, w
          <6> QED BY <6>1, <6>2
        <5>3. i = index + 1 \/ i \in 1 .. index
          BY <1>2
        <5> QED BY ONLY <5>1, <5>2, <5>3
      <4> HIDE DEF v
      <4>4. u = [i \in 1 .. index + 1 |-> v[i]]
        BY <4>3 DEF Written
      <4> QED BY <4>2, <4>4 DEF v
    <3> HIDE DEF w
    <3>3. FlattenSeq(Append(w, buffer)) = FlattenSeq(w) \o buffer
      BY <1>8, <3>1, FlattenAppend
    <3> QED BY <1>1, <3>2, <3>3 DEF Flat, w
  <2>2. /\ Len(Flat') = Len(Flat) + Len(buffer)
        /\ \A i \in 1 .. Len(Flat) + Len(buffer) :
             Flat'[i] = IF i <= Len(Flat) THEN Flat[i] ELSE buffer[i - Len(Flat)]
    BY <1>8, <2>1, ConcatProperties
  <2>3. /\ Len(Flat) + Len(buffer) = generated
        /\ \A i \in 1 .. Len(Flat) : Flat[i] = p[i]
        /\ \A i \in 1 .. Len(buffer) : buffer[i] = p[Len(Flat) + i]
    BY <1>1 DEF WrittenOK
  <2>4. ASSUME NEW i \in 1 .. Len(Flat') PROVE Flat'[i] = p[i]
    <3>1. CASE i <= Len(Flat)
      <4>1. i \in 1 .. Len(Flat) /\ i \in 1 .. Len(Flat) + Len(buffer)
        BY <1>8, <2>2, <3>1
      <4> QED BY <2>2, <2>3, <3>1, <4>1
    <3>2. CASE ~(i <= Len(Flat))
      <4>1. /\ i \in 1 .. Len(Flat) + Len(buffer) /\ i - Len(Flat) \in 1 .. Len(buffer)
            /\ Len(Flat) + (i - Len(Flat)) = i
        BY <1>8, <2>2, <3>2
      <4>2. Flat'[i] = buffer[i - Len(Flat)]
        BY <2>2, <3>2, <4>1
      <4>3. buffer[i - Len(Flat)] = p[Len(Flat) + (i - Len(Flat))]
        BY <2>3, <4>1
      <4> QED BY <4>1, <4>2, <4>3
    <3> QED BY <3>1, <3>2
  <2>5. Len(buffer') = 0 /\ generated' = Len(Flat') + Len(buffer')
    <3>1. Len(buffer') = 0
      BY <1>1
    <3> QED BY <1>1, <1>8, <2>2, <2>3, <3>1
  <2>6. ASSUME NEW i \in 1 .. index'
        PROVE  /\ files'[stage][i].whole
               /\ i < index' \/ ~Ended => Len(files'[stage][i].samples) = PerFile
    <3>1. CASE i = index + 1
      <4>1. ~(i < index')
        BY <1>1, <1>2, <3>1
      <4> QED BY <1>2, <1>3, <1>9, <3>1, <4>1
    <3>2. CASE i \in 1 .. index
      <4>1. files[stage][i].whole /\ Len(files[stage][i].samples) = PerFile
        BY <1>1, <1>9, <3>2 DEF WrittenOK
      <4> QED BY <1>3, <3>2, <4>1
    <3> QED BY <1>1, <1>2, <3>1, <3>2
  <2>7. index' <= Len(files'[stage])
    BY <1>1, <1>2, <1>3, <1>8
  <2> QED BY <1>1, <1>6, <1>7, <2>4, <2>5, <2>6, <2>7 DEF WrittenOK
<1> QED BY <1>1, <1>4, <1>10, <1>11, <1>12, <1>13, NotDone DEF ScriptIInv, RunOK

LEMMA ScriptDiesIInv ==
  ASSUME ScriptIInv, ScriptDies
  PROVE  ScriptIInv'
<1>1. /\ ScriptTypeOK /\ DirectoryOK /\ step' = "crashed" /\ buffer' = <<>> /\ pending' = <<>>
      /\ UNCHANGED <<dataset, args, stage, root, checkpoint, index, generated, files>>
  BY DEF ScriptIInv, ScriptDies
<1>2. ScriptTypeOK'
  <2>1. <<>> \in Seq(Samples)
    OBVIOUS
  <2> QED BY <1>1, <2>1 DEF ScriptTypeOK, Running
<1>3. DirectoryOK' /\ FinishedRunComplete'
  BY <1>1, <1>2, SameFiles, NotDone
<1> QED BY <1>1, <1>2, <1>3 DEF ScriptIInv, RunOK, Running

\* The loops, the buffer and the files of a run that starts.
Started ==
  /\ root = 1 /\ checkpoint = 1 /\ pending = <<>>
  /\ buffer = <<>> /\ index = 0 /\ generated = 0 /\ step \in {"fetch", "raised"}

LEMMA StartedRunOK == ScriptTypeOK /\ Started => RunOK
<1> SUFFICES ASSUME ScriptTypeOK, Started PROVE RunOK
  OBVIOUS
<1>1. /\ stage \in {1, 2} /\ dataset \in Datasets /\ files[1] \in Seq(OutputFiles)
      /\ Len(pending) = 0 /\ Len(buffer) = 0 /\ Len(Yields) \in Nat /\ Len(All) \in Nat
      /\ PerFile \in Nat \ {0} /\ args.maxSamples \in Nat /\ Len(files[stage]) \in Nat
  <2>1. Len(pending) = 0 /\ Len(buffer) = 0
    BY DEF Started
  <2> QED BY <2>1, StateFacts DEF ScriptTypeOK
<1>2. LoopsOK
  <2>1. Taken = 0
    BY <1>1, TakenEnds DEF Taken, Yields, Started
  <2>2. ASSUME stage = 1, 1 \in DOMAIN dataset PROVE 1 \in Seen(dataset[1])
    <3>1. dataset[1] \in Roots
      BY <1>1, <2>2, DatasetSeq
    <3> QED BY <3>1, CheckpointsOfRoot
  <2> QED BY <1>1, <2>1, <2>2 DEF LoopsOK, Started
<1>3. BufferOK
  <2>1. 0 * PerFile = 0
    BY <1>1
  <2>2. generated = index * PerFile + Len(buffer)
    BY <1>1, <2>1 DEF Started
  <2> QED BY <1>1, <2>2 DEF BufferOK, Started
<1>4. WrittenOK
  <2>1. Flat = <<>>
    <3>1. Written(files[stage], 0) = <<>>
      BY DEF Written
    <3> QED BY <3>1 DEF Flat, FlattenSeq, Started
  <2>2. Len(Flat) = 0
    BY <2>1
  <2> QED BY <1>1, <2>2 DEF WrittenOK, Started
<1> QED BY <1>2, <1>3, <1>4 DEF RunOK

LEMMA DataInitIInv == DataInit => ScriptIInv
<1> SUFFICES ASSUME DataInit PROVE ScriptIInv
  OBVIOUS
<1>1. ScriptTypeOK
  <2>1. files \in [{1, 2} -> Seq(OutputFiles)]
    <3>2. files[1] = <<>> /\ files[2] = <<>> /\ files = [s \in {1, 2} |-> files[s]]
      BY DEF DataInit
    <3>3. <<>> \in Seq(OutputFiles)
      OBVIOUS
    <3> QED BY <3>2, <3>3
  <2> QED BY <2>1 DEF DataInit, ScriptTypeOK, Running
<1>2. DirectoryOK
  BY DEF DataInit, DirectoryOK
<1>3. RunOK
  BY <1>1, StartedRunOK DEF DataInit, Started
<1>4. FinishedRunComplete
  BY DEF DataInit, FinishedRunComplete
<1> QED BY <1>1, <1>2, <1>3, <1>4 DEF ScriptIInv

LEMMA RunAgainIInv ==
  ASSUME ScriptIInv, RunAgain
  PROVE  ScriptIInv'
<1>1. /\ ScriptTypeOK /\ DirectoryOK /\ step' = "fetch" /\ Started'
      /\ UNCHANGED <<dataset, args, stage, files>>
      /\ root' = 1 /\ checkpoint' = 1 /\ pending' = <<>>
      /\ buffer' = <<>> /\ index' = 0 /\ generated' = 0
  BY DEF ScriptIInv, RunAgain, StartScript, Started
<1>2. ScriptTypeOK'
  <2>1. <<>> \in Seq(Samples)
    OBVIOUS
  <2> QED BY <1>1, <2>1 DEF ScriptTypeOK, Running
<1>3. (ScriptTypeOK /\ Started => RunOK)'
  BY StartedRunOK, PTL
<1>4. RunOK'
  BY <1>1, <1>2, <1>3
<1>5. DirectoryOK' /\ FinishedRunComplete'
  BY <1>1, <1>2, SameFiles, NotDone
<1> QED BY <1>2, <1>4, <1>5 DEF ScriptIInv

LEMMA RunTargetsIInv ==
  ASSUME ScriptIInv, RunTargets
  PROVE  ScriptIInv'
<1>1. /\ ScriptTypeOK /\ DirectoryOK /\ stage = 1 /\ stage' = 2
      /\ step' \in {"raised", "fetch"} /\ Started'
      /\ UNCHANGED <<dataset, args, files>>
      /\ root' = 1 /\ checkpoint' = 1 /\ pending' = <<>>
      /\ buffer' = <<>> /\ index' = 0 /\ generated' = 0
  BY DEF ScriptIInv, RunTargets, StartScript, Started
<1>2. ScriptTypeOK'
  <2>1. <<>> \in Seq(Samples)
    OBVIOUS
  <2> QED BY <1>1, <2>1 DEF ScriptTypeOK, Running
<1>3. (ScriptTypeOK /\ Started => RunOK)'
  BY StartedRunOK, PTL
<1>4. RunOK'
  BY <1>1, <1>2, <1>3
<1>5. DirectoryOK'
  BY <1>1 DEF DirectoryOK
<1>6. FinishedRunComplete'
  BY <1>1, NotDone
<1> QED BY <1>2, <1>4, <1>5, <1>6 DEF ScriptIInv

LEMMA DataNextIInv == ScriptIInv /\ [DataNext]_dataVars => ScriptIInv'
<1> SUFFICES ASSUME ScriptIInv, [DataNext]_dataVars PROVE ScriptIInv'
  OBVIOUS
<1>1. CASE UNCHANGED dataVars
  <2>1. /\ ScriptTypeOK /\ DirectoryOK /\ RunOK /\ FinishedRunComplete
        /\ UNCHANGED <<dataset, args, stage, step, root, checkpoint, pending, buffer, index,
                       generated, files>>
    BY <1>1 DEF ScriptIInv, dataVars, loops
  <2>2. ScriptTypeOK'
    BY <2>1 DEF ScriptTypeOK
  <2>3. Yields' = Yields /\ All' = All /\ PerFile' = PerFile /\ Promised(stage)' = Promised(stage)
    BY <2>1, <2>2, SameInputs
  <2>4. DirectoryOK'
    BY <2>1, <2>2, SameFiles
  <2>5. Enough' = Enough /\ Taken' = Taken /\ Flat' = Flat /\ Ended' = Ended
    BY <2>1, <2>3 DEF Enough, Taken, Flat, Ended, NoMoreInput, Inputs
  <2>6. RunOK'
    BY <2>1, <2>3, <2>5 DEF RunOK, LoopsOK, BufferOK, WrittenOK
  <2>7. FinishedRunComplete'
    BY <2>1, <2>3 DEF FinishedRunComplete
  <2> QED BY <2>2, <2>4, <2>6, <2>7 DEF ScriptIInv
<1>2. CASE DataNext
  BY <1>2, RunCheckpointIInv, LoadInputIInv, AppendSampleIInv, InnerLoopEndsIInv,
     OuterLoopEndsIInv, OpenFileIInv, WriteFileIInv, ScriptDiesIInv, RunAgainIInv, RunTargetsIInv
     DEF DataNext
<1> QED BY <1>1, <1>2

\* However often the scripts died and were started again, and whatever they
\* were given: a run that ends left a directory of whole files, all but the last
\* of them full, with every sample it was to write once and in order.
THEOREM SpecFinishedRunComplete == DataSpec => []FinishedRunComplete
<1>1. DataInit => ScriptIInv
  BY DataInitIInv
<1>2. ScriptIInv /\ [DataNext]_dataVars => ScriptIInv'
  BY DataNextIInv
<1>3. ScriptIInv => FinishedRunComplete
  BY DEF ScriptIInv
<1> QED BY <1>1, <1>2, <1>3, PTL DEF DataSpec

(***************************************************************************)
(* The caches of terminal values                                           *)
(***************************************************************************)

Inside == {"find", "build", "emplace"}

\* The lock is held by the one thread in a critical section.
MutexOK == \A t \in Threads : place[t] \in Inside => holder = t

\* A thread asks for an entry, and has the raw hands such an entry points to.
WantOK ==
  \A t \in Threads :
    /\ place[t] \in Inside \cup {"lock"} => want[t] \in Kinds
    /\ place[t] \in Inside \cup {"lock"} /\ want[t] \in HoldsRaw => refs[t]["raw"] /= NoAddress
    /\ place[t] = "idle" => refs[t] = NoRefs

\* What the maps name is alive.
CacheOK ==
  \A k \in Kinds, b \in Boards : cache[k][b] /= NoAddress => IsEntry(cache[k][b], k, b)

\* The thread that builds found nothing, and still would.
MissOK == \A t \in Threads : place[t] \in {"build", "emplace"} => Cached(t) = NoAddress

\* A reference is the map's entry, or the new one its thread is to emplace.
RefsOK ==
  \A t \in Threads, k \in Kinds :
    refs[t][k] /= NoAddress =>
      \/ refs[t][k] = cache[k][board[t]]
      \/ place[t] = "emplace" /\ k = want[t] /\ IsEntry(refs[t][k], k, board[t])

\* The new entry is there to emplace.
NewOK == \A t \in Threads : place[t] = "emplace" => refs[t][want[t]] /= NoAddress

\* An entry's raw hands are its board's, in the map of raw hands.
RawOK ==
  \A a \in Addresses :
    heap[a].kind \in HoldsRaw =>
      heap[a].raw /= NoAddress /\ heap[a].raw = cache["raw"][heap[a].board]

CachesIInv == CachesTypeOK /\ MutexOK /\ WantOK /\ CacheOK /\ MissOK /\ RefsOK /\ NewOK /\ RawOK

LEMMA FollowingKinds ==
  \A c \in Calls, k \in Kinds : Following(c, k) \in Kinds \cup {"none"}
  BY DEF Following, Calls, Kinds

\* The raw hands come first.
LEMMA FollowingRaw ==
  \A c, k : Following(c, k) \in HoldsRaw => k = "raw"
  BY DEF Following, HoldsRaw

LEMMA CachesInitIInv == CachesInit => CachesIInv
<1> SUFFICES ASSUME CachesInit PROVE CachesIInv
  OBVIOUS
<1> USE TerminalCachesAssumption DEF CachesInit, NoRefs
<1>1. CachesTypeOK
  BY DEF CachesTypeOK, Calls, Entries
<1>2. MutexOK /\ WantOK /\ MissOK /\ NewOK
  BY DEF MutexOK, WantOK, MissOK, NewOK, Inside
<1>3. CacheOK /\ RefsOK
  BY DEF CacheOK, RefsOK
<1>4. RawOK
  BY DEF RawOK, HoldsRaw, Freed
<1>5. QED
  BY <1>1, <1>2, <1>3, <1>4 DEF CachesIInv

\* The steps that touch neither map nor entry.
LEMMA ThreadCachesIInv ==
  ASSUME CachesIInv, NEW t \in Threads,
         BeginCall(t) \/ Lock(t) \/ Miss(t) \/ BuildThrows(t) \/ EndCall(t)
  PROVE  CachesIInv'
<1> USE TerminalCachesAssumption
           DEF CachesIInv, CachesTypeOK, MutexOK, WantOK, CacheOK, MissOK, RefsOK, NewOK, RawOK, Inside,
               IsEntry, Cached, NoRefs
<1>1. CASE BeginCall(t)
  BY <1>1 DEF BeginCall, Kinds, HoldsRaw
<1>2. CASE Lock(t)
  BY <1>2 DEF Lock
<1>3. CASE Miss(t)
  BY <1>3 DEF Miss
<1>4. CASE BuildThrows(t)
  BY <1>4 DEF BuildThrows
<1>5. CASE EndCall(t)
  BY <1>5 DEF EndCall
<1>6. QED
  BY <1>1, <1>2, <1>3, <1>4, <1>5

\* Who is in the critical section is alone there.
LEMMA Alone ==
  ASSUME CachesIInv, NEW t \in Threads, place[t] \in Inside, NEW u \in Threads, u /= t
  PROVE  place[u] \notin Inside
  BY DEF CachesIInv, MutexOK

LEMMA HitIInv ==
  ASSUME CachesIInv, NEW t \in Threads, Hit(t)
  PROVE  CachesIInv'
<1> USE TerminalCachesAssumption DEF CachesIInv
<1>1. place[t] \in Inside /\ want[t] \in Kinds /\ call[t] \in Calls
  BY DEF Hit, Inside, WantOK, CachesTypeOK
<1>2. Following(call[t], want[t]) \in Kinds \cup {"none"}
  BY <1>1, FollowingKinds
<1>3. Cached(t) \in Addresses /\ Cached(t) /= NoAddress
  BY <1>1 DEF Hit, Cached, CachesTypeOK
<1>4. CachesTypeOK'
  BY <1>1, <1>2, <1>3 DEF Hit, GoOn, CachesTypeOK
<1>5. \A u \in Threads : u /= t => place[u] \notin Inside /\ place'[u] = place[u]
  BY <1>1, Alone DEF Hit, GoOn, CachesTypeOK
<1>6. place'[t] \in {"lock", "use"} /\ (place'[t] = "lock" => Following(call[t], want[t]) \in Kinds)
  BY <1>1, <1>2 DEF Hit, GoOn, CachesTypeOK
<1>7. MutexOK' /\ MissOK' /\ NewOK'
  BY <1>5, <1>6 DEF MutexOK, MissOK, NewOK, Inside
<1>8. WantOK'
  <2>1. want'[t] = Following(call[t], want[t]) /\ \A u \in Threads : u /= t => want'[u] = want[u]
    BY DEF Hit, GoOn, CachesTypeOK
  <2>2. refs'[t][want[t]] = Cached(t) /\ \A u \in Threads : u /= t => refs'[u] = refs[u]
    BY <1>1 DEF Hit, CachesTypeOK
  <2>3. want'[t] \in HoldsRaw => refs'[t]["raw"] /= NoAddress
    BY <2>1, <2>2, <1>3, FollowingRaw
  <2>4. QED
    BY <1>2, <1>5, <1>6, <2>1, <2>2, <2>3 DEF WantOK, Inside
<1>9. CacheOK' /\ RawOK'
  BY DEF Hit, GoOn, CacheOK, RawOK, IsEntry
<1>10. RefsOK'
  BY <1>1, <1>3, <1>5 DEF Hit, GoOn, RefsOK, Cached, CachesTypeOK, IsEntry, Inside
<1>11. QED
  BY <1>4, <1>7, <1>8, <1>9, <1>10

LEMMA BuildIInv ==
  ASSUME CachesIInv, NEW t \in Threads, Build(t)
  PROVE  CachesIInv'
<1> USE TerminalCachesAssumption DEF CachesIInv
<1>1. place[t] = "build" /\ place[t] \in Inside /\ want[t] \in Kinds /\ board[t] \in Boards
  BY DEF Build, Inside, WantOK, CachesTypeOK
<1>2. PICK a \in Addresses :
        /\ heap[a] = Freed
        /\ heap' = [heap EXCEPT ![a] =
                      [kind |-> want[t], board |-> board[t],
                       raw |-> IF want[t] \in HoldsRaw THEN refs[t]["raw"] ELSE NoAddress]]
        /\ refs' = [refs EXCEPT ![t][want[t]] = a]
  BY DEF Build
<1>3. place' = [place EXCEPT ![t] = "emplace"] /\ UNCHANGED <<call, board, want, holder, cache>>
  BY DEF Build
<1>4. CachesTypeOK'
  <2>1. refs[t]["raw"] \in Addresses \cup {NoAddress}
    BY DEF CachesTypeOK, Kinds
  <2>2. heap'[a] \in Entries /\ heap' \in [Addresses -> Entries]
    BY <1>1, <1>2, <2>1 DEF CachesTypeOK, Entries
  <2>3. refs' \in [Threads -> [Kinds -> Addresses \cup {NoAddress}]]
    BY <1>1, <1>2 DEF CachesTypeOK
  <2>4. QED
    BY <1>3, <2>2, <2>3 DEF CachesTypeOK
<1>5. \A u \in Threads : u /= t => place[u] \notin Inside /\ place'[u] = place[u] /\ refs'[u] = refs[u]
  BY <1>1, <1>2, <1>3, Alone DEF CachesTypeOK
<1>6. /\ refs'[t][want[t]] = a
      /\ \A k \in Kinds : k /= want[t] => refs'[t][k] = refs[t][k]
  BY <1>1, <1>2 DEF CachesTypeOK
<1>7. heap'[a] = [kind |-> want[t], board |-> board[t],
                  raw |-> IF want[t] \in HoldsRaw THEN refs[t]["raw"] ELSE NoAddress]
      /\ \A b \in Addresses : b /= a => heap'[b] = heap[b]
  BY <1>2 DEF CachesTypeOK
<1>8. \A b, k, x : k \in Kinds /\ IsEntry(b, k, x) => IsEntry(b, k, x)' /\ b /= a
  BY <1>2, <1>7 DEF IsEntry, Freed, Kinds
<1>9. MutexOK' /\ MissOK' /\ NewOK'
  BY <1>1, <1>3, <1>5, <1>6 DEF MutexOK, MissOK, NewOK, Inside, Cached, CachesTypeOK
<1>10. WantOK'
  <2>1. want[t] \in HoldsRaw => want[t] /= "raw" /\ refs[t]["raw"] /= NoAddress
    BY <1>1 DEF WantOK, HoldsRaw
  <2>2. want[t] \in HoldsRaw => refs'[t]["raw"] /= NoAddress
    BY <1>6, <2>1 DEF Kinds
  <2>3. place'[t] = "emplace"
    BY <1>3 DEF CachesTypeOK
  <2>4. QED
    BY <1>1, <1>3, <1>5, <2>2, <2>3 DEF WantOK, Inside
<1>11. CacheOK'
  BY <1>3, <1>8 DEF CacheOK
<1>12. RefsOK'
  <2>1. ASSUME NEW u \in Threads, NEW k \in Kinds, refs'[u][k] /= NoAddress,
               u /= t \/ k /= want[t]
        PROVE  refs'[u][k] = cache[k][board[u]]
    <3>1. refs'[u][k] = refs[u][k]
      BY <1>5, <1>6, <2>1
    <3>2. place[u] /= "emplace"
      BY <1>1, <1>5 DEF Inside
    <3>3. QED
      BY <3>1, <3>2, <2>1 DEF RefsOK
  <2>2. IsEntry(refs[t][want[t]], want[t], board[t])' /\ place'[t] = "emplace"
    BY <1>3, <1>6, <1>7 DEF IsEntry, CachesTypeOK
  <2>3. QED
    BY <1>3, <2>1, <2>2 DEF RefsOK
<1>13. RawOK'
  <2>1. want[t] \in HoldsRaw => refs[t]["raw"] /= NoAddress
                                  /\ refs[t]["raw"] = cache["raw"][board[t]]
    BY <1>1 DEF WantOK, RefsOK, Kinds
  <2>2. QED
    BY <1>3, <1>7, <2>1 DEF RawOK
<1>14. QED
  BY <1>4, <1>9, <1>10, <1>11, <1>12, <1>13

LEMMA EmplaceIInv ==
  ASSUME CachesIInv, NEW t \in Threads, Emplace(t)
  PROVE  CachesIInv'
<1> USE TerminalCachesAssumption DEF CachesIInv
<1> DEFINE new == refs[t][want[t]]
<1>1. /\ place[t] = "emplace" /\ place[t] \in Inside /\ want[t] \in Kinds
      /\ board[t] \in Boards /\ call[t] \in Calls
  BY DEF Emplace, Inside, WantOK, CachesTypeOK
<1>2. Cached(t) = NoAddress
  BY <1>1 DEF MissOK
<1>3. new /= NoAddress /\ IsEntry(new, want[t], board[t])
  BY <1>1, <1>2 DEF NewOK, RefsOK, Cached
<1>4. /\ cache' = [cache EXCEPT ![want[t]][board[t]] = new]
      /\ UNCHANGED <<heap, refs, call, board>> /\ GoOn(t)
  BY <1>2 DEF Emplace, GoOn
<1>5. Following(call[t], want[t]) \in Kinds \cup {"none"}
  BY <1>1, FollowingKinds
<1>6. CachesTypeOK'
  BY <1>1, <1>3, <1>4, <1>5 DEF GoOn, CachesTypeOK, IsEntry
<1>7. \A u \in Threads : u /= t => place[u] \notin Inside /\ place'[u] = place[u] /\ want'[u] = want[u]
  BY <1>1, <1>4, Alone DEF GoOn, CachesTypeOK
<1>8. /\ place'[t] \in {"lock", "use"} /\ want'[t] = Following(call[t], want[t])
      /\ place'[t] = "lock" => want'[t] \in Kinds
  BY <1>1, <1>4, <1>5 DEF GoOn, CachesTypeOK
<1>9. MutexOK' /\ MissOK' /\ NewOK'
  BY <1>7, <1>8 DEF MutexOK, MissOK, NewOK, Inside
<1>10. WantOK'
  <2>1. want'[t] \in HoldsRaw => refs'[t]["raw"] /= NoAddress
    BY <1>3, <1>4, <1>8, FollowingRaw
  <2>2. QED
    BY <1>4, <1>7, <1>8, <2>1 DEF WantOK, Inside
<1>11. \A k \in Kinds, b \in Boards :
         cache[k][b] /= NoAddress => cache'[k][b] = cache[k][b]
  BY <1>1, <1>2, <1>4 DEF CachesTypeOK, Cached
<1>12. \A k \in Kinds, b \in Boards :
         \/ cache'[k][b] = cache[k][b]
         \/ k = want[t] /\ b = board[t] /\ cache'[k][b] = new
  BY <1>1, <1>4 DEF CachesTypeOK
<1>13. CacheOK'
  BY <1>3, <1>4, <1>12 DEF CacheOK, IsEntry
<1>14. RefsOK'
  <2>1. ASSUME NEW u \in Threads, NEW k \in Kinds, refs[u][k] /= NoAddress
        PROVE  refs[u][k] = cache'[k][board[u]]
    <3>1. board[u] \in Boards
      BY DEF CachesTypeOK
    <3>2. CASE refs[u][k] = cache[k][board[u]]
      BY <1>11, <2>1, <3>1, <3>2
    <3>3. CASE refs[u][k] /= cache[k][board[u]]
      <4>1. u = t /\ k = want[t]
        BY <1>7, <2>1, <3>3 DEF RefsOK, Inside
      <4>2. QED
        BY <1>1, <1>4, <4>1 DEF CachesTypeOK
    <3>4. QED
      BY <3>2, <3>3
  <2>2. QED
    BY <1>4, <2>1 DEF RefsOK
<1>15. RawOK'
  <2>1. \A a \in Addresses : heap[a].kind \in HoldsRaw => heap[a].board \in Boards
    BY DEF CachesTypeOK, Entries, Freed, HoldsRaw
  <2>2. QED
    BY <1>4, <1>11, <2>1 DEF RawOK, Kinds
<1>16. QED
  BY <1>6, <1>9, <1>10, <1>13, <1>14, <1>15

LEMMA CachesNextIInv == CachesIInv /\ [CachesNext]_cachesVars => CachesIInv'
<1> SUFFICES ASSUME CachesIInv, [CachesNext]_cachesVars PROVE CachesIInv'
  OBVIOUS
<1>1. CASE CachesNext
  BY <1>1, ThreadCachesIInv, HitIInv, BuildIInv, EmplaceIInv DEF CachesNext
<1>2. CASE UNCHANGED cachesVars
  BY <1>2 DEF cachesVars, thread, CachesIInv, CachesTypeOK, MutexOK, WantOK, CacheOK, MissOK, RefsOK, NewOK,
              RawOK, IsEntry, Cached
<1>3. QED
  BY <1>1, <1>2

\* No reference dangles: not a thread's, and not an entry's to its raw hands.
THEOREM SpecReferencesAlive == CachesSpec => []ReferencesAlive
<1>1. CachesIInv => ReferencesAlive
  <2> SUFFICES ASSUME CachesIInv PROVE ReferencesAlive
    OBVIOUS
  <2>1. ASSUME NEW t \in Threads, NEW k \in Kinds, refs[t][k] /= NoAddress
        PROVE  IsEntry(refs[t][k], k, board[t])
    BY <2>1 DEF CachesIInv, RefsOK, CacheOK, CachesTypeOK
  <2>2. ASSUME NEW a \in Addresses, heap[a].kind \in HoldsRaw
        PROVE  IsEntry(heap[a].raw, "raw", heap[a].board)
    <3>1. heap[a].board \in Boards
      BY <2>2 DEF CachesIInv, CachesTypeOK, Entries, Freed, HoldsRaw
    <3>2. QED
      BY <2>2, <3>1 DEF CachesIInv, RawOK, CacheOK, Kinds
  <2>3. QED
    BY <2>1, <2>2 DEF ReferencesAlive
<1>2. QED
  BY <1>1, CachesInitIInv, CachesNextIInv, PTL DEF CachesSpec

\* The type invariant, from the same strengthening.
THEOREM SpecCachesTypeOK == CachesSpec => []CachesTypeOK
<1>1. CachesIInv => CachesTypeOK
  BY DEF CachesIInv
<1>2. QED
  BY <1>1, CachesInitIInv, CachesNextIInv, PTL DEF CachesSpec
=============================================================================
