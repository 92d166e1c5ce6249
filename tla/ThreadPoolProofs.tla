-------------------------- MODULE ThreadPoolProofs ---------------------------
(***************************************************************************)
(* Proofs about ThreadPool, for any set of workers, any counts and grains  *)
(* and any number of calls: first its accounting and its barrier, then     *)
(* what becomes of every index and exception, then that its steps are      *)
(* steps of ParallelFor.                                                   *)
(***************************************************************************)
EXTENDS ThreadPool, FiniteSetTheorems, TLAPS

(***************************************************************************)
(* Rounding up: the arithmetic behind remaining_chunks_.                   *)
(***************************************************************************)
LEMMA QuotientBounds ==
  ASSUME NEW x \in Nat, NEW g \in Nat \ {0}
  PROVE  /\ x \div g \in Nat
         /\ (x \div g) * g <= x
         /\ x < (x \div g + 1) * g
OBVIOUS

\* Two different multiples of g are at least g apart.
LEMMA ProductStep ==
  ASSUME NEW g \in Nat \ {0}, NEW a \in Int, NEW b \in Int, a < b
  PROVE  a * g + g <= b * g
OBVIOUS

\* A quotient is known from the multiples of g around x.
LEMMA QuotientUnique ==
  ASSUME NEW x \in Nat, NEW g \in Nat \ {0}, NEW q \in Nat,
         q * g <= x, x < (q + 1) * g
  PROVE  x \div g = q
<1>1. CASE x \div g < q
  BY QuotientBounds, ProductStep, <1>1
<1>2. CASE q < x \div g
  BY QuotientBounds, ProductStep, <1>2
<1> QED BY <1>1, <1>2, QuotientBounds

\* Taking one chunk of g indices from n leaves one chunk less; the last,
\* possibly shorter, chunk counts as one.
LEMMA ChunkTaken ==
  ASSUME NEW n \in Nat \ {0}, NEW g \in Nat \ {0}
  PROVE  /\ n > g => NumChunks(n, g) = 1 + NumChunks(n - g, g)
         /\ n <= g => NumChunks(n, g) = 1
         /\ NumChunks(0, g) = 0
         /\ NumChunks(n, g) \in Nat
<1>1. CASE n > g
  <2> DEFINE q == (n - 1) \div g
  <2>1. q \in Nat /\ q * g <= n - 1 /\ n - 1 < (q + 1) * g
    BY QuotientBounds
  <2>2. (q + 1) * g = q * g + g /\ (q + 2) * g = (q + 1) * g + g
    BY <2>1
  <2>3. /\ q \in Nat /\ q + 1 \in Nat
        /\ (q + 1) * g <= n + g - 1
        /\ n + g - 1 < (q + 2) * g
    BY <2>1, <2>2
  <2> HIDE DEF q
  <2>4. (n + g - 1) \div g = q + 1
    <3>1. n + g - 1 \in Nat /\ q + 2 = (q + 1) + 1
      BY <2>3
    <3> QED BY <2>3, <3>1, QuotientUnique
  <2>5. NumChunks(n - g, g) = q
    BY <1>1 DEF NumChunks, q
  <2> QED BY <1>1, <2>3, <2>4, <2>5 DEF NumChunks
<1>2. CASE n <= g
  <2>1. n + g - 1 \in Nat /\ 1 * g <= n + g - 1 /\ n + g - 1 < (1 + 1) * g
    BY <1>2
  <2> QED BY <1>2, <2>1, QuotientUnique DEF NumChunks
<1>3. NumChunks(0, g) = 0
  <2>1. g - 1 \in Nat /\ 0 * g <= g - 1 /\ g - 1 < (0 + 1) * g
    OBVIOUS
  <2> QED BY <2>1, QuotientUnique DEF NumChunks
<1>4. NumChunks(n, g) \in Nat
  BY QuotientBounds DEF NumChunks
<1> QED BY <1>1, <1>2, <1>3, <1>4

\* Any number of indices makes a natural number of chunks.
LEMMA ChunksOfNat ==
  ASSUME NEW n \in Nat, NEW g \in Nat \ {0}
  PROVE  NumChunks(n, g) \in Nat
BY QuotientBounds DEF NumChunks

-----------------------------------------------------------------------------
(***************************************************************************)
(* The inductive invariant.  BarrierHolds alone is not inductive: that     *)
(* no chunk is in flight once the job is over follows from counting the    *)
(* chunks, and the counting needs the types.                               *)
(***************************************************************************)
\* The members describe the caller's current call while a job is on, and every
\* claimed chunk lies below next_index_.
JobInv ==
  /\ hasJob => /\ task = calls
               /\ count = size
               /\ nextIndex <= count
               /\ pc[Caller] \notin CallerOutside
  /\ ~hasJob => InFlight = {}
  /\ \A t \in Thread : pc[t] = "run" => index[t] < end[t] /\ end[t] <= nextIndex

IInv == TypeOK /\ JobInv /\ ChunkAccounting

\* There are finitely many threads.
LEMMA ThreadFinite == IsFiniteSet(Thread)
BY ThreadsAssumption, FS_AddElement DEF Thread

\* So the threads in flight can be counted.
LEMMA InFlightFinite ==
  /\ IsFiniteSet(InFlight)
  /\ Cardinality(InFlight) \in Nat
<1>1. InFlight \in SUBSET Thread
  BY DEF InFlight
<1>2. IsFiniteSet(InFlight)
  BY <1>1, ThreadFinite, FS_Subset
<1> QED BY <1>2, FS_CardinalityType

\* A thread in flight is counted by remaining_chunks_.
LEMMA InFlightCounted ==
  ASSUME IInv, NEW t \in InFlight
  PROVE  /\ hasJob
         /\ remaining >= 1
         /\ remaining = 1 => nextIndex = count /\ InFlight = {t}
<1>1. hasJob
  BY DEF IInv, JobInv
<1> DEFINE unclaimed == NumChunks(count - nextIndex, grain)
<1>2. count - nextIndex \in Nat /\ grain \in Nat \ {0}
  BY <1>1 DEF IInv, TypeOK, JobInv
<1>3. unclaimed \in Nat
  BY <1>2, ChunksOfNat
<1>4. remaining = unclaimed + Cardinality(InFlight)
  BY <1>1 DEF IInv, ChunkAccounting
<1> HIDE DEF unclaimed
<1>5. Cardinality(InFlight) >= 1
  BY InFlightFinite, FS_EmptySet
<1>6. remaining >= 1
  BY <1>3, <1>4, <1>5, InFlightFinite
<1>7. ASSUME remaining = 1
      PROVE  nextIndex = count /\ InFlight = {t}
  <2>1. unclaimed = 0 /\ Cardinality(InFlight) = 1
    BY <1>3, <1>4, <1>5, <1>7, InFlightFinite
  <2>2. InFlight = {t}
    <3>1. PICK x : InFlight = {x}
      BY <2>1, InFlightFinite, FS_Singleton
    <3> QED BY <3>1
  <2>3. nextIndex = count
    <3>1. SUFFICES ASSUME nextIndex # count PROVE FALSE
      OBVIOUS
    <3>2. count - nextIndex \in Nat \ {0}
      BY <1>2, <3>1 DEF IInv, TypeOK
    <3>3. CASE count - nextIndex <= grain
      BY <1>2, <2>1, <3>2, <3>3, ChunkTaken DEF unclaimed
    <3>4. CASE count - nextIndex > grain
      <4>1. count - nextIndex - grain \in Nat
        BY <1>2, <3>2, <3>4
      <4>2. NumChunks(count - nextIndex - grain, grain) \in Nat
        BY <1>2, <4>1, ChunksOfNat
      <4>3. unclaimed = 1 + NumChunks(count - nextIndex - grain, grain)
        BY <1>2, <3>2, <3>4, ChunkTaken DEF unclaimed
      <4> QED BY <2>1, <4>2, <4>3
    <3> QED BY <1>2, <3>2, <3>3, <3>4
  <2> QED BY <2>2, <2>3
<1> QED BY <1>1, <1>6, <1>7

\* A new pool has no job, and nobody is in flight.
LEMMA InitIInv == Init => IInv
<1> SUFFICES ASSUME Init PROVE IInv
  OBVIOUS
<1> USE ThreadsAssumption
<1>1. InFlight = {}
  BY DEF Init, InFlight, InFlightPlace, Thread
<1>2. TypeOK
  <2> DEFINE Place == CallerOutside \cup CallerAround \cup InChunks \cup WorkerOutside
  <2>1. "idle" \in Place /\ "check" \in Place
    BY DEF CallerOutside, WorkerOutside
  <2> HIDE DEF Place
  <2>2. pc \in [Thread -> Place]
    BY <2>1 DEF Init
  <2>3. pc[Caller] \notin WorkerOutside
    BY DEF Init, Thread, WorkerOutside
  <2>4. \A w \in Workers : pc[w] \in InChunks \cup WorkerOutside
    BY DEF Init, Thread, WorkerOutside
  <2>5. NoException \in Exception
    BY DEF NoException, Exception
  <2>6. /\ stop \in BOOLEAN /\ hasJob \in BOOLEAN
        /\ firstException \in Exception /\ result \in Exception
    BY <2>5 DEF Init
  <2>7. /\ task \in Nat /\ count \in Nat /\ grain \in Nat \ {0}
        /\ nextIndex \in Nat /\ remaining \in Nat
        /\ calls \in Nat /\ size \in Nat
        /\ index \in [Thread -> Nat] /\ end \in [Thread -> Nat]
        /\ ran \in [Index -> Nat] /\ threw \subseteq Exception
    BY DEF Init, NoTask
  <2> QED BY <2>2, <2>3, <2>4, <2>6, <2>7 DEF TypeOK, Place
<1>3. JobInv
  BY <1>1 DEF Init, JobInv, Thread
<1>4. ChunkAccounting
  BY <1>1, FS_EmptySet DEF Init, ChunkAccounting
<1> QED BY <1>2, <1>3, <1>4 DEF IInv

\* Invoking fn only counts an index.
LEMMA InvokedType ==
  ASSUME ran \in [Index -> Nat], NEW t \in Thread, Invoked(t)
  PROVE  ran' \in [Index -> Nat]
<1>1. \A i \in Index : ran'[i] = IF i = index[t] THEN ran[i] + 1 ELSE ran[i]
  BY DEF Invoked
<1>2. \A i \in Index : ran[i] \in Nat
  OBVIOUS
<1>3. \A i \in Index : ran'[i] \in Nat
  BY <1>1, <1>2
<1> QED BY <1>3 DEF Invoked

\* The steps that leave the job and the set of threads in flight alone.
LEMMA QuietStep ==
  ASSUME IInv, TypeOK', InFlight' = InFlight,
         UNCHANGED <<hasJob, task, count, grain, nextIndex, remaining, calls, size>>,
         hasJob => pc'[Caller] \notin CallerOutside,
         \A t \in Thread : pc'[t] = "run" =>
            pc[t] = "run" /\ index'[t] < end'[t] /\ end'[t] = end[t]
  PROVE  IInv'
BY DEF IInv, JobInv, ChunkAccounting, NumChunks

\* A call the pool runs inline publishes no job.
LEMMA CallInlineIInv ==
  ASSUME IInv, NEW n \in Counts, NEW g \in Grains, CallInline(n, g)
  PROVE  IInv'
<1> USE ArgumentsAssumption DEF NewCall, CallInline, Goto
<1>1. Caller \in Thread /\ n \in Nat
  BY DEF Thread
<1>2. TypeOK'
  BY <1>1 DEF IInv, TypeOK, CallerOutside, CallerAround, InChunks, InFlightPlace, WorkerOutside, pool
<1>3. ~hasJob
  BY DEF IInv, JobInv, CallerOutside
<1>4. InFlight' = InFlight
  BY <1>1 DEF IInv, TypeOK, InFlight, InFlightPlace
<1>5. \A t \in Thread : pc'[t] # "run"
  BY <1>1, <1>3, <1>4 DEF IInv, JobInv, InFlight, InFlightPlace
<1> QED BY <1>2, <1>3, <1>4, <1>5 DEF IInv, JobInv, ChunkAccounting, pool

\* Waking workers puts none of them in flight.
LEMMA NotifyAllIInv ==
  ASSUME IInv, NotifyAll
  PROVE  IInv'
<1> USE DEF NotifyAll, WakeWorkers
<1>1. TypeOK'
  BY ThreadsAssumption DEF IInv, TypeOK, Thread, pool, history, CallerOutside, CallerAround, InChunks,
     InFlightPlace, WorkerOutside
<1>2. InFlight' = InFlight
  BY DEF IInv, TypeOK, InFlight, InFlightPlace
<1>3. hasJob => pc'[Caller] \notin CallerOutside
  BY DEF IInv, TypeOK, JobInv, CallerOutside, Thread
<1>4. \A u \in Thread : pc'[u] = "run" =>
         pc[u] = "run" /\ index'[u] < end'[u] /\ end'[u] = end[u]
  BY DEF IInv, TypeOK, JobInv, Thread, history, pool
<1> QED BY <1>1, <1>2, <1>3, <1>4, QuietStep DEF pool, history

\* A thread that finds nothing to claim claims nothing.
LEMMA NoMoreChunksIInv ==
  ASSUME IInv, NEW t \in Thread, NoMoreChunks(t)
  PROVE  IInv'
<1> USE DEF NoMoreChunks, Goto, AfterChunks
<1>1. TypeOK'
  BY ThreadsAssumption DEF IInv, TypeOK, Thread, pool, history, CallerOutside, CallerAround, InChunks,
     InFlightPlace, WorkerOutside
<1>2. InFlight' = InFlight
  BY DEF IInv, TypeOK, InFlight, InFlightPlace
<1>3. hasJob => pc'[Caller] \notin CallerOutside
  BY DEF IInv, TypeOK, JobInv, CallerOutside, Thread
<1>4. \A u \in Thread : pc'[u] = "run" =>
         pc[u] = "run" /\ index'[u] < end'[u] /\ end'[u] = end[u]
  BY DEF IInv, TypeOK, JobInv, Thread, history, pool
<1> QED BY <1>1, <1>2, <1>3, <1>4, QuietStep DEF pool, history

\* An index that comes back keeps its thread in flight.
LEMMA RunIndexIInv ==
  ASSUME IInv, NEW t \in Thread, RunIndex(t)
  PROVE  IInv'
<1> USE DEF RunIndex, Goto
<1>0. ran' \in [Index -> Nat]
  BY ThreadsAssumption, InvokedType DEF IInv, TypeOK, Thread
<1>1. TypeOK'
  BY <1>0, ThreadsAssumption DEF IInv, TypeOK, Thread, pool, history, CallerOutside, CallerAround, InChunks,
     InFlightPlace, WorkerOutside
<1>2. InFlight' = InFlight
  BY DEF IInv, TypeOK, InFlight, InFlightPlace
<1>3. hasJob => pc'[Caller] \notin CallerOutside
  BY DEF IInv, TypeOK, JobInv, CallerOutside, Thread
<1>4. \A u \in Thread : pc'[u] = "run" =>
         pc[u] = "run" /\ index'[u] < end'[u] /\ end'[u] = end[u]
  BY DEF IInv, TypeOK, JobInv, Thread, history, pool
<1> QED BY <1>1, <1>2, <1>3, <1>4, QuietStep DEF pool, history

\* So does an index that throws.
LEMMA ThrowIndexIInv ==
  ASSUME IInv, NEW t \in Thread, ThrowIndex(t)
  PROVE  IInv'
<1> USE DEF ThrowIndex, Goto, Raised
<1>0. ran' \in [Index -> Nat]
  BY ThreadsAssumption, InvokedType DEF IInv, TypeOK, Thread
<1>1. TypeOK'
  BY <1>0, ThreadsAssumption DEF IInv, TypeOK, Thread, pool, history, CallerOutside, CallerAround, InChunks,
     InFlightPlace, WorkerOutside, Exception
<1>2. InFlight' = InFlight
  BY DEF IInv, TypeOK, InFlight, InFlightPlace
<1>3. hasJob => pc'[Caller] \notin CallerOutside
  BY DEF IInv, TypeOK, JobInv, CallerOutside, Thread
<1>4. \A u \in Thread : pc'[u] = "run" =>
         pc[u] = "run" /\ index'[u] < end'[u] /\ end'[u] = end[u]
  BY DEF IInv, TypeOK, JobInv, Thread, history, pool
<1> QED BY <1>1, <1>2, <1>3, <1>4, QuietStep DEF pool, history

\* And so does the handler: the chunk is finished after it.
LEMMA CatchIInv ==
  ASSUME IInv, NEW t \in Thread, Catch(t)
  PROVE  IInv'
<1> USE DEF Catch, Goto, InHand
<1>1. TypeOK'
  BY ThreadsAssumption DEF IInv, TypeOK, Thread, pool, history, CallerOutside, CallerAround, InChunks,
     InFlightPlace, WorkerOutside, Exception
<1>2. InFlight' = InFlight
  BY DEF IInv, TypeOK, InFlight, InFlightPlace
<1>3. hasJob => pc'[Caller] \notin CallerOutside
  BY DEF IInv, TypeOK, JobInv, CallerOutside, Thread
<1>4. \A u \in Thread : pc'[u] = "run" =>
         pc[u] = "run" /\ index'[u] < end'[u] /\ end'[u] = end[u]
  BY DEF IInv, TypeOK, JobInv, Thread, history, pool
<1> QED BY <1>1, <1>2, <1>3, <1>4, QuietStep DEF pool, history

\* Inline, the caller runs its indices without a job,
LEMMA InlineIndexIInv ==
  ASSUME IInv, InlineIndex
  PROVE  IInv'
<1> USE DEF InlineIndex
<1>0. ran' \in [Index -> Nat]
  BY ThreadsAssumption, InvokedType DEF IInv, TypeOK, Thread
<1>1. TypeOK'
  BY <1>0, ThreadsAssumption DEF IInv, TypeOK, Thread, pool, history, CallerOutside, CallerAround, InChunks,
     InFlightPlace, WorkerOutside
<1>2. InFlight' = InFlight
  BY DEF IInv, TypeOK, InFlight, InFlightPlace
<1>3. hasJob => pc'[Caller] \notin CallerOutside
  BY DEF IInv, TypeOK, JobInv, CallerOutside, Thread
<1>4. \A u \in Thread : pc'[u] = "run" =>
         pc[u] = "run" /\ index'[u] < end'[u] /\ end'[u] = end[u]
  BY DEF IInv, TypeOK, JobInv, Thread, history, pool
<1> QED BY <1>1, <1>2, <1>3, <1>4, QuietStep DEF pool, history

\* stops at the first that throws,
LEMMA InlineThrowIInv ==
  ASSUME IInv, InlineThrow
  PROVE  IInv'
<1> USE DEF InlineThrow, Raised
<1>0. ran' \in [Index -> Nat]
  BY ThreadsAssumption, InvokedType DEF IInv, TypeOK, Thread
<1>1. TypeOK'
  BY <1>0, ThreadsAssumption DEF IInv, TypeOK, Thread, pool, history, CallerOutside, CallerAround, InChunks,
     InFlightPlace, WorkerOutside, Exception
<1>2. InFlight' = InFlight
  BY DEF IInv, TypeOK, InFlight, InFlightPlace
<1>3. hasJob => pc'[Caller] \notin CallerOutside
  BY DEF IInv, TypeOK, JobInv, CallerOutside, Thread
<1>4. \A u \in Thread : pc'[u] = "run" =>
         pc[u] = "run" /\ index'[u] < end'[u] /\ end'[u] = end[u]
  BY DEF IInv, TypeOK, JobInv, Thread, history, pool
<1> QED BY <1>1, <1>2, <1>3, <1>4, QuietStep DEF pool, history

\* and comes back.
LEMMA InlineReturnIInv ==
  ASSUME IInv, InlineReturn
  PROVE  IInv'
<1> USE DEF InlineReturn, Goto
<1>1. TypeOK'
  BY ThreadsAssumption DEF IInv, TypeOK, Thread, pool, history, CallerOutside, CallerAround, InChunks,
     InFlightPlace, WorkerOutside, Exception, NoException
<1>2. InFlight' = InFlight
  BY DEF IInv, TypeOK, InFlight, InFlightPlace
<1>3. hasJob => pc'[Caller] \notin CallerOutside
  BY DEF IInv, TypeOK, JobInv, CallerOutside, Thread
<1>4. \A u \in Thread : pc'[u] = "run" =>
         pc[u] = "run" /\ index'[u] < end'[u] /\ end'[u] = end[u]
  BY DEF IInv, TypeOK, JobInv, Thread, history, pool
<1> QED BY <1>1, <1>2, <1>3, <1>4, QuietStep DEF pool, history

\* The caller goes to sleep only while the job is there.
LEMMA JoinBlocksIInv ==
  ASSUME IInv, JoinBlocks
  PROVE  IInv'
<1> USE DEF JoinBlocks, Goto
<1>1. TypeOK'
  BY ThreadsAssumption DEF IInv, TypeOK, Thread, pool, history, CallerOutside, CallerAround, InChunks,
     InFlightPlace, WorkerOutside
<1>2. InFlight' = InFlight
  BY DEF IInv, TypeOK, InFlight, InFlightPlace
<1>3. hasJob => pc'[Caller] \notin CallerOutside
  BY DEF IInv, TypeOK, JobInv, CallerOutside, Thread
<1>4. \A u \in Thread : pc'[u] = "run" =>
         pc[u] = "run" /\ index'[u] < end'[u] /\ end'[u] = end[u]
  BY DEF IInv, TypeOK, JobInv, Thread, history, pool
<1> QED BY <1>1, <1>2, <1>3, <1>4, QuietStep DEF pool, history

\* The caller comes back only when the job is gone.
LEMMA ReturnIInv ==
  ASSUME IInv, Return
  PROVE  IInv'
<1> USE DEF Return, Goto
<1>1. TypeOK'
  BY ThreadsAssumption DEF IInv, TypeOK, Thread, pool, history, CallerOutside, CallerAround, InChunks,
     InFlightPlace, WorkerOutside
<1>2. InFlight' = InFlight
  BY DEF IInv, TypeOK, InFlight, InFlightPlace
<1>3. hasJob => pc'[Caller] \notin CallerOutside
  BY DEF IInv, TypeOK, JobInv, CallerOutside, Thread
<1>4. \A u \in Thread : pc'[u] = "run" =>
         pc[u] = "run" /\ index'[u] < end'[u] /\ end'[u] = end[u]
  BY DEF IInv, TypeOK, JobInv, Thread, history, pool
<1> QED BY <1>1, <1>2, <1>3, <1>4, QuietStep DEF pool, history

\* A worker leaves from outside ProcessChunks.
LEMMA WorkerExitIInv ==
  ASSUME IInv, NEW w \in Workers, WorkerExit(w)
  PROVE  IInv'
<1> USE DEF WorkerExit, Goto
<1>1. TypeOK'
  BY ThreadsAssumption DEF IInv, TypeOK, Thread, pool, history, CallerOutside, CallerAround, InChunks,
     InFlightPlace, WorkerOutside
<1>2. InFlight' = InFlight
  BY DEF IInv, TypeOK, InFlight, InFlightPlace
<1>3. hasJob => pc'[Caller] \notin CallerOutside
  BY DEF IInv, TypeOK, JobInv, CallerOutside, Thread
<1>4. \A u \in Thread : pc'[u] = "run" =>
         pc[u] = "run" /\ index'[u] < end'[u] /\ end'[u] = end[u]
  BY DEF IInv, TypeOK, JobInv, Thread, history, pool
<1> QED BY <1>1, <1>2, <1>3, <1>4, QuietStep DEF pool, history

\* A worker enters ProcessChunks without a chunk.
LEMMA WorkerStartIInv ==
  ASSUME IInv, NEW w \in Workers, WorkerStart(w)
  PROVE  IInv'
<1> USE DEF WorkerStart, Goto
<1>1. TypeOK'
  BY ThreadsAssumption DEF IInv, TypeOK, Thread, pool, history, CallerOutside, CallerAround, InChunks,
     InFlightPlace, WorkerOutside
<1>2. InFlight' = InFlight
  BY DEF IInv, TypeOK, InFlight, InFlightPlace
<1>3. hasJob => pc'[Caller] \notin CallerOutside
  BY DEF IInv, TypeOK, JobInv, CallerOutside, Thread
<1>4. \A u \in Thread : pc'[u] = "run" =>
         pc[u] = "run" /\ index'[u] < end'[u] /\ end'[u] = end[u]
  BY DEF IInv, TypeOK, JobInv, Thread, history, pool
<1> QED BY <1>1, <1>2, <1>3, <1>4, QuietStep DEF pool, history

\* A worker goes to sleep without a chunk.
LEMMA WorkerWaitsIInv ==
  ASSUME IInv, NEW w \in Workers, WorkerWaits(w)
  PROVE  IInv'
<1> USE DEF WorkerWaits, Goto
<1>1. TypeOK'
  BY ThreadsAssumption DEF IInv, TypeOK, Thread, pool, history, CallerOutside, CallerAround, InChunks,
     InFlightPlace, WorkerOutside
<1>2. InFlight' = InFlight
  BY DEF IInv, TypeOK, InFlight, InFlightPlace
<1>3. hasJob => pc'[Caller] \notin CallerOutside
  BY DEF IInv, TypeOK, JobInv, CallerOutside, Thread
<1>4. \A u \in Thread : pc'[u] = "run" =>
         pc[u] = "run" /\ index'[u] < end'[u] /\ end'[u] = end[u]
  BY DEF IInv, TypeOK, JobInv, Thread, history, pool
<1> QED BY <1>1, <1>2, <1>3, <1>4, QuietStep DEF pool, history

\* The destructor starts when no job is there.
LEMMA DestroyIInv ==
  ASSUME IInv, Destroy
  PROVE  IInv'
<1> USE DEF Destroy, WakeWorkers
<1>1. TypeOK'
  BY ThreadsAssumption DEF IInv, TypeOK, Thread, pool, history, CallerOutside, CallerAround, InChunks,
     InFlightPlace, WorkerOutside
<1>2. InFlight' = InFlight
  BY DEF IInv, TypeOK, InFlight, InFlightPlace
<1>3. hasJob => pc'[Caller] \notin CallerOutside
  BY DEF IInv, TypeOK, JobInv, CallerOutside, Thread
<1>4. \A u \in Thread : pc'[u] = "run" =>
         pc[u] = "run" /\ index'[u] < end'[u] /\ end'[u] = end[u]
  BY DEF IInv, TypeOK, JobInv, Thread, history, pool
<1> QED BY <1>1, <1>2, <1>3, <1>4, QuietStep DEF pool, history

\* The destructor ends.
LEMMA JoinWorkersIInv ==
  ASSUME IInv, JoinWorkers
  PROVE  IInv'
<1> USE DEF JoinWorkers, Goto
<1>1. TypeOK'
  BY ThreadsAssumption DEF IInv, TypeOK, Thread, pool, history, CallerOutside, CallerAround, InChunks,
     InFlightPlace, WorkerOutside
<1>2. InFlight' = InFlight
  BY DEF IInv, TypeOK, InFlight, InFlightPlace
<1>3. hasJob => pc'[Caller] \notin CallerOutside
  BY DEF IInv, TypeOK, JobInv, CallerOutside, Thread
<1>4. \A u \in Thread : pc'[u] = "run" =>
         pc[u] = "run" /\ index'[u] < end'[u] /\ end'[u] = end[u]
  BY DEF IInv, TypeOK, JobInv, Thread, history, pool
<1> QED BY <1>1, <1>2, <1>3, <1>4, QuietStep DEF pool, history

\* A wake-up nobody asked for only makes the thread look again.
LEMMA SpuriousWakeupIInv ==
  ASSUME IInv, NEW t \in Thread, SpuriousWakeup(t)
  PROVE  IInv'
<1> USE DEF SpuriousWakeup, Goto
<1>1. TypeOK'
  BY ThreadsAssumption DEF IInv, TypeOK, Thread, pool, history, CallerOutside, CallerAround, InChunks,
     InFlightPlace, WorkerOutside
<1>2. InFlight' = InFlight
  BY DEF IInv, TypeOK, InFlight, InFlightPlace
<1>3. hasJob => pc'[Caller] \notin CallerOutside
  BY DEF IInv, TypeOK, JobInv, CallerOutside, Thread
<1>4. \A u \in Thread : pc'[u] = "run" =>
         pc[u] = "run" /\ index'[u] < end'[u] /\ end'[u] = end[u]
  BY DEF IInv, TypeOK, JobInv, Thread, history, pool
<1> QED BY <1>1, <1>2, <1>3, <1>4, QuietStep DEF pool, history

\* A new job counts all of its chunks, and nobody is in flight yet.
LEMMA PublishIInv ==
  ASSUME IInv, NEW n \in Counts, NEW g \in Grains, Publish(n, g)
  PROVE  IInv'
<1> USE ArgumentsAssumption, ThreadsAssumption DEF NewCall, Publish, Goto
<1>1. n \in Nat \ {0} /\ GrainOrOne(g) \in Nat \ {0}
  BY DEF RunsInline, GrainOrOne
<1>2. NumChunks(n, GrainOrOne(g)) \in Nat
  BY <1>1, ChunksOfNat
<1>3. TypeOK'
  BY <1>1, <1>2 DEF IInv, TypeOK, Thread, CallerOutside, CallerAround, InChunks, InFlightPlace,
     WorkerOutside, NoException, Exception
<1>4. InFlight = {}
  BY DEF IInv, JobInv
<1>5. InFlight' = InFlight
  BY DEF IInv, TypeOK, InFlight, InFlightPlace
<1>6. \A t \in Thread : pc'[t] # "run"
  BY <1>4, <1>5 DEF InFlight, InFlightPlace
<1>7. JobInv'
  BY <1>1, <1>6, ThreadsAssumption DEF IInv, TypeOK, JobInv, CallerOutside, Thread
<1>8. ChunkAccounting'
  <2>1. count' - nextIndex' = n
    BY <1>1
  <2>2. remaining' = NumChunks(n, GrainOrOne(g)) + Cardinality(InFlight')
    BY <1>2, <1>4, <1>5, FS_EmptySet
  <2> QED BY <2>1, <2>2 DEF ChunkAccounting, NumChunks
<1> QED BY <1>3, <1>7, <1>8 DEF IInv

\* A claim turns one unclaimed chunk into one thread in flight.
LEMMA ClaimChunkIInv ==
  ASSUME IInv, NEW t \in Thread, ClaimChunk(t)
  PROVE  IInv'
<1> USE DEF ClaimChunk, Goto
<1>1. /\ hasJob /\ nextIndex < count
      /\ count \in Nat /\ nextIndex \in Nat /\ grain \in Nat \ {0}
  BY DEF IInv, TypeOK
<1>2. /\ Smaller(count, nextIndex + grain) \in Nat
      /\ nextIndex < Smaller(count, nextIndex + grain)
      /\ Smaller(count, nextIndex + grain) <= count
  BY <1>1 DEF Smaller
<1>3. TypeOK'
  BY <1>2, ThreadsAssumption DEF IInv, TypeOK, Thread, history, CallerOutside, CallerAround,
     InChunks, InFlightPlace, WorkerOutside
<1>4. t \notin InFlight /\ InFlight' = InFlight \cup {t}
  BY DEF IInv, TypeOK, InFlight, InFlightPlace
<1>5. JobInv'
  <2>1. hasJob' /\ task' = calls' /\ count' = size' /\ nextIndex' <= count'
    BY <1>2 DEF IInv, JobInv, history
  <2>2. pc'[Caller] \notin CallerOutside
    BY DEF IInv, TypeOK, JobInv, CallerOutside, Thread
  <2>3. ASSUME NEW u \in Thread, pc'[u] = "run"
        PROVE  index'[u] < end'[u] /\ end'[u] <= nextIndex'
    <3>1. CASE u = t
      BY <1>2, <3>1 DEF IInv, TypeOK
    <3>2. CASE u # t
      <4>1. pc[u] = "run" /\ index'[u] = index[u] /\ end'[u] = end[u]
        BY <2>3, <3>2 DEF IInv, TypeOK
      <4>2. index[u] < end[u] /\ end[u] <= nextIndex /\ end[u] \in Nat
        BY <4>1 DEF IInv, TypeOK, JobInv
      <4> QED BY <1>1, <1>2, <4>1, <4>2
    <3> QED BY <3>1, <3>2
  <2> QED BY <2>1, <2>2, <2>3 DEF JobInv
<1>6. ChunkAccounting'
  <2> DEFINE rest == count - nextIndex
  <2>1. rest \in Nat \ {0}
    BY <1>1
  <2>2. Cardinality(InFlight') = Cardinality(InFlight) + 1
    BY <1>4, InFlightFinite, FS_AddElement
  <2>3. NumChunks(rest, grain) = 1 + NumChunks(count - nextIndex', grain)
    <3>1. CASE rest > grain
      <4>1. count - nextIndex' = rest - grain
        BY <1>1, <3>1 DEF Smaller
      <4> QED BY <1>1, <2>1, <3>1, <4>1, ChunkTaken
    <3>2. CASE rest <= grain
      <4>1. count - nextIndex' = 0
        BY <1>1, <3>2 DEF Smaller
      <4> QED BY <1>1, <2>1, <3>2, <4>1, ChunkTaken
    <3> QED BY <1>1, <3>1, <3>2
  <2>4. remaining = NumChunks(rest, grain) + Cardinality(InFlight)
    BY <1>1 DEF IInv, ChunkAccounting
  <2>5. NumChunks(count - nextIndex', grain) \in Nat
    <3>1. count - nextIndex' \in Nat
      BY <1>1, <1>2
    <3> QED BY <1>1, <3>1, ChunksOfNat
  <2>6. remaining = NumChunks(count - nextIndex', grain) + Cardinality(InFlight')
    BY <2>2, <2>3, <2>4, <2>5, InFlightFinite
  <2> QED BY <1>1, <2>6 DEF ChunkAccounting, NumChunks
<1> QED BY <1>3, <1>5, <1>6 DEF IInv

\* Both ways a chunk ends take its thread out of the threads in flight.
LEMMA FinishChunkIInv ==
  ASSUME IInv, NEW t \in Thread, FinishChunk(t)
  PROVE  IInv'
<1> USE DEF FinishChunk, Goto
<1>1. t \in InFlight /\ InFlight' = InFlight \ {t}
  BY DEF IInv, TypeOK, InFlight, InFlightPlace
<1>2. hasJob /\ remaining >= 1
  BY <1>1, InFlightCounted
<1>3. TypeOK'
  BY <1>2, ThreadsAssumption DEF IInv, TypeOK, Thread, history, CallerOutside, CallerAround,
     InChunks, InFlightPlace, WorkerOutside
<1>4. JobInv'
  BY <1>2 DEF IInv, TypeOK, JobInv, history, CallerOutside, Thread
<1>5. ChunkAccounting'
  <2>1. Cardinality(InFlight') = Cardinality(InFlight) - 1
    BY <1>1, InFlightFinite, FS_RemoveElement
  <2>2. NumChunks(count - nextIndex, grain) \in Nat
    <3>1. count - nextIndex \in Nat /\ grain \in Nat \ {0}
      BY <1>2 DEF IInv, TypeOK, JobInv
    <3> QED BY <3>1, ChunksOfNat
  <2>3. remaining = NumChunks(count - nextIndex, grain) + Cardinality(InFlight)
    BY <1>2 DEF IInv, ChunkAccounting
  <2>4. remaining - 1 = NumChunks(count - nextIndex, grain) + Cardinality(InFlight')
    BY <2>1, <2>2, <2>3, InFlightFinite
  <2> QED BY <1>2, <2>4 DEF ChunkAccounting, NumChunks
<1> QED BY <1>3, <1>4, <1>5 DEF IInv

\* The last chunk leaves nobody in flight.
LEMMA FinishJobIInv ==
  ASSUME IInv, NEW t \in Thread, FinishJob(t)
  PROVE  IInv'
<1> USE DEF FinishJob, AfterChunks
<1>1. t \in InFlight /\ InFlight' = InFlight \ {t}
  BY DEF IInv, TypeOK, InFlight, InFlightPlace
<1>2. hasJob /\ InFlight = {t}
  BY <1>1, InFlightCounted
<1>3. InFlight' = {}
  BY <1>1, <1>2
<1>4. TypeOK'
  BY ThreadsAssumption DEF IInv, TypeOK, Thread, history, NoTask, CallerOutside, CallerAround,
     InChunks, InFlightPlace, WorkerOutside
<1>5. JobInv'
  <2>1. \A u \in Thread : pc'[u] # "run"
    BY <1>3 DEF InFlight, InFlightPlace
  <2> QED BY <1>3, <2>1 DEF JobInv
<1>6. ChunkAccounting'
  BY <1>3, FS_EmptySet DEF ChunkAccounting
<1> QED BY <1>4, <1>5, <1>6 DEF IInv

\* Every step of the pool keeps the invariant.
LEMMA NextIInv == IInv /\ [Next]_vars => IInv'
<1> SUFFICES ASSUME IInv, [Next]_vars PROVE IInv'
  OBVIOUS
<1> USE DEF Thread
<1>1. ASSUME NEW n \in Counts, NEW g \in Grains, CallInline(n, g) \/ Publish(n, g)
      PROVE  IInv'
  BY <1>1, CallInlineIInv, PublishIInv
<1>2. CASE Destroy
  BY <1>2, DestroyIInv
<1>3. ASSUME NEW t \in Thread, ProcessChunks(t)
      PROVE  IInv'
  BY <1>3, ClaimChunkIInv, NoMoreChunksIInv, RunIndexIInv, ThrowIndexIInv, CatchIInv,
     FinishChunkIInv, FinishJobIInv DEF ProcessChunks
<1>4. CASE CallerStep
  BY <1>3, <1>4, InlineIndexIInv, InlineThrowIInv, InlineReturnIInv, NotifyAllIInv,
     JoinBlocksIInv, ReturnIInv, JoinWorkersIInv DEF CallerStep
<1>5. ASSUME NEW w \in Workers, WorkerStep(w)
      PROVE  IInv'
  BY <1>3, <1>5, WorkerExitIInv, WorkerStartIInv, WorkerWaitsIInv DEF WorkerStep
<1>6. ASSUME NEW t \in Thread, SpuriousWakeup(t)
      PROVE  IInv'
  BY <1>6, SpuriousWakeupIInv
<1>7. CASE UNCHANGED vars
  BY <1>7 DEF IInv, TypeOK, JobInv, ChunkAccounting, InFlight, NumChunks, vars, pool, threads, history
<1>8. CASE Terminated
  BY <1>7, <1>8 DEF Terminated
<1> QED BY <1>1, <1>2, <1>4, <1>5, <1>6, <1>7, <1>8 DEF Next

-----------------------------------------------------------------------------
\* The inductive invariant holds of every execution of the pool.
THEOREM SpecIInv == Spec => []IInv
BY InitIInv, NextIInv, PTL DEF Spec

\* The members keep their types; in particular remaining_chunks_, an unsigned
\* count, is never decremented below zero.
THEOREM SpecTypeOK == Spec => []TypeOK
<1>1. IInv => TypeOK
  BY DEF IInv
<1> QED BY <1>1, SpecIInv, PTL

\* remaining_chunks_ always is the number of chunks still to be finished.
THEOREM SpecChunkAccounting == Spec => []ChunkAccounting
<1>1. IInv => ChunkAccounting
  BY DEF IInv
<1> QED BY <1>1, SpecIInv, PTL

\* ParallelFor is a barrier: no thread is inside fn once the call is over.
THEOREM SpecBarrierHolds == Spec => []BarrierHolds
<1>1. IInv => BarrierHolds
  <2> SUFFICES ASSUME IInv, NEW t \in Thread, pc[t] = "run"
               PROVE  /\ pc[Caller] \notin CallerOutside
                      /\ hasJob /\ task = calls /\ index[t] < size
    BY DEF BarrierHolds
  <2>1. t \in InFlight
    BY DEF InFlight, InFlightPlace
  <2>2. hasJob
    BY <2>1 DEF IInv, JobInv
  <2>3. index[t] < end[t] /\ end[t] <= nextIndex /\ nextIndex <= count /\ count = size
    BY <2>2 DEF IInv, JobInv
  <2> QED BY <2>2, <2>3 DEF IInv, TypeOK, JobInv
<1> QED BY <1>1, SpecIInv, PTL

\* No thread writes task_ while another may be reading it without the lock.
THEOREM SpecTaskNotWrittenWhileRead == Spec => TaskNotWrittenWhileRead
<1>1. ASSUME IInv, [Next]_vars
      PROVE  [(\E t \in Thread : pc[t] = "run") => task' = task]_vars
  <2> SUFFICES ASSUME NEW r \in Thread, pc[r] = "run", task' # task
               PROVE  FALSE
    OBVIOUS
  <2>1. r \in InFlight /\ hasJob
    BY <1>1 DEF InFlight, InFlightPlace, IInv, JobInv
  <2>2. PICK t \in Thread : FinishJob(t)
    BY <1>1, <2>1 DEF Next, CallInline, Publish, Destroy, CallerStep, ProcessChunks, ClaimChunk,
       NoMoreChunks, RunIndex, ThrowIndex, Catch, FinishChunk, InlineIndex, InlineThrow,
       InlineReturn, NotifyAll, JoinBlocks, Return, JoinWorkers, WorkerStep, WorkerExit,
       WorkerStart, WorkerWaits, SpuriousWakeup, Terminated, vars, pool, Thread
  <2>3. t \in InFlight /\ t # r
    BY <2>2 DEF FinishJob, InFlight, InFlightPlace
  <2>4. InFlight = {t}
    BY <1>1, <2>2, <2>3, InFlightCounted DEF FinishJob
  <2> QED BY <2>1, <2>3, <2>4
<1> QED BY <1>1, SpecIInv, PTL DEF Spec, TaskNotWrittenWhileRead
-----------------------------------------------------------------------------
(***************************************************************************)
(* What a ParallelFor call delivers: every index invoked once, an          *)
(* exception of this call and no other, and no index skipped but behind a  *)
(* throwing one of its chunk.                                              *)
(***************************************************************************)

\* The index is in a chunk a thread is running, and fn has not reached it.
Held(i) == \E t \in Thread : pc[t] = "run" /\ index[t] <= i /\ i < end[t]

\* The index lies behind a throwing one of its chunk.
Skipped(i) == \E e \in threw : e.index < i /\ e.index \div grain = i \div grain

(***************************************************************************)
(* The inductive invariant, on top of IInv.                                *)
(***************************************************************************)
\* The call has an identity, so that its exceptions differ from none.
CallInv ==
  /\ size \in Counts \cup {0}
  /\ calls = 0 => pc[Caller] \in {"idle", "joining", "gone"}

\* Nothing was invoked twice, and what is still to be invoked not once.
OnceInv ==
  /\ \A i \in Index : ran[i] \in {0, 1}
  /\ hasJob => \A i \in Index : i >= nextIndex => ran[i] = 0
  /\ \A t \in Thread : pc[t] = "run" =>
       \A i \in Index : index[t] <= i /\ i < end[t] => ran[i] = 0
  /\ \A t, u \in Thread : pc[t] = "run" /\ pc[u] = "run" /\ t # u =>
       end[t] <= index[u] \/ end[u] <= index[t]

\* Chunks are aligned to the grain.
AlignedInv ==
  /\ hasJob /\ nextIndex < count => (nextIndex \div grain) * grain = nextIndex
  /\ \A t \in Thread : pc[t] = "run" =>
       \A i \in Index : index[t] <= i /\ i < end[t] => i \div grain = index[t] \div grain

\* Around a job, every index was invoked, or lies behind a throwing one, or
\* is still to come.
CoveredInv ==
  pc[Caller] \notin CallerOutside =>
    \A i \in Index : i < size =>
      ran[i] = 1 \/ Skipped(i) \/ (hasJob /\ i >= nextIndex) \/ Held(i)

\* Inline, the caller has invoked the indices below its own, up to a throw.
InlineInv ==
  pc[Caller] = "inline" =>
    /\ index[Caller] <= end[Caller] /\ end[Caller] = size
    /\ \A i \in Index : i >= index[Caller] => ran[i] = 0
    /\ \A i \in Index : i < index[Caller] /\ threw = {} => ran[i] = 1

\* Around a job, first_exception_ is one of this call's, and it is set or
\* about to be set once something threw.
ExceptionInv ==
  pc[Caller] \notin CallerOutside =>
    /\ firstException = NoException \/ firstException \in threw
    /\ threw # {} => firstException # NoException \/ \E t \in Thread : pc[t] = "catch"
    /\ \A t \in Thread : pc[t] = "catch" => InHand(t) \in threw

DInv ==
  /\ IInv /\ CallInv /\ OnceInv /\ AlignedInv /\ CoveredInv /\ InlineInv /\ ExceptionInv
  /\ ExactlyOnce /\ ExceptionReported

-----------------------------------------------------------------------------
\* Indices are natural numbers, and those of the current call are among them.
LEMMA IndexNat == Index \subseteq Nat
BY ArgumentsAssumption DEF Index

LEMMA IndexOfCall ==
  ASSUME CallInv, NEW i \in 0 .. size - 1
  PROVE  i \in Index
BY ArgumentsAssumption DEF CallInv, Index

\* A thread that runs a chunk is at an index of the current call, below
\* next_index_.
LEMMA RunningIndex ==
  ASSUME IInv, CallInv, NEW t \in Thread, pc[t] = "run"
  PROVE  /\ index[t] \in Index /\ index[t] < end[t] /\ end[t] <= nextIndex
         /\ nextIndex <= size /\ hasJob /\ count = size
         /\ pc[Caller] \notin CallerOutside
<1>1. t \in InFlight
  BY DEF InFlight, InFlightPlace
<1>2. hasJob
  BY <1>1 DEF IInv, JobInv
<1>3. /\ index[t] < end[t] /\ end[t] <= nextIndex /\ nextIndex <= size /\ count = size
      /\ pc[Caller] \notin CallerOutside
  BY <1>2 DEF IInv, JobInv
<1>4. index[t] \in 0 .. size - 1
  BY <1>3, ArgumentsAssumption DEF IInv, TypeOK, CallInv
<1> QED BY <1>2, <1>3, <1>4, IndexOfCall

\* A new pool has been called by nobody.
LEMMA InitDInv == Init => DInv
<1> SUFFICES ASSUME Init PROVE DInv
  OBVIOUS
<1>1. pc[Caller] = "idle" /\ \A t \in Thread : pc[t] \notin {"run", "catch"}
  BY DEF Init, Thread
<1>2. CallInv /\ CoveredInv /\ InlineInv /\ ExceptionInv
  BY <1>1 DEF Init, CallInv, CoveredInv, InlineInv, ExceptionInv, CallerOutside
<1>3. OnceInv /\ AlignedInv
  BY <1>1 DEF Init, OnceInv, AlignedInv
<1>4. ExactlyOnce /\ ExceptionReported
  BY DEF Init, ExactlyOnce, ExceptionReported
<1> QED BY <1>2, <1>3, <1>4, InitIInv DEF DInv

\* The steps that invoke nothing, claim nothing and record nothing.
LEMMA QuietDelivery ==
  ASSUME DInv, IInv',
         UNCHANGED <<hasJob, count, grain, nextIndex, firstException, index, end,
                     calls, size, ran, threw, result>>,
         \A t \in Thread : pc'[t] = "run" <=> pc[t] = "run",
         \A t \in Thread : pc'[t] = "catch" <=> pc[t] = "catch",
         pc'[Caller] \notin CallerOutside => pc[Caller] \notin CallerOutside,
         pc'[Caller] \in CallerOutside =>
            pc'[Caller] = pc[Caller] \/ pc'[Caller] \in {"joining", "gone"}
  PROVE  DInv'
<1>1. CallInv'
  BY DEF DInv, CallInv, CallerOutside
<1>2. OnceInv' /\ AlignedInv'
  BY DEF DInv, OnceInv, AlignedInv
<1>3. CoveredInv'
  BY DEF DInv, CoveredInv, Held, Skipped
<1>4. InlineInv'
  BY DEF DInv, InlineInv, CallerOutside
<1>5. ExceptionInv'
  BY DEF DInv, ExceptionInv, InHand
<1>6. ExactlyOnce' /\ ExceptionReported'
  BY DEF DInv, ExactlyOnce, ExceptionReported, CallerOutside
<1> QED BY <1>1, <1>2, <1>3, <1>4, <1>5, <1>6 DEF DInv

\* Waking, waiting and leaving are such steps, and so is finishing a chunk.
LEMMA QuietSteps ==
  ASSUME DInv
  PROVE  /\ NotifyAll => DInv'
         /\ JoinBlocks => DInv'
         /\ Destroy => DInv'
         /\ JoinWorkers => DInv'
         /\ \A t \in Thread : NoMoreChunks(t) \/ FinishChunk(t) \/ SpuriousWakeup(t) => DInv'
         /\ \A w \in Workers : WorkerExit(w) \/ WorkerStart(w) \/ WorkerWaits(w) => DInv'
<1> USE ThreadsAssumption DEF Thread, CallerOutside
<1>0. /\ IInv /\ Caller \in Thread
      /\ DOMAIN pc = Thread /\ pc = [t \in Thread |-> pc[t]]
      /\ pc[Caller] \notin WorkerOutside
  BY DEF DInv, IInv, TypeOK
<1>1. ASSUME NotifyAll
     PROVE  DInv'
  BY <1>0, <1>1, NotifyAllIInv, QuietDelivery DEF NotifyAll, WakeWorkers, pool, history, WorkerOutside
<1>2. ASSUME NEW t \in Thread, NoMoreChunks(t)
     PROVE  DInv'
  BY <1>0, <1>2, NoMoreChunksIInv, QuietDelivery DEF NoMoreChunks, Goto, AfterChunks, pool, history, WorkerOutside
<1>3. ASSUME NEW t \in Thread, FinishChunk(t)
     PROVE  DInv'
  BY <1>0, <1>3, FinishChunkIInv, QuietDelivery DEF FinishChunk, Goto, pool, history, WorkerOutside
<1>4. ASSUME JoinBlocks
     PROVE  DInv'
  BY <1>0, <1>4, JoinBlocksIInv, QuietDelivery DEF JoinBlocks, Goto, pool, history, WorkerOutside
<1>5. ASSUME NEW w \in Workers, WorkerExit(w)
     PROVE  DInv'
  BY <1>0, <1>5, WorkerExitIInv, QuietDelivery DEF WorkerExit, Goto, pool, history, WorkerOutside
<1>6. ASSUME NEW w \in Workers, WorkerStart(w)
     PROVE  DInv'
  BY <1>0, <1>6, WorkerStartIInv, QuietDelivery DEF WorkerStart, Goto, pool, history, WorkerOutside
<1>7. ASSUME NEW w \in Workers, WorkerWaits(w)
     PROVE  DInv'
  BY <1>0, <1>7, WorkerWaitsIInv, QuietDelivery DEF WorkerWaits, Goto, pool, history, WorkerOutside
<1>8. ASSUME Destroy
     PROVE  DInv'
  BY <1>0, <1>8, DestroyIInv, QuietDelivery DEF Destroy, WakeWorkers, pool, history, WorkerOutside
<1>9. ASSUME JoinWorkers
     PROVE  DInv'
  BY <1>0, <1>9, JoinWorkersIInv, QuietDelivery DEF JoinWorkers, Goto, pool, history, WorkerOutside
<1>10. ASSUME NEW t \in Thread, SpuriousWakeup(t)
     PROVE  DInv'
  BY <1>0, <1>10, SpuriousWakeupIInv, QuietDelivery DEF SpuriousWakeup, Goto, pool, history, WorkerOutside
<1> QED BY <1>1, <1>2, <1>3, <1>4, <1>5, <1>6, <1>7, <1>8, <1>9, <1>10

-----------------------------------------------------------------------------
\* A call starts with nothing invoked and nothing thrown.
LEMMA CallInlineDInv ==
  ASSUME DInv, NEW n \in Counts, NEW g \in Grains, CallInline(n, g)
  PROVE  DInv'
<1> USE DEF CallInline, NewCall, Goto, pool
<1>1. IInv' /\ Caller \in Thread /\ n \in Nat
  BY CallInlineIInv, ArgumentsAssumption DEF DInv, Thread
<1>2. pc'[Caller] = "inline" /\ ~hasJob /\ InFlight' = {}
  BY <1>1 DEF DInv, IInv, TypeOK, JobInv, CallerOutside
<1>3. \A t \in Thread : pc'[t] # "run"
  BY <1>2 DEF InFlight, InFlightPlace
<1>4. \A i \in Index : ran'[i] = 0
  OBVIOUS
<1>5. CallInv' /\ CoveredInv' /\ ExceptionInv' /\ ExceptionReported'
  BY <1>2 DEF DInv, IInv, TypeOK, CallInv, CoveredInv, ExceptionInv, ExceptionReported, CallerOutside
<1>6. OnceInv' /\ AlignedInv' /\ ExactlyOnce'
  BY <1>2, <1>3, <1>4 DEF DInv, IInv, TypeOK, OnceInv, AlignedInv, ExactlyOnce
<1>7. InlineInv'
  BY <1>1, <1>4, IndexNat DEF DInv, IInv, TypeOK, InlineInv
<1> QED BY <1>1, <1>5, <1>6, <1>7 DEF DInv

LEMMA PublishDInv ==
  ASSUME DInv, NEW n \in Counts, NEW g \in Grains, Publish(n, g)
  PROVE  DInv'
<1> USE DEF Publish, NewCall, Goto
<1>1. IInv' /\ Caller \in Thread /\ n \in Nat
  BY PublishIInv, ArgumentsAssumption DEF DInv, Thread
<1>2. pc'[Caller] = "notify"
  BY <1>1 DEF DInv, IInv, TypeOK
<1>3. \A t \in Thread : pc'[t] \notin {"run", "catch"}
  <2>1. InFlight = {}
    BY DEF DInv, IInv, JobInv
  <2> QED BY <2>1 DEF DInv, IInv, TypeOK, InFlight, InFlightPlace
<1>4. \A i \in Index : ran'[i] = 0 /\ i >= 0
  BY IndexNat
<1>5. CallInv' /\ CoveredInv' /\ ExceptionInv' /\ ExceptionReported'
  BY <1>2, <1>3, <1>4 DEF DInv, IInv, TypeOK, CallInv, CoveredInv, ExceptionInv, ExceptionReported
<1>6. OnceInv' /\ ExactlyOnce' /\ InlineInv'
  BY <1>2, <1>3, <1>4 DEF OnceInv, ExactlyOnce, InlineInv
<1>7. AlignedInv'
  <2>1. grain' \in Nat \ {0}
    BY <1>1 DEF IInv, TypeOK
  <2>2. 0 \div grain' = 0
    BY <2>1
  <2>3. (nextIndex' \div grain') * grain' = nextIndex'
    BY <2>1, <2>2
  <2> QED BY <1>3, <2>3 DEF AlignedInv
<1> QED BY <1>1, <1>5, <1>6, <1>7 DEF DInv

-----------------------------------------------------------------------------
\* Inline, an index more was invoked.
LEMMA InlineDInv ==
  ASSUME DInv, InlineIndex \/ InlineThrow
  PROVE  DInv'
<1> USE DEF InlineIndex, InlineThrow, Invoked, Raised, pool
<1> DEFINE here == index[Caller]
<1>1. /\ IInv /\ IInv' /\ Caller \in Thread
      /\ here \in Nat /\ end[Caller] = size /\ here < size /\ size \in Nat
      /\ index \in [Thread -> Nat] /\ ran \in [Index -> Nat]
      /\ pc[Caller] = "inline" /\ pc' = pc
  BY InlineIndexIInv, InlineThrowIInv DEF DInv, IInv, TypeOK, InlineInv, Thread
<1>2. here \in Index /\ ran[here] = 0
  <2>1. here \in 0 .. size - 1
    BY <1>1
  <2> QED BY <1>1, <2>1, IndexOfCall DEF DInv, InlineInv
<1>3. ~hasJob /\ ~hasJob' /\ \A t \in Thread : pc[t] # "run"
  BY <1>1 DEF IInv, JobInv, CallerOutside, InFlight, InFlightPlace
<1>4. \A i \in Index : ran'[i] = IF i = here THEN 1 ELSE ran[i]
  BY <1>1, <1>2
<1>5. CallInv' /\ CoveredInv' /\ ExceptionInv' /\ ExceptionReported'
  BY <1>1 DEF DInv, CallInv, CoveredInv, ExceptionInv, ExceptionReported, CallerOutside
<1>6. OnceInv' /\ AlignedInv' /\ ExactlyOnce'
  <2>1. \A i \in Index : ran'[i] \in {0, 1}
    BY <1>4 DEF DInv, OnceInv
  <2> QED BY <1>1, <1>3, <2>1 DEF OnceInv, AlignedInv, ExactlyOnce
<1>7. InlineInv'
  <2>1. here < index'[Caller] /\ index'[Caller] \in Nat /\ index'[Caller] <= size
    BY <1>1
  <2>2. ASSUME NEW i \in Index, i >= index'[Caller]
        PROVE  ran'[i] = 0
    <3>1. i # here /\ i >= here
      BY <1>1, <2>1, <2>2, IndexNat
    <3> QED BY <1>1, <1>4, <3>1 DEF DInv, InlineInv
  <2>3. ASSUME NEW i \in Index, i < index'[Caller], threw' = {}
        PROVE  ran'[i] = 1
    <3>1. index'[Caller] = here + 1 /\ threw = {}
      BY <1>1, <2>3
    <3>2. i = here \/ i < here
      BY <1>1, <2>3, <3>1, IndexNat
    <3> QED BY <1>1, <1>4, <3>1, <3>2 DEF DInv, InlineInv
  <2> QED BY <1>1, <2>1, <2>2, <2>3 DEF InlineInv
<1> QED BY <1>1, <1>5, <1>6, <1>7 DEF DInv

LEMMA InlineReturnDInv ==
  ASSUME DInv, InlineReturn
  PROVE  DInv'
<1> USE DEF InlineReturn, Goto, pool
<1>1. IInv' /\ IInv /\ Caller \in Thread /\ ~hasJob /\ pc'[Caller] = "idle"
  BY InlineReturnIInv DEF DInv, IInv, TypeOK, JobInv, CallerOutside, Thread
<1>2. \A t \in Thread : pc'[t] # "run"
  BY <1>1 DEF IInv, JobInv, InFlight, InFlightPlace
<1>3. CallInv' /\ CoveredInv' /\ InlineInv' /\ ExceptionInv'
  BY <1>1 DEF DInv, CallInv, CoveredInv, InlineInv, ExceptionInv, CallerOutside
<1>4. OnceInv' /\ AlignedInv'
  BY <1>1, <1>2 DEF DInv, OnceInv, AlignedInv
<1>5. ExceptionReported'
  BY <1>1 DEF ExceptionReported
<1>6. ExactlyOnce'
  <2>1. ASSUME threw = {}, NEW i \in 0 .. size - 1
        PROVE  ran[i] = 1
    <3>1. i \in Index /\ i < index[Caller]
      <4>1. i \in Index
        BY IndexOfCall DEF DInv
      <4> QED BY <1>1, <4>1 DEF DInv, InlineInv, IInv, TypeOK
    <3> QED BY <2>1, <3>1 DEF DInv, InlineInv
  <2> QED BY <2>1 DEF DInv, ExactlyOnce
<1> QED BY <1>1, <1>3, <1>4, <1>5, <1>6 DEF DInv

-----------------------------------------------------------------------------
\* A claim moves a chunk from the indices to come to those a thread holds.
LEMMA ClaimChunkDInv ==
  ASSUME DInv, NEW t \in Thread, ClaimChunk(t)
  PROVE  DInv'
<1> USE DEF ClaimChunk, Goto, history
<1> DEFINE last == Smaller(count, nextIndex + grain)
<1>1. /\ IInv /\ IInv' /\ hasJob /\ hasJob' /\ nextIndex < count /\ count = size
      /\ count \in Nat /\ nextIndex \in Nat /\ grain \in Nat \ {0}
      /\ pc[Caller] \notin CallerOutside /\ pc'[Caller] \notin CallerOutside
  BY ClaimChunkIInv DEF DInv, IInv, TypeOK, JobInv
<1>2. /\ last \in Nat /\ nextIndex < last /\ last <= count /\ nextIndex' = last
      /\ last <= nextIndex + grain
      /\ last = count \/ last = nextIndex + grain
  BY <1>1 DEF Smaller
<1> HIDE DEF last
<1>3. /\ index'[t] = nextIndex /\ end'[t] = last /\ pc'[t] = "run"
      /\ \A u \in Thread : u # t =>
           index'[u] = index[u] /\ end'[u] = end[u] /\ pc'[u] = pc[u]
      /\ pc[t] = "claim"
  BY <1>1 DEF IInv, TypeOK, last
<1>4. \A u \in Thread : pc'[u] = "run" /\ u # t =>
         /\ pc[u] = "run" /\ index'[u] = index[u] /\ end'[u] = end[u]
         /\ end[u] <= nextIndex /\ end[u] \in Nat /\ index[u] \in Nat
  BY <1>1, <1>3 DEF IInv, TypeOK, JobInv
<1>5. CallInv' /\ InlineInv' /\ ExactlyOnce' /\ ExceptionReported'
  BY <1>1 DEF DInv, CallInv, CallerOutside, InlineInv, ExactlyOnce, OnceInv, ExceptionReported
<1>6. ExceptionInv'
  BY <1>1, <1>3 DEF DInv, ExceptionInv, InHand
<1>7. OnceInv'
  <2>1. \A i \in Index : ran[i] \in {0, 1} /\ (i >= nextIndex => ran[i] = 0)
    BY <1>1 DEF DInv, OnceInv
  <2>2. \A i \in Index : i >= nextIndex' => ran'[i] = 0
    BY <1>1, <1>2, <2>1, IndexNat
  <2>3. ASSUME NEW u \in Thread, pc'[u] = "run", NEW i \in Index, index'[u] <= i, i < end'[u]
        PROVE  ran'[i] = 0
    <3>1. CASE u = t
      BY <1>3, <2>1, <2>3, <3>1
    <3>2. CASE u # t
      BY <1>4, <2>3, <3>2 DEF DInv, OnceInv
    <3> QED BY <3>1, <3>2
  <2>4. ASSUME NEW u \in Thread, NEW v \in Thread, pc'[u] = "run", pc'[v] = "run", u # v
        PROVE  end'[u] <= index'[v] \/ end'[v] <= index'[u]
    <3>1. CASE u # t /\ v # t
      BY <1>4, <2>4, <3>1 DEF DInv, OnceInv
    <3>2. CASE u = t \/ v = t
      BY <1>3, <1>4, <2>4, <3>2
    <3> QED BY <3>1, <3>2
  <2> QED BY <2>1, <2>2, <2>3, <2>4 DEF OnceInv
<1>8. AlignedInv'
  <2> DEFINE q == nextIndex \div grain
  <2>1. q \in Nat /\ q * grain = nextIndex
    BY <1>1, QuotientBounds DEF DInv, AlignedInv
  <2>2. (q + 1) * grain = nextIndex + grain /\ q + 1 \in Nat
    BY <1>1, <2>1
  <2>3. ASSUME last < count
        PROVE  (last \div grain) * grain = last
    <3>1. last = (q + 1) * grain /\ last < (q + 2) * grain
      <4>1. (q + 2) * grain = (q + 1) * grain + grain
        BY <1>1, <2>1
      <4> QED BY <1>1, <1>2, <2>2, <2>3, <4>1
    <3>2. last \div grain = q + 1
      <4> HIDE DEF q
      <4>1. q + 2 = (q + 1) + 1
        BY <2>1
      <4> QED BY <1>1, <1>2, <2>2, <3>1, <4>1, QuotientUnique
    <3> QED BY <3>1, <3>2
  <2>4. ASSUME NEW i \in Index, nextIndex <= i, i < last
        PROVE  i \div grain = q
    <3>1. i \in Nat /\ q * grain <= i /\ i < (q + 1) * grain
      BY <1>1, <1>2, <2>1, <2>2, <2>4, IndexNat
    <3> HIDE DEF q
    <3> QED BY <1>1, <2>1, <3>1, QuotientUnique
  <2>5. ASSUME NEW u \in Thread, pc'[u] = "run", NEW i \in Index, index'[u] <= i, i < end'[u]
        PROVE  i \div grain' = index'[u] \div grain'
    <3>1. CASE u = t
      BY <1>3, <2>4, <2>5, <3>1
    <3>2. CASE u # t
      BY <1>4, <2>5, <3>2 DEF DInv, AlignedInv
    <3> QED BY <3>1, <3>2
  <2> QED BY <1>2, <2>3, <2>5 DEF AlignedInv
<1>9. CoveredInv'
  <2> SUFFICES ASSUME NEW i \in Index, i < size
               PROVE  ran'[i] = 1 \/ Skipped(i)' \/ (hasJob' /\ i >= nextIndex') \/ Held(i)'
    BY DEF CoveredInv
  <2>1. CASE ran[i] = 1 \/ Skipped(i)
    BY <2>1 DEF Skipped
  <2>2. CASE i >= nextIndex
    BY <1>1, <1>2, <1>3, <2>2, IndexNat DEF Held
  <2>3. CASE Held(i)
    <3>1. PICK u \in Thread : pc[u] = "run" /\ index[u] <= i /\ i < end[u]
      BY <2>3 DEF Held
    <3>2. u # t
      BY <1>3, <3>1
    <3> QED BY <1>3, <3>1, <3>2 DEF Held
  <2> QED BY <1>1, <2>1, <2>2, <2>3 DEF DInv, CoveredInv
<1> QED BY <1>1, <1>5, <1>6, <1>7, <1>8, <1>9 DEF DInv

-----------------------------------------------------------------------------
\* An invocation takes one index from those its thread holds; one that throws
\* drops the others behind it.
LEMMA InvokeDInv ==
  ASSUME DInv, NEW t \in Thread, RunIndex(t) \/ ThrowIndex(t)
  PROVE  DInv'
<1> USE DEF RunIndex, ThrowIndex, Invoked, Raised, Goto, pool
<1> DEFINE here == index[t]
<1>1. /\ IInv /\ IInv' /\ CallInv /\ pc[t] = "run"
      /\ index \in [Thread -> Nat] /\ end \in [Thread -> Nat] /\ ran \in [Index -> Nat]
      /\ size \in Nat /\ nextIndex \in Nat
  BY RunIndexIInv, ThrowIndexIInv DEF DInv, IInv, TypeOK
<1>2. /\ here \in Index /\ here \in Nat /\ here < end[t] /\ end[t] <= nextIndex
      /\ nextIndex <= size /\ hasJob /\ pc[Caller] \notin CallerOutside
  BY <1>1, RunningIndex
<1>3. ran[here] = 0
  BY <1>1, <1>2 DEF DInv, OnceInv
<1>4. \A i \in Index : ran'[i] = IF i = here THEN 1 ELSE ran[i]
  <2>1. ran' = [ran EXCEPT ![here] = @ + 1]
    OBVIOUS
  <2> QED BY <1>1, <1>2, <1>3, <2>1
<1>5. /\ end' = end /\ pc'[t] \in {"run", "finish", "catch"}
      /\ pc'[t] = "run" => index'[t] = here + 1
      /\ \A u \in Thread : u # t => index'[u] = index[u] /\ pc'[u] = pc[u]
  BY <1>1 DEF IInv, TypeOK
<1>6. pc'[Caller] \notin CallerOutside
  BY <1>2, <1>5 DEF CallerOutside, Thread
<1>7. ASSUME NEW u \in Thread, pc[u] = "run", u # t
      PROVE  ~(index[u] <= here /\ here < end[u])
  <2>1. end[t] <= index[u] \/ end[u] <= here
    BY <1>1, <1>7 DEF DInv, OnceInv
  <2> QED BY <1>1, <1>2, <2>1
<1>8. CallInv' /\ InlineInv' /\ ExceptionReported'
  BY <1>6, <1>2 DEF DInv, CallInv, CallerOutside, InlineInv, ExceptionReported
<1>9. OnceInv'
  <2>1. \A i \in Index : ran'[i] \in {0, 1}
    BY <1>4 DEF DInv, OnceInv
  <2>2. ASSUME NEW i \in Index, i >= nextIndex
        PROVE  ran'[i] = 0
    <3>1. i # here
      BY <1>1, <1>2, <2>2
    <3> QED BY <1>2, <1>4, <2>2, <3>1 DEF DInv, OnceInv
  <2>3. ASSUME NEW u \in Thread, pc'[u] = "run", NEW i \in Index, index'[u] <= i, i < end'[u]
        PROVE  ran'[i] = 0
    <3>1. CASE u = t
      <4>1. here < i /\ here <= i /\ i < end[t]
        BY <1>2, <1>5, <2>3, <3>1, IndexNat
      <4> QED BY <1>1, <1>4, <4>1 DEF DInv, OnceInv
    <3>2. CASE u # t
      <4>1. pc[u] = "run" /\ index[u] <= i /\ i < end[u]
        BY <1>5, <2>3, <3>2
      <4>2. i # here
        BY <1>7, <3>2, <4>1
      <4> QED BY <1>4, <4>1, <4>2 DEF DInv, OnceInv
    <3> QED BY <3>1, <3>2
  <2>4. ASSUME NEW u \in Thread, NEW v \in Thread, pc'[u] = "run", pc'[v] = "run", u # v
        PROVE  end'[u] <= index'[v] \/ end'[v] <= index'[u]
    <3>1. pc[u] = "run" /\ pc[v] = "run" /\ index[u] <= index'[u] /\ index[v] <= index'[v]
      BY <1>1, <1>5, <2>4
    <3>2. end[u] <= index[v] \/ end[v] <= index[u]
      BY <2>4, <3>1 DEF DInv, OnceInv
    <3>3. index' \in [Thread -> Nat]
      BY <1>1 DEF IInv, TypeOK
    <3> QED BY <1>1, <1>5, <3>1, <3>2, <3>3
  <2> QED BY <2>1, <2>2, <2>3, <2>4 DEF OnceInv
<1>10. ExactlyOnce'
  BY <1>6, <1>9 DEF ExactlyOnce, OnceInv, CallerOutside
<1>11. AlignedInv'
  <2>1. ASSUME NEW u \in Thread, pc'[u] = "run", NEW i \in Index, index'[u] <= i, i < end'[u]
        PROVE  i \div grain' = index'[u] \div grain'
    <3>1. CASE u = t
      <4>1. (index'[u] = here + 1 /\ here + 1 < end[t]) \/ index'[u] = i
        BY <1>1, <1>2, <1>5, <2>1, <3>1, IndexNat
      <4>2. CASE index'[u] = i
        BY <4>2
      <4>3. CASE index'[u] = here + 1 /\ here + 1 < end[t]
        <5>1. here + 1 \in 0 .. size - 1
          BY <1>1, <1>2, <4>3
        <5>2. here + 1 \in Index
          BY <1>1, <5>1, IndexOfCall
        <5>3. here <= here + 1 /\ here <= i /\ i < end[t]
          BY <1>2, <1>5, <2>1, <3>1, <4>3, IndexNat
        <5>4. (here + 1) \div grain = here \div grain /\ i \div grain = here \div grain
          BY <1>1, <4>3, <5>2, <5>3 DEF DInv, AlignedInv
        <5> QED BY <4>3, <5>4
      <4> QED BY <4>1, <4>2, <4>3
    <3>2. CASE u # t
      BY <1>5, <2>1, <3>2 DEF DInv, AlignedInv
    <3> QED BY <3>1, <3>2
  <2> QED BY <2>1 DEF DInv, AlignedInv
<1>12. CoveredInv'
  <2> SUFFICES ASSUME NEW i \in Index, i < size
               PROVE  ran'[i] = 1 \/ Skipped(i)' \/ (hasJob' /\ i >= nextIndex') \/ Held(i)'
    BY DEF CoveredInv
  <2>1. CASE ran[i] = 1 \/ (hasJob /\ i >= nextIndex)
    BY <1>4, <2>1
  <2>2. CASE Skipped(i)
    BY <2>2 DEF Skipped
  <2>3. CASE Held(i)
    <3>1. PICK u \in Thread : pc[u] = "run" /\ index[u] <= i /\ i < end[u]
      BY <2>3 DEF Held
    <3>2. CASE u # t
      BY <1>5, <3>1, <3>2 DEF Held
    <3>3. CASE u = t /\ i = here
      BY <1>4, <3>3
    <3>4. CASE u = t /\ i # here
      <4>1. here < i /\ i < end[t] /\ i \in Nat
        BY <1>2, <3>1, <3>4, IndexNat
      <4>2. CASE RunIndex(t)
        <5>1. pc'[t] = "run" /\ index'[t] = here + 1 /\ here + 1 <= i
          BY <1>1, <1>2, <4>1, <4>2
        <5> QED BY <1>5, <4>1, <5>1 DEF Held
      <4>3. CASE ThrowIndex(t)
        <5> DEFINE e == [call |-> calls, index |-> here]
        <5>1. e \in threw' /\ e.index = here
          BY <4>3
        <5>2. i \div grain = here \div grain
          BY <1>1, <1>2, <4>1 DEF DInv, AlignedInv
        <5> QED BY <4>1, <5>1, <5>2 DEF Skipped
      <4> QED BY <4>2, <4>3
    <3> QED BY <3>2, <3>3, <3>4
  <2> QED BY <1>2, <2>1, <2>2, <2>3 DEF DInv, CoveredInv
<1>13. ExceptionInv'
  <2>1. CASE RunIndex(t)
    <3>1. \A u \in Thread : pc'[u] = "catch" <=> pc[u] = "catch"
      <4>1. pc'[t] \in {"run", "finish"}
        BY <1>1, <2>1 DEF IInv, TypeOK
      <4> QED BY <1>1, <1>5, <4>1
    <3>2. \A u \in Thread : pc'[u] = "catch" => index'[u] = index[u]
      BY <1>1, <1>5, <3>1
    <3> QED BY <1>2, <2>1, <3>1, <3>2 DEF DInv, ExceptionInv, InHand
  <2>2. CASE ThrowIndex(t)
    <3>1. pc'[t] = "catch" /\ InHand(t)' \in threw'
      BY <1>1, <2>2 DEF IInv, TypeOK, InHand
    <3>2. \A u \in Thread : pc'[u] = "catch" => InHand(u)' \in threw'
      BY <1>2, <1>5, <2>2, <3>1 DEF DInv, ExceptionInv, InHand
    <3> QED BY <1>2, <2>2, <3>1, <3>2 DEF DInv, ExceptionInv
  <2> QED BY <2>1, <2>2
<1> QED BY <1>1, <1>8, <1>9, <1>10, <1>11, <1>12, <1>13 DEF DInv

-----------------------------------------------------------------------------
\* The handler keeps the exception in hand unless it has one of the call.
LEMMA CatchDInv ==
  ASSUME DInv, NEW t \in Thread, Catch(t)
  PROVE  DInv'
<1> USE DEF Catch, Goto, history
<1>1. /\ IInv /\ IInv' /\ pc[t] = "catch"
      /\ \A u \in Thread : u # t => pc'[u] = pc[u]
      /\ pc'[t] = "finish"
  BY CatchIInv DEF DInv, IInv, TypeOK
<1>2. pc[Caller] \notin CallerOutside /\ pc'[Caller] \notin CallerOutside
  <2>1. t \in InFlight
    BY <1>1 DEF InFlight, InFlightPlace
  <2>2. pc[Caller] \notin CallerOutside
    BY <1>1, <2>1 DEF IInv, JobInv
  <2> QED BY <1>1, <2>2 DEF CallerOutside, Thread
<1>3. CallInv' /\ InlineInv' /\ ExceptionReported' /\ ExactlyOnce'
  BY <1>2 DEF DInv, CallInv, CallerOutside, InlineInv, ExceptionReported, ExactlyOnce
<1>4. \A u \in Thread : pc'[u] = "run" <=> pc[u] = "run"
  BY <1>1
<1>5. OnceInv' /\ AlignedInv' /\ CoveredInv'
  BY <1>2, <1>4 DEF DInv, OnceInv, AlignedInv, CoveredInv, Held, Skipped
<1>6. ExceptionInv'
  <2>1. InHand(t) \in threw /\ InHand(t) # NoException
    BY <1>1, <1>2 DEF DInv, CallInv, CallerOutside, ExceptionInv, InHand, NoException
  <2>2. firstException' \in threw' /\ firstException' # NoException
    BY <1>1, <1>2, <2>1 DEF DInv, ExceptionInv
  <2>3. \A u \in Thread : pc'[u] = "catch" => InHand(u)' \in threw'
    BY <1>1, <1>2 DEF DInv, ExceptionInv, InHand
  <2> QED BY <2>2, <2>3 DEF ExceptionInv
<1> QED BY <1>1, <1>3, <1>5, <1>6 DEF DInv

\* The job is over when nothing is to come and no thread holds a chunk.
LEMMA FinishJobDInv ==
  ASSUME DInv, NEW t \in Thread, FinishJob(t)
  PROVE  DInv'
<1> USE DEF FinishJob, AfterChunks, history
<1>1. /\ IInv /\ IInv' /\ ~hasJob' /\ hasJob /\ nextIndex = size /\ InFlight = {t}
      /\ size \in Nat
  <2>1. t \in InFlight
    BY DEF InFlight, InFlightPlace
  <2> QED BY <2>1, InFlightCounted, FinishJobIInv DEF DInv, IInv, JobInv, TypeOK
<1>2. pc[Caller] \notin CallerOutside /\ pc'[Caller] \notin CallerOutside
  BY <1>1 DEF IInv, TypeOK, JobInv, CallerOutside, Thread
<1>3. /\ \A u \in Thread : pc'[u] \notin {"run", "catch"}
      /\ \A u \in Thread : pc[u] \notin {"run", "catch"}
  <2>1. \A u \in Thread : pc[u] \notin {"run", "catch"}
    BY <1>1 DEF InFlight, InFlightPlace
  <2> QED BY <1>1, <2>1 DEF IInv, TypeOK
<1>4. CallInv' /\ InlineInv' /\ ExceptionReported' /\ ExactlyOnce'
  BY <1>2 DEF DInv, CallInv, CallerOutside, InlineInv, ExceptionReported, ExactlyOnce
<1>5. OnceInv' /\ AlignedInv'
  BY <1>1, <1>3 DEF DInv, OnceInv, AlignedInv
<1>6. CoveredInv'
  <2> SUFFICES ASSUME NEW i \in Index, i < size
               PROVE  ran[i] = 1 \/ Skipped(i)
    BY DEF CoveredInv, Skipped
  <2>1. ~(i >= nextIndex) /\ ~Held(i)
    BY <1>1, <1>3, IndexNat DEF Held
  <2> QED BY <1>2, <2>1 DEF DInv, CoveredInv
<1>7. ExceptionInv'
  BY <1>2, <1>3 DEF DInv, ExceptionInv
<1> QED BY <1>1, <1>4, <1>5, <1>6, <1>7 DEF DInv

\* When the job is over, every index was invoked, or lies behind a throwing one.
LEMMA JobOver ==
  ASSUME DInv, ~hasJob, pc[Caller] \notin CallerOutside, NEW i \in 0 .. size - 1
  PROVE  ran[i] = 1 \/ Skipped(i)
<1>1. \A t \in Thread : pc[t] # "run"
  BY DEF DInv, IInv, JobInv, InFlight, InFlightPlace
<1>2. i \in Index
  BY IndexOfCall DEF DInv
<1>3. i < size
  BY DEF DInv, IInv, TypeOK
<1> QED BY <1>1, <1>2, <1>3 DEF DInv, CoveredInv, Held

\* ParallelFor returns once its job is over.
LEMMA ReturnDInv ==
  ASSUME DInv, Return
  PROVE  DInv'
<1> USE DEF Return, Goto, pool
<1>1. /\ IInv /\ IInv' /\ pc'[Caller] = "idle"
      /\ pc[Caller] \notin CallerOutside
  BY ReturnIInv DEF DInv, IInv, TypeOK, CallerOutside, Thread
<1>2. \A t \in Thread : pc[t] \notin {"run", "catch"} /\ pc'[t] # "run"
  BY <1>1 DEF IInv, JobInv, InFlight, InFlightPlace
<1>3. CallInv' /\ CoveredInv' /\ InlineInv' /\ ExceptionInv'
  BY <1>1 DEF DInv, CallInv, CoveredInv, InlineInv, ExceptionInv, CallerOutside
<1>4. OnceInv' /\ AlignedInv'
  BY <1>2 DEF DInv, OnceInv, AlignedInv
<1>5. ExceptionReported'
  BY <1>1, <1>2 DEF DInv, ExceptionInv, ExceptionReported
<1>6. ExactlyOnce'
  <2>1. ASSUME threw = {}, NEW i \in 0 .. size - 1
        PROVE  ran[i] = 1
    BY <1>1, <2>1, JobOver DEF Skipped
  <2> QED BY <2>1 DEF DInv, ExactlyOnce
<1> QED BY <1>1, <1>3, <1>4, <1>5, <1>6 DEF DInv

-----------------------------------------------------------------------------
\* Every step of the pool keeps the invariant.
LEMMA NextDInv == DInv /\ [Next]_vars => DInv'
<1> SUFFICES ASSUME DInv, [Next]_vars PROVE DInv'
  OBVIOUS
<1> USE DEF Thread
<1>1. ASSUME NEW n \in Counts, NEW g \in Grains, CallInline(n, g) \/ Publish(n, g)
      PROVE  DInv'
  BY <1>1, CallInlineDInv, PublishDInv
<1>2. CASE Destroy
  BY <1>2, QuietSteps
<1>3. ASSUME NEW t \in Thread, ProcessChunks(t)
      PROVE  DInv'
  BY <1>3, ClaimChunkDInv, QuietSteps, InvokeDInv, CatchDInv, FinishJobDInv DEF ProcessChunks
<1>4. CASE CallerStep
  BY <1>3, <1>4, InlineDInv, InlineReturnDInv, ReturnDInv, QuietSteps DEF CallerStep
<1>5. ASSUME NEW w \in Workers, WorkerStep(w)
      PROVE  DInv'
  BY <1>3, <1>5, QuietSteps DEF WorkerStep
<1>6. ASSUME NEW t \in Thread, SpuriousWakeup(t)
      PROVE  DInv'
  BY <1>6, QuietSteps
<1>7. CASE UNCHANGED vars
  <2>1. IInv'
    BY <1>7, NextIInv DEF DInv
  <2> QED BY <1>7, <2>1, QuietDelivery DEF vars, pool, threads, history
<1>8. CASE Terminated
  BY <1>7, <1>8 DEF Terminated
<1> QED BY <1>1, <1>2, <1>4, <1>5, <1>6, <1>7, <1>8 DEF Next

\* The invariant holds of every execution of the pool.
THEOREM SpecDInv == Spec => []DInv
BY InitDInv, NextDInv, PTL DEF Spec

\* fn is never invoked twice on an index, and a call in which nothing threw
\* invoked it on every index below count, whatever the workers interleave.
THEOREM SpecExactlyOnce == Spec => []ExactlyOnce
<1>1. DInv => ExactlyOnce
  BY DEF DInv
<1> QED BY <1>1, SpecDInv, PTL

\* A call ends with an exception exactly when one of its own invocations threw,
\* and with one of those.
THEOREM SpecExceptionReported == Spec => []ExceptionReported
<1>1. DInv => ExceptionReported
  BY DEF DInv
<1> QED BY <1>1, SpecDInv, PTL

\* A throwing invocation costs the rest of its own chunk and no other index.
THEOREM SpecSkippedOnlyInThrowingChunk == Spec => []SkippedOnlyInThrowingChunk
<1>1. DInv => SkippedOnlyInThrowingChunk
  BY JobOver DEF SkippedOnlyInThrowingChunk, Skipped, CallerOutside
<1> QED BY <1>1, SpecDInv, PTL
-----------------------------------------------------------------------------
(***************************************************************************)
(* The pool implements ParallelFor: each of its steps is a step of the     *)
(* abstract specification under the mapping of module ThreadPool, or one   *)
(* that leaves the mapped variables as they are.                           *)
(***************************************************************************)
\* What the caller's call still has to attempt is in the shared counter or in
\* a chunk a thread runs.
LEMMA TodoMembers ==
  ASSUME pc[Caller] # "inline"
  PROVE  Todo = {i \in Int : \/ hasJob /\ i \in nextIndex .. count - 1
                             \/ \E t \in Thread : pc[t] = "run" /\ i \in index[t] .. end[t] - 1}
BY DEF Todo

LEMMA TodoMembersNext ==
  ASSUME pc'[Caller] # "inline"
  PROVE  Todo' = {i \in Int : \/ hasJob' /\ i \in nextIndex' .. count' - 1
                              \/ \E t \in Thread : pc'[t] = "run" /\ i \in index'[t] .. end'[t] - 1}
BY DEF Todo

\* The steps that attempt nothing and neither begin nor end a call.
LEMMA QuietAbstract ==
  ASSUME UNCHANGED <<hasJob, count, nextIndex, index, end, calls, threw, result>>,
         \A t \in Thread : pc'[t] = "run" <=> pc[t] = "run",
         pc'[Caller] = "inline" <=> pc[Caller] = "inline",
         pc'[Caller] \in {"idle", "joining", "gone"} <=> pc[Caller] \in {"idle", "joining", "gone"}
  PROVE  UNCHANGED Abstract!vars
<1>1. Todo' = Todo
  <2>1. {u \in Thread : pc'[u] = "run"} = {u \in Thread : pc[u] = "run"}
    OBVIOUS
  <2> QED BY <2>1 DEF Todo
<1> QED BY <1>1 DEF Abstract!vars

\* Outside any job nothing is left to attempt.
LEMMA TodoOutside ==
  ASSUME DInv, ~hasJob, pc[Caller] # "inline"
  PROVE  Todo = {}
<1>1. \A t \in Thread : pc[t] # "run"
  BY DEF DInv, IInv, JobInv, InFlight, InFlightPlace
<1> QED BY <1>1, TodoMembers

LEMMA CallAbstract ==
  ASSUME DInv, NEW n \in Counts, NEW g \in Grains, CallInline(n, g) \/ Publish(n, g)
  PROVE  Abstract!Call(n)
<1> USE DEF CallInline, Publish, NewCall, Goto
<1>1. /\ Caller \in Thread /\ pc \in [Thread -> CallerOutside \cup CallerAround \cup InChunks \cup WorkerOutside]
      /\ index \in [Thread -> Nat] /\ end \in [Thread -> Nat] /\ n \in Nat
      /\ \A t \in Thread : pc[t] # "run"
  <2>1. InFlight = {}
    BY DEF DInv, IInv, JobInv, CallerOutside
  <2> QED BY <2>1, ArgumentsAssumption DEF DInv, IInv, TypeOK, Thread, InFlight, InFlightPlace
<1>2. pc[Caller] = "idle" /\ pc'[Caller] \in {"inline", "notify"}
      /\ \A t \in Thread : pc'[t] # "run"
  BY <1>1
<1>3. calls' = calls + 1 /\ threw' = {} /\ UNCHANGED result
  OBVIOUS
<1>4. Todo' = 0 .. n - 1
  <2>1. CASE CallInline(n, g)
    BY <1>1, <2>1 DEF Todo
  <2>2. CASE Publish(n, g)
    <3>1. hasJob' /\ nextIndex' = 0 /\ count' = n /\ pc'[Caller] # "inline"
      BY <1>1, <2>2
    <3>2. Todo' = {i \in Int : i \in 0 .. n - 1}
      BY ONLY <1>2, <3>1, TodoMembersNext
    <3> QED BY ONLY <1>1, <3>2
  <2> QED BY <2>1, <2>2
<1> QED BY <1>2, <1>3, <1>4 DEF Abstract!Call

LEMMA InlineAbstract ==
  ASSUME DInv, InlineIndex \/ InlineThrow
  PROVE  Abstract!Attempt
<1> DEFINE here == index[Caller]
<1>1. /\ Caller \in Thread /\ index \in [Thread -> Nat] /\ end \in [Thread -> Nat]
      /\ here \in Nat /\ end[Caller] \in Nat /\ here < end[Caller]
      /\ pc[Caller] = "inline" /\ pc' = pc /\ end' = end /\ calls' = calls /\ result' = result
  BY DEF DInv, IInv, TypeOK, Thread, InlineIndex, InlineThrow
<1>2. Todo = here .. end[Caller] - 1 /\ Todo' = index'[Caller] .. end[Caller] - 1
  BY <1>1 DEF Todo
<1>3. here \in Todo
  BY <1>1, <1>2
<1>4. CASE InlineIndex
  <2>1. index'[Caller] = here + 1 /\ threw' = threw
    BY <1>1, <1>4 DEF InlineIndex
  <2>2. Todo' = Todo \ {here}
    <3> HIDE DEF here
    <3> QED BY <1>1, <1>2, <2>1
  <2>3. Abstract!Succeed(here)
    BY <1>1, <1>3, <2>1, <2>2 DEF Abstract!Succeed
  <2> QED BY <1>3, <2>3 DEF Abstract!Attempt
<1>5. CASE InlineThrow
  <2>1. index'[Caller] = end[Caller] /\ threw' = threw \cup {[call |-> calls, index |-> here]}
    BY <1>1, <1>5 DEF InlineThrow, Raised
  <2> DEFINE dropped == {j \in Todo : j > here}
  <2>2. Todo' = Todo \ (dropped \cup {here})
    <3> HIDE DEF here
    <3> QED BY <1>1, <1>2, <2>1
  <2>3. Abstract!Fail(here)
    <3> HIDE DEF here
    <3> QED BY <1>1, <1>3, <2>1, <2>2 DEF Abstract!Fail
  <2> QED BY <1>3, <2>3 DEF Abstract!Attempt
<1> QED BY <1>4, <1>5

LEMMA InlineReturnAbstract ==
  ASSUME DInv, InlineReturn
  PROVE  Abstract!Return
<1>1. /\ Caller \in Thread /\ index[Caller] \in Nat /\ index[Caller] = end[Caller]
      /\ pc[Caller] = "inline" /\ pc'[Caller] = "idle" /\ ~hasJob
      /\ \A t \in Thread : pc'[t] # "run"
  <2>1. InFlight = {} /\ ~hasJob
    BY DEF DInv, IInv, JobInv, CallerOutside, InlineReturn
  <2> QED BY <2>1 DEF DInv, IInv, TypeOK, Thread, InlineReturn, Goto, InFlight, InFlightPlace
<1>2. Todo = {}
  <2>1. Todo = index[Caller] .. index[Caller] - 1
    BY <1>1 DEF Todo
  <2> QED BY <1>1, <2>1
<1>3. Todo' = {}
  <2>1. ~hasJob'
    BY <1>1 DEF InlineReturn, pool
  <2> QED BY <1>1, <2>1, TodoMembersNext
<1>4. /\ calls' = calls /\ threw' = threw
      /\ (threw = {} /\ result' = NoException) \/ result' \in threw
  BY DEF InlineReturn
<1> QED BY <1>1, <1>2, <1>3, <1>4 DEF Abstract!Return, Abstract!NoException, NoException

\* Claiming moves indices from the counter to the thread's chunk.
LEMMA ClaimAbstract ==
  ASSUME DInv, NEW t \in Thread, ClaimChunk(t)
  PROVE  UNCHANGED Abstract!vars
<1> DEFINE last == Smaller(count, nextIndex + grain)
<1>1. /\ nextIndex \in Nat /\ count \in Nat /\ grain \in Nat \ {0} /\ nextIndex < count /\ hasJob
      /\ last \in Nat /\ nextIndex < last /\ last <= count
      /\ pc[Caller] \notin CallerOutside
      /\ index \in [Thread -> Nat] /\ end \in [Thread -> Nat] /\ Caller \in Thread
  BY DEF DInv, IInv, TypeOK, JobInv, ClaimChunk, Smaller, Thread
<1>2. /\ pc[t] = "claim" /\ pc'[t] = "run" /\ index'[t] = nextIndex /\ end'[t] = last
      /\ nextIndex' = last /\ count' = count /\ hasJob' = hasJob
      /\ \A u \in Thread : u # t => pc'[u] = pc[u] /\ index'[u] = index[u] /\ end'[u] = end[u]
      /\ UNCHANGED history
  BY <1>1 DEF DInv, IInv, TypeOK, ClaimChunk, Goto
<1>3. pc'[Caller] \notin CallerOutside
  BY <1>1, <1>2 DEF CallerOutside
<1> HIDE DEF last
<1>4. Todo' = Todo
  <2>1. pc[Caller] # "inline" /\ pc'[Caller] # "inline"
    BY <1>1, <1>3 DEF CallerOutside
  <2>2. ASSUME NEW i \in Int
        PROVE  i \in Todo <=> i \in Todo'
    <3>1. i \in Todo <=> \/ i \in nextIndex .. count - 1
                         \/ \E u \in Thread : pc[u] = "run" /\ i \in index[u] .. end[u] - 1
      BY <1>1, <2>1, TodoMembers
    <3>2. i \in Todo' <=> \/ i \in last .. count - 1
                          \/ \E u \in Thread : pc'[u] = "run" /\ i \in index'[u] .. end'[u] - 1
      BY <1>1, <1>2, <2>1, TodoMembersNext
    <3>3. (\E u \in Thread : pc'[u] = "run" /\ i \in index'[u] .. end'[u] - 1)
            <=> \/ i \in nextIndex .. last - 1
                \/ \E u \in Thread : pc[u] = "run" /\ i \in index[u] .. end[u] - 1
      BY <1>2
    <3>4. i \in nextIndex .. count - 1 <=> i \in nextIndex .. last - 1 \/ i \in last .. count - 1
      BY <1>1
    <3> QED BY <3>1, <3>2, <3>3, <3>4
  <2>3. Todo \subseteq Int /\ Todo' \subseteq Int
    BY <2>1, TodoMembers, TodoMembersNext
  <2> QED BY <2>2, <2>3
<1> QED BY <1>1, <1>2, <1>3, <1>4 DEF Abstract!vars, CallerOutside, history

\* An invocation attempts the index its thread is at, and one that throws drops
\* those after it in the chunk.
LEMMA InvokeAbstract ==
  ASSUME DInv, NEW t \in Thread, RunIndex(t) \/ ThrowIndex(t)
  PROVE  Abstract!Attempt
<1> DEFINE here == index[t]
<1>1. pc[t] = "run"
  BY DEF RunIndex, ThrowIndex
<1>2. /\ here \in Nat /\ end[t] \in Nat /\ here < end[t] /\ end[t] <= nextIndex
      /\ nextIndex \in Nat /\ count \in Nat /\ hasJob
      /\ pc[Caller] \notin CallerOutside /\ Caller \in Thread
      /\ index \in [Thread -> Nat] /\ end \in [Thread -> Nat]
  BY <1>1, RunningIndex DEF DInv, IInv, TypeOK, Thread
<1>3. /\ UNCHANGED <<hasJob, count, nextIndex, end, calls, result>>
      /\ \A u \in Thread : u # t => pc'[u] = pc[u] /\ index'[u] = index[u]
      /\ pc'[t] \in {"run", "finish", "catch"}
  BY DEF DInv, IInv, TypeOK, RunIndex, ThrowIndex, Goto, pool
<1>4. pc'[Caller] \notin CallerOutside /\ pc[Caller] # "inline" /\ pc'[Caller] # "inline"
  BY <1>2, <1>3 DEF CallerOutside
\* No other thread holds an index of the chunk.
<1>5. ASSUME NEW u \in Thread, u # t, pc[u] = "run", NEW i \in index[u] .. end[u] - 1
      PROVE  ~(here <= i /\ i < end[t])
  <2>1. end[t] <= index[u] \/ end[u] <= here
    BY <1>1, <1>5 DEF DInv, OnceInv
  <2> QED BY <1>2, <1>5, <2>1
<1> DEFINE Other(i) == \/ i \in nextIndex .. count - 1
                       \/ \E u \in Thread : u # t /\ pc[u] = "run" /\ i \in index[u] .. end[u] - 1
<1>6. Todo = {i \in Int : Other(i) \/ i \in here .. end[t] - 1}
  <2>1. \A i \in Int :
          (Other(i) \/ i \in here .. end[t] - 1)
            <=> \/ hasJob /\ i \in nextIndex .. count - 1
                \/ \E u \in Thread : pc[u] = "run" /\ i \in index[u] .. end[u] - 1
    BY <1>1, <1>2
  <2> QED BY <1>4, <2>1, TodoMembers
<1>7. Todo' = {i \in Int : Other(i) \/ (pc'[t] = "run" /\ i \in index'[t] .. end[t] - 1)}
  <2>1. \A i \in Int :
          (Other(i) \/ (pc'[t] = "run" /\ i \in index'[t] .. end[t] - 1))
            <=> \/ hasJob' /\ i \in nextIndex' .. count' - 1
                \/ \E u \in Thread : pc'[u] = "run" /\ i \in index'[u] .. end'[u] - 1
    BY <1>2, <1>3
  <2> HIDE DEF Other
  <2> QED BY <1>4, <2>1, TodoMembersNext
<1>8. \A i \in Int : here <= i /\ i < end[t] => ~Other(i)
  BY <1>2, <1>5
<1> HIDE DEF Other
<1>9. here \in Todo
  BY <1>2, <1>6
<1>10. CASE RunIndex(t)
  <2>1. /\ threw' = threw /\ index'[t] = here + 1
        /\ IF here + 1 < end[t] THEN pc'[t] = "run" ELSE pc'[t] = "finish"
    BY <1>1, <1>2, <1>10 DEF RunIndex, Goto, DInv, IInv, TypeOK
  <2>2. Todo' = Todo \ {here}
    <3> HIDE DEF here
    <3> QED BY <1>2, <1>6, <1>7, <1>8, <2>1
  <2>3. Abstract!Succeed(here)
    BY <1>2, <1>3, <1>4, <1>9, <2>1, <2>2 DEF Abstract!Succeed, CallerOutside
  <2> QED BY <1>9, <2>3 DEF Abstract!Attempt
<1>11. CASE ThrowIndex(t)
  <2>1. /\ threw' = threw \cup {[call |-> calls, index |-> here]}
        /\ pc'[t] = "catch"
    BY <1>1, <1>11 DEF ThrowIndex, Raised, Goto, DInv, IInv, TypeOK
  <2> DEFINE dropped == here + 1 .. end[t] - 1
  <2> HIDE DEF here
  <2>2. Todo' = Todo \ (dropped \cup {here})
    BY <1>2, <1>6, <1>7, <1>8, <2>1
  <2>3. dropped \in SUBSET {j \in Todo : j > here}
    BY <1>2, <1>6
  <2>4. Abstract!Fail(here)
    <3> HIDE DEF dropped
    <3> QED BY <1>2, <1>3, <1>4, <1>9, <2>1, <2>2, <2>3 DEF Abstract!Fail, CallerOutside
  <2> QED BY <1>9, <2>4 DEF Abstract!Attempt
<1> QED BY <1>10, <1>11

\* The last chunk of a job leaves nothing to attempt.
LEMMA FinishJobAbstract ==
  ASSUME DInv, NEW t \in Thread, FinishJob(t)
  PROVE  UNCHANGED Abstract!vars
<1>1. /\ hasJob /\ ~hasJob' /\ nextIndex = size /\ count = size /\ InFlight = {t} /\ size \in Nat
      /\ pc[t] = "finish" /\ pc[Caller] \notin CallerOutside
      /\ UNCHANGED <<calls, threw, result>>
  <2>1. t \in InFlight
    BY DEF FinishJob, InFlight, InFlightPlace
  <2>2. hasJob /\ remaining = 1
    BY <2>1 DEF DInv, IInv, JobInv, FinishJob
  <2> QED BY <2>1, <2>2, InFlightCounted DEF DInv, IInv, JobInv, TypeOK, FinishJob, history
<1>2. /\ pc'[Caller] \notin CallerOutside
      /\ \A u \in Thread : pc[u] # "run" /\ pc'[u] # "run"
  <2>1. \A u \in Thread : pc[u] # "run"
    BY <1>1 DEF InFlight, InFlightPlace
  <2>2. \A u \in Thread : pc'[u] = pc[u] \/ pc'[u] \in {"join", "check"}
    BY DEF FinishJob, AfterChunks
  <2> QED BY <1>1, <2>1, <2>2 DEF CallerOutside, Thread
<1>3. Todo = {} /\ Todo' = {}
  <2>1. pc[Caller] # "inline" /\ pc'[Caller] # "inline"
    BY <1>1, <1>2 DEF CallerOutside
  <2> QED BY <1>1, <1>2, <2>1, TodoMembers, TodoMembersNext
<1> QED BY <1>1, <1>2, <1>3 DEF Abstract!vars, CallerOutside

LEMMA ReturnAbstract ==
  ASSUME DInv, Return
  PROVE  Abstract!Return
<1>1. /\ pc[Caller] = "join" /\ pc'[Caller] = "idle" /\ ~hasJob /\ ~hasJob'
      /\ result' = firstException /\ UNCHANGED <<calls, threw>>
  BY DEF Return, Goto, DInv, IInv, TypeOK, Thread, pool
<1>2. \A t \in Thread : pc[t] \notin {"run", "catch"} /\ pc'[t] # "run"
  <2>1. InFlight = {}
    BY <1>1 DEF DInv, IInv, JobInv
  <2> QED BY <2>1 DEF Return, Goto, DInv, IInv, TypeOK, InFlight, InFlightPlace
<1>3. Todo = {} /\ Todo' = {}
  BY <1>1, <1>2, TodoOutside, TodoMembersNext
<1>4. (threw = {} /\ result' = NoException) \/ result' \in threw
  BY <1>1, <1>2 DEF DInv, ExceptionInv, CallerOutside
<1> QED BY <1>1, <1>3, <1>4 DEF Abstract!Return, Abstract!NoException, NoException

\* Every other step leaves what the caller sees as it is.
LEMMA QuietStepsAbstract ==
  ASSUME DInv
  PROVE  /\ NotifyAll \/ JoinBlocks \/ Destroy \/ JoinWorkers => UNCHANGED Abstract!vars
         /\ \A t \in Thread :
              NoMoreChunks(t) \/ Catch(t) \/ FinishChunk(t) \/ SpuriousWakeup(t)
                => UNCHANGED Abstract!vars
         /\ \A w \in Workers : WorkerExit(w) \/ WorkerStart(w) \/ WorkerWaits(w)
                => UNCHANGED Abstract!vars
<1> USE ThreadsAssumption DEF Thread, CallerOutside
<1>0. /\ Caller \in Thread /\ DOMAIN pc = Thread /\ pc = [t \in Thread |-> pc[t]]
      /\ pc[Caller] \notin WorkerOutside
  BY DEF DInv, IInv, TypeOK
<1>1. ASSUME NotifyAll \/ Destroy
      PROVE  UNCHANGED Abstract!vars
  BY <1>0, <1>1, QuietAbstract DEF NotifyAll, Destroy, WakeWorkers, pool, history, WorkerOutside
<1>2. ASSUME JoinBlocks \/ JoinWorkers
      PROVE  UNCHANGED Abstract!vars
  BY <1>0, <1>2, QuietAbstract DEF JoinBlocks, JoinWorkers, Goto, pool, history
<1>3. ASSUME NEW t \in Thread, NoMoreChunks(t)
      PROVE  UNCHANGED Abstract!vars
  BY <1>0, <1>3, QuietAbstract DEF NoMoreChunks, Goto, AfterChunks, pool, history
<1>4. ASSUME NEW t \in Thread, Catch(t) \/ FinishChunk(t)
      PROVE  UNCHANGED Abstract!vars
  BY <1>0, <1>4, QuietAbstract DEF Catch, FinishChunk, Goto, history
<1>5. ASSUME NEW t \in Thread, SpuriousWakeup(t)
      PROVE  UNCHANGED Abstract!vars
  BY <1>0, <1>5, QuietAbstract DEF SpuriousWakeup, Goto, pool, history, WorkerOutside
<1>6. ASSUME NEW w \in Workers, WorkerExit(w) \/ WorkerStart(w) \/ WorkerWaits(w)
      PROVE  UNCHANGED Abstract!vars
  BY <1>0, <1>6, QuietAbstract DEF WorkerExit, WorkerStart, WorkerWaits, Goto, pool, history
<1> QED BY <1>1, <1>2, <1>3, <1>4, <1>5, <1>6

LEMMA InitAbstract == Init => Abstract!Init
<1> SUFFICES ASSUME Init PROVE Abstract!Init
  OBVIOUS
<1>1. pc[Caller] = "idle" /\ ~hasJob /\ \A t \in Thread : pc[t] # "run"
  BY DEF Init, Thread
<1>2. Todo = {}
  BY <1>1, TodoMembers
<1> QED BY <1>1, <1>2 DEF Init, Abstract!Init, Abstract!NoException, NoException

LEMMA NextAbstract == DInv /\ [Next]_vars => [Abstract!Next]_(Abstract!vars)
<1> SUFFICES ASSUME DInv, [Next]_vars
             PROVE  Abstract!Next \/ UNCHANGED Abstract!vars
  OBVIOUS
<1> USE DEF Thread, Abstract!Next
<1>1. ASSUME NEW n \in Counts, NEW g \in Grains, CallInline(n, g) \/ Publish(n, g)
      PROVE  Abstract!Next
  BY <1>1, CallAbstract
<1>2. CASE Destroy
  BY <1>2, QuietStepsAbstract
<1>3. ASSUME NEW t \in Thread, ProcessChunks(t)
      PROVE  Abstract!Next \/ UNCHANGED Abstract!vars
  BY <1>3, ClaimAbstract, InvokeAbstract, FinishJobAbstract, QuietStepsAbstract DEF ProcessChunks
<1>4. CASE CallerStep
  BY <1>3, <1>4, InlineAbstract, InlineReturnAbstract, ReturnAbstract, QuietStepsAbstract
     DEF CallerStep
<1>5. ASSUME NEW w \in Workers, WorkerStep(w)
      PROVE  Abstract!Next \/ UNCHANGED Abstract!vars
  BY <1>3, <1>5, QuietStepsAbstract DEF WorkerStep
<1>6. ASSUME NEW t \in Thread, SpuriousWakeup(t)
      PROVE  UNCHANGED Abstract!vars
  BY <1>6, QuietStepsAbstract
<1>7. CASE UNCHANGED vars
  BY <1>7, QuietAbstract DEF vars, pool, threads, history
<1>8. CASE Terminated
  BY <1>7, <1>8 DEF Terminated
<1> QED BY <1>1, <1>2, <1>4, <1>5, <1>6, <1>7, <1>8 DEF Next

\* What ParallelFor promises its caller holds of the pool, whatever the number
\* of workers and the sizes of the calls: its steps are those of the abstract
\* specification.  (That calls come back is ImplementsParallelFor's other part,
\* its fairness, which TLC checks.)
THEOREM SpecImplementsParallelFor ==
  Spec => Abstract!Init /\ [][Abstract!Next]_(Abstract!vars)
BY InitAbstract, NextAbstract, SpecDInv, PTL DEF Spec
==============================================================================
