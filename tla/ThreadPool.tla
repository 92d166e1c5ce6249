----------------------------- MODULE ThreadPool ------------------------------
(***************************************************************************)
(* PokerCfrSolver::ThreadPool (src/csrc/src/algorithm/poker_cfr_solver.cc) *)
(* A caller thread and the pool's workers execute the chunks of one job at *)
(* a time.  Every block the code runs under mutex_ is one action; the code *)
(* between two such blocks is a place the thread's pc rests in, so every   *)
(* interleaving of the blocks is explored.  A condition variable is the    *)
(* set of threads whose pc is its wait place; wake-ups may be spurious.    *)
(*                                                                         *)
(* A task invocation fn(i) is opaque: it comes back or it throws.  (An     *)
(* invocation that itself calls ParallelFor with more than grain indices   *)
(* throws "does not support nested jobs", because has_job_ is TRUE while   *)
(* any invocation runs: that is BarrierHolds below.)                       *)
(***************************************************************************)
EXTENDS Integers, FiniteSets

CONSTANTS
  Workers,     \* the worker threads: none when num_threads <= 1
  Caller,      \* the thread that owns the solver
  Counts,      \* values of the argument count
  Grains,      \* values of the argument grain
  MaxCalls     \* bound: how many times the caller uses the pool

ASSUME ThreadsAssumption ==
  /\ IsFiniteSet(Workers)
  /\ Cardinality(Workers) # 1
  /\ Caller \notin Workers
ASSUME ArgumentsAssumption ==
  /\ Counts \subseteq Nat
  /\ Grains \subseteq Nat
ASSUME MaxCallsAssumption == MaxCalls \in Nat

VARIABLES
  \* The members of the pool.
  stop, hasJob, task, count, grain, nextIndex, remaining, firstException,
  \* Each thread's place in the code, and its local chunk [index, end).
  pc, index, end,
  \* History of the caller's current ParallelFor call.
  calls,       \* its number, which is also the identity of its fn
  size,        \* its count argument
  ran,         \* how many times fn was invoked on each index
  threw,       \* the exceptions its invocations raised
  result       \* how the last finished call ended

pool    == <<stop, hasJob, task, count, grain, nextIndex, remaining, firstException>>
threads == <<pc, index, end>>
history == <<calls, size, ran, threw, result>>
vars    == <<pool, threads, history>>

Thread == Workers \cup {Caller}
Index  == UNION {0 .. n - 1 : n \in Counts}

NoTask      == 0                          \* task_ = nullptr
NoException == [call |-> 0, index |-> 0]  \* first_exception_ = nullptr
Exception   == [call : Nat, index : Nat]

\* Places of the caller outside a job, of the caller around a job, of any
\* thread inside ProcessChunks, and of a worker outside ProcessChunks.
CallerOutside == {"idle", "inline", "joining", "gone"}
CallerAround  == {"notify", "join", "blocked"}
InFlightPlace == {"run", "catch", "finish"}
InChunks      == {"claim"} \cup InFlightPlace
WorkerOutside == {"check", "wait", "exited"}

InFlight == {t \in Thread : pc[t] \in InFlightPlace}

GrainOrOne(g)  == IF g = 0 THEN 1 ELSE g
Smaller(a, b)  == IF a < b THEN a ELSE b

\* Fault: the division rounds down.
NumChunksFloor(n, g) == n \div g
\* remaining_chunks_ of a new job.
NumChunks(n, g) == (n + g - 1) \div g

Init ==
  /\ stop = FALSE /\ hasJob = FALSE /\ task = NoTask
  /\ count = 0 /\ grain = 1 /\ nextIndex = 0 /\ remaining = 0
  /\ firstException = NoException
  /\ pc = [t \in Thread |-> IF t = Caller THEN "idle" ELSE "check"]
  /\ index = [t \in Thread |-> 0]
  /\ end = [t \in Thread |-> 0]
  /\ calls = 0 /\ size = 0 /\ threw = {} /\ result = NoException
  /\ ran = [i \in Index |-> 0]

Goto(t, place) == pc' = [pc EXCEPT ![t] = place]

\* notify_all on job_available_ while thread t moves to its next place.
WakeWorkers(t, place) ==
  pc' = [u \in Thread |-> IF u = t THEN place
                          ELSE IF pc[u] = "wait" THEN "check" ELSE pc[u]]

NewCall(n) ==
  /\ pc[Caller] = "idle"
  /\ calls < MaxCalls
  /\ calls' = calls + 1
  /\ size' = n
  /\ ran' = [i \in Index |-> 0]
  /\ threw' = {}
  /\ UNCHANGED result

(***************************************************************************)
(* ParallelFor without the workers: nothing to do, no workers, or at most  *)
(* one chunk.  An exception leaves the loop at once.                       *)
(***************************************************************************)
RunsInline(n, g) == n = 0 \/ Workers = {} \/ n <= GrainOrOne(g)

CallInline(n, g) ==
  /\ NewCall(n)
  /\ RunsInline(n, g)
  /\ Goto(Caller, "inline")
  /\ index' = [index EXCEPT ![Caller] = 0]
  /\ end' = [end EXCEPT ![Caller] = n]
  /\ UNCHANGED pool

\* What one invocation of the current fn on index[t] leaves behind.
Invoked(t) == ran' = [ran EXCEPT ![index[t]] = @ + 1]
Raised(t) == threw' = threw \cup {[call |-> calls, index |-> index[t]]}

InlineIndex ==
  /\ pc[Caller] = "inline"
  /\ index[Caller] < end[Caller]
  /\ index' = [index EXCEPT ![Caller] = @ + 1]
  /\ Invoked(Caller)
  /\ UNCHANGED <<pool, pc, end, calls, size, threw, result>>

InlineThrow ==
  /\ pc[Caller] = "inline"
  /\ index[Caller] < end[Caller]
  /\ index' = [index EXCEPT ![Caller] = end[Caller]]
  /\ Invoked(Caller)
  /\ Raised(Caller)
  /\ UNCHANGED <<pool, pc, end, calls, size, result>>

InlineReturn ==
  /\ pc[Caller] = "inline"
  /\ index[Caller] = end[Caller]
  /\ IF threw = {} THEN result' = NoException ELSE result' \in threw
  /\ Goto(Caller, "idle")
  /\ UNCHANGED <<pool, index, end, calls, size, ran, threw>>

(***************************************************************************)
(* ParallelFor on the workers.                                             *)
(***************************************************************************)
\* Fault: first_exception_ is not reset for the new job.
PublishKeepingException(n, g) ==
  /\ NewCall(n)
  /\ ~RunsInline(n, g)
  /\ ~hasJob
  /\ task' = calls + 1
  /\ count' = n
  /\ grain' = GrainOrOne(g)
  /\ nextIndex' = 0
  /\ remaining' = NumChunks(n, GrainOrOne(g))
  /\ hasJob' = TRUE
  /\ Goto(Caller, "notify")
  /\ UNCHANGED <<stop, firstException, index, end>>

Publish(n, g) ==
  /\ NewCall(n)
  /\ ~RunsInline(n, g)
  /\ ~hasJob
  /\ task' = calls + 1
  /\ count' = n
  /\ grain' = GrainOrOne(g)
  /\ nextIndex' = 0
  /\ remaining' = NumChunks(n, GrainOrOne(g))
  /\ firstException' = NoException
  /\ hasJob' = TRUE
  /\ Goto(Caller, "notify")
  /\ UNCHANGED <<stop, index, end>>

\* job_available_.notify_all(), after the lock was released.
NotifyAll ==
  /\ pc[Caller] = "notify"
  /\ WakeWorkers(Caller, "claim")
  /\ UNCHANGED <<pool, index, end, history>>

(***************************************************************************)
(* ProcessChunks, by the caller and by the workers.                        *)
(***************************************************************************)
\* Fault: the claim forgets to move next_index_ past the chunk it took.
ClaimChunkAgain(t) ==
  /\ pc[t] = "claim"
  /\ hasJob /\ nextIndex < count
  /\ index' = [index EXCEPT ![t] = nextIndex]
  /\ end' = [end EXCEPT ![t] = Smaller(count, nextIndex + grain)]
  /\ nextIndex' = Smaller(count, nextIndex + grain - 1)
  /\ Goto(t, "run")
  /\ UNCHANGED <<stop, hasJob, task, count, grain, remaining, firstException, history>>

ClaimChunk(t) ==
  /\ pc[t] = "claim"
  /\ hasJob /\ nextIndex < count
  /\ index' = [index EXCEPT ![t] = nextIndex]
  /\ end' = [end EXCEPT ![t] = Smaller(count, nextIndex + grain)]
  /\ nextIndex' = Smaller(count, nextIndex + grain)
  /\ Goto(t, "run")
  /\ UNCHANGED <<stop, hasJob, task, count, grain, remaining, firstException, history>>

AfterChunks(t) == IF t = Caller THEN "join" ELSE "check"

NoMoreChunks(t) ==
  /\ pc[t] = "claim"
  /\ ~hasJob \/ nextIndex >= count
  /\ Goto(t, AfterChunks(t))
  /\ UNCHANGED <<pool, index, end, history>>

\* task_(index) comes back.
RunIndex(t) ==
  /\ pc[t] = "run"
  /\ Invoked(t)
  /\ index' = [index EXCEPT ![t] = @ + 1]
  /\ IF index[t] + 1 < end[t] THEN UNCHANGED pc ELSE Goto(t, "finish")
  /\ UNCHANGED <<pool, end, calls, size, threw, result>>

\* task_(index) throws: the rest of the chunk is dropped.
ThrowIndex(t) ==
  /\ pc[t] = "run"
  /\ Invoked(t)
  /\ Raised(t)
  /\ Goto(t, "catch")
  /\ UNCHANGED <<pool, index, end, calls, size, result>>

\* The catch block; the exception in hand is the one of index[t].
InHand(t) == [call |-> calls, index |-> index[t]]

\* Fault: the handler goes for the next chunk without finishing this one.
CatchWithoutFinish(t) ==
  /\ pc[t] = "catch"
  /\ firstException' = IF firstException = NoException THEN InHand(t) ELSE firstException
  /\ Goto(t, "claim")
  /\ UNCHANGED <<stop, hasJob, task, count, grain, nextIndex, remaining, index, end, history>>

Catch(t) ==
  /\ pc[t] = "catch"
  /\ firstException' = IF firstException = NoException THEN InHand(t) ELSE firstException
  /\ Goto(t, "finish")
  /\ UNCHANGED <<stop, hasJob, task, count, grain, nextIndex, remaining, index, end, history>>

FinishChunk(t) ==
  /\ pc[t] = "finish"
  /\ remaining # 1
  /\ remaining' = remaining - 1
  /\ Goto(t, "claim")
  /\ UNCHANGED <<stop, hasJob, task, count, grain, nextIndex, firstException, index, end, history>>

\* Fault: the caller is not notified.
FinishJobSilently(t) ==
  /\ pc[t] = "finish"
  /\ remaining = 1
  /\ remaining' = 0
  /\ hasJob' = FALSE
  /\ task' = NoTask
  /\ Goto(t, AfterChunks(t))
  /\ UNCHANGED <<stop, count, grain, nextIndex, firstException, index, end, history>>

\* Fault: the job ends when nothing is left to claim.
FinishJobWhenAllClaimed(t) ==
  /\ pc[t] = "finish"
  /\ nextIndex >= count
  /\ remaining' = 0
  /\ hasJob' = FALSE
  /\ task' = NoTask
  /\ pc' = [u \in Thread |-> IF u = t THEN AfterChunks(t)
                             ELSE IF pc[u] = "blocked" THEN "join" ELSE pc[u]]
  /\ UNCHANGED <<stop, count, grain, nextIndex, firstException, index, end, history>>

\* The last chunk: the job is over and job_done_.notify_one() wakes the caller.
FinishJob(t) ==
  /\ pc[t] = "finish"
  /\ remaining = 1
  /\ remaining' = 0
  /\ hasJob' = FALSE
  /\ task' = NoTask
  /\ pc' = [u \in Thread |-> IF u = t THEN AfterChunks(t)
                             ELSE IF pc[u] = "blocked" THEN "join" ELSE pc[u]]
  /\ UNCHANGED <<stop, count, grain, nextIndex, firstException, index, end, history>>

(***************************************************************************)
(* The caller waits on job_done_ and rethrows.                             *)
(***************************************************************************)
JoinBlocks ==
  /\ pc[Caller] = "join"
  /\ hasJob
  /\ Goto(Caller, "blocked")
  /\ UNCHANGED <<pool, index, end, history>>

\* Fault: the wait is over when nothing is left to claim.
ReturnEarly ==
  /\ pc[Caller] = "join"
  /\ nextIndex >= count
  /\ result' = firstException
  /\ Goto(Caller, "idle")
  /\ UNCHANGED <<pool, index, end, calls, size, ran, threw>>

\* Fault: the exception of the job is not rethrown.
ReturnSwallowing ==
  /\ pc[Caller] = "join"
  /\ ~hasJob
  /\ result' = NoException
  /\ Goto(Caller, "idle")
  /\ UNCHANGED <<pool, index, end, calls, size, ran, threw>>

Return ==
  /\ pc[Caller] = "join"
  /\ ~hasJob
  /\ result' = firstException
  /\ Goto(Caller, "idle")
  /\ UNCHANGED <<pool, index, end, calls, size, ran, threw>>

(***************************************************************************)
(* WorkerLoop: the predicate is evaluated under the lock, first on arrival *)
(* and again after each wake-up.                                           *)
(***************************************************************************)
WorkerExit(w) ==
  /\ pc[w] = "check"
  /\ stop
  /\ Goto(w, "exited")
  /\ UNCHANGED <<pool, index, end, history>>

WorkerStart(w) ==
  /\ pc[w] = "check"
  /\ ~stop
  /\ hasJob /\ nextIndex < count
  /\ Goto(w, "claim")
  /\ UNCHANGED <<pool, index, end, history>>

WorkerWaits(w) ==
  /\ pc[w] = "check"
  /\ ~stop
  /\ ~(hasJob /\ nextIndex < count)
  /\ Goto(w, "wait")
  /\ UNCHANGED <<pool, index, end, history>>

(***************************************************************************)
(* The destructor, and the wake-ups nobody asked for.                      *)
(***************************************************************************)
\* Fault: stop_ is set but the sleeping workers are not told.
DestroySilently ==
  /\ pc[Caller] = "idle"
  /\ stop' = TRUE
  /\ Goto(Caller, "joining")
  /\ UNCHANGED <<hasJob, task, count, grain, nextIndex, remaining, firstException,
                 index, end, history>>

Destroy ==
  /\ pc[Caller] = "idle"
  /\ stop' = TRUE
  /\ WakeWorkers(Caller, "joining")
  /\ UNCHANGED <<hasJob, task, count, grain, nextIndex, remaining, firstException,
                 index, end, history>>

JoinWorkers ==
  /\ pc[Caller] = "joining"
  /\ \A w \in Workers : pc[w] = "exited"
  /\ Goto(Caller, "gone")
  /\ UNCHANGED <<pool, index, end, history>>

SpuriousWakeup(t) ==
  /\ \/ pc[t] = "wait"    /\ Goto(t, "check")
     \/ pc[t] = "blocked" /\ Goto(t, "join")
  /\ UNCHANGED <<pool, index, end, history>>

Terminated == pc[Caller] = "gone" /\ UNCHANGED vars

-----------------------------------------------------------------------------
\* What a thread inside ProcessChunks does by itself.
ProcessChunks(t) ==
  \/ ClaimChunk(t)
  \/ NoMoreChunks(t)
  \/ RunIndex(t)
  \/ ThrowIndex(t)
  \/ Catch(t)
  \/ FinishChunk(t)
  \/ FinishJob(t)

WorkerStep(w) ==
  \/ ProcessChunks(w)
  \/ WorkerExit(w)
  \/ WorkerStart(w)
  \/ WorkerWaits(w)

\* What the caller does once it is inside ParallelFor or the destructor.
CallerStep ==
  \/ ProcessChunks(Caller)
  \/ InlineIndex
  \/ InlineThrow
  \/ InlineReturn
  \/ NotifyAll
  \/ JoinBlocks
  \/ Return
  \/ JoinWorkers

Next ==
  \/ \E n \in Counts, g \in Grains : CallInline(n, g) \/ Publish(n, g)
  \/ Destroy
  \/ CallerStep
  \/ \E w \in Workers : WorkerStep(w)
  \/ \E t \in Thread : SpuriousWakeup(t)
  \/ Terminated

Spec == Init /\ [][Next]_vars

\* The operating system runs every thread that can take a step; invocations
\* of fn come back or throw.
FairSpec == Spec /\ WF_vars(CallerStep) /\ \A w \in Workers : WF_vars(WorkerStep(w))

-----------------------------------------------------------------------------
\* The members and the threads' locals have their types.
TypeOK ==
  /\ stop \in BOOLEAN /\ hasJob \in BOOLEAN
  /\ task \in Nat /\ count \in Nat /\ grain \in Nat \ {0}
  /\ nextIndex \in Nat /\ remaining \in Nat
  /\ firstException \in Exception
  /\ pc \in [Thread -> CallerOutside \cup CallerAround \cup InChunks \cup WorkerOutside]
  /\ pc[Caller] \notin WorkerOutside
  /\ \A w \in Workers : pc[w] \in InChunks \cup WorkerOutside
  /\ index \in [Thread -> Nat] /\ end \in [Thread -> Nat]
  /\ calls \in Nat /\ size \in Nat
  /\ ran \in [Index -> Nat] /\ threw \subseteq Exception /\ result \in Exception

\* ParallelFor is a barrier: whenever a thread is inside fn, the call that
\* passed this fn has not come back yet (the lambdas of the solver capture
\* that call's locals by reference), task_ still holds it, has_job_ is TRUE
\* (so a nested call would be refused) and the index is below count.
BarrierHolds ==
  \A t \in Thread : pc[t] = "run" =>
    /\ pc[Caller] \notin CallerOutside
    /\ hasJob /\ task = calls
    /\ index[t] < size

\* No index is invoked twice, and a call in which nothing threw comes back
\* only after fn was invoked on every index below count.
ExactlyOnce ==
  /\ \A i \in Index : ran[i] <= 1
  /\ pc[Caller] = "idle" /\ threw = {} => \A i \in 0 .. size - 1 : ran[i] = 1

\* The caller sees an exception exactly when an invocation of this call threw
\* one, and it is one of this call: none is lost, none is left over from an
\* earlier job.
ExceptionReported ==
  pc[Caller] = "idle" => IF threw = {} THEN result = NoException ELSE result \in threw

\* An exception stops only its own chunk: when the job is over, an index that
\* was never invoked follows a throwing index of the same chunk.
SkippedOnlyInThrowingChunk ==
  pc[Caller] = "join" /\ ~hasJob =>
    \A i \in 0 .. size - 1 :
      \/ ran[i] = 1
      \/ \E e \in threw : e.index < i /\ e.index \div grain = i \div grain

\* remaining_chunks_ counts the chunks nobody claimed and the claimed ones
\* nobody finished, so it reaches 0 when the last running chunk ends and
\* never before.
ChunkAccounting ==
  remaining = (IF hasJob THEN NumChunks(count - nextIndex, grain) ELSE 0)
              + Cardinality(InFlight)

\* task_ is read without the lock by the threads inside fn: no step of any
\* thread writes it while one of them is there.
TaskNotWrittenWhileRead ==
  [][(\E t \in Thread : pc[t] = "run") => task' = task]_vars

\* Every ParallelFor comes back to the caller.
EveryCallReturns == pc[Caller] \notin {"idle", "joining", "gone"} ~> pc[Caller] = "idle"

\* The destructor ends: every worker hears of stop_ and leaves.
DestructorEnds == pc[Caller] = "joining" ~> pc[Caller] = "gone"

-----------------------------------------------------------------------------
\* The indices of the current call that no thread has attempted or dropped.
Todo ==
  LET Chunk(t) == index[t] .. end[t] - 1
  IN  IF pc[Caller] = "inline" THEN Chunk(Caller)
      ELSE (IF hasJob THEN nextIndex .. count - 1 ELSE {})
           \cup UNION {Chunk(t) : t \in {u \in Thread : pc[u] = "run"}}

Abstract == INSTANCE ParallelFor WITH
  busy   <- pc[Caller] \notin {"idle", "joining", "gone"},
  calls  <- calls,
  todo   <- Todo,
  failed <- threw,
  result <- result

\* The pool does what ParallelFor promises.
ImplementsParallelFor == Abstract!Spec
=============================================================================
