----------------------------- MODULE ParallelFor -----------------------------
(***************************************************************************)
(* What PokerCfrSolver::ThreadPool::ParallelFor(count, grain, fn) promises *)
(* its caller, without threads, locks or chunks: every index below count   *)
(* is attempted once, an exception may make the pool drop later indices,   *)
(* the call comes back only when nothing is left to attempt, and it        *)
(* rethrows one of the exceptions of this very call, or none if there was  *)
(* none.  ThreadPool is shown to implement this specification.             *)
(***************************************************************************)
EXTENDS Integers

CONSTANT Counts        \* the values of count the callers use

VARIABLES
  busy,      \* TRUE while a call is executing
  calls,     \* how many calls were made: the identity of the current one
  todo,      \* the indices still to be attempted
  failed,    \* the exceptions the current call's invocations raised
  result     \* how the last finished call ended: NoException or an exception

vars == <<busy, calls, todo, failed, result>>

NoException == [call |-> 0, index |-> 0]

Init ==
  /\ busy = FALSE
  /\ calls = 0
  /\ todo = {}
  /\ failed = {}
  /\ result = NoException

Call(n) ==
  /\ ~busy
  /\ busy' = TRUE
  /\ calls' = calls + 1
  /\ todo' = 0 .. n - 1
  /\ failed' = {}
  /\ UNCHANGED result

Succeed(i) ==
  /\ i \in todo
  /\ todo' = todo \ {i}
  /\ UNCHANGED <<busy, calls, failed, result>>

\* An invocation raises: indices after it may be dropped with it.
Fail(i) ==
  /\ i \in todo
  /\ \E dropped \in SUBSET {j \in todo : j > i} : todo' = todo \ (dropped \cup {i})
  /\ failed' = failed \cup {[call |-> calls, index |-> i]}
  /\ UNCHANGED <<busy, calls, result>>

Return ==
  /\ busy
  /\ todo = {}
  /\ busy' = FALSE
  /\ \/ failed = {} /\ result' = NoException
     \/ result' \in failed
  /\ UNCHANGED <<calls, todo, failed>>

Attempt == \E i \in todo : Succeed(i) \/ Fail(i)

Next == (\E n \in Counts : Call(n)) \/ Attempt \/ Return

Spec == Init /\ [][Next]_vars /\ WF_vars(Attempt) /\ WF_vars(Return)
==============================================================================
