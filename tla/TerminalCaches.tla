--------------------------- MODULE TerminalCaches ---------------------------
(***************************************************************************)
(* The caches of TerminalCfvCalculator (src/csrc/src/game/poker/           *)
(* terminal_cfv_calculator.cc), shared by the workers of one level: each   *)
(* call gets or creates the entries of its board, one critical section     *)
(* after the other, and goes on using references to them outside the lock. *)
(* HandEquityCalculator keeps its own caches the same way.                 *)
(***************************************************************************)
CONSTANTS
  Threads, NoThread,
  RiverBoards, RunoutBoards,      \* boards of five cards, and of fewer
  Addresses, NoAddress            \* where entries can live

ASSUME TerminalCachesAssumption ==
  NoThread \notin Threads /\ NoAddress \notin Addresses /\ RiverBoards \cap RunoutBoards = {}

Boards == RiverBoards \cup RunoutBoards
Kinds == {"raw", "river", "runout", "matrix"}
Calls == {"fold", "river", "runout"}

\* The entry a call gets after another: CalculateFold, CalculateRiverShowdown
\* and CalculateRunoutShowdown all begin with RawHandsFor.
Following(call, kind) ==
  CASE call = "river" /\ kind = "raw" -> "river"
    [] call = "runout" /\ kind = "raw" -> "runout"
    [] call = "runout" /\ kind = "runout" -> "matrix"
    [] OTHER -> "none"

HoldsRaw == {"river", "runout"}       \* entries with a raw_hands pointer

VARIABLES
  place, call, board, want,  \* each thread: where it is, and what it asks for
  refs,                      \* the entries it has references to, by kind
  holder,                    \* of cache_mutex_
  cache,                     \* the maps, by kind and board
  heap                       \* the entries: what lives at an address, or Freed

thread == <<place, call, board, want>>
cachesVars == <<thread, refs, holder, cache, heap>>

Freed == [kind |-> "none", board |-> "none", raw |-> NoAddress]
NoRefs == [k \in Kinds |-> NoAddress]

CachesInit ==
  /\ place = [t \in Threads |-> "idle"] /\ call = [t \in Threads |-> "fold"]
  /\ want = [t \in Threads |-> "none"] /\ board \in [Threads -> Boards]
  /\ refs = [t \in Threads |-> NoRefs] /\ holder = NoThread
  /\ cache = [k \in Kinds |-> [b \in Boards |-> NoAddress]]
  /\ heap = [a \in Addresses |-> Freed]

Cached(t) == cache[want[t]][board[t]]

BeginCall(t) ==
  /\ place[t] = "idle" /\ place' = [place EXCEPT ![t] = "lock"]
  /\ \E b \in Boards, c \in Calls :
       /\ c = "river" => b \in RiverBoards
       /\ c = "runout" => b \in RunoutBoards
       /\ board' = [board EXCEPT ![t] = b] /\ call' = [call EXCEPT ![t] = c]
  /\ want' = [want EXCEPT ![t] = "raw"]
  /\ UNCHANGED <<refs, holder, cache, heap>>

\* Fault: no lock_guard.
LockNothing(t) ==
  /\ place[t] = "lock" /\ place' = [place EXCEPT ![t] = "find"] /\ holder' = t
  /\ UNCHANGED <<call, board, want, refs, cache, heap>>

Lock(t) ==
  /\ place[t] = "lock" /\ holder = NoThread
  /\ place' = [place EXCEPT ![t] = "find"] /\ holder' = t
  /\ UNCHANGED <<call, board, want, refs, cache, heap>>

\* Out of the critical section, on to the next entry or to the values.
GoOn(t) ==
  /\ holder' = NoThread
  /\ want' = [want EXCEPT ![t] = Following(call[t], want[t])]
  /\ place' = [place EXCEPT ![t] = IF Following(call[t], want[t]) = "none" THEN "use" ELSE "lock"]
  /\ UNCHANGED <<call, board>>

Hit(t) ==
  /\ place[t] = "find" /\ Cached(t) /= NoAddress
  /\ refs' = [refs EXCEPT ![t][want[t]] = Cached(t)]
  /\ GoOn(t) /\ UNCHANGED <<cache, heap>>

Miss(t) ==
  /\ place[t] = "find" /\ Cached(t) = NoAddress /\ place' = [place EXCEPT ![t] = "build"]
  /\ UNCHANGED <<call, board, want, refs, holder, cache, heap>>

Build(t) ==
  /\ place[t] = "build" /\ place' = [place EXCEPT ![t] = "emplace"]
  /\ \E a \in Addresses :
       /\ heap[a] = Freed
       /\ heap' = [heap EXCEPT ![a] =
                     [kind |-> want[t], board |-> board[t],
                      raw |-> IF want[t] \in HoldsRaw THEN refs[t]["raw"] ELSE NoAddress]]
       /\ refs' = [refs EXCEPT ![t][want[t]] = a]
  /\ UNCHANGED <<call, board, want, holder, cache>>

\* make_unique or a constructor throws: out of the call, the map as it was.
BuildThrows(t) ==
  /\ place[t] = "build" /\ place' = [place EXCEPT ![t] = "idle"]
  /\ refs' = [refs EXCEPT ![t] = NoRefs] /\ holder' = NoThread
  /\ UNCHANGED <<call, board, want, cache, heap>>

\* An emplace that finds its key leaves the map and destroys the new entry.
Emplace(t) ==
  /\ place[t] = "emplace"
  /\ \/ Cached(t) = NoAddress
          /\ cache' = [cache EXCEPT ![want[t]][board[t]] = refs[t][want[t]]]
          /\ UNCHANGED heap
     \/ Cached(t) /= NoAddress
          /\ heap' = [heap EXCEPT ![refs[t][want[t]]] = Freed] /\ UNCHANGED cache
  /\ GoOn(t) /\ UNCHANGED refs

EndCall(t) ==
  /\ place[t] = "use" /\ place' = [place EXCEPT ![t] = "idle"]
  /\ refs' = [refs EXCEPT ![t] = NoRefs]
  /\ UNCHANGED <<call, board, want, holder, cache, heap>>

CachesNext ==
  \E t \in Threads :
    \/ BeginCall(t) \/ Lock(t) \/ Hit(t) \/ Miss(t) \/ Build(t) \/ BuildThrows(t)
    \/ Emplace(t) \/ EndCall(t)

CachesSpec == CachesInit /\ [][CachesNext]_cachesVars

\* The type invariant.
Entries == [kind : Kinds, board : Boards, raw : Addresses \cup {NoAddress}] \cup {Freed}

CachesTypeOK ==
  /\ place \in [Threads -> {"idle", "lock", "find", "build", "emplace", "use"}]
  /\ call \in [Threads -> Calls] /\ board \in [Threads -> Boards]
  /\ want \in [Threads -> Kinds \cup {"none"}]
  /\ refs \in [Threads -> [Kinds -> Addresses \cup {NoAddress}]]
  /\ holder \in Threads \cup {NoThread}
  /\ cache \in [Kinds -> [Boards -> Addresses \cup {NoAddress}]]
  /\ heap \in [Addresses -> Entries]

IsEntry(a, kind, b) == a \in Addresses /\ heap[a].kind = kind /\ heap[a].board = b

\* A reference a thread computes with, and the raw hands an entry points to, are
\* entries of their kind and board that no other thread's emplace destroyed.
ReferencesAlive ==
  /\ \A t \in Threads, k \in Kinds :
       refs[t][k] /= NoAddress => IsEntry(refs[t][k], k, board[t])
  /\ \A a \in Addresses :
       heap[a].kind \in HoldsRaw => IsEntry(heap[a].raw, "raw", heap[a].board)
=============================================================================
