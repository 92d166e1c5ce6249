# TLA+ models of the `fisher` solver

`fisher` solves heads-up no-limit Hold'em spots after the flop with
counterfactual regret minimisation (CFR, DCFR). The C++ library is in
`src/csrc`, its Python binding in `src/csrc/src/binding/pybind.cc`, and scripts
that generate training data with it in `src/pysrc/data`. This directory holds
TLA+ modules of its core, configurations that check them with TLC, and theorems
checked by TLAPS.

## The system

A *spot* (board, pot, stacks, bets, ranges, bet sizes) becomes a
`SubgameSetup`. `PokerTree` expands its root `NodeState` breadth-first into a
tree: at a player's node one child per action the `ActionResolver` offers, at a
chance node one per card. `CfrStorage` lays out flat tables over the nodes
(reach, regret, strategy, strategy sum, counterfactual values), indexed by
classes of isomorphic hands (`IsomorphicMapping`). `PokerCfrSolver` iterates:
per iteration two *hero passes*, each a sweep down the tree (reaches, strategy
sum), the values of the leaves (`TerminalCfvCalculator`), and a sweep up
(values, regrets, new strategy). Sweeps go level by level, and the nodes of a
large level are shared out to a `ThreadPool`. From time to time the average
strategy is *finalized* (the same sweeps with the average strategy) and
`BestResponseCalculator` measures its exploitability. Python holds one solver
and its last result in a `PokerSolveSession`.

| component | state | operations | what is hard | what makes it correct |
|---|---|---|---|---|
| Thread pool (`poker_cfr_solver.cc` 276-407) | one job under `mutex_`: task, bounds, `remaining_chunks_`, first exception; two condition variables | `ParallelFor`, worker loop, destructor | interleaving, lost and spurious wake-ups, late workers, throwing tasks, `task_` read outside the lock | barrier, each index once, exceptions reported, every call and the destructor end |
| Betting (`node_state.cc`, `subgame_setup.cc`) | immutable node: board, pot, stacks, bets, actor, status | `CommitAction`, `CommitChanceAction`, payoffs | unequal stacks, short all-ins, street changes | chips conserved, streets closed, payoffs settle, betting ends |
| Action resolver (`action_resolver.cc`) | none | `Resolve` | rounding, snapping to all-in, raise minimum, merging | legal bets only, never nothing to do, merged bets spread |
| Solver and session (`poker_cfr_solver.cc`, `pybind.cc`, `best_response_calculator.cc`) | tables, `hero_pass_count_`, `iterations_completed_`, `average_finalized_`; the session's result | run, solve, compute exploitability, sample, queries | any sweep may throw half way and the session goes on; tables shared by training, finalizing and sampling | what is reported and exported belongs to the average as it is |
| Storage (`cfr_storage.cc`) | flat tables and per-node offsets | layout, indexed access | reach blocks shared by parent and child; `int` offsets | blocks disjoint where written in parallel |
| Tree (`poker_tree.cc`) | vector of nodes, child ranges | build, find by history | history prefixes | every position once and found by its history, ranges contiguous |
| Terminal values, equities (`terminal_cfv_calculator.cc`, `terminal_win_prob_matrix.cc`, `hand_equity_calculator.cc`) | caches by board under a lock | values of leaves, equities | get-or-create from several threads; card removal by inclusion and exclusion | references stay valid; values are sums over raw hands and runouts |
| Isomorphic mapping (`isomorphic_mapping.cc`, `data_propagation.cc`) | hand classes per board | build, transitions | hands blocked for one player only, unequal beliefs | iso hands stand for raw hands on every board |
| Hand evaluator (`hand_evaluator.cc`) | a table of strengths, a cache file | load, build, save | processes share the file and its `.tmp`; crashes, full disks | a loaded table is the one that would be built |
| Configuration and value types | none | parse, format | text and float conversions | round trips |
| Kuhn benchmark (`kuhn.cc`, `cfr.cc`) | tables by information set | CFR, best response | - | best responses, convergence |
| Data scripts (`pysrc/data`) | output buffer, file index | sample, flush | interruption, reruns, bad samples | a finished run has every sample once |

Components call each other synchronously; the only threads are the pool's, and
the binding never releases Python's lock, so one caller thread uses a solver.
What persists is the evaluator's cache file and the scripts' output.
`PROJECT.json` lists the hazards at their lines.

## Modules

| module | models | composes |
|---|---|---|
| `ParallelFor` | what `ParallelFor` promises, without threads (abstract specification) | |
| `ThreadPool` | the pool, one action per block under `mutex_` | implements `ParallelFor` |
| `MCThreadPool` | TLC instances | |
| `ThreadPoolProofs` | theorems about `ThreadPool`: accounting and barrier, delivery, refinement | |
| `ActionResolver` | the actions offered at a node, as operators | |
| `NodeState` | walks down the betting tree | `ActionResolver` |
| `MCNodeState`, `NodeStateProofs` | TLC instance, theorems | |
| `CfrSession` | a session's calls and the solver's sweeps | |
| `MCCfrSession`, `CfrSessionProofs` | TLC instance, theorems | |
| `TreeShape` | what users of a tree rely on, as operators on a finished tree | |
| `GameTree` | building the tree, searching it | shows `TreeShape`'s `WellFormed` |
| `CfrStorage` | laying out the tables over a tree | assumes `WellFormed` |
| `LevelSweep` | the passes, node by node, over the shared tables | `CfrStorage`; `ParallelFor` is a barrier |
| `MCGameTree`, `GameTreeProofs`, `MCLevelSweep` | TLC instances, theorems about `GameTree` | |
| `HandClasses` | iso hands of a board, transitions between boards, as operators | |
| `TerminalValues` | values of terminal nodes and equities, as operators | `HandClasses` |
| `RawRanges` | ranges and values hand by hand (abstract specification) | |
| `IsoRanges` | ranges over iso hands along a line of play | `TerminalValues`; implements `RawRanges` |
| `MCIsoRanges` | TLC instance | |
| `IsoRangesProofs` | what the operators of `HandClasses` and `TerminalValues` compute, in terms of raw hands (lemmas); theorems about `IsoRanges`: mappings, refinement, equities, runouts | |
| `TableCache`, `MCTableCache` | the evaluator's cache file, instance | |
| `TerminalCaches`, `MCTerminalCaches` | the calculators' caches, instance | |
| `DataFiles`, `MCDataFiles` | the two data scripts and their files, instance | |
| `StoreProofs` | theorems about `TableCache`, `DataFiles` and `TerminalCaches`: what is left on disk and in the caches | |
| `BestResponse` | `FinalizeAverageStrategy` and `BestResponseCalculator`, on any tree | assumes `WellFormed` |
| `KuhnGame` | the game of `kuhn.cc` and best response by enumeration, as operators | |
| `MCBestResponse` | Kuhn poker and a game with cards between actions | compares `BestResponse` with `KuhnGame` |
| `SolverProofs` | theorems about `LevelSweep` and `BestResponse` | |
| `SumProofs` | induction with sets, sums over finite sets (lemmas) | |

Definitions whose comment starts with "Fault:" are not part of any
specification: each is a variant of the definition that follows it, the way a
plausible bug would write it, and is what the property named with it in
`PROJECT.json` ("mutants") must catch.

### ThreadPool

Variables are the pool's members (`stop`, `hasJob`, `task`, `count`, `grain`,
`nextIndex`, `remaining`, `firstException`), every thread's place in the code
(`pc`) and local chunk (`index`, `end`), and a history of the current call (how
often `fn` ran on each index, what it threw, how the last call ended). A block
under `mutex_` is one action; between two blocks a thread rests in a place, so
all interleavings of blocks are explored. The `notify_all` of `ParallelFor`,
which the code makes after unlocking, is an action of its own. A thread in
`wait` moves on by a notification or spuriously. The task of the pool is the
number of the call that passed it, so a use of an old task is visible. Invoking
`fn` comes back or throws, at the thread's choice. A nested call is not an
action of its own: the code throws on it whenever `has_job_` holds, which
`BarrierHolds` shows for every invocation on the workers.

### ActionResolver and NodeState

`node` is the current node, with the code's fields; `root` is the position the
walk started from. `CommitFold`, `CommitCheck`, `CommitCall`, `CommitBet` and
`CommitChance` are the branches of `CommitAction` and `CommitChanceAction`
with the guard that the action is one of `Resolve`. Because the tree expands
every valid action and card, the reachable values of `node` are the tree's
nodes. `Leaf` lets a terminal node stutter, so a deadlock would be a live node
that cannot be expanded; deadlock is checked.

Amounts are integers (the code's milli-bb) and ratios are percentages. The code
computes sizes in `float` and rounds; the model computes them exactly. The
geometric size, a k-th root in the code, is characterised by the polynomial it
solves. `SetupAccepts` is what `SubgameSetup` checks of a position;
`FromAGame` adds what it does not check and every position of a real hand
satisfies: the player to act does not lead the betting, and has chips when it
faces a bet. Without it the code accepts positions in which a player cannot act
and on which `CfrStorage` throws. Payoffs are those of `BuildTerminalPayoff`; the
chop is zero after a fold, where nothing is split, so `PayoffsSettle` speaks of it
at showdowns only.

### CfrSession

The calls are those of the binding; `pc` says which sweep of the running call is
next. Each sweep is one action with a parameter `ok`: if it is FALSE the sweep
throws, in `Writes` the table it was writing then holds what it held or is
`Mixed`, and the caller may call again (a session whose constructor throws is
gone). A sweep that rewrites a table with the values it already holds leaves it
unchanged even when it throws: the kernels allocate before they write a node's
block, so no block is left half-written. Numbers are abstracted to their
source: a reach or value table holds the version of the current or average
strategy it was computed from. `converged` is free, as it depends on the
numbers. Parameters the binding never passes (an epsilon other than the default,
an invalid player) are left out, and the result of `Solve`, a local variable
there, is seen when it returns.

### GameTree

The `NodeState` of a node is its path of moves; who acts and what the valid
actions are is a constant, as `NodeState` has its own module. The queue of
`Build` is a sequence with the position of its head. The three branches of the
loop are the actions; the lookups are operators over the built tree.

### CfrStorage and LevelSweep

`LayOutNode` is the constructor's loop body, `Refuse` its two refusals. Sizes
are exact, offsets are `int` (`ToInt` wraps). `LevelSweep` runs a sequence of
passes (a hero pass, or a finalization) over the tables so laid out. A node of a
level is a task of `ParallelFor` and handles one child per step, so tasks
interleave between children; a level ends when all its tasks have. `reach` and
`cfv` are indexed by block, not by node: that is where sharing can go wrong. The
numbers are abstracted to what they were made of: a reach to the moves it was
multiplied by, each with the version of the strategy, a value to the leaves it
sums, so a term missing, added twice from another version, or read from the
wrong block shows. Values of leaves are one step, since `NoConflict`'s argument
is trivial there: each leaf writes its own block and reads reaches nobody
writes.

### HandClasses, TerminalValues, IsoRanges and RawRanges

An iso hand is the set of its raw hands, under the renamings of suits that leave
each round of the board as it is: that is the equivalence of the external
`hand_index` library for rounds {3, 1, 1, 2}. Compact numbers, and the maps to a
representative board, are left out. `IsoRanges` follows one line of play: a
player's action keeps or drops iso hands, a card goes through the transition's
edges, and at its end the value of a fold or a showdown is computed as the
calculators do, with sums by card and inclusion and exclusion, strength groups on
the river, and the win matrix before. `RawRanges` says the same of single hands
with sums over the opponent's hands and the runouts. The refinement mapping
spreads an iso hand's reach evenly over its raw hands, which also says what the
code makes of a belief that weighs them unequally. Arithmetic is on integers:
`Unit` is a multiple of every class size.

### TableCache

Each file operation of `LoadTable` and `SaveTable` is an action of one of several
processes. A file is an inode with a length in cells, 0 for not even a header;
paths name inodes, so a process goes on reading what another one renames or
removes. That a write appears as a growing prefix assumes what the C++ library
does on POSIX: header and table reach the system in one call, and `rename` is
atomic. Processes of one build write equal bytes.

### TerminalCaches

The critical sections of the getters are broken into find, build and emplace, so
that the lock is what makes them atomic. A reference is an address; emplacing
over an existing key destroys the new entry, as `unordered_map` does with a
`unique_ptr`. Building may throw.

### DataFiles

The second script runs on what the first left. A file is opened, empty, and
written in another step; a crash between leaves half a file. A rerun has the
same arguments, and the constant `Datasets` stands for what the seed determines:
per root at least one checkpoint, as `sample_iteration_chunks` insists.

### BestResponse and KuhnGame

A game is a tree of the shape `TreeShape` states with any numbers of hands, any
beliefs, transitions at cards and payoffs of pairs of hands. `stage` is how far
the computation is. `FinalizeReaches` and `FinalizeTerminals` are the first two
sweeps of `FinalizeAverageStrategy`, `FinalizeTerminalNode`, `FinalizeChanceNode`
and `FinalizePlayerNode` its sweep up, and `CurrentEv` the value it leaves.
`TerminalNode`, `ChanceNode`, `HeroNode` and `OpponentNode` are the branches of
`BestResponseCalculator`'s loop over the nodes in reverse order, and `RootEv` is
its end, for one player after the other. `FinalizeReaches` computes in one step
what `LevelSweep` shows of a sweep down.

Numbers are whole. A probability is a multiple of `1 / unit`, so a value is
counted in a unit that gets smaller with every move. `chance_prob`, the same for
all children of a node, and the mass that range values are divided by, the same
for every strategy, belong to the units.

`Earned` is the specification: the sum over ends of the game and pairs of hands
of what is paid times how often both players get there. `Plays` are the ways to
play, an action for every hand at every node of a player; `Pure` makes a strategy
of one and `Response` reads one from `action_by_node_hand`.

`KuhnGame` is `cfr.cc`'s view of Kuhn poker: two hidden cards, information states,
and pure strategies tried one by one.

## Runs

| run | instance | shows |
|---|---|---|
| `thread_pool_safety` | 2 workers and the caller, 2 calls, counts 0, 1, 3, grains 0, 2, workers symmetric (267,409 states) | barrier, exactly once, exceptions, skipped indices, chunk accounting, `task_` not written under a reader |
| `thread_pool_live` | the same with 1 call, fair (27,552 states) | calls and destructor end; the pool implements `ParallelFor` with its fairness |
| `node_state` | a 6-card deck, 117 positions on flop, turn and river with stacks from 0 to 20 chips, all five kinds of bet size, merging, rake (12,632 states) | conservation, closed streets, legal bets, no dead end, merging, payoffs, termination |
| `cfr_session` | at most 3 iterations per solve, check every 2, chunks 0 to 2, 4 calls, 2 throws (351,322 states) | what is reported and exported is of the average as it is; the schedule's drift |
| `game_tree` | 4 cards, at most two streets with one bet each, roots at every point of a street with and without a history (426 states) | the tree's shape while it grows, each position once, histories |
| `level_sweep` | trees of 6 to 8 nodes with every choice of who acts, 2 hands or fewer after a card, or up to 12 with offsets that fit an `int` of 64 values, overflow it once, and more; 2 threads; 4 passes, one a finalization (53,691 states) | blocks found and apart, overflow noticed, no conflicts, reaches and values of each pass |
| `iso_ranges` | 3 ranks in 3 suits, boards of 2, 3 and 4 cards, beliefs that are even, uneven or of one player (11,597 states) | refinement of `RawRanges`, refusals, runouts against chance nodes, equities |
| `table_cache` | 3 processes, a table of 2 cells, any kind of old file, 1 fault | a table that is loaded is right |
| `table_cache_race` | 2 processes, no faults | **violated**: see below |
| `terminal_caches` | 3 threads, one river and one earlier board, 5 addresses (28,150 states) | references stay valid; no thread waits for ever |
| `data_files` | 4 datasets of up to 3 roots, files of 1 to 9 samples, 3 crashes (58,333 states) | a run that ends left every sample once, in full files |
| `best_response` | Kuhn poker with 729 average strategies of probabilities 0, 1/2 and 1; a game of 11 nodes with 27, in which one card splits a hand and another unites two (25,110 states) | nothing earns more than the response, which earns its value; the average earns its own; both as by enumeration |

*The violation.* `hand_evaluator_test.cc` (line 146) expects that the constructor
writes the cache. Two processes that start together share the name of the
temporary file. One renames it; the other's rename fails, and its fallback
removes the first one's finished cache before it tries again in vain. No table is
wrong, as `table_cache` shows, but the next process builds it again.

*Bounds.* Two workers and a caller give every pair of roles: a claimer, a
finisher and a late one. Counts and grains reach the empty call, the inline
call, the job of two chunks with a shorter last one, and grain 0; a second call
exercises what is left from the first. The positions include empty stacks,
unequal stacks, stacks below the raise minimum, open bets and chance roots. A
flop position sees two more cards. A session of four calls is enough to train,
measure, train or sample again and measure again, with a throw in two of them;
three iterations at interval two make the last check an odd one. In `level_sweep` three
tree shapes have both players and chance above, beside and below each other; a
conflict or a wrong block needs two nodes and a common ancestor. Three suits and
three ranks are the least with classes of one, two, three and six hands, ties
and flushes; one action before or between the cards makes reaches differ. In
`table_cache` a fault in one process meets every step of two others. The card
game of `best_response` has what Kuhn poker lacks: a chance node, hands that
change there, and a decision of the same player on either side. Three
crashes in `data_files` reach each script twice. `MaxCalls`, `MaxFailures`,
`MaxIterations`, `MaxActions`, `MaxFaults`, `MaxCrashes` and the deck are the
only bounds. `cfr_session`, `game_tree`,
`level_sweep`, `iso_ranges`, `data_files` and `best_response` do not check
deadlock: they stop when the last call, node, pass, line, script or player is
done.

*Fairness.* `thread_pool_live` assumes that the system schedules every thread
that can take a step, and that invocations of `fn` come back or throw. Nothing
is assumed of spurious wake-ups, nor that the caller calls or destroys.
`node_state` assumes that a node that can be expanded is, as the loop of
`PokerTree::Build` does.

## Theorems

All hold for every value of the constants, under the named assumptions of the
modules.

- `ThreadPoolProofs`, for any finite set of workers (other than one: the pool
  makes none or at least two) and any number of calls.
  `SpecTypeOK`, `SpecChunkAccounting`, `SpecBarrierHolds` and
  `SpecTaskNotWrittenWhileRead`: the inductive
  invariant adds to the accounting that a job's task and count are the current
  call's, that without a job no thread is in flight, and that a running chunk
  lies below `nextIndex`. The core is `InFlightCounted`: a thread with a chunk
  is counted by `remaining`, so the one that sees 1 is the last; under it is the
  arithmetic of rounding up (`ChunkTaken`).
  `SpecExactlyOnce`, `SpecExceptionReported` and
  `SpecSkippedOnlyInThrowingChunk`, on top of that: `DInv` says where
  every index of the call is: invoked once, behind a throwing index of its
  chunk, still to be claimed, or held by one running thread (`CoveredInv`,
  `OnceInv`); that chunks begin at multiples of the grain (`AlignedInv`); and
  that once something threw, `firstException` is set or a thread is in the
  handler with an exception of this call (`ExceptionInv`). Without a job nobody
  is in flight, so only the first two places are left when the caller returns.
  `SpecImplementsParallelFor`: every step of the pool is a step of `ParallelFor`
  or none of its business; the fairness of that specification stays with TLC.
- `NodeStateProofs`: `SpecTypeOK`, `SpecChipsConserved`, `SpecBetsClosed`,
  `SpecOfferedBetsLegal`, `SpecNeverStuck`, `SpecPayoffsSettle`, for any deck,
  positions and configured sizes. Conservation needs `BetsClosed` (a chance node
  moves equal bets into the pot), and `NeverStuck` needs that who faces a bet
  has chips, which holds because nobody bets at an opponent without chips.
  `SpecMergingKeepsSpread`: what merging keeps is characterised
  (`KeepsFar`: exactly the bets far from every larger bet that is kept), and by
  induction over the largest bet there is exactly one such set, the one the
  recursion computes.
- `CfrSessionProofs`: `SpecTypeOK`, `SpecEvReadsAverage`, `SpecCfvsMeasured`,
  `SpecSamplesFresh`, `SpecPassesBounded`, `SpecSolveReports`, for any number of
  calls and throws.
  The invariant states what the tables hold at each sweep of a call
  (`TablesInv`) and that a pass that has begun made every measure stale
  (`MeasureInv`): that is why values of a sweep that threw can only replace
  values nobody may read, or equal ones. For `SolveReports` (`SolveInv`), every
  checkpoint is of an iteration before the one in progress and none converged,
  and the iteration that reaches the limit is always checked.
- `GameTreeProofs`: `SpecShapeKept`, for any deck and any game whose valid
  actions form a sequence, the theorem's only hypothesis. The queue always is
  the list of all ids, so nodes are expanded in id order; the nodes that wait lie
  on two levels at most (`DepthInv`), so a head's children come last and one
  level below it. This discharges the `WellFormed` that `CfrStorage`,
  `LevelSweep` and `BestResponse` assume of their trees.
  `SpecEveryPositionOnce` and `SpecHistoryFindsNode`, for any game whose valid
  actions at a node are distinct and no cards (`GameRules`, the theorems'
  hypothesis; `ActionResolver` sorts and removes duplicates). `PathsInv` says
  that a child's path is its parent's and one move of its, that children are as
  many as moves and in their order, and that no two nodes have one path
  (`DistinctInv`); every prefix of a path is a node's path (`PrefixInv`), so the
  walk along a history, by induction over its length, does not leave the tree
  before its end.
- `SolverProofs`, on `LevelSweep`: `SpecBlocksDisjoint`, `SpecNoConflict`, for any
  trees of the shape `TreeShape` states, any number of hands, passes and threads. The
  invariant says of the layout that the blocks of each table follow one another,
  and that a reach block a node did not make belongs to an owner above it with
  as many hands, of the same player (`SharedOK`). Two nodes of one level whose
  blocks meet then share an owner through parents at which the other player
  acts, so neither writes there. That needs tables which fit an `int`, which
  `BeginPasses` has as a guard. `BlocksDisjoint` itself goes further: in a table
  up to twice as large every offset is exact or negative (`ToIntFacts`), so the
  accessors throw rather than find a wrong block.
  `SpecReachesOfPath` and `SpecValuesOfLeaves` add what the tables hold
  (`TablesOK`): on the way down every block above the current level is that of
  its path, on the way up every block below it is that of its leaves, and within
  a level a node's block is what the children handled so far make it
  (`ForwardOK`, `BackwardOK`); and each entry is of one version of the strategy
  (`VersionOK`). The blocks being apart is what lets a task's step keep the rest.
- `SolverProofs`, on `BestResponse`: `ResponseBest`, `ResponseBestOfMixed` and
  `CurrentEarned`, for any games. What is recorded is a way to play that earns the
  value returned; no way to play earns more, nor does any mixed strategy; and the
  average strategy earns its own value, so no exploitability is negative.
  `ResponseInv` (`ResponseInvHolds`) says that every node a pass has handled
  satisfies the equation of its values (`AveragesIn`, `AnswersIn`), and that a
  value returned is at the root of such values for the whole tree.
  The theorems follow from the equations alone. A plan (`IsPlan`) is the reaches of
  somebody who plays in any way: cards carry them along, the opponent leaves them,
  and below a node of the player's they add up to what came in. The reaches of
  every strategy are one (`ReachIsPlan`, `PureIsStrategy`). The worth of a node is
  its reaches times its values. At cards it is the worth of the children, since
  reaches go down by the matrix by which values come up (`WorthOfChance`, by
  `Adjoint`); at the opponent's nodes as well (`WorthOfOther`); at the player's own
  it is at least that, and exactly that for who takes the best actions
  (`WorthOfBest`) or plays the strategy the values are of (`WorthOfStrategy`).
  Summed over the tree everything between the root and the ends cancels
  (`Telescope`). A first action of the most value exists by `FirstMost`.
- `IsoRangesProofs`: `SpecMappingPartitions`, that the iso hands of a board part
  the hands that may be held, and `SpecOnlyRootsRefused`, for any number of
  suits, ranks and cards per round. Renamings that leave the rounds alone form a
  group (`Bucket` is an equivalence), and those of a longer board are some of
  those of a shorter one, so a set of hands that is a union of buckets remains
  one.
  `SpecPlaysRawHands`, that the game over iso hands is the one over raw hands:
  the refinement of `RawRanges`, step by step. The invariant (`SpecSpread`) is
  that a board comes from a root and that the reach of an iso hand is a natural
  number its hands share evenly (`Spread`): an action keeps whole iso hands, and
  an edge of a card carries the share of the hands it leads to (`ReachesBelow`).
  The values then rest on lemmas about the operators: the statistics give the mass of
  the hands that share no card with a hand (`ExcludingIs`); the river's pass over
  strength groups gives every hand what the hands against it pay (`SweptIs`, by
  induction over groups); an entry of the win matrix, taken from one
  representative, is the average over pairs of two iso hands (`WinIs`), because
  renamed pairs win as often (`BeatsRenamed`) and the pairs of two iso hands can be
  counted from either side (`BothWays`), so the matrix product is a sum over raw
  hands (`MarginOfIso`, `RunoutIs`).
  `SpecEquitiesAddUp`: over all pairs of hands of two ranges, summed by rows or by
  columns (`SumSwap`), what one side's wins and chops are worth and what the
  other's are is twice the runouts of the pair.
  `SpecRunoutIsChance`: a runout with n cards to come is met n times among the
  next cards, once for each of its cards (`PairIsChance`).
- `StoreProofs`: `SpecTypeOK`, `SpecLoadedTableIsBuilt`, for any processes,
  table size and faults. The invariant says where a process has what in its
  table; it holds no fact about files, because `LoadTable` checks all it uses.
  `SpecFinishedRunComplete`, for any datasets, arguments and number of crashes.
  `ScriptIInv` says of a running script that what was written and what is in
  the buffer, joined, are the first samples promised (`WrittenOK`), what the
  loops still hold are the next ones (`LoopsOK`), that all files but the last are
  full (`BufferOK`), and of the directory only that no file is beyond the last
  one a run writes (`DirectoryOK`): what an earlier run left in the others is
  replaced. Where a sample is in the joined sequence is `Joining`.
  `SpecCachesTypeOK`, `SpecReferencesAlive`, for any threads, boards and addresses. The invariant is mutual exclusion, that the maps hold
  entries of their kind and board, and that a thread about to emplace found no
  entry: so nobody's entry is destroyed after another thread saw it.

Each inductive invariant was an invariant of its component's run before it was
proved, except for `Answered` in `ResponseInv`: TLC cannot look for the values
whose existence it states. Types need no run where they are proved
(`CfrSession`, `TableCache`, `TerminalCaches`). Where a proof needs induction over numbers, `NatInduct` states it for a
set of numbers, from the library's theorem that a well-founded order has minimal
elements; that a recursive function satisfies its equation is shown by giving a
function that does.

`SumProofs` holds these lemmas and those on sums. A sum over a finite set is a fold of the community modules: a function on the
subsets, chosen to satisfy an equation. `IterExists` gives one that does, by
induction over the size, and `IterUnique` says there is no other; from then on
proofs know only that a sum is any one member's term and the sum of the rest
(`SumTake`).

Assumptions on the constants of `IsoRanges`. `RootsAssumption`: roots are boards
from the flop to the river without a card twice, as `IsomorphicMapping` and
`PokerCards` demand. `StrengthAssumption`: strengths of full hands are numbers
and do not change when suits are renamed, as `hand_evaluator.cc` looks at suits
only to count a flush. `PayoffsAssumption`: what a win adds to a chop is what a
chop adds to a loss; `NodeState::BuildTerminalPayoff` (`node_state.cc` 285-313)
pays a showdown half the pot less the rake, minus half the rake, and minus half
the pot. After a fold the code's chop is zero, and the value of a fold uses the
win and the loss alone. `BeliefsAssumption` and `UnitAssumption` are not about the code but
about the model's exact arithmetic: weights are whole numbers of a unit that the
sizes of iso hands divide (24 will do for four suits); any rational belief is one
of those, scaled.

`GamesAssumption` says what `BestResponse` takes for a game: a tree of the shape
`GameTree` builds, with the same hands before and after an action and no player's
node without actions, as the storage insists; beliefs and transitions that are
not negative; payoffs for every pair of hands at every end; and average
strategies whose probabilities add up to one. Nothing relates the two players'
payoffs. Probabilities in units are again the model's exact arithmetic.

Only model-checked: what is temporal (`EveryCallReturns`, `DestructorEnds`,
`BettingEnds`, and the fairness that `ImplementsParallelFor` promises), which
this prover does not reach; and `AgreesWithEnumeration`, which compares Kuhn
poker's numbers with those of a recursion over the game.

## Not modelled

- The values of regrets, strategies and DCFR discounts: floating point without
  control. Where the numbers come from is modelled (`CfrSession`, `LevelSweep`).
  The discount of the first pass, a power of 0 with a possibly negative exponent,
  is such a number.
- Amounts as `float` between integers: exact here, and so in the code up to
  16,777 big blinds.
- Tables of more than twice the values an `int` counts, whose offsets wrap to
  positive ones, and the one node whose two players' values lie on either side of
  the limit: the code does not refuse them.
- Rounding in general: `IsoRanges` and `BestResponse` compare exact sums.
- The numbers of the hand index library, and the maps between a board and its
  representative.
- Parsing and printing of bet sizes, cards and actions; the read-only queries of
  the binding.
- `KuhnCfrSolver`, whose promise is convergence in the limit, and the vendored
  reference implementations.
- What the scripts draw at random, `random_spot_sampler.py`, which keeps no
  state, and a rerun with other arguments into the same directory: files of both
  runs stay there.
- A worker thread that cannot be created: the process ends.

Left open: that the transitions and payoffs of `IsoRanges` are a game of
`BestResponse`. The two are separate, one along a line of play and one over a tree.
