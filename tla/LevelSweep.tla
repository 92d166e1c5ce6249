----------------------------- MODULE LevelSweep ------------------------------
(***************************************************************************)
(* The passes of the solver over its tables, node by node                  *)
(* (src/csrc/src/algorithm/poker_cfr_solver.cc): down the levels of the    *)
(* tree (reaches, strategy sum), the values of the leaves, and up again    *)
(* (values, regrets and strategy).  The nodes of a level are tasks of one  *)
(* ParallelFor, which ThreadPool shows to be a barrier: they run in any    *)
(* order and at once, a child at a time.                                   *)
(*                                                                         *)
(* Numbers are abstracted to what was multiplied or summed.  A reach is    *)
(* the set of the moves it was multiplied by, each a child with the        *)
(* version of the strategy that plays it; a value is the set of the leaves *)
(* it sums, each with the opponent's reach it was computed from; the       *)
(* strategy sum of a node is the set of the terms added to it.             *)
(***************************************************************************)
EXTENDS CfrStorage, Sequences, FiniteSets

CONSTANTS
  Passes,      \* the passes in order: a hero, or Average for a finalization
  Threads      \* tasks that run at once

VARIABLES
  pass, phase, depth,   \* the running pass, its sweep, the level
  todo, running,        \* the level's tasks: not begun, and begun with the next child
  reach, cfv,           \* the tables by block
  sum, version          \* by node: strategy sum, updates of regrets and strategy

sweepVars == <<pass, phase, depth, todo, running, reach, cfv, sum, version>>
vars == <<storageVars, sweepVars>>

Average == 2
ByAverage == -1
Unset == {<<"unset", 0>>}

ASSUME PassesAssumption == Passes \in Seq(Player \cup {Average}) /\ Passes # <<>>

Mode == Passes[pass]
Heroes == IF Mode = Average THEN Player ELSE {Mode}
Level(d) == {n \in NodeIds(tree) : tree.depth[n] = d}
Inner(d) == {n \in Level(d) : tree.actor[n] # TerminalPlayer}
Leaves == {n \in NodeIds(tree) : tree.actor[n] = TerminalPlayer}
LastDepth == tree.depth[tree.size - 1]

\* Fault: a finalization follows the current strategy.
PlayedNow(n) == version[n]

\* What a move at a node is played with.
Played(n) == IF Mode = Average THEN ByAverage ELSE version[n]

Init ==
  /\ InitStorage
  /\ pass = 1 /\ phase = "layout" /\ depth = 0
  /\ todo = {} /\ running = [n \in {} |-> 0]
  /\ reach = [b \in {} |-> {}] /\ cfv = [b \in {} |-> {}]
  /\ sum = [n \in {} |-> {}] /\ version = [n \in {} |-> 0]

Layout ==
  /\ phase = "layout"
  /\ LayOutNode \/ Refuse
  /\ UNCHANGED sweepVars

ReachOffsets == {ReachBlockOffset(n, p) : n \in NodeIds(tree), p \in Player}
CfvOffsets == {PlayerBlockOffset(n, p) : n \in NodeIds(tree), p \in Player}
RootReach == [b \in {ReachBlockOffset(0, p) : p \in Player} |-> {}]

\* The tables are as the storage's constructor leaves them.  Beyond an int's
\* offsets the accessors refuse or are undefined.
BeginPasses ==
  /\ phase = "layout" /\ status = "ready"
  /\ \A table \in DOMAIN sizes : 2 * sizes[table] <= IntRange
  /\ phase' = "root"
  /\ reach' = [b \in ReachOffsets |-> Unset]
  /\ cfv' = [b \in CfvOffsets |-> Unset]
  /\ sum' = [n \in NodeIds(tree) |-> {}] /\ version' = [n \in NodeIds(tree) |-> 0]
  /\ UNCHANGED <<storageVars, pass, depth, todo, running>>

InitializeRootReach ==
  /\ phase = "root"
  /\ reach' = [b \in ReachOffsets |-> IF b \in DOMAIN RootReach THEN RootReach[b] ELSE reach[b]]
  /\ phase' = "forward" /\ depth' = 0 /\ todo' = Inner(0)
  /\ UNCHANGED <<storageVars, pass, running, cfv, sum, version>>

(***************************************************************************)
(* A task: it begins, handles one child after the other, and ends with     *)
(* what the node itself gets.                                              *)
(***************************************************************************)

Sweeping == phase \in {"forward", "backward"}
Child(n) == tree.offset[n] + running[n]

BackwardCfvs(n) == {PlayerBlockOffset(n, p) : p \in Heroes}

\* Backward, the node's values are filled with zeros first.
BeginTask(n) ==
  /\ Sweeping /\ n \in todo /\ Cardinality(DOMAIN running) < Threads
  /\ todo' = todo \ {n}
  /\ running' = [m \in DOMAIN running \cup {n} |-> IF m = n THEN 0 ELSE running[m]]
  /\ cfv' = [b \in CfvOffsets |-> IF phase = "backward" /\ b \in BackwardCfvs(n) THEN {} ELSE cfv[b]]
  /\ UNCHANGED <<storageVars, pass, phase, depth, reach, sum, version>>

ContinueTask(n) ==
  /\ n \in DOMAIN running /\ running[n] < tree.count[n]
  /\ running' = [running EXCEPT ![n] = @ + 1]
  /\ UNCHANGED <<storageVars, pass, phase, depth, todo, sum, version>>

\* Fault: a child gets the reaches of both players.
MoversBoth(n) == Player

\* Whose reach a move of the node changes.
Movers(n) == IF tree.actor[n] = ChancePlayer THEN Player ELSE {tree.actor[n]}

\* PropagatePlayerReach, PropagateAveragePlayerReach and PropagateChanceReach.
PropagateReach(n) ==
  /\ phase = "forward" /\ ContinueTask(n)
  /\ LET move == {<<Child(n), IF tree.actor[n] = ChancePlayer THEN 0 ELSE Played(n)>>}
         written == {ReachBlockOffset(Child(n), p) : p \in Movers(n)}
         Source(b) == CHOOSE p \in Movers(n) : ReachBlockOffset(Child(n), p) = b
     IN  reach' = [b \in ReachOffsets |->
                     IF b \in written THEN reach[ReachBlockOffset(n, Source(b))] \cup move
                                      ELSE reach[b]]
  /\ UNCHANGED cfv

\* BackwardChanceNode, BackwardPlayerNode and BackwardAveragePlayerNode.
AddChildValues(n) ==
  /\ phase = "backward" /\ ContinueTask(n)
  /\ LET Hero(b) == CHOOSE p \in Heroes : PlayerBlockOffset(n, p) = b
     IN  cfv' = [b \in CfvOffsets |->
                   IF b \in BackwardCfvs(n) THEN cfv[b] \cup cfv[PlayerBlockOffset(Child(n), Hero(b))]
                                            ELSE cfv[b]]
  /\ UNCHANGED reach

EndTask(n) ==
  /\ n \in DOMAIN running /\ running[n] = tree.count[n]
  /\ running' = [m \in DOMAIN running \ {n} |-> running[m]]
  /\ UNCHANGED <<storageVars, pass, phase, depth, todo, reach, cfv>>

\* The hero's strategy is added to the average, weighted by its reach.
EndForward(n) ==
  /\ phase = "forward" /\ EndTask(n)
  /\ sum' = IF tree.actor[n] = Mode
            THEN [sum EXCEPT ![n] = @ \cup {<<version[n], reach[ReachBlockOffset(n, Mode)]>>}]
            ELSE sum
  /\ UNCHANGED version

\* Fault: whoever acts learns from the hero's values.
EndBackwardForAll(n) ==
  /\ phase = "backward" /\ EndTask(n)
  /\ version' = IF tree.actor[n] \in Player THEN [version EXCEPT ![n] = @ + 1] ELSE version
  /\ UNCHANGED sum

\* Regrets, then the strategy from them, then the discounts.
EndBackward(n) ==
  /\ phase = "backward" /\ EndTask(n)
  /\ version' = IF tree.actor[n] = Mode THEN [version EXCEPT ![n] = @ + 1] ELSE version
  /\ UNCHANGED sum

\* ParallelFor returns.
LevelDone == todo = {} /\ DOMAIN running = {}

DownOneLevel ==
  /\ phase = "forward" /\ LevelDone
  /\ IF depth < LastDepth
     THEN depth' = depth + 1 /\ todo' = Inner(depth + 1) /\ UNCHANGED phase
     ELSE phase' = "terminal" /\ UNCHANGED <<depth, todo>>
  /\ UNCHANGED <<storageVars, pass, running, reach, cfv, sum, version>>

\* Every leaf reads the opponent's reach, which nobody writes now, and writes
\* its own values: the order of the batches and their tasks does not matter.
ComputeTerminalCfvs ==
  /\ phase = "terminal"
  /\ LET Leaf(b) == CHOOSE n \in Leaves : \E p \in Heroes : PlayerBlockOffset(n, p) = b
         Hero(b) == CHOOSE p \in Heroes : PlayerBlockOffset(Leaf(b), p) = b
         written == {PlayerBlockOffset(n, p) : n \in Leaves, p \in Heroes}
     IN  cfv' = [b \in CfvOffsets |->
                   IF b \in written
                   THEN {<<Leaf(b), reach[ReachBlockOffset(Leaf(b), 1 - Hero(b))]>>} ELSE cfv[b]]
  /\ phase' = "backward" /\ depth' = LastDepth /\ todo' = Inner(LastDepth)
  /\ UNCHANGED <<storageVars, pass, running, reach, sum, version>>

UpOneLevel ==
  /\ phase = "backward" /\ LevelDone
  /\ IF depth > 0
     THEN depth' = depth - 1 /\ todo' = Inner(depth - 1) /\ UNCHANGED phase
     ELSE phase' = "end" /\ UNCHANGED <<depth, todo>>
  /\ UNCHANGED <<storageVars, pass, running, reach, cfv, sum, version>>

NextPass ==
  /\ phase = "end" /\ pass < Len(Passes)
  /\ pass' = pass + 1 /\ phase' = "root"
  /\ UNCHANGED <<storageVars, depth, todo, running, reach, cfv, sum, version>>

Task(n) ==
  \/ BeginTask(n)
  \/ PropagateReach(n) \/ EndForward(n)
  \/ AddChildValues(n) \/ EndBackward(n)

Next ==
  \/ Layout \/ BeginPasses \/ InitializeRootReach
  \/ \E n \in NodeIds(tree) : Task(n)
  \/ DownOneLevel \/ ComputeTerminalCfvs \/ UpOneLevel \/ NextPass

Spec == Init /\ [][Next]_vars

(***************************************************************************)
(* Properties                                                              *)
(***************************************************************************)

\* The blocks a task may write and those it may read.
TaskWrites(n) ==
  IF phase = "forward"
  THEN {<<"reach", ReachBlockOffset(c, p)>> : c \in Children(tree, n), p \in Movers(n)}
         \cup (IF tree.actor[n] = Mode THEN {<<"sum", layout[n].action>>} ELSE {})
  ELSE {<<"cfv", b>> : b \in BackwardCfvs(n)}
         \cup (IF tree.actor[n] = Mode THEN {<<"strategy", layout[n].action>>} ELSE {})
TaskReads(n) ==
  IF phase = "forward"
  THEN {<<"reach", ReachBlockOffset(n, p)>> : p \in Movers(n)}
  ELSE {<<"cfv", PlayerBlockOffset(c, p)>> : c \in Children(tree, n), p \in Heroes}

\* Tasks that run at once do not touch what another one writes, although
\* parents and children share reach blocks.
NoConflict ==
  \A m, n \in DOMAIN running : m # n =>
    TaskWrites(m) \cap (TaskWrites(n) \cup TaskReads(n)) = {}

\* The nodes on the way from the root to each node.
PathTo[n \in NodeIds(tree)] == IF n = 0 THEN {} ELSE PathTo[tree.parent[n]] \cup {n}

\* How often a player's strategies were updated before this pass.
UpdatesBefore(p) == Cardinality({i \in 1 .. pass - 1 : Passes[i] = p})

\* The moves on the way to a node that a player or chance makes, played with
\* the strategies that were there when the pass began.
MovesTo(n, p) ==
  {<<c, IF tree.actor[tree.parent[c]] = ChancePlayer THEN 0
        ELSE IF Mode = Average THEN ByAverage ELSE UpdatesBefore(p)>> :
   c \in {k \in PathTo[n] : tree.actor[tree.parent[k]] \in {p, ChancePlayer}}}

\* On its way back a pass finds every node's reaches as its own way to the root
\* makes them, in whatever block they are and whatever order tasks ran in, and
\* has added the hero's current strategy at each of its nodes to the average.
ReachesOfPath ==
  phase \in {"terminal", "backward", "end"} =>
    \A n \in NodeIds(tree), p \in Player :
      /\ reach[ReachBlockOffset(n, p)] = MovesTo(n, p)
      /\ tree.actor[n] = p /\ p = Mode => <<UpdatesBefore(p), MovesTo(n, p)>> \in sum[n]

\* The values of a finished pass sum every leaf below the node once, each with
\* the opponent's reach of this pass; the hero's nodes, and no other, have
\* learnt from them.
ValuesOfLeaves ==
  phase = "end" =>
    \A n \in NodeIds(tree) :
      /\ \A p \in Heroes :
           cfv[PlayerBlockOffset(n, p)] =
             {<<l, MovesTo(l, 1 - p)>> : l \in {k \in Leaves : n \in PathTo[k] \cup {0}}}
      /\ tree.actor[n] \in Player =>
           version[n] = UpdatesBefore(tree.actor[n]) + (IF tree.actor[n] = Mode THEN 1 ELSE 0)
==============================================================================
