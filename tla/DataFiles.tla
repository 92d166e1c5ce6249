------------------------------ MODULE DataFiles ------------------------------
(***************************************************************************)
(* The two data scripts (src/pysrc/data): turn_chance_node_sampler.py      *)
(* collects turn chance nodes from ongoing solves of its roots, and        *)
(* chance_target_generator.py solves each sample it finds in the directory *)
(* the first one wrote.  Both fill a buffer and write it to numbered       *)
(* files, straight under the final name.  A run may die or raise anywhere  *)
(* and be started again with the same arguments.                           *)
(***************************************************************************)
EXTENDS Naturals, Sequences, SequencesExt

CONSTANTS
  Samples,      \* what a sample may be
  Datasets,     \* what the arguments and the seed of a first run determine:
                \* per root the checkpoints, [samples, converged]
  Massless,     \* samples in which a player's reach is zero
  Arguments,    \* [perFile: per stage, maxSamples]
  MaxCrashes

Checkpoints == [samples : Seq(Samples), converged : BOOLEAN]

\* Both num_checkpoints and num_sample_per_file are positive.
ASSUME DataFilesAssumption ==
  /\ MaxCrashes \in Nat
  /\ Datasets \subseteq Seq(Seq(Checkpoints) \ {<<>>})
  /\ \A a \in Arguments : a.maxSamples \in Nat /\ \A s \in {1, 2} : a.perFile[s] \in Nat \ {0}

VARIABLES
  dataset, args,
  stage, step,        \* the script that runs, or ran last, and where it is
  root, checkpoint,   \* the loop counters; root numbers the input file in stage 2
  pending,            \* the samples of the innermost loop still to come
  buffer, index,      \* _OutputBuffer: what it holds, its file_index
  generated,
  files,              \* per stage, the output files in order: [whole, samples]
  crashes

loops == <<root, checkpoint, pending, generated>>
dataVars == <<dataset, args, stage, step, loops, buffer, index, files, crashes>>

StartScript(s) ==
  /\ stage' = s /\ root' = 1 /\ checkpoint' = 1 /\ pending' = <<>>
  /\ buffer' = <<>> /\ index' = 0 /\ generated' = 0
  /\ UNCHANGED <<dataset, args, files>>

DataInit ==
  /\ dataset \in Datasets /\ args \in Arguments
  /\ stage = 1 /\ step = "fetch" /\ root = 1 /\ checkpoint = 1 /\ pending = <<>>
  /\ buffer = <<>> /\ index = 0 /\ generated = 0
  /\ files = <<<<>>, <<>>>> /\ crashes = 0

Enough == stage = 2 /\ generated >= args.maxSamples
Inputs == IF stage = 1 THEN dataset ELSE files[1]
NoMoreInput == Enough \/ root > Len(Inputs)

\* A root's next chunk of iterations and the samples it yields.
RunCheckpoint ==
  /\ stage = 1 /\ step = "fetch" /\ ~NoMoreInput /\ step' = "append"
  /\ LET c == dataset[root][checkpoint]
         last == c.converged \/ checkpoint = Len(dataset[root])
     IN  /\ pending' = c.samples
         /\ root' = IF last THEN root + 1 ELSE root
         /\ checkpoint' = IF last THEN 1 ELSE checkpoint + 1
  /\ UNCHANGED <<dataset, args, stage, buffer, index, generated, files, crashes>>

\* sorted(glob): the files by number; np.load raises for half a file.
LoadInput ==
  /\ stage = 2 /\ step = "fetch" /\ ~NoMoreInput
  /\ \/ files[1][root].whole /\ step' = "append" /\ pending' = files[1][root].samples
     \/ ~files[1][root].whole /\ step' = "raised" /\ UNCHANGED pending
  /\ root' = root + 1
  /\ UNCHANGED <<dataset, args, stage, checkpoint, buffer, index, generated, files, crashes>>

\* append and should_flush; _normalize_reach_for_export raises without mass.
AppendSample ==
  /\ step = "append" /\ pending /= <<>> /\ ~Enough
  /\ \/ Head(pending) \in Massless /\ stage = 1 /\ step' = "raised"
          /\ UNCHANGED <<pending, buffer, generated>>
     \/ ~(Head(pending) \in Massless /\ stage = 1)
          /\ buffer' = Append(buffer, Head(pending)) /\ pending' = Tail(pending)
          /\ generated' = generated + 1
          /\ step' = IF Len(buffer') >= args.perFile[stage] THEN "flush" ELSE "append"
  /\ UNCHANGED <<dataset, args, stage, root, checkpoint, index, files, crashes>>

InnerLoopEnds ==
  /\ step = "append" /\ (pending = <<>> \/ Enough) /\ step' = "fetch" /\ pending' = <<>>
  /\ UNCHANGED <<dataset, args, stage, root, checkpoint, buffer, index, generated, files, crashes>>

\* The flush after the loops; the generator of targets refuses to have had none.
OuterLoopEnds ==
  /\ step = "fetch" /\ NoMoreInput
  /\ step' = IF buffer /= <<>> THEN "flush"
           ELSE IF stage = 2 /\ generated = 0 THEN "raised" ELSE "done"
  /\ UNCHANGED <<dataset, args, stage, loops, buffer, index, files, crashes>>

PutFile(s, n, f) ==
  files' = [files EXCEPT ![s] = IF n < Len(@) THEN ReplaceAt(@, n + 1, f) ELSE Append(@, f)]

\* savez_compressed opens, and so empties, the file of this number ...
OpenFile ==
  /\ step = "flush" /\ step' = "write" /\ PutFile(stage, index, [whole |-> FALSE, samples |-> <<>>])
  /\ UNCHANGED <<dataset, args, stage, loops, buffer, index, crashes>>

\* Fault: the next flush writes the same file.
WriteFileKeepsIndex ==
  /\ step = "write" /\ step' = "append" /\ PutFile(stage, index, [whole |-> TRUE, samples |-> buffer])
  /\ buffer' = <<>>
  /\ UNCHANGED <<dataset, args, stage, loops, index, crashes>>

\* ... and the rest of flush, when it is written.
WriteFile ==
  /\ step = "write" /\ step' = "append" /\ PutFile(stage, index, [whole |-> TRUE, samples |-> buffer])
  /\ index' = index + 1 /\ buffer' = <<>>
  /\ UNCHANGED <<dataset, args, stage, loops, crashes>>

Running == {"fetch", "append", "flush", "write"}

\* Killed, out of disk, or an exception of the solver: memory is gone.
ScriptDies ==
  /\ step \in Running /\ crashes < MaxCrashes
  /\ crashes' = crashes + 1 /\ step' = "crashed" /\ buffer' = <<>> /\ pending' = <<>>
  /\ UNCHANGED <<dataset, args, stage, root, checkpoint, index, generated, files>>

RunAgain == step = "crashed" /\ step' = "fetch" /\ StartScript(stage) /\ UNCHANGED crashes

\* The second script, on whatever the first left; it refuses an empty directory.
RunTargets ==
  /\ stage = 1 /\ step \notin Running
  /\ step' = IF files[1] = <<>> THEN "raised" ELSE "fetch"
  /\ StartScript(2) /\ UNCHANGED crashes

DataNext ==
  \/ RunCheckpoint \/ LoadInput \/ AppendSample \/ InnerLoopEnds \/ OuterLoopEnds
  \/ OpenFile \/ WriteFile \/ ScriptDies \/ RunAgain \/ RunTargets

DataSpec == DataInit /\ [][DataNext]_dataVars

Collected(fs) == FlattenSeq([i \in DOMAIN fs |-> fs[i].samples])

\* The samples a root yields: those of its checkpoints up to the converged one.
OfRoot(r) ==
  LET seen == {c \in DOMAIN r : \A b \in 1 .. c - 1 : ~r[b].converged}
  IN  FlattenSeq([c \in seen |-> r[c].samples])

Promised(s) ==
  IF s = 1 THEN FlattenSeq([r \in DOMAIN dataset |-> OfRoot(dataset[r])])
  ELSE LET all == Collected(files[1])
       IN  SubSeq(all, 1, IF args.maxSamples < Len(all) THEN args.maxSamples ELSE Len(all))

\* However often a script died in the middle of a file before, a run of it that
\* ends left a directory of whole files, all but the last of them full, with
\* every sample it was to write once and in order: one target per sample.
FinishedRunComplete ==
  step = "done" =>
    /\ Collected(files[stage]) = Promised(stage)
    /\ \A i \in DOMAIN files[stage] :
         /\ files[stage][i].whole
         /\ i < Len(files[stage]) => Len(files[stage][i].samples) = args.perFile[stage]
=============================================================================
