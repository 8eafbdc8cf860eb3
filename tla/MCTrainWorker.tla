---------------------------- MODULE MCTrainWorker ----------------------------
(***************************************************************************)
(* Instances of TrainWorker for TLC.  Three blocks in batches of two make   *)
(* the order wrap around in the middle of a batch.                          *)
(***************************************************************************)
EXTENDS TrainWorker, TLC

CONSTANTS small, big, i1, i2, i3, i4, w1, w2

MCOrder == [b \in Blocks |-> (2 * b + 1) % NBlocks]

Job(n, e, a, s) == [max_steps |-> n, every |-> e, arch |-> a, short |-> s]

\* One user who varies the command line: more steps, fewer steps than are done
\* already, checkpoint_every zero, a negative max_steps, another tokenizer (so
\* another embedding shape), a block_size larger than the dataset.
MixedJobs == {Job(3, 2, small, FALSE), Job(5, 0, small, FALSE),
              Job(-1, 2, small, FALSE), Job(2, 1, big, FALSE),
              Job(3, 2, small, TRUE)}

\* The same command again and again.
SameJob == {Job(4, 3, small, FALSE)}

\* A save at step 2, one at step 3 and the one after the loop.
ShortJob == {Job(3, 2, small, FALSE)}

WorkerSymmetry == Permutations(Workers)
FileSymmetry   == Permutations(Inodes)
Symmetric      == WorkerSymmetry \cup FileSymmetry
=============================================================================
