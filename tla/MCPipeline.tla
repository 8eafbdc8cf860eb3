------------------------------ MODULE MCPipeline ------------------------------
(***************************************************************************)
(* Instances of Pipeline for TLC.                                          *)
(***************************************************************************)
EXTENDS Pipeline, TLC

CONSTANTS r1, r2

UpTo(n)   == {STAGE_ORDER[i] : i \in 1 .. n}
Command(stages, val, steps, gated) ==
    [stages |-> stages, val |-> val, steps |-> steps, gated |-> gated]

\* Every choice of stages, with and without a val split, and the refused ones.
AnyCommand == [stages : SUBSET StageNames, val : BOOLEAN, steps : {2}, gated : BOOLEAN]

\* Two runs that get as far as a package, and one that stops after evaluate.
TwoCommands == {Command(StageNames \ {"evaluate", "on-device-smoke-test"}, FALSE, 2, FALSE),
                Command(UpTo(5), TRUE, 1, FALSE)}

\* Training, and pretrain alone.
TrainCommands == {Command(UpTo(4), FALSE, 1, FALSE), Command(UpTo(4), FALSE, 2, FALSE)}
PretrainOnly  == {Command({"pretrain"}, FALSE, 2, FALSE)}

\* An earlier run got less far than the new one is asked to, or farther.
Earlier == [init : {NoRun}, steps : {1, 3}]

RunSymmetry == Permutations(Runs)
=============================================================================
