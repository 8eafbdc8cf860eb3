------------------------------- MODULE JobCall -------------------------------
(***************************************************************************)
(* What pretrain's call of the training worker promises to the pipeline    *)
(* (core/pipeline/stages/pretrain.py): one outcome, given once, and not    *)
(* before the worker is gone; a normal return only when the checkpoint on  *)
(* disk is trained for max_steps and is the one that was recorded.  Only a *)
(* parent that is killed leaves the worker behind.                         *)
(***************************************************************************)
EXTENDS Integers

CONSTANT MaxSteps

VARIABLES
    outcome,   \* how the call has ended for the caller
    alive,     \* the worker process exists
    saved,     \* the step of the checkpoint on disk
    recorded   \* the step of the checkpoint that the run record vouches for

vars == <<outcome, alive, saved, recorded>>

NoCheckpoint == -1
Unrecorded   == -2

Init ==
    /\ outcome = "running"
    /\ alive = TRUE
    /\ saved \in Nat \cup {NoCheckpoint}
    /\ recorded = Unrecorded

Save ==
    /\ alive
    /\ saved' \in Nat \cup {NoCheckpoint}
    /\ saved' >= saved
    /\ UNCHANGED <<outcome, alive, recorded>>

WorkerGone ==
    /\ alive
    /\ alive' = FALSE
    /\ UNCHANGED <<outcome, saved, recorded>>

Record ==
    /\ outcome = "running"
    /\ ~alive
    /\ saved >= MaxSteps
    /\ recorded' = saved
    /\ UNCHANGED <<outcome, alive, saved>>

Return ==
    /\ outcome = "running"
    /\ ~alive
    /\ recorded = saved
    /\ outcome' = "returned"
    /\ UNCHANGED <<alive, saved, recorded>>

\* A StageError, which the pipeline handles, or another exception.
Raise ==
    /\ outcome = "running"
    /\ ~alive
    /\ outcome' \in {"stage_error", "crashed"}
    /\ UNCHANGED <<alive, saved, recorded>>

CallerKilled ==
    /\ outcome = "running"
    /\ outcome' = "killed"
    /\ UNCHANGED <<alive, saved, recorded>>

Next == Save \/ WorkerGone \/ Record \/ Return \/ Raise \/ CallerKilled

Spec == Init /\ [][Next]_vars
=============================================================================
