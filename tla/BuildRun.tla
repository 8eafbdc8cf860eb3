------------------------------- MODULE BuildRun -------------------------------
(***************************************************************************)
(* What a run of the pipeline promises to a reader of its record: it is    *)
(* created, it starts, its stages succeed one after the other in canonical *)
(* order, and it ends as succeeded when all of them have, or as failed     *)
(* before.  An end is for ever.                                            *)
(***************************************************************************)
EXTENDS PipelineSchema

VARIABLES
    status,    \* the run's status in its record, or "absent"
    selected,  \* the stages asked for
    succeeded  \* the stages that the record shows as succeeded

vars == <<status, selected, succeeded>>

Init ==
    /\ status = "absent"
    /\ selected \in SUBSET StageNames
    /\ succeeded = {}

Create ==
    /\ status = "absent"
    /\ status' = "pending"
    /\ selected' \in SUBSET StageNames
    /\ UNCHANGED succeeded

Start ==
    /\ status = "pending"
    /\ status' = "running"
    /\ UNCHANGED <<selected, succeeded>>

StageSucceeds ==
    /\ status = "running"
    /\ \E s \in selected \ succeeded :
         /\ \A t \in selected : Rank(t) < Rank(s) => t \in succeeded
         /\ succeeded' = succeeded \cup {s}
    /\ UNCHANGED <<status, selected>>

Succeed ==
    /\ status = "running"
    /\ succeeded = selected
    /\ status' = "succeeded"
    /\ UNCHANGED <<selected, succeeded>>

Fail ==
    /\ status = "running"
    /\ succeeded # selected
    /\ status' = "failed"
    /\ UNCHANGED <<selected, succeeded>>

Next == Create \/ Start \/ StageSucceeds \/ Succeed \/ Fail

Spec == Init /\ [][Next]_vars
=============================================================================
