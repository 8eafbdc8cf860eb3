------------------------------- MODULE RunRecords -------------------------------
(***************************************************************************)
(* The record of a run (schemas/pipeline.py), as far as the run store and  *)
(* its readers tell records apart.                                         *)
(***************************************************************************)
EXTENDS Naturals

CONSTANTS
    Commands,   \* pipeline commands, each with a run of its own
    NStages     \* stages that a command runs

ASSUME StagesAssumption == NStages \in Nat \ {0}

Stages   == 1 .. NStages
Terminal == {"succeeded", "failed"}

\* A run record: whose it is, its status, the status of every stage, and how many
\* artifacts it lists.
Records == [owner : Commands, status : {"pending", "running"} \cup Terminal,
            stages : [Stages -> {"absent", "running"} \cup Terminal], artifacts : Nat]

\* Variant: all stages are listed from the start.
ListsStages(c) ==
    [owner |-> c, status |-> "pending",
     stages |-> [k \in Stages |-> "pending"], artifacts |-> 0]

\* The record that create_run makes: it lists no stage.
Fresh(c) == [owner |-> c, status |-> "pending",
             stages |-> [k \in Stages |-> "absent"], artifacts |-> 0]
=============================================================================
