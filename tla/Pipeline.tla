------------------------------- MODULE Pipeline -------------------------------
(***************************************************************************)
(* Runs of the pipeline of one project (core/pipeline/pipeline.py, with    *)
(* RunHandle, RunContext and the stages it calls).  Every command creates  *)
(* a run record and a workspace of its own; the pretraining checkpoint is  *)
(* the one file that all runs of the project share.  A step ends at every  *)
(* save of a record and every write of a file, so that a kill, or another  *)
(* run, may come between any two of them.  TrainWorker and JobProtocol     *)
(* have the inside of the pretrain stage, which is three actions here.     *)
(***************************************************************************)
EXTENDS PipelineSchema, FiniteSets

CONSTANTS
    Runs,        \* run ids
    NoRun,       \* the origin of weights that none of these runs has drawn
    Project,     \* the owner of project-scoped files
    NoFile,      \* the contents of a path that does not exist
    Options,     \* command lines: see OptionSpecs
    Leftovers,   \* models of the checkpoints that earlier runs may have left
    MayFail,     \* a stage may meet bad data
    MaxFaults    \* bound: kills and exceptions that no stage declares

\* val: the split leaves a document in val; steps: max_steps; gated: the scale-out
\* variant of the stages is asked for, and the edition lacks its features.
OptionSpecs == [stages : SUBSET StageNames, val : BOOLEAN, steps : Nat \ {0},
                gated : BOOLEAN]

ASSUME OptionsAssumption == Options \subseteq OptionSpecs /\ Options # {}
ASSUME NamesAssumption   == NoRun \notin Runs /\ Project \notin Runs
ASSUME FlagsAssumption   == MayFail \in BOOLEAN /\ MaxFaults \in Nat

\* A model, told by the weights it was initialized with and its training steps.
Models   == [init : Runs \cup {NoRun}, steps : Nat]
NoModel  == [init |-> NoRun, steps |-> 0]

\* The contents of a file: whose it is and the model that is in it, if any.  Equal
\* contents have equal sha256, different contents different ones.
Contents == [of : Runs \cup {Project}, model : Models]

ASSUME NoFileAssumption    == NoFile \notin Contents
ASSUME LeftoversAssumption == Leftovers \subseteq [init : {NoRun}, steps : Nat]

\* Variant: the workspace of a stage is the project's, not the run's.
SharedPath(r, slot) == <<Project, slot>>

\* Where a slot is written: the run's workspace or the checkpoint directory.
Path(r, slot) == <<IF slot = "checkpoint" THEN Project ELSE r, slot>>
Paths         == (Runs \cup {Project}) \X Slots

Artifacts == [slot : Slots, sha : Contents, from : SUBSET Nat]

VARIABLES
    pc,           \* where each run's process is in Pipeline.run
    opts,         \* its command line
    todo,         \* the selected stages that the loop has not reached
    stage,        \* the stage of the loop body
    outs,         \* outputs that the stage has still to write
    worker,       \* the training worker: its model, whether it did a step
    orphan,       \* the worker has outlived its parent
    status,       \* RunRecord.status, or "absent"
    stageStatus,  \* RunRecord.stages
    artifacts,    \* RunRecord.artifacts
    disk,         \* contents of the files
    faults        \* kills and undeclared exceptions so far

record  == <<status, stageStatus, artifacts>>
process == <<opts, todo, stage, outs, worker, orphan>>
vars    == <<pc, process, record, disk, faults>>

Ended == {"refused", "exited", "failed", "crashed", "killed"}
PCs   == Ended \cup {"idle", "created", "next", "starting", "spawning",
                     "training", "working", "written"}

TypeOK ==
    /\ pc \in [Runs -> PCs]
    /\ opts \in [Runs -> Options]
    /\ todo \in [Runs -> SUBSET StageNames]
    /\ stage \in [Runs -> StageNames]
    /\ outs \in [Runs -> Seq(Slots)]
    /\ worker \in [Runs -> [model : Models, trained : BOOLEAN]]
    /\ orphan \in [Runs -> BOOLEAN]
    /\ status \in [Runs -> {"absent", "pending", "running", "succeeded", "failed"}]
    /\ stageStatus \in [Runs -> [StageNames -> {"absent", "running", "succeeded"}]]
    /\ artifacts \in [Runs -> Seq(Artifacts)]
    /\ disk \in [Paths -> Contents \cup {NoFile}]
    /\ faults \in Nat

Init ==
    /\ pc = [r \in Runs |-> "idle"]
    /\ opts = [r \in Runs |-> CHOOSE o \in Options : TRUE]
    /\ todo = [r \in Runs |-> {}]
    /\ stage = [r \in Runs |-> STAGE_ORDER[1]]
    /\ outs = [r \in Runs |-> << >>]
    /\ worker = [r \in Runs |-> [model |-> NoModel, trained |-> FALSE]]
    /\ orphan = [r \in Runs |-> FALSE]
    /\ status = [r \in Runs |-> "absent"]
    /\ stageStatus = [r \in Runs |-> [s \in StageNames |-> "absent"]]
    /\ artifacts = [r \in Runs |-> << >>]
    /\ disk \in {[p \in Paths |-> IF p = <<Project, "checkpoint">> THEN file ELSE NoFile] :
                    file \in {NoFile} \cup [of : {Project}, model : Leftovers]}
    /\ faults = 0

-----------------------------------------------------------------------------
Goto(r, from, to) == pc[r] = from /\ pc' = [pc EXCEPT ![r] = to]

\* _check_gating: no selected stage needs a feature that the edition lacks.
Allowed(o) == o.gated => o.stages \cap RemoteStages = {}

\* FeatureNotAvailable is raised before a run is created.
Refuse(r) ==
    /\ Goto(r, "idle", "refused")
    /\ \E o \in Options : ~Allowed(o)
    /\ UNCHANGED <<process, record, disk, faults>>

\* create_run: a new directory and record.
Create(r) ==
    /\ Goto(r, "idle", "created")
    /\ \E o \in Options :
         /\ Allowed(o)
         /\ opts' = [opts EXCEPT ![r] = o]
         /\ todo' = [todo EXCEPT ![r] = o.stages]
    /\ status' = [status EXCEPT ![r] = "pending"]
    /\ UNCHANGED <<stage, outs, worker, orphan, stageStatus, artifacts, disk, faults>>

MarkRunning(r) ==
    /\ Goto(r, "created", "next")
    /\ status' = [status EXCEPT ![r] = "running"]
    /\ UNCHANGED <<process, stageStatus, artifacts, disk, faults>>

\* Variant: the stages run in any order.
NextStageAnyOrder(r, s) == s \in todo[r]

\* The selected stages are taken in canonical order.
NextStage(r, s) == s \in todo[r] /\ \A t \in todo[r] : Rank(s) <= Rank(t)

\* Variant: a stage that begins is "pending" in the record.
StartStagePending(r) ==
    /\ Goto(r, "next", "starting")
    /\ \E s \in StageNames :
         /\ NextStage(r, s)
         /\ stage' = [stage EXCEPT ![r] = s]
         /\ todo' = [todo EXCEPT ![r] = @ \ {s}]
         /\ stageStatus' = [stageStatus EXCEPT ![r][s] = "pending"]
    /\ UNCHANGED <<opts, outs, worker, orphan, status, artifacts, disk, faults>>

StartStage(r) ==
    /\ Goto(r, "next", "starting")
    /\ \E s \in StageNames :
         /\ NextStage(r, s)
         /\ stage' = [stage EXCEPT ![r] = s]
         /\ todo' = [todo EXCEPT ![r] = @ \ {s}]
         /\ stageStatus' = [stageStatus EXCEPT ![r][s] = "running"]
    /\ UNCHANGED <<opts, outs, worker, orphan, status, artifacts, disk, faults>>

\* The except clause: the run failed, and the stage is left as it is.
StageError(r) ==
    /\ pc' = [pc EXCEPT ![r] = "failed"]
    /\ status' = [status EXCEPT ![r] = "failed"]
    /\ UNCHANGED <<process, stageStatus, artifacts, disk, faults>>

Has(r, slot) == \E k \in DOMAIN artifacts[r] : artifacts[r][k].slot = slot

\* Variant: a dataset is looked up as the other inputs are, by the stage that
\* produced it, whatever its role.
LatestOfStage(r, slot) ==
    CHOOSE k \in DOMAIN artifacts[r] :
        /\ Producer(artifacts[r][k].slot) = Producer(slot)
        /\ \A j \in DOMAIN artifacts[r] :
             Producer(artifacts[r][j].slot) = Producer(slot) => j <= k

\* input_artifact, select_dataset_artifact: the most recent one.
Latest(r, slot) ==
    CHOOSE k \in DOMAIN artifacts[r] :
        /\ artifacts[r][k].slot = slot
        /\ \A j \in DOMAIN artifacts[r] : artifacts[r][j].slot = slot => j <= k

\* Variant: a stage without its input is passed over.
MissingInputSkips(r) ==
    /\ \E slot \in Stage(stage[r]).inputs : ~Has(r, slot)
    /\ Goto(r, "starting", "next")
    /\ UNCHANGED <<process, record, disk, faults>>

MissingInput(r) ==
    /\ pc[r] = "starting"
    /\ \E slot \in Stage(stage[r]).inputs : ~Has(r, slot)
    /\ StageError(r)

\* The files that the stage is going to write, in this order; a val file only
\* if there are documents for it.
Outputs(r) ==
    CASE stage[r] = "data-ingest" ->
           IF opts[r].val THEN <<"dataset", "dataset.val">> ELSE <<"dataset">>
      [] stage[r] = "on-device-smoke-test" -> << >>
      [] OTHER -> <<CHOOSE slot \in Slots : Producer(slot) = stage[r]>>

LookUp(r) ==
    /\ \A slot \in Stage(stage[r]).inputs : Has(r, slot)
    /\ Goto(r, "starting", IF stage[r] = "pretrain" THEN "spawning" ELSE "working")
    /\ outs' = [outs EXCEPT ![r] = Outputs(r)]
    /\ UNCHANGED <<opts, todo, stage, worker, orphan, record, disk, faults>>

\* The data, the parameters or the packaged model are bad, which a stage finds
\* out before it records anything; or the worker fails.
BadData(r) ==
    /\ MayFail
    /\ \/ pc[r] = "working" /\ outs[r] = Outputs(r)
       \/ pc[r] = "training"
    /\ StageError(r)

\* The model that a file carries.
ModelOf(path) == IF disk[path] = NoFile THEN NoModel ELSE disk[path].model

\* Variant: what is quantized is the artifact of model-init.
OutputModelFromInit(r, slot) ==
    CASE slot \in {"model_init", "quantized_model"} -> [init |-> r, steps |-> 0]
      [] slot = "eval_report" -> ModelOf(Path(r, "checkpoint"))
      [] slot = "package"     -> ModelOf(Path(r, "quantized_model"))
      [] OTHER                -> NoModel

\* The model that goes into an output.  evaluate and quantize open the file
\* that the path of the checkpoint artifact names now.
OutputModel(r, slot) ==
    CASE slot = "model_init"                        -> [init |-> r, steps |-> 0]
      [] slot \in {"eval_report", "quantized_model"} -> ModelOf(Path(r, "checkpoint"))
      [] slot = "package"                           -> ModelOf(Path(r, "quantized_model"))
      [] OTHER                                      -> NoModel

WriteOutput(r) ==
    /\ outs[r] # << >>
    /\ Goto(r, "working", "written")
    /\ LET slot == Head(outs[r]) IN
         disk' = [disk EXCEPT ![Path(r, slot)] =
                    [of |-> r, model |-> OutputModel(r, slot)]]
    /\ UNCHANGED <<process, record, faults>>

\* The artifacts of this run that an artifact's provenance names.
ProvenanceOf(r, slot) == {Latest(r, x) : x \in Stage(Producer(slot)).cited}

\* Variant: the newest artifact is put in front of the others.
RecordOutputInFront(r) ==
    /\ Goto(r, "written", "working")
    /\ LET slot == Head(outs[r]) IN
         artifacts' = [artifacts EXCEPT ![r] =
           <<[slot |-> slot, sha |-> disk[Path(r, slot)], from |-> {}]>> \o @]
    /\ outs' = [outs EXCEPT ![r] = Tail(@)]
    /\ UNCHANGED <<opts, todo, stage, worker, orphan, status, stageStatus, disk, faults>>

\* record_artifact hashes the file that is at the path now.
RecordOutput(r) ==
    /\ Goto(r, "written", "working")
    /\ LET slot == Head(outs[r]) IN
         artifacts' = [artifacts EXCEPT ![r] =
           Append(@, [slot |-> slot, sha |-> disk[Path(r, slot)],
                      from |-> ProvenanceOf(r, slot)])]
    /\ outs' = [outs EXCEPT ![r] = Tail(@)]
    /\ UNCHANGED <<opts, todo, stage, worker, orphan, status, stageStatus, disk, faults>>

\* pretrain's last lines format the loss of a worker that has none to report.
LossMissing(r) == stage[r] = "pretrain" /\ ~worker[r].trained

ReturnStage(r) ==
    /\ outs[r] = << >>
    /\ ~LossMissing(r)
    /\ Goto(r, "working", "next")
    /\ stageStatus' = [stageStatus EXCEPT ![r][stage[r]] = "succeeded"]
    /\ UNCHANGED <<process, status, artifacts, disk, faults>>

CrashWithoutLoss(r) ==
    /\ outs[r] = << >>
    /\ LossMissing(r)
    /\ Goto(r, "working", "crashed")
    /\ UNCHANGED <<process, record, disk, faults>>

\* Variant: the run is marked as succeeded when its last stage begins.
FinishEarly(r) ==
    /\ todo[r] = {}
    /\ Goto(r, "starting", "exited")
    /\ status' = [status EXCEPT ![r] = "succeeded"]
    /\ UNCHANGED <<process, stageStatus, artifacts, disk, faults>>

Finish(r) ==
    /\ todo[r] = {}
    /\ Goto(r, "next", "exited")
    /\ status' = [status EXCEPT ![r] = "succeeded"]
    /\ UNCHANGED <<process, stageStatus, artifacts, disk, faults>>

-----------------------------------------------------------------------------
(***************************************************************************)
(* The pretrain stage.                                                     *)
(***************************************************************************)

\* The worker resumes from the project's checkpoint, or starts from the weights
\* of this run's model-init.
StartWorker(r) ==
    /\ Goto(r, "spawning", "training")
    /\ LET file == disk[Path(r, "checkpoint")] IN
         worker' = [worker EXCEPT ![r] =
           [model |-> IF file = NoFile THEN [init |-> r, steps |-> 0]
                      ELSE file.model,
            trained |-> FALSE]]
    /\ UNCHANGED <<opts, todo, stage, outs, orphan, record, disk, faults>>

\* The worker saves the model m.
Save(r, m) ==
    /\ disk' = [disk EXCEPT ![Path(r, "checkpoint")] = [of |-> Project, model |-> m]]
    /\ worker' = [worker EXCEPT ![r] =
                    [model |-> m, trained |-> @.trained \/ m # @.model]]

\* The models that training passes through up to max_steps.
Ahead(r) == {[worker[r].model EXCEPT !.steps = n] :
                n \in worker[r].model.steps + 1 .. opts[r].steps}

WorkerSaves(r) ==
    /\ pc[r] = "training"
    /\ \E m \in Ahead(r) : Save(r, m)
    /\ UNCHANGED <<pc, opts, todo, stage, outs, orphan, record, faults>>

\* Variant: the loop runs until the step counter is equal to max_steps.
WorkerDoneExactly(r) ==
    /\ Goto(r, "training", "written")
    /\ worker[r].model.steps = opts[r].steps
    /\ Save(r, worker[r].model)
    /\ UNCHANGED <<opts, todo, stage, outs, orphan, record, faults>>

\* The loop is over: the last save, "done", and a zero exit code.
WorkerDone(r) ==
    /\ Goto(r, "training", "written")
    /\ worker[r].model.steps >= opts[r].steps
    /\ Save(r, worker[r].model)
    /\ UNCHANGED <<opts, todo, stage, outs, orphan, record, faults>>

\* A worker whose parent was killed may finish one save before it notices.
OrphanSaves(r) ==
    /\ orphan[r]
    /\ \E m \in Ahead(r) \cup {worker[r].model} : Save(r, m)
    /\ orphan' = [orphan EXCEPT ![r] = FALSE]
    /\ UNCHANGED <<pc, opts, todo, stage, outs, record, faults>>

OrphanExits(r) ==
    /\ orphan[r]
    /\ orphan' = [orphan EXCEPT ![r] = FALSE]
    /\ UNCHANGED <<pc, opts, todo, stage, outs, worker, record, disk, faults>>

-----------------------------------------------------------------------------
Fault ==
    /\ faults < MaxFaults
    /\ faults' = faults + 1

\* An exception that is no StageError (OSError, UnicodeEncodeError ...).  While
\* the worker trains, it is raised once the worker has exited.
Crash(r) ==
    /\ Fault
    /\ pc[r] \notin Ended \cup {"idle"}
    /\ pc' = [pc EXCEPT ![r] = "crashed"]
    /\ UNCHANGED <<process, record, disk>>

Kill(r) ==
    /\ Fault
    /\ pc[r] \notin Ended \cup {"idle"}
    /\ pc' = [pc EXCEPT ![r] = "killed"]
    /\ \E b \in {FALSE, pc[r] = "training"} : orphan' = [orphan EXCEPT ![r] = b]
    /\ UNCHANGED <<opts, todo, stage, outs, worker, record, disk>>

\* What the process of a run and its worker do when all goes well, or when an
\* input is missing.
Step(r) ==
    \/ MarkRunning(r) \/ StartStage(r) \/ MissingInput(r) \/ LookUp(r)
    \/ WriteOutput(r) \/ RecordOutput(r) \/ ReturnStage(r)
    \/ CrashWithoutLoss(r) \/ Finish(r)
    \/ StartWorker(r) \/ WorkerSaves(r) \/ WorkerDone(r)

Next ==
    \E r \in Runs :
        \/ Refuse(r) \/ Create(r) \/ Step(r) \/ BadData(r) \/ Crash(r) \/ Kill(r)
        \/ OrphanSaves(r) \/ OrphanExits(r)

Spec == Init /\ [][Next]_vars

\* The process of a run is scheduled, and its worker's training makes progress.
\* Nothing is promised of failures: they may happen or not.
FairSpec == Spec /\ \A r \in Runs : WF_vars(Step(r))

-----------------------------------------------------------------------------
Succeeded(r) == {s \in StageNames : stageStatus[r][s] = "succeeded"}

(***************************************************************************)
(* A record that says "succeeded" vouches for everything that was asked    *)
(* for: each selected stage succeeded and every kind of artifact that its  *)
(* plan declares as an output is recorded.                                 *)
(***************************************************************************)
SuccessIsComplete ==
    \A r \in Runs : status[r] = "succeeded" =>
        /\ Succeeded(r) = opts[r].stages
        /\ \A s \in opts[r].stages : \A kind \in Stage(s).outputs :
             \E k \in DOMAIN artifacts[r] :
               Kind(artifacts[r][k].slot) = kind /\ Producer(artifacts[r][k].slot) = s

(***************************************************************************)
(* A failed record shows where it stopped: one stage is still "running",   *)
(* the selected stages before it succeeded, those after it never began,    *)
(* and no artifact of a later stage is there.                              *)
(***************************************************************************)
FailureShowsItsStage ==
    \A r \in Runs : status[r] = "failed" =>
        \E s \in opts[r].stages :
          /\ stageStatus[r] = [t \in StageNames |->
               IF t = s THEN "running"
               ELSE IF t \in opts[r].stages /\ Rank(t) < Rank(s) THEN "succeeded"
               ELSE "absent"]
          /\ \A k \in DOMAIN artifacts[r] :
               Rank(Producer(artifacts[r][k].slot)) <= Rank(s)

\* Whatever other runs do, a file in a run's workspace keeps the hash with which
\* it was recorded.
WorkspaceVerifiable ==
    \A r \in Runs : \A k \in DOMAIN artifacts[r] :
        LET a == artifacts[r][k] IN
        a.slot # "checkpoint" => disk[Path(r, a.slot)] = a.sha

\* What an artifact leads back to: the smallest set of artifacts with it in it that
\* the ids in a provenance do not leave.
Lineage(r, k) ==
    {i \in DOMAIN artifacts[r] :
       \A S \in SUBSET DOMAIN artifacts[r] :
         k \in S /\ (\A j \in S : artifacts[r][j].from \subseteq S) => i \in S}

(***************************************************************************)
(* An evaluation is held out: the checkpoint that a report is about leads  *)
(* back, over weights and tokenizer, to the training side of the split,    *)
(* and to nothing of the side that it is evaluated on.  data-ingest records *)
(* both sides under one stage and one kind.                                *)
(***************************************************************************)
EvaluationIsHeldOut ==
    \A r \in Runs : \A k \in DOMAIN artifacts[r] :
        artifacts[r][k].slot = "eval_report" =>
          LET lineage == {artifacts[r][i].slot : i \in Lineage(r, k)} IN
          /\ "dataset" \in lineage /\ "dataset.val" \notin lineage
          /\ Has(r, "dataset.val")

(***************************************************************************)
(* The model that a run evaluates, quantizes and packages is the one that  *)
(* its checkpoint artifact records, although every stage reads it from a   *)
(* file again, and whether or not the checkpoint is an earlier run's.  (It *)
(* holds of one run at a time: all runs share the checkpoint file.)        *)
(***************************************************************************)
PackagesItsCheckpoint ==
    \A r \in Runs : \A k, c \in DOMAIN artifacts[r] :
        /\ artifacts[r][k].slot \in {"eval_report", "quantized_model", "package"}
        /\ artifacts[r][c].slot = "checkpoint"
        => artifacts[r][k].sha.model = artifacts[r][c].sha.model

\* A record only grows, and not at all once the run has ended.
RecordOnlyGrows ==
    [][\A r \in Runs :
         /\ Len(artifacts[r]) <= Len(artifacts'[r])
         /\ artifacts[r] = SubSeq(artifacts'[r], 1, Len(artifacts[r]))
         /\ status[r] \in {"succeeded", "failed"} =>
              /\ status'[r] = status[r] /\ stageStatus'[r] = stageStatus[r]
              /\ artifacts'[r] = artifacts[r]]_vars

\* Every record is a run as BuildRun describes it, whatever the others do.
Build(r) == INSTANCE BuildRun WITH
    status <- status[r], selected <- opts[r].stages, succeeded <- Succeeded(r)

RunsImplementBuild ==
    /\ \A r \in Runs : Build(r)!Init
    /\ [][\A r \in Runs : [Build(r)!Next]_(Build(r)!vars)]_vars

(***************************************************************************)
(* docs/pipeline.md:48: "Artifacts are recorded with a sha256 and byte     *)
(* size so a later stage (or a registry) can verify them."  It holds of    *)
(* the workspace, not of the checkpoint, which the next run overwrites.    *)
(***************************************************************************)
CheckpointVerifiable ==
    \A r \in Runs : \A k \in DOMAIN artifacts[r] :
        LET a == artifacts[r][k] IN
        a.slot = "checkpoint" => disk[Path(r, a.slot)] = a.sha

(***************************************************************************)
(* README.md:75: checkpoints live outside the run directory "specifically  *)
(* so re-running `--stage pretrain` after killing the process resumes      *)
(* instead of retraining from scratch".  Such a command looks for the      *)
(* dataset, the tokenizer and the model_init in its own, empty record.     *)
(***************************************************************************)
PretrainAloneResumes ==
    \A r \in Runs :
        /\ opts[r].stages = {"pretrain"}
        /\ disk[Path(r, "checkpoint")] # NoFile
        => status[r] # "failed"

\* Every command comes to an end, if its process and its worker are scheduled.
EveryRunEnds == \A r \in Runs : pc[r] # "idle" ~> pc[r] \in Ended
=============================================================================
