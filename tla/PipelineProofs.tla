---------------------------- MODULE PipelineProofs ----------------------------
(***************************************************************************)
(* Theorems about runs of the pipeline, for any number of runs, command    *)
(* lines, earlier checkpoints and faults.                                  *)
(***************************************************************************)
EXTENDS Pipeline, Counting, SequenceTheorems, TLAPS

-----------------------------------------------------------------------------
(***************************************************************************)
(* The stages of PipelineSchema.                                           *)
(***************************************************************************)

\* The names of the stages.
LEMMA StageNamesAre ==
    StageNames = {"data-ingest", "tokenizer-train", "model-init", "pretrain",
                  "evaluate", "quantize", "package", "on-device-smoke-test"}
<1>1. DOMAIN STAGE_ORDER = 1 .. 8
  BY DEF STAGE_ORDER
<1>2. 1 .. 8 = {1, 2, 3, 4, 5, 6, 7, 8}
  OBVIOUS
<1> QED
  BY <1>1, <1>2 DEF StageNames, STAGE_ORDER

\* Canonical order.
LEMMA RankOf ==
    /\ Rank("data-ingest") = 1
    /\ Rank("tokenizer-train") = 2
    /\ Rank("model-init") = 3
    /\ Rank("pretrain") = 4
    /\ Rank("evaluate") = 5
    /\ Rank("quantize") = 6
    /\ Rank("package") = 7
    /\ Rank("on-device-smoke-test") = 8
<1>1. DOMAIN STAGE_ORDER = 1 .. 8
  BY DEF STAGE_ORDER
<1>2. \A i, j \in 1 .. 8 : STAGE_ORDER[i] = STAGE_ORDER[j] => i = j
  BY DEF STAGE_ORDER
<1>3. \A i \in 1 .. 8 : Rank(STAGE_ORDER[i]) = i
  BY <1>1, <1>2 DEF Rank
<1>4. 1 .. 8 = {1, 2, 3, 4, 5, 6, 7, 8}
  OBVIOUS
<1> QED
  BY <1>3, <1>4 DEF STAGE_ORDER

\* Which stage writes which slot.
LEMMA ProducerOf ==
    /\ Producer("dataset") = "data-ingest"
    /\ Producer("dataset.val") = "data-ingest"
    /\ Producer("tokenizer") = "tokenizer-train"
    /\ Producer("model_init") = "model-init"
    /\ Producer("checkpoint") = "pretrain"
    /\ Producer("eval_report") = "evaluate"
    /\ Producer("quantized_model") = "quantize"
    /\ Producer("package") = "package"
BY DEF Producer

\* Every slot has a producer.
LEMMA ProducerType == \A slot \in Slots : Producer(slot) \in StageNames
BY ProducerOf, StageNamesAre DEF Slots

\* The stages of the registry.
LEMMA StageOf ==
    /\ Stage("data-ingest") = DataIngestStage
    /\ Stage("tokenizer-train") = TokenizerTrainStage
    /\ Stage("model-init") = ModelInitStage
    /\ Stage("pretrain") = PretrainStage
    /\ Stage("evaluate") = EvaluateStage
    /\ Stage("quantize") = QuantizeStage
    /\ Stage("package") = PackageStage
    /\ Stage("on-device-smoke-test") = OnDeviceSmokeTestStage
BY DEF Stage

\* What each artifact names.
LEMMA CitedBy ==
    /\ Stage(Producer("dataset")).cited = {}
    /\ Stage(Producer("dataset.val")).cited = {}
    /\ Stage(Producer("tokenizer")).cited = {"dataset"}
    /\ Stage(Producer("model_init")).cited = {"tokenizer"}
    /\ Stage(Producer("checkpoint")).cited = {"model_init"}
    /\ Stage(Producer("eval_report")).cited = {"checkpoint"}
    /\ Stage(Producer("quantized_model")).cited = {"checkpoint", "tokenizer"}
    /\ Stage(Producer("package")).cited = {}
BY StageOf, ProducerOf
   DEF DataIngestStage, TokenizerTrainStage, ModelInitStage, PretrainStage,
       EvaluateStage, QuantizeStage, PackageStage

\* What each stage looks up.
LEMMA InputsOf ==
    /\ Stage("data-ingest").inputs = {}
    /\ Stage("tokenizer-train").inputs = {"dataset"}
    /\ Stage("model-init").inputs = {"tokenizer"}
    /\ Stage("pretrain").inputs = {"dataset", "model_init", "tokenizer"}
    /\ Stage("evaluate").inputs = {"checkpoint", "dataset.val", "tokenizer"}
    /\ Stage("quantize").inputs = {"checkpoint", "tokenizer"}
    /\ Stage("package").inputs = {"quantized_model", "tokenizer"}
    /\ Stage("on-device-smoke-test").inputs = {"package"}
BY StageOf
   DEF DataIngestStage, TokenizerTrainStage, ModelInitStage, PretrainStage,
       EvaluateStage, QuantizeStage, PackageStage, OnDeviceSmokeTestStage

\* Every kind that a plan declares is that of a slot which the stage writes.
LEMMA DeclaredIsASlot ==
    \A s \in StageNames : \A kind \in Stage(s).outputs :
        kind \in Slots \ {"dataset.val"} /\ Kind(kind) = kind /\ Producer(kind) = s
BY StageNamesAre, StageOf, ProducerOf
   DEF DataIngestStage, TokenizerTrainStage, ModelInitStage, PretrainStage,
       EvaluateStage, QuantizeStage, PackageStage, OnDeviceSmokeTestStage, Slots, Kind

\* What an artifact's provenance names is an output of an earlier stage that the
\* stage has looked up.
LEMMA CitedIsLookedUp ==
    \A slot \in Slots : \A x \in Stage(Producer(slot)).cited :
        /\ x \in Slots
        /\ x \in Stage(Producer(slot)).inputs
BY CitedBy, InputsOf, ProducerOf DEF Slots

\* The outputs of a stage are slots of its own, and no slot is there twice.
LEMMA OutputsOf ==
    ASSUME NEW r \in Runs, stage[r] \in StageNames
    PROVE  /\ Outputs(r) \in Seq(Slots)
           /\ \A i \in DOMAIN Outputs(r) : Producer(Outputs(r)[i]) = stage[r]
           /\ \A i, j \in DOMAIN Outputs(r) : Outputs(r)[i] = Outputs(r)[j] => i = j
           /\ \A slot \in Slots : Producer(slot) = stage[r] /\ slot # "dataset.val" =>
                \E i \in DOMAIN Outputs(r) : Outputs(r)[i] = slot
           /\ stage[r] = "pretrain" => Outputs(r) # << >>
           /\ Len(Outputs(r)) <= 2
<1>1. CASE stage[r] = "data-ingest"
  <2>1. Outputs(r) = IF opts[r].val THEN <<"dataset", "dataset.val">> ELSE <<"dataset">>
    BY <1>1, Zenon DEF Outputs
  <2>2. CASE opts[r].val
    <3>1. Outputs(r) = <<"dataset", "dataset.val">>
      BY <2>1, <2>2
    <3>2. DOMAIN Outputs(r) = {1, 2} /\ Outputs(r) \in Seq(Slots)
      BY <3>1 DEF Slots
    <3> QED
      BY <1>1, <3>1, <3>2, ProducerOf DEF Slots
  <2>3. CASE ~opts[r].val
    <3>1. Outputs(r) = <<"dataset">>
      BY <2>1, <2>3
    <3>2. DOMAIN Outputs(r) = {1} /\ Outputs(r) \in Seq(Slots)
      BY <3>1 DEF Slots
    <3> QED
      BY <1>1, <3>1, <3>2, ProducerOf DEF Slots
  <2> QED
    BY <2>2, <2>3
<1>2. CASE stage[r] = "on-device-smoke-test"
  <2>1. Outputs(r) = << >>
    BY <1>2, Zenon DEF Outputs
  <2> QED
    BY <1>2, <2>1, ProducerOf DEF Slots
<1>3. CASE stage[r] \notin {"data-ingest", "on-device-smoke-test"}
  <2>1. Outputs(r) = <<CHOOSE slot \in Slots : Producer(slot) = stage[r]>>
    BY <1>3, Zenon DEF Outputs
  <2>2. PICK slot \in Slots : Producer(slot) = stage[r]
    BY <1>3, StageNamesAre, ProducerOf DEF Slots
  <2>3. \A x \in Slots : Producer(x) = stage[r] => x = slot
    BY <1>3, <2>2, ProducerOf DEF Slots
  <2>4. Outputs(r) = <<slot>>
    BY <2>1, <2>2, <2>3
  <2>5. DOMAIN Outputs(r) = {1} /\ Outputs(r) \in Seq(Slots)
    BY <2>4
  <2> QED
    BY <2>2, <2>3, <2>4, <2>5
<1> QED
  BY <1>1, <1>2, <1>3

-----------------------------------------------------------------------------
(***************************************************************************)
(* The inductive invariant.                                                *)
(***************************************************************************)

Busy(r)      == pc[r] \in {"spawning", "training", "working", "written"}
InStage(r)   == pc[r] = "starting" \/ Busy(r)

\* A slot is recorded once, and only when the loop has reached its stage.
RecordInvariant(r) ==
    /\ \A j, k \in DOMAIN artifacts[r] :
         artifacts[r][j].slot = artifacts[r][k].slot => j = k
    /\ \A k \in DOMAIN artifacts[r] :
         /\ Producer(artifacts[r][k].slot) \notin todo[r]
         /\ pc[r] = "starting" => Producer(artifacts[r][k].slot) # stage[r]
    /\ pc[r] = "idle" => artifacts[r] = << >>

\* In the loop body: the inputs are recorded, what is left to write is not.
StageInvariant(r) ==
    /\ InStage(r) => stage[r] \notin todo[r]
    /\ Busy(r) =>
         /\ \A slot \in Stage(stage[r]).inputs : Has(r, slot)
         /\ \A i \in DOMAIN outs[r] :
              Producer(outs[r][i]) = stage[r] /\ ~Has(r, outs[r][i])
         /\ \A i, j \in DOMAIN outs[r] : outs[r][i] = outs[r][j] => i = j
    /\ pc[r] \in {"spawning", "training"} => stage[r] = "pretrain"
    /\ pc[r] \in {"spawning", "training", "written"} => outs[r] # << >>

\* What is about to be hashed is there.
WrittenIsThere ==
    \A r \in Runs : pc[r] = "written" => disk[Path(r, Head(outs[r]))] # NoFile

\* The stages asked for are those that succeeded, the one in progress and those
\* to come, and status says how far the run is.
ProgressInvariant(r) ==
    /\ pc[r] \in {"idle", "refused"} => status[r] = "absent" /\ Succeeded(r) = {}
    /\ pc[r] = "created" => status[r] = "pending" /\ Succeeded(r) = {}
    /\ pc[r] = "next" \/ InStage(r) => status[r] = "running"
    /\ pc[r] \in {"created", "next"} =>
         /\ opts[r].stages = todo[r] \cup Succeeded(r)
         /\ todo[r] \cap Succeeded(r) = {}
    /\ InStage(r) =>
         /\ opts[r].stages = todo[r] \cup Succeeded(r) \cup {stage[r]}
         /\ stage[r] \notin Succeeded(r)
         /\ todo[r] \cap Succeeded(r) = {}
         /\ \A t \in todo[r] : Rank(stage[r]) <= Rank(t)

Recorded(r, s, kind) ==
    \E k \in DOMAIN artifacts[r] :
        Kind(artifacts[r][k].slot) = kind /\ Producer(artifacts[r][k].slot) = s

\* What a stage declares is recorded when it has succeeded, and recorded or to be
\* recorded while it works.
OutputsInvariant(r) ==
    /\ \A s \in Succeeded(r) : \A kind \in Stage(s).outputs : Recorded(r, s, kind)
    /\ Busy(r) => \A kind \in Stage(stage[r]).outputs :
         \/ Recorded(r, stage[r], kind)
         \/ \E i \in DOMAIN outs[r] : Kind(outs[r][i]) = kind
    /\ status[r] = "succeeded" => Succeeded(r) = opts[r].stages

LoopInvariant ==
    /\ TypeOK
    /\ WrittenIsThere
    /\ \A r \in Runs : RecordInvariant(r) /\ StageInvariant(r)

BuildInvariant ==
    \A r \in Runs : ProgressInvariant(r) /\ OutputsInvariant(r)

-----------------------------------------------------------------------------
(***************************************************************************)
(* Steps.                                                                  *)
(***************************************************************************)

\* A step that a run, its worker or its orphan takes, or that befalls it.
StepOf(r) ==
    \/ Refuse(r) \/ Create(r) \/ Step(r) \/ BadData(r) \/ Crash(r) \/ Kill(r)
    \/ OrphanSaves(r) \/ OrphanExits(r)

\* The artifact that Latest picks.  A slot is recorded once, so that there is no
\* other to choose from.
LEMMA LatestIs ==
    ASSUME TypeOK, NEW r \in Runs, RecordInvariant(r), NEW slot, Has(r, slot)
    PROVE  /\ Latest(r, slot) \in DOMAIN artifacts[r]
           /\ Latest(r, slot) \in Nat
           /\ artifacts[r][Latest(r, slot)].slot = slot
<1>1. PICK k \in DOMAIN artifacts[r] : artifacts[r][k].slot = slot
  BY DEF Has
<1>2. \A j \in DOMAIN artifacts[r] : artifacts[r][j].slot = slot => j = k
  BY <1>1 DEF RecordInvariant
<1>3. artifacts[r] \in Seq(Artifacts)
  BY DEF TypeOK
<1>4. k \in Nat
  BY <1>1, <1>3
<1>5. \A j \in DOMAIN artifacts[r] : artifacts[r][j].slot = slot => j <= k
  BY <1>2, <1>4
<1>6. Latest(r, slot) = k
  BY <1>1, <1>2, <1>5 DEF Latest
<1> QED
  BY <1>1, <1>4, <1>6

\* Every slot of every run has a file.
LEMMA PathType == \A r \in Runs, slot \in Slots : Path(r, slot) \in Paths
BY DEF Path, Paths

\* Two slots have different files, but for the checkpoint of two runs.
LEMMA PathInjective ==
    \A q, r \in Runs : \A x, y \in Slots :
        Path(q, x) = Path(r, y) => x = y /\ (x # "checkpoint" => q = r)
BY NamesAssumption DEF Path

\* A file carries a model.
LEMMA ModelOfType ==
    ASSUME TypeOK, NEW p \in Paths
    PROVE  ModelOf(p) \in Models
BY DEF TypeOK, ModelOf, NoModel, Models, Contents

\* So does every output.
LEMMA OutputModelType ==
    ASSUME TypeOK, NEW r \in Runs, NEW slot \in Slots
    PROVE  OutputModel(r, slot) \in Models
<1>1. CASE slot = "model_init"
  <2>1. OutputModel(r, slot) = [init |-> r, steps |-> 0]
    BY <1>1, Zenon DEF OutputModel
  <2> QED
    BY <2>1 DEF Models
<1>2. CASE slot \in {"eval_report", "quantized_model"}
  <2>1. OutputModel(r, slot) = ModelOf(Path(r, "checkpoint"))
    BY <1>2, Zenon DEF OutputModel
  <2>2. Path(r, "checkpoint") \in Paths
    BY PathType DEF Slots
  <2> QED
    BY <2>1, <2>2, ModelOfType
<1>3. CASE slot = "package"
  <2>1. OutputModel(r, slot) = ModelOf(Path(r, "quantized_model"))
    BY <1>3, Zenon DEF OutputModel
  <2>2. Path(r, "quantized_model") \in Paths
    BY PathType DEF Slots
  <2> QED
    BY <2>1, <2>2, ModelOfType
<1>4. CASE slot \notin {"model_init", "eval_report", "quantized_model", "package"}
  <2>1. OutputModel(r, slot) = NoModel
    BY <1>4, Zenon DEF OutputModel
  <2> QED
    BY <2>1 DEF NoModel, Models
<1> QED
  BY <1>1, <1>2, <1>3, <1>4

\* The first of the outputs to be written, and the others.
LEMMA HeadTail ==
    ASSUME TypeOK, NEW r \in Runs, outs[r] # << >>
    PROVE  /\ Head(outs[r]) \in Slots
           /\ 1 \in DOMAIN outs[r]
           /\ Head(outs[r]) = outs[r][1]
           /\ Tail(outs[r]) \in Seq(Slots)
           /\ \A i \in DOMAIN Tail(outs[r]) :
                i + 1 \in DOMAIN outs[r] /\ Tail(outs[r])[i] = outs[r][i + 1]
           /\ \A i \in DOMAIN outs[r] :
                i = 1 \/ (i - 1 \in DOMAIN Tail(outs[r]) /\ Tail(outs[r])[i - 1] = outs[r][i])
<1>1. outs[r] \in Seq(Slots)
  BY DEF TypeOK
<1> QED
  BY <1>1

\* The artifact that RecordOutput appends.
LEMMA NewArtifactType ==
    ASSUME LoopInvariant, NEW r \in Runs, pc[r] = "written",
           NEW slot, slot = Head(outs[r])
    PROVE  /\ slot \in Slots
           /\ \A x \in Stage(Producer(slot)).cited : Has(r, x)
           /\ [slot |-> slot, sha |-> disk[Path(r, slot)],
               from |-> ProvenanceOf(r, slot)] \in Artifacts
<1>1. TypeOK /\ RecordInvariant(r) /\ StageInvariant(r)
  BY DEF LoopInvariant
<1>2. outs[r] # << >>
  BY <1>1 DEF StageInvariant
<1>3. slot \in Slots /\ 1 \in DOMAIN outs[r] /\ slot = outs[r][1]
  BY <1>1, <1>2, HeadTail
<1>4. Producer(slot) = stage[r] /\ \A x \in Stage(stage[r]).inputs : Has(r, x)
  BY <1>1, <1>3 DEF StageInvariant, Busy
<1>5. \A x \in Stage(Producer(slot)).cited : Has(r, x)
  BY <1>3, <1>4, CitedIsLookedUp
<1>6. ProvenanceOf(r, slot) \in SUBSET Nat
  BY <1>1, <1>5, LatestIs DEF ProvenanceOf
<1>7. disk[Path(r, slot)] \in Contents
  <2>1. disk[Path(r, slot)] # NoFile
    BY DEF LoopInvariant, WrittenIsThere
  <2> QED
    BY <1>1, <1>3, <2>1, PathType DEF TypeOK
<1> QED
  BY <1>3, <1>5, <1>6, <1>7 DEF Artifacts

\* What the worker may save is a model.
LEMMA SaveType ==
    ASSUME TypeOK, NEW r \in Runs, NEW m \in Models, Save(r, m)
    PROVE  /\ disk' \in [Paths -> Contents \cup {NoFile}]
           /\ worker' \in [Runs -> [model : Models, trained : BOOLEAN]]
<1>1. [of |-> Project, model |-> m] \in Contents
  BY DEF Contents
<1>2. worker[r].model \in Models /\ worker[r].trained \in BOOLEAN
  BY DEF TypeOK
<1>3. [model |-> m, trained |-> worker[r].trained \/ m # worker[r].model]
        \in [model : Models, trained : BOOLEAN]
  BY <1>2, SMT
<1> QED
  BY <1>1, <1>3 DEF Save, TypeOK

\* Training passes through models.
LEMMA AheadType ==
    ASSUME TypeOK, NEW r \in Runs
    PROVE  Ahead(r) \subseteq Models
<1>1. opts[r].steps \in Nat
  BY OptionsAssumption DEF TypeOK, OptionSpecs
<1>2. worker[r].model \in Models
  BY DEF TypeOK
<1> QED
  BY <1>1, <1>2 DEF Ahead, Models

\* Types, action by action.
LEMMA TypeStep ==
    ASSUME LoopInvariant, NEW r \in Runs, StepOf(r)
    PROVE  TypeOK'
<1> USE DEF TypeOK, PCs, Ended, Goto, process, record
<1>0. TypeOK
  BY DEF LoopInvariant
<1>1. CASE Refuse(r)
  BY <1>0, <1>1 DEF Refuse
<1>2. CASE Create(r)
  BY <1>0, <1>2, OptionsAssumption DEF Create, OptionSpecs
<1>3. CASE MarkRunning(r)
  BY <1>0, <1>3 DEF MarkRunning
<1>4. CASE StartStage(r)
  <2>1. PICK s \in StageNames :
          /\ stage' = [stage EXCEPT ![r] = s]
          /\ todo' = [todo EXCEPT ![r] = @ \ {s}]
          /\ stageStatus' = [stageStatus EXCEPT ![r][s] = "running"]
    BY <1>4 DEF StartStage
  <2>2. stageStatus' \in [Runs -> [StageNames -> {"absent", "running", "succeeded"}]]
    BY <1>0, <2>1
  <2> QED
    BY <1>0, <1>4, <2>1, <2>2 DEF StartStage
<1>5. CASE MissingInput(r)
  BY <1>0, <1>5 DEF MissingInput, StageError
<1>6. CASE LookUp(r)
  <2>1. Outputs(r) \in Seq(Slots)
    BY <1>0, OutputsOf
  <2> QED
    BY <1>0, <1>6, <2>1 DEF LookUp
<1>7. CASE WriteOutput(r)
  <2>1. Head(outs[r]) \in Slots
    BY <1>0, <1>7, HeadTail DEF WriteOutput
  <2>2. OutputModel(r, Head(outs[r])) \in Models
    BY <1>0, <2>1, OutputModelType
  <2>3. [of |-> r, model |-> OutputModel(r, Head(outs[r]))] \in Contents
    BY <2>2 DEF Contents
  <2> QED
    BY <1>0, <1>7, <2>3 DEF WriteOutput
<1>8. CASE RecordOutput(r)
  <2> DEFINE slot == Head(outs[r])
             new  == [slot |-> slot, sha |-> disk[Path(r, slot)],
                      from |-> ProvenanceOf(r, slot)]
  <2>1. new \in Artifacts
    BY <1>8, NewArtifactType DEF RecordOutput
  <2>2. Tail(outs[r]) \in Seq(Slots)
    BY <1>0, <1>8, HeadTail DEF RecordOutput, LoopInvariant, StageInvariant
  <2>3. Append(artifacts[r], new) \in Seq(Artifacts)
    BY <1>0, <2>1
  <2>4. artifacts' = [artifacts EXCEPT ![r] = Append(@, new)]
    BY <1>8 DEF RecordOutput
  <2> QED
    BY <1>0, <1>8, <2>2, <2>3, <2>4 DEF RecordOutput
<1>9. CASE ReturnStage(r)
  <2>1. stageStatus' \in [Runs -> [StageNames -> {"absent", "running", "succeeded"}]]
    BY <1>0, <1>9 DEF ReturnStage
  <2> QED
    BY <1>0, <1>9, <2>1 DEF ReturnStage
<1>10. CASE CrashWithoutLoss(r)
  BY <1>0, <1>10 DEF CrashWithoutLoss
<1>11. CASE Finish(r)
  BY <1>0, <1>11 DEF Finish
<1>12. CASE StartWorker(r)
  <2>1. Path(r, "checkpoint") \in Paths
    BY PathType DEF Slots
  <2>2. disk[Path(r, "checkpoint")] # NoFile => disk[Path(r, "checkpoint")].model \in Models
    BY <1>0, <2>1 DEF Contents
  <2>3. [init |-> r, steps |-> 0] \in Models
    BY DEF Models
  <2>4. worker' \in [Runs -> [model : Models, trained : BOOLEAN]]
    BY <1>0, <1>12, <2>2, <2>3 DEF StartWorker
  <2> QED
    BY <1>0, <1>12, <2>4 DEF StartWorker
<1>13. CASE WorkerSaves(r)
  BY <1>0, <1>13, SaveType, AheadType DEF WorkerSaves
<1>14. CASE WorkerDone(r)
  BY <1>0, <1>14, SaveType DEF WorkerDone
<1>15. CASE BadData(r)
  BY <1>0, <1>15 DEF BadData, StageError
<1>16. CASE Crash(r)
  BY <1>0, <1>16 DEF Crash, Fault
<1>17. CASE Kill(r)
  <2>1. PICK b \in BOOLEAN : orphan' = [orphan EXCEPT ![r] = b]
    BY <1>17, Zenon DEF Kill
  <2>2. orphan' \in [Runs -> BOOLEAN]
    BY <1>0, <2>1
  <2> QED
    BY <1>0, <1>17, <2>2 DEF Kill, Fault
<1>18. CASE OrphanSaves(r)
  BY <1>0, <1>18, SaveType, AheadType DEF OrphanSaves
<1>19. CASE OrphanExits(r)
  BY <1>0, <1>19 DEF OrphanExits
<1> QED
  BY <1>1, <1>2, <1>3, <1>4, <1>5, <1>6, <1>7, <1>8, <1>9, <1>10, <1>11, <1>12,
     <1>13, <1>14, <1>15, <1>16, <1>17, <1>18, <1>19 DEF StepOf, Step

\* A step is of one run: the others' variables, all but the disk, are unchanged.
LEMMA FrameStep ==
    ASSUME TypeOK, NEW r \in Runs, StepOf(r), NEW q \in Runs, q # r
    PROVE  /\ pc'[q] = pc[q]
           /\ opts'[q] = opts[q]
           /\ todo'[q] = todo[q]
           /\ stage'[q] = stage[q]
           /\ outs'[q] = outs[q]
           /\ status'[q] = status[q]
           /\ stageStatus'[q] = stageStatus[q]
           /\ artifacts'[q] = artifacts[q]
<1> USE DEF TypeOK, Goto, process, record
<1>1. CASE Refuse(r) \/ Create(r) \/ MarkRunning(r) \/ StartStage(r)
  BY <1>1 DEF Refuse, Create, MarkRunning, StartStage
<1>2. CASE MissingInput(r) \/ BadData(r)
  BY <1>2 DEF MissingInput, BadData, StageError
<1>3. CASE LookUp(r) \/ WriteOutput(r) \/ RecordOutput(r) \/ ReturnStage(r)
  BY <1>3 DEF LookUp, WriteOutput, RecordOutput, ReturnStage
<1>4. CASE CrashWithoutLoss(r) \/ Finish(r) \/ Crash(r) \/ Kill(r)
  BY <1>4 DEF CrashWithoutLoss, Finish, Crash, Kill
<1>5. CASE StartWorker(r) \/ WorkerSaves(r) \/ WorkerDone(r)
  BY <1>5 DEF StartWorker, WorkerSaves, WorkerDone
<1>6. CASE OrphanSaves(r) \/ OrphanExits(r)
  BY <1>6 DEF OrphanSaves, OrphanExits
<1> QED
  BY <1>1, <1>2, <1>3, <1>4, <1>5, <1>6 DEF StepOf, Step

\* A save of the checkpoint touches no file of a workspace.
LEMMA SaveKeepsFiles ==
    ASSUME TypeOK, NEW r \in Runs, NEW m \in Models, Save(r, m)
    PROVE  /\ disk'[Path(r, "checkpoint")] # NoFile
           /\ \A p \in Paths : disk[p] # NoFile => disk'[p] # NoFile
           /\ \A q \in Runs, slot \in Slots :
                slot # "checkpoint" => disk'[Path(q, slot)] = disk[Path(q, slot)]
<1>1. [of |-> Project, model |-> m] # NoFile
  BY NoFileAssumption DEF Contents
<1>2. Path(r, "checkpoint") \in Paths
  BY PathType DEF Slots
<1>3. \A q \in Runs, slot \in Slots :
        slot # "checkpoint" => Path(q, slot) # Path(r, "checkpoint")
  BY PathInjective DEF Slots
<1> QED
  BY <1>1, <1>2, <1>3, PathType DEF Save, TypeOK

\* No file disappears, and a file of a workspace changes only when its run
\* writes it.
LEMMA DiskStep ==
    ASSUME LoopInvariant, NEW r \in Runs, StepOf(r)
    PROVE  /\ \A p \in Paths : disk[p] # NoFile => disk'[p] # NoFile
           /\ \A q \in Runs, slot \in Slots :
                \/ slot = "checkpoint"
                \/ disk'[Path(q, slot)] = disk[Path(q, slot)]
                \/ /\ q = r /\ WriteOutput(r)
                   /\ slot = Head(outs[r])
<1>0. TypeOK
  BY DEF LoopInvariant
<1>1. CASE disk' = disk
  BY <1>1
<1>2. CASE WriteOutput(r)
  <2>1. Head(outs[r]) \in Slots
    BY <1>0, <1>2, HeadTail DEF WriteOutput
  <2>2. [of |-> r, model |-> OutputModel(r, Head(outs[r]))] # NoFile
    BY <1>0, <2>1, OutputModelType, NoFileAssumption DEF Contents
  <2>3. \A q \in Runs, slot \in Slots : slot # "checkpoint" =>
          Path(q, slot) # Path(r, Head(outs[r])) \/ (q = r /\ slot = Head(outs[r]))
    BY <2>1, PathInjective
  <2> QED
    BY <1>0, <1>2, <2>1, <2>2, <2>3, PathType DEF WriteOutput, TypeOK
<1>3. CASE \E m \in Models : Save(r, m)
  BY <1>0, <1>3, SaveKeepsFiles
<1>4. WorkerSaves(r) \/ WorkerDone(r) \/ OrphanSaves(r) => \E m \in Models : Save(r, m)
  BY <1>0, AheadType DEF WorkerSaves, WorkerDone, OrphanSaves, TypeOK
<1>5. \/ disk' = disk \/ WriteOutput(r)
      \/ WorkerSaves(r) \/ WorkerDone(r) \/ OrphanSaves(r)
  BY DEF StepOf, Step, Refuse, Create, MarkRunning, StartStage, MissingInput, BadData,
     StageError, LookUp, RecordOutput, ReturnStage, CrashWithoutLoss, Finish, Crash,
     Kill, StartWorker, OrphanExits, process, record
<1> QED
  BY <1>1, <1>2, <1>3, <1>4, <1>5

\* A step that neither records nor begins a stage.
LEMMA RecordKept ==
    ASSUME NEW r \in Runs, RecordInvariant(r), artifacts'[r] = artifacts[r],
           todo'[r] \subseteq todo[r],
           pc'[r] \notin {"idle", "starting"} \/ (pc'[r] = pc[r] /\ stage'[r] = stage[r])
    PROVE  RecordInvariant(r)'
BY DEF RecordInvariant

\* A step inside the loop body that leaves record and outputs alone.
LEMMA StageKept ==
    ASSUME NEW r \in Runs, StageInvariant(r), artifacts'[r] = artifacts[r],
           todo'[r] = todo[r], stage'[r] = stage[r], outs'[r] = outs[r],
           \/ pc'[r] = pc[r]
           \/ pc[r] = "spawning" /\ pc'[r] = "training"
           \/ pc[r] = "training" /\ pc'[r] = "written"
           \/ pc[r] = "working" /\ pc'[r] = "written" /\ outs[r] # << >>
    PROVE  StageInvariant(r)'
BY DEF StageInvariant, InStage, Busy, Has

\* RecordOutput appends one artifact, and keeps the invariant.
LEMMA RecordStep ==
    ASSUME LoopInvariant, NEW r \in Runs, RecordOutput(r)
    PROVE  /\ RecordInvariant(r)'
           /\ StageInvariant(r)'
           /\ artifacts'[r] = Append(artifacts[r],
                [slot |-> outs[r][1], sha |-> disk[Path(r, outs[r][1])],
                 from |-> ProvenanceOf(r, outs[r][1])])
<1> DEFINE slot == Head(outs[r])
           new  == [slot |-> slot, sha |-> disk[Path(r, slot)],
                    from |-> ProvenanceOf(r, slot)]
           n    == Len(artifacts[r])
<1>1. /\ TypeOK /\ RecordInvariant(r) /\ StageInvariant(r)
      /\ pc[r] = "written" /\ pc'[r] = "working"
  BY DEF LoopInvariant, RecordOutput, Goto, TypeOK
<1>2. outs[r] # << >>
  BY <1>1 DEF StageInvariant
<1>3. artifacts[r] \in Seq(Artifacts) /\ artifacts'[r] = Append(artifacts[r], new)
  BY <1>1 DEF RecordOutput, TypeOK
<1>4. /\ new \in Artifacts /\ slot \in Slots
  BY <1>1, NewArtifactType
<1>5. /\ n \in Nat /\ DOMAIN artifacts[r] = 1 .. n /\ DOMAIN artifacts'[r] = 1 .. n + 1
      /\ artifacts'[r][n + 1] = new
      /\ \A k \in 1 .. n : artifacts'[r][k] = artifacts[r][k]
  BY <1>3, <1>4
<1>6. slot = outs[r][1] /\ 1 \in DOMAIN outs[r]
  BY <1>1, <1>2, HeadTail
<1>7. Producer(slot) = stage[r] /\ ~Has(r, slot)
  BY <1>1, <1>6 DEF StageInvariant, Busy
<1>8. /\ outs'[r] = Tail(outs[r]) /\ todo'[r] = todo[r] /\ stage'[r] = stage[r]
  BY <1>1 DEF RecordOutput, TypeOK
<1>9. new.slot = slot
  OBVIOUS
<1> HIDE DEF slot, new, n
<1>10. RecordInvariant(r)'
  <2>1. ASSUME NEW j \in DOMAIN artifacts'[r], NEW k \in DOMAIN artifacts'[r],
               artifacts'[r][j].slot = artifacts'[r][k].slot
        PROVE  j = k
    <3>1. \A i \in 1 .. n : artifacts'[r][i].slot # slot
      BY <1>5, <1>7 DEF Has
    <3>2. j \in 1 .. n \/ j = n + 1
      BY <1>5
    <3>3. k \in 1 .. n \/ k = n + 1
      BY <1>5
    <3>4. CASE j \in 1 .. n /\ k \in 1 .. n
      BY <1>1, <1>5, <2>1, <3>4 DEF RecordInvariant
    <3> QED
      BY <1>5, <1>9, <2>1, <3>1, <3>2, <3>3, <3>4
  <2>2. \A k \in DOMAIN artifacts'[r] : Producer(artifacts'[r][k].slot) \notin todo'[r]
    BY <1>1, <1>5, <1>7, <1>8, <1>9 DEF RecordInvariant, StageInvariant, InStage, Busy
  <2> QED
    BY <1>1, <2>1, <2>2 DEF RecordInvariant
<1>11. StageInvariant(r)'
  <2>1. \A x : Has(r, x)' <=> Has(r, x) \/ x = slot
    BY <1>5, <1>9 DEF Has
  <2>2. \A i \in DOMAIN outs'[r] :
          i + 1 \in DOMAIN outs[r] /\ outs'[r][i] = outs[r][i + 1] /\ i \in Nat \ {0}
    BY <1>1, <1>2, <1>8, HeadTail
  <2>3. \A i \in DOMAIN outs[r] : i # 1 => outs[r][i] # slot
    BY <1>1, <1>6 DEF StageInvariant, Busy
  <2>4. (\A i \in DOMAIN outs[r] : Producer(outs[r][i]) = stage[r] /\ ~Has(r, outs[r][i]))'
    <3> SUFFICES ASSUME NEW i \in DOMAIN outs'[r], NEW x, x = outs'[r][i]
                 PROVE  Producer(x) = stage'[r] /\ ~Has(r, x)'
      OBVIOUS
    <3>1. i + 1 \in DOMAIN outs[r] /\ x = outs[r][i + 1] /\ i + 1 # 1
      BY <2>2
    <3>2. Producer(x) = stage[r] /\ ~Has(r, x)
      BY <1>1, <3>1 DEF StageInvariant, Busy
    <3> QED
      BY <1>8, <2>1, <2>3, <3>1, <3>2
  <2>5. \A i, j \in DOMAIN outs'[r] : outs'[r][i] = outs'[r][j] => i = j
    BY <1>1, <2>2 DEF StageInvariant, Busy
  <2>6. (\A x \in Stage(stage[r]).inputs : Has(r, x))'
    BY <1>1, <1>8, <2>1 DEF StageInvariant, Busy
  <2> QED
    BY <1>1, <1>8, <2>4, <2>5, <2>6 DEF StageInvariant, InStage, Busy
<1>12. Append(artifacts[r], new) = artifacts'[r]
  BY <1>3
<1> QED
  BY <1>6, <1>10, <1>11, <1>12 DEF new, slot

\* What a step does to the invariant of its own run ...
LEMMA OwnStep ==
    ASSUME LoopInvariant, NEW r \in Runs, StepOf(r)
    PROVE  RecordInvariant(r)' /\ StageInvariant(r)'
<1> USE DEF TypeOK, Goto, process, record
<1>0. TypeOK /\ RecordInvariant(r) /\ StageInvariant(r)
  BY DEF LoopInvariant
<1> DEFINE Out == /\ artifacts'[r] = artifacts[r]
                  /\ todo'[r] \subseteq todo[r]
                  /\ pc'[r] \in Ended \cup {"created", "next"}
<1>1. Out => RecordInvariant(r)' /\ StageInvariant(r)'
  <2> SUFFICES ASSUME Out
               PROVE  RecordInvariant(r)' /\ StageInvariant(r)'
    OBVIOUS
  <2>1. RecordInvariant(r)'
    BY <1>0, RecordKept DEF Ended
  <2> QED
    BY <2>1 DEF StageInvariant, InStage, Busy, Ended
<1>2. CASE Create(r)
  <2>1. artifacts'[r] = << >> /\ pc'[r] = "created"
    BY <1>0, <1>2 DEF Create, RecordInvariant
  <2> QED
    BY <2>1 DEF RecordInvariant, StageInvariant, InStage, Busy
<1>3. CASE StartStage(r)
  <2>1. PICK s \in StageNames :
          /\ s \in todo[r] /\ stage'[r] = s /\ todo'[r] = todo[r] \ {s}
    BY <1>0, <1>3 DEF StartStage, NextStage
  <2>2. artifacts'[r] = artifacts[r] /\ pc'[r] = "starting"
    BY <1>0, <1>3 DEF StartStage
  <2>3. RecordInvariant(r)'
    BY <1>0, <2>1, <2>2 DEF RecordInvariant
  <2>4. StageInvariant(r)'
    BY <2>1, <2>2 DEF StageInvariant, InStage, Busy
  <2> QED
    BY <2>3, <2>4
<1>4. CASE LookUp(r)
  <2>1. /\ artifacts'[r] = artifacts[r] /\ todo'[r] = todo[r] /\ stage'[r] = stage[r]
        /\ outs'[r] = Outputs(r)
        /\ pc[r] = "starting"
        /\ pc'[r] = IF stage[r] = "pretrain" THEN "spawning" ELSE "working"
    BY <1>0, <1>4 DEF LookUp
  <2>2. RecordInvariant(r)'
    BY <1>0, <2>1, RecordKept
  <2>3. /\ \A i \in DOMAIN Outputs(r) : Producer(Outputs(r)[i]) = stage[r]
        /\ \A i, j \in DOMAIN Outputs(r) : Outputs(r)[i] = Outputs(r)[j] => i = j
        /\ stage[r] = "pretrain" => Outputs(r) # << >>
    BY <1>0, OutputsOf
  <2>4. \A x : Producer(x) = stage[r] => ~Has(r, x)
    BY <1>0, <2>1 DEF RecordInvariant, Has
  <2>5. \A x \in Stage(stage[r]).inputs : Has(r, x)
    BY <1>4 DEF LookUp
  <2>6. \A x : Has(r, x)' <=> Has(r, x)
    BY <2>1 DEF Has
  <2>7. StageInvariant(r)'
    BY <1>0, <2>1, <2>3, <2>4, <2>5, <2>6 DEF StageInvariant, InStage, Busy
  <2> QED
    BY <2>2, <2>7
<1>5. CASE RecordOutput(r)
  BY <1>5, RecordStep
<1>6. CASE WriteOutput(r) \/ StartWorker(r) \/ WorkerDone(r) \/ WorkerSaves(r)
           \/ OrphanSaves(r) \/ OrphanExits(r)
  <2>1. /\ artifacts'[r] = artifacts[r] /\ todo'[r] = todo[r] /\ stage'[r] = stage[r]
        /\ outs'[r] = outs[r]
    BY <1>6 DEF WriteOutput, StartWorker, WorkerDone, WorkerSaves, OrphanSaves, OrphanExits
  <2>2. \/ pc'[r] = pc[r]
        \/ pc[r] = "spawning" /\ pc'[r] = "training"
        \/ pc[r] = "training" /\ pc'[r] = "written"
        \/ pc[r] = "working" /\ pc'[r] = "written" /\ outs[r] # << >>
    BY <1>0, <1>6
    DEF WriteOutput, StartWorker, WorkerDone, WorkerSaves, OrphanSaves, OrphanExits
  <2> QED
    BY <1>0, <2>1, <2>2, RecordKept, StageKept
<1>7. CASE Refuse(r) \/ MarkRunning(r) \/ MissingInput(r) \/ BadData(r)
  <2>1. Out
    BY <1>0, <1>7 DEF Refuse, MarkRunning, MissingInput, BadData, StageError, Ended
  <2> QED
    BY <1>1, <2>1
<1>8. CASE ReturnStage(r) \/ CrashWithoutLoss(r) \/ Finish(r)
  <2>1. Out
    BY <1>0, <1>8 DEF ReturnStage, CrashWithoutLoss, Finish, Ended
  <2> QED
    BY <1>1, <2>1
<1>9. CASE Crash(r) \/ Kill(r)
  <2>1. Out
    BY <1>0, <1>9 DEF Crash, Kill, Ended
  <2> QED
    BY <1>1, <2>1
<1> QED
  BY <1>2, <1>3, <1>4, <1>5, <1>6, <1>7, <1>8, <1>9 DEF StepOf, Step

\* ... and to that of another one.
LEMMA OthersStep ==
    ASSUME LoopInvariant, NEW r \in Runs, StepOf(r), NEW q \in Runs, q # r
    PROVE  RecordInvariant(q)' /\ StageInvariant(q)'
<1>1. TypeOK /\ RecordInvariant(q) /\ StageInvariant(q)
  BY DEF LoopInvariant
<1>2. /\ pc'[q] = pc[q] /\ todo'[q] = todo[q] /\ stage'[q] = stage[q]
      /\ outs'[q] = outs[q] /\ artifacts'[q] = artifacts[q]
  BY <1>1, FrameStep
<1> QED
  BY <1>1, <1>2, RecordKept, StageKept

\* A file that is about to be hashed was written, by whatever step.
LEMMA WrittenStep ==
    ASSUME LoopInvariant, NEW r \in Runs, StepOf(r)
    PROVE  WrittenIsThere'
<1>0. TypeOK /\ TypeOK'
  BY TypeStep DEF LoopInvariant
<1> SUFFICES ASSUME NEW q \in Runs, pc'[q] = "written"
             PROVE  disk'[Path(q, Head(outs'[q]))] # NoFile
  BY DEF WrittenIsThere, Path
<1>1. CASE pc[q] = "written" /\ outs'[q] = outs[q]
  <2>1. disk[Path(q, Head(outs[q]))] # NoFile
    BY <1>1 DEF LoopInvariant, WrittenIsThere
  <2>2. outs[q] # << >>
    BY <1>1 DEF LoopInvariant, StageInvariant
  <2>3. Path(q, Head(outs[q])) \in Paths
    BY <1>0, <2>2, HeadTail, PathType
  <2> QED
    BY <1>1, <2>1, <2>3, DiskStep
<1>2. CASE q = r /\ WriteOutput(r)
  <2>1. Head(outs[r]) \in Slots
    BY <1>0, <1>2, HeadTail DEF WriteOutput
  <2>2. [of |-> r, model |-> OutputModel(r, Head(outs[r]))] # NoFile
    BY <1>0, <2>1, OutputModelType, NoFileAssumption DEF Contents
  <2> QED
    BY <1>0, <1>2, <2>1, <2>2, PathType DEF WriteOutput, process, TypeOK
<1>3. CASE q = r /\ WorkerDone(r)
  <2>1. outs'[r] = outs[r] /\ pc[r] = "training" /\ worker[r].model \in Models
        /\ Save(r, worker[r].model)
    BY <1>0, <1>3 DEF WorkerDone, Goto, TypeOK
  <2>2. stage[r] = "pretrain" /\ outs[r] # << >>
    BY <2>1 DEF LoopInvariant, StageInvariant
  <2>3. Head(outs[r]) \in Slots /\ Producer(Head(outs[r])) = "pretrain"
    BY <1>0, <2>1, <2>2, HeadTail DEF LoopInvariant, StageInvariant, Busy
  <2>4. Head(outs[r]) = "checkpoint"
    BY <2>3, ProducerOf DEF Slots
  <2> QED
    BY <1>0, <1>3, <2>1, <2>4, SaveKeepsFiles
<1>4. \/ pc[q] = "written" /\ outs'[q] = outs[q]
      \/ q = r /\ (WriteOutput(r) \/ WorkerDone(r))
  <2>1. CASE q # r
    BY <1>0, <2>1, FrameStep
  <2>2. CASE q = r
    <3> USE <1>0, <2>2 DEF TypeOK, Goto, process, record
    <3>1. CASE Refuse(r) \/ Create(r) \/ MarkRunning(r) \/ StartStage(r)
      BY <3>1 DEF Refuse, Create, MarkRunning, StartStage
    <3>2. CASE MissingInput(r) \/ BadData(r)
      BY <3>2 DEF MissingInput, BadData, StageError
    <3>3. CASE LookUp(r) \/ RecordOutput(r) \/ ReturnStage(r)
      BY <3>3 DEF LookUp, RecordOutput, ReturnStage
    <3>4. CASE CrashWithoutLoss(r) \/ Finish(r) \/ Crash(r) \/ Kill(r)
      BY <3>4 DEF CrashWithoutLoss, Finish, Crash, Kill
    <3>5. CASE StartWorker(r) \/ WorkerSaves(r) \/ OrphanSaves(r) \/ OrphanExits(r)
      BY <3>5 DEF StartWorker, WorkerSaves, OrphanSaves, OrphanExits
    <3> QED
      BY <3>1, <3>2, <3>3, <3>4, <3>5 DEF StepOf, Step
  <2> QED
    BY <2>1, <2>2
<1> QED
  BY <1>1, <1>2, <1>3, <1>4

\* Artifacts are added by RecordOutput and changed by nothing.
LEMMA OnlyRecordOutputRecords ==
    ASSUME TypeOK, NEW r \in Runs, StepOf(r), NEW q \in Runs
    PROVE  artifacts'[q] = artifacts[q] \/ (q = r /\ RecordOutput(r))
<1>1. CASE q # r
  BY <1>1, FrameStep
<1>2. CASE q = r
  BY <1>2
  DEF StepOf, Step, Refuse, Create, MarkRunning, StartStage, MissingInput, BadData,
      StageError, LookUp, WriteOutput, ReturnStage, CrashWithoutLoss, Finish, Crash, Kill,
      StartWorker, WorkerSaves, WorkerDone, OrphanSaves, OrphanExits, process, record
<1> QED
  BY <1>1, <1>2

-----------------------------------------------------------------------------
(***************************************************************************)
(* The loop, the record and the workspace.                                 *)
(***************************************************************************)

\* Next is the step of some run.
LEMMA NextIsStep == Next <=> \E r \in Runs : StepOf(r)
BY DEF Next, StepOf

\* The invariant holds before any command ...
LEMMA LoopInit == Init => LoopInvariant
<1> SUFFICES ASSUME Init
             PROVE  LoopInvariant
  OBVIOUS
<1>1. TypeOK
  <2>1. (CHOOSE o \in Options : TRUE) \in Options
    BY OptionsAssumption
  <2>2. STAGE_ORDER[1] \in StageNames
    BY StageNamesAre DEF STAGE_ORDER
  <2>3. \A file \in {NoFile} \cup [of : {Project}, model : Leftovers] :
          file \in Contents \cup {NoFile}
    BY LeftoversAssumption DEF Contents, Models
  <2>4. disk \in [Paths -> Contents \cup {NoFile}]
    BY <2>3 DEF Init
  <2>5. worker \in [Runs -> [model : Models, trained : BOOLEAN]]
    BY DEF Init, NoModel, Models
  <2>6. outs \in [Runs -> Seq(Slots)] /\ artifacts \in [Runs -> Seq(Artifacts)]
    BY DEF Init
  <2> QED
    BY <2>1, <2>2, <2>4, <2>5, <2>6 DEF Init, TypeOK, PCs
<1>2. WrittenIsThere
  BY DEF Init, WrittenIsThere
<1>3. \A r \in Runs : RecordInvariant(r) /\ StageInvariant(r)
  BY DEF Init, RecordInvariant, StageInvariant, InStage, Busy
<1> QED
  BY <1>1, <1>2, <1>3 DEF LoopInvariant

\* ... and after every step.
LEMMA LoopStep == LoopInvariant /\ [Next]_vars => LoopInvariant'
<1> SUFFICES ASSUME LoopInvariant, [Next]_vars
             PROVE  LoopInvariant'
  OBVIOUS
<1>1. ASSUME NEW r \in Runs, StepOf(r)
      PROVE  LoopInvariant'
  <2>1. \A q \in Runs : RecordInvariant(q)' /\ StageInvariant(q)'
    BY <1>1, OwnStep, OthersStep
  <2> QED
    BY <1>1, <2>1, TypeStep, WrittenStep DEF LoopInvariant
<1>2. CASE UNCHANGED vars
  BY <1>2 DEF LoopInvariant, TypeOK, WrittenIsThere, RecordInvariant, StageInvariant,
     InStage, Busy, Has, Path, vars, process, record
<1> QED
  BY <1>1, <1>2, NextIsStep

\* No kill, failure or other run takes the loop of Pipeline.run out of this
\* invariant: inputs are recorded before a stage works, and a slot only once.
THEOREM LoopInvariantHolds == Spec => []LoopInvariant
BY LoopInit, LoopStep, PTL DEF Spec

\* Every variable keeps its type.  It takes the invariant: a provenance that named
\* a missing artifact, or a hash of a missing file, would have no type.
THEOREM RunTypeCorrect == Spec => []TypeOK
<1>1. LoopInvariant => TypeOK
  BY DEF LoopInvariant
<1> QED
  BY <1>1, LoopInvariantHolds, PTL

(***************************************************************************)
(* What the provenance of each artifact names: earlier artifacts of the    *)
(* same record, one in each slot that its stage cites and no other.  A     *)
(* report has a held-out side beside it.                                   *)
(***************************************************************************)
CitesItsInputs ==
    \A r \in Runs : \A k \in DOMAIN artifacts[r] :
        /\ artifacts[r][k].from \subseteq DOMAIN artifacts[r]
        /\ \A i \in artifacts[r][k].from :
             artifacts[r][i].slot \in Stage(Producer(artifacts[r][k].slot)).cited
        /\ \A x \in Stage(Producer(artifacts[r][k].slot)).cited :
             \E i \in artifacts[r][k].from : artifacts[r][i].slot = x
        /\ artifacts[r][k].slot = "eval_report" => Has(r, "dataset.val")

\* A new artifact names one artifact in each slot that its stage cites.
LEMMA CitesStep == LoopInvariant /\ CitesItsInputs /\ [Next]_vars => CitesItsInputs'
<1> SUFFICES ASSUME LoopInvariant, CitesItsInputs, [Next]_vars
             PROVE  CitesItsInputs'
  OBVIOUS
<1>0. TypeOK
  BY DEF LoopInvariant
<1> DEFINE Cites(a) == \A k \in DOMAIN a :
             /\ a[k].from \subseteq DOMAIN a
             /\ \A i \in a[k].from : a[i].slot \in Stage(Producer(a[k].slot)).cited
             /\ \A x \in Stage(Producer(a[k].slot)).cited :
                  \E i \in a[k].from : a[i].slot = x
             /\ a[k].slot = "eval_report" =>
                  \E v \in DOMAIN a : a[v].slot = "dataset.val"
<1>1. CitesItsInputs <=> \A r \in Runs : Cites(artifacts[r])
  BY DEF CitesItsInputs, Has
<1>2. CitesItsInputs' <=> \A r \in Runs : Cites(artifacts'[r])
  BY DEF CitesItsInputs, Has
<1>3. ASSUME NEW r \in Runs, RecordOutput(r)
      PROVE  Cites(artifacts'[r])
  <2> DEFINE slot == outs[r][1]
             n    == Len(artifacts[r])
             old  == artifacts[r]
             new  == [slot |-> slot, sha |-> disk[Path(r, slot)],
                      from |-> ProvenanceOf(r, slot)]
  <2>1. /\ pc[r] = "written" /\ outs[r] # << >> /\ slot = Head(outs[r])
        /\ 1 \in DOMAIN outs[r]
    BY <1>0, <1>3, HeadTail DEF RecordOutput, Goto, LoopInvariant, StageInvariant
  <2>2. slot \in Slots /\ \A x \in Stage(Producer(slot)).cited : Has(r, x)
    BY <2>1, NewArtifactType
  <2>3. old \in Seq(Artifacts) /\ DOMAIN old = 1 .. n /\ n \in Nat
    BY <1>0 DEF TypeOK
  <2>4. artifacts'[r] = Append(old, new)
    BY <1>3, RecordStep
  <2>5. \A x \in Stage(Producer(slot)).cited :
          Latest(r, x) \in 1 .. n /\ old[Latest(r, x)].slot = x
    BY <1>0, <2>2, <2>3, LatestIs DEF LoopInvariant
  <2>6. /\ new.slot = slot
        /\ new.from \subseteq 1 .. n
        /\ \A i \in new.from : old[i].slot \in Stage(Producer(slot)).cited
        /\ \A x \in Stage(Producer(slot)).cited : \E i \in new.from : old[i].slot = x
    BY <2>5 DEF ProvenanceOf
  <2>7. slot = "eval_report" => \E v \in 1 .. n : old[v].slot = "dataset.val"
    <3>1. Producer(slot) = stage[r] /\ \A x \in Stage(stage[r]).inputs : Has(r, x)
      BY <2>1 DEF LoopInvariant, StageInvariant, Busy
    <3> QED
      BY <2>3, <3>1, ProducerOf, InputsOf DEF Has
  <2>8. Cites(old)
    BY <1>1
  <2>9. /\ DOMAIN artifacts'[r] = 1 .. n + 1
        /\ \A k \in 1 .. n : k \in 1 .. n + 1 /\ artifacts'[r][k] = old[k]
        /\ artifacts'[r][n + 1] = new
    BY <2>3, <2>4
  <2>10. \A k \in 1 .. n + 1 : k \in 1 .. n \/ k = n + 1
    BY <2>3
  <2> HIDE DEF slot, n, old, new
  <2>11. ASSUME NEW k \in 1 .. n
         PROVE  /\ artifacts'[r][k].from \subseteq 1 .. n + 1
                /\ \A i \in artifacts'[r][k].from :
                     artifacts'[r][i].slot \in Stage(Producer(artifacts'[r][k].slot)).cited
                /\ \A x \in Stage(Producer(artifacts'[r][k].slot)).cited :
                     \E i \in artifacts'[r][k].from : artifacts'[r][i].slot = x
                /\ artifacts'[r][k].slot = "eval_report" =>
                     \E v \in 1 .. n + 1 : artifacts'[r][v].slot = "dataset.val"
    <3>1. artifacts'[r][k] = old[k] /\ k \in DOMAIN old
      BY <2>3, <2>9
    <3>2. /\ old[k].from \subseteq 1 .. n
          /\ \A i \in old[k].from : old[i].slot \in Stage(Producer(old[k].slot)).cited
          /\ \A x \in Stage(Producer(old[k].slot)).cited :
               \E i \in old[k].from : old[i].slot = x
          /\ old[k].slot = "eval_report" =>
               \E v \in 1 .. n : old[v].slot = "dataset.val"
      BY <2>3, <2>8, <3>1
    <3> HIDE DEF Cites
    <3>3. \A i \in 1 .. n : i \in 1 .. n + 1 /\ artifacts'[r][i] = old[i]
      BY <2>9
    <3> QED
      BY <3>1, <3>2, <3>3
  <2>12. /\ artifacts'[r][n + 1].from \subseteq 1 .. n + 1
         /\ \A i \in artifacts'[r][n + 1].from :
              artifacts'[r][i].slot \in Stage(Producer(artifacts'[r][n + 1].slot)).cited
         /\ \A x \in Stage(Producer(artifacts'[r][n + 1].slot)).cited :
              \E i \in artifacts'[r][n + 1].from : artifacts'[r][i].slot = x
         /\ artifacts'[r][n + 1].slot = "eval_report" =>
              \E v \in 1 .. n + 1 : artifacts'[r][v].slot = "dataset.val"
    BY <2>6, <2>7, <2>9
  <2> QED
    BY <2>9, <2>10, <2>11, <2>12
<1>4. ASSUME NEW r \in Runs, StepOf(r)
      PROVE  CitesItsInputs'
  <2> SUFFICES ASSUME NEW q \in Runs
               PROVE  Cites(artifacts'[q])
    BY <1>2
  <2>1. CASE artifacts'[q] = artifacts[q]
    BY <1>1, <2>1
  <2> QED
    BY <1>0, <1>3, <1>4, <2>1, OnlyRecordOutputRecords
<1>5. CASE UNCHANGED vars
  BY <1>5 DEF CitesItsInputs, Has, vars, record
<1> QED
  BY <1>4, <1>5, NextIsStep

\* The provenance of a report leads over four artifacts to the training side, and
\* the artifacts other than the held-out side are closed under provenance.
LEMMA ReportLeadsBack == CitesItsInputs => EvaluationIsHeldOut
<1> SUFFICES ASSUME CitesItsInputs, NEW r \in Runs, NEW k \in DOMAIN artifacts[r],
                    artifacts[r][k].slot = "eval_report"
             PROVE  /\ \E i \in Lineage(r, k) : artifacts[r][i].slot = "dataset"
                    /\ \A i \in Lineage(r, k) : artifacts[r][i].slot # "dataset.val"
                    /\ Has(r, "dataset.val")
  BY DEF EvaluationIsHeldOut
<1> DEFINE a == artifacts[r]
<1>1. /\ \A i \in DOMAIN a : a[i].from \subseteq DOMAIN a
      /\ \A i \in DOMAIN a : \A j \in a[i].from : a[j].slot \in Stage(Producer(a[i].slot)).cited
      /\ \A i \in DOMAIN a : \A x \in Stage(Producer(a[i].slot)).cited :
           \E j \in a[i].from : a[j].slot = x
      /\ Has(r, "dataset.val")
  BY DEF CitesItsInputs
<1>2. k \in Lineage(r, k)
  BY DEF Lineage
<1>3. \A i \in Lineage(r, k) : i \in DOMAIN a /\ a[i].from \subseteq Lineage(r, k)
  BY <1>1 DEF Lineage
<1>4. ASSUME NEW i \in Lineage(r, k), NEW x, x \in Stage(Producer(a[i].slot)).cited
      PROVE  \E j \in Lineage(r, k) : a[j].slot = x
  BY <1>1, <1>3, <1>4
<1> HIDE DEF a
<1>5. PICK c \in Lineage(r, k) : a[c].slot = "checkpoint"
  BY <1>2, <1>4, CitedBy DEF a
<1>6. PICK m \in Lineage(r, k) : a[m].slot = "model_init"
  BY <1>4, <1>5, CitedBy
<1>7. PICK t \in Lineage(r, k) : a[t].slot = "tokenizer"
  BY <1>4, <1>6, CitedBy
<1>8. PICK d \in Lineage(r, k) : a[d].slot = "dataset"
  BY <1>4, <1>7, CitedBy
<1>9. \A i \in Lineage(r, k) : a[i].slot # "dataset.val"
  <2> DEFINE path == {"eval_report", "checkpoint", "model_init", "tokenizer", "dataset"}
             S    == {i \in DOMAIN a : a[i].slot \in path}
  <2>1. \A x \in path : Stage(Producer(x)).cited \subseteq path
    BY CitedBy
  <2>2. k \in S /\ S \in SUBSET DOMAIN artifacts[r]
    BY DEF a
  <2>3. \A j \in S : artifacts[r][j].from \subseteq S
    BY <1>1, <2>1 DEF a
  <2>4. Lineage(r, k) \subseteq S
    BY <2>2, <2>3 DEF Lineage
  <2> QED
    BY <2>4
<1> QED
  BY <1>1, <1>8, <1>9 DEF a

(***************************************************************************)
(* For any number of runs, overlapping or killed: the side of the split on *)
(* which a report was measured is not in the lineage of its checkpoint.    *)
(***************************************************************************)
THEOREM EvaluationsAreHeldOut == Spec => []EvaluationIsHeldOut
<1>1. Init => CitesItsInputs
  BY DEF Init, CitesItsInputs
<1>2. LoopInvariant /\ CitesItsInputs /\ [Next]_vars => CitesItsInputs'
  BY CitesStep
<1>3. CitesItsInputs => EvaluationIsHeldOut
  BY ReportLeadsBack
<1> QED
  BY <1>1, <1>2, <1>3, LoopInvariantHolds, PTL DEF Spec

\* For any number of runs, overlapping or killed: a file in the workspace of a run
\* has the hash with which it was recorded.
THEOREM WorkspaceStaysVerifiable == Spec => []WorkspaceVerifiable
<1>1. Init => WorkspaceVerifiable
  BY DEF Init, WorkspaceVerifiable
<1>2. LoopInvariant /\ WorkspaceVerifiable /\ [Next]_vars => WorkspaceVerifiable'
  <2> SUFFICES ASSUME LoopInvariant, WorkspaceVerifiable, [Next]_vars
               PROVE  WorkspaceVerifiable'
    OBVIOUS
  <2>0. TypeOK
    BY DEF LoopInvariant
  <2>1. ASSUME NEW r \in Runs, StepOf(r), NEW q \in Runs, NEW k \in DOMAIN artifacts[q],
               artifacts[q][k].slot # "checkpoint"
        PROVE  disk'[Path(q, artifacts[q][k].slot)] = artifacts[q][k].sha
    <3> DEFINE slot == artifacts[q][k].slot
    <3>1. slot \in Slots
      <4>1. artifacts[q] \in Seq(Artifacts)
        BY <2>0 DEF TypeOK
      <4>2. artifacts[q][k] \in Artifacts
        BY <2>1, <4>1
      <4> QED
        BY <4>2 DEF Artifacts
    <3>2. disk[Path(q, slot)] = artifacts[q][k].sha
      BY <2>1 DEF WorkspaceVerifiable
    <3>3. ~(q = r /\ WriteOutput(r) /\ slot = Head(outs[r]))
      <4> SUFFICES ASSUME q = r, WriteOutput(r), slot = Head(outs[r])
                   PROVE  FALSE
        OBVIOUS
      <4>1. pc[r] = "working" /\ slot = outs[r][1] /\ 1 \in DOMAIN outs[r]
        BY <2>0, HeadTail DEF WriteOutput, Goto
      <4>2. ~Has(r, slot)
        BY <4>1 DEF LoopInvariant, StageInvariant, Busy
      <4> QED
        BY <2>1, <4>2 DEF Has
    <3> QED
      BY <2>1, <3>1, <3>2, <3>3, DiskStep
  <2>2. ASSUME NEW r \in Runs, RecordOutput(r), NEW k \in DOMAIN artifacts'[r],
               k \notin DOMAIN artifacts[r]
        PROVE  disk'[Path(r, artifacts'[r][k].slot)] = artifacts'[r][k].sha
    <3> DEFINE slot == outs[r][1]
               new  == [slot |-> slot, sha |-> disk[Path(r, slot)],
                        from |-> ProvenanceOf(r, slot)]
    <3>1. artifacts[r] \in Seq(Artifacts) /\ artifacts'[r] = Append(artifacts[r], new)
      BY <2>0, <2>2, RecordStep DEF TypeOK
    <3>2. new.slot = slot /\ new.sha = disk[Path(r, slot)] /\ disk' = disk
      BY <2>2 DEF RecordOutput
    <3> HIDE DEF new, slot
    <3>3. artifacts'[r][k] = new
      BY <2>2, <3>1
    <3> QED
      BY <3>2, <3>3 DEF Path
  <2>3. ASSUME NEW r \in Runs, StepOf(r)
        PROVE  WorkspaceVerifiable'
    <3> SUFFICES ASSUME NEW q \in Runs, NEW k \in DOMAIN artifacts'[q],
                        artifacts'[q][k].slot # "checkpoint"
                 PROVE  disk'[Path(q, artifacts'[q][k].slot)] = artifacts'[q][k].sha
      BY DEF WorkspaceVerifiable, Path
    <3>1. CASE artifacts'[q] = artifacts[q]
      BY <2>1, <2>3, <3>1
    <3>2. CASE q = r /\ RecordOutput(r)
      <4>1. CASE k \notin DOMAIN artifacts[r]
        BY <2>2, <3>2, <4>1
      <4>2. CASE k \in DOMAIN artifacts[r]
        <5>1. artifacts[r] \in Seq(Artifacts)
          BY <2>0 DEF TypeOK
        <5>2. PICK new : artifacts'[r] = Append(artifacts[r], new)
          BY <3>2, RecordStep
        <5>3. artifacts'[r][k] = artifacts[r][k]
          BY <4>2, <5>1, <5>2
        <5> QED
          BY <2>1, <2>3, <3>2, <4>2, <5>3
      <4> QED
        BY <4>1, <4>2
    <3> QED
      BY <2>0, <2>3, <3>1, <3>2, OnlyRecordOutputRecords
  <2>4. CASE UNCHANGED vars
    BY <2>4 DEF WorkspaceVerifiable, Path, vars, record
  <2> QED
    BY <2>3, <2>4, NextIsStep
<1> QED
  BY <1>1, <1>2, LoopInvariantHolds, PTL DEF Spec

-----------------------------------------------------------------------------
(***************************************************************************)
(* What a record says of its run.                                          *)
(***************************************************************************)

\* A step that does not touch what the record says of stages.
LEMMA SucceededSame ==
    ASSUME NEW r \in Runs, stageStatus'[r] = stageStatus[r]
    PROVE  Succeeded(r)' = Succeeded(r)
BY DEF Succeeded

\* Nor one that does not touch the artifacts.
LEMMA RecordedSame ==
    ASSUME NEW r \in Runs, artifacts'[r] = artifacts[r]
    PROVE  \A s, kind : Recorded(r, s, kind)' = Recorded(r, s, kind)
BY DEF Recorded

\* A step that leaves stages and status alone keeps ProgressInvariant ...
LEMMA ProgressKept ==
    ASSUME NEW r \in Runs, ProgressInvariant(r), stageStatus'[r] = stageStatus[r],
           opts'[r] = opts[r], todo'[r] = todo[r], stage'[r] = stage[r],
           status'[r] = status[r],
           \/ pc'[r] = pc[r]
           \/ InStage(r) /\ (pc'[r] \in {"spawning", "training", "working", "written"})
           \/ pc'[r] \in {"failed", "crashed", "killed"}
    PROVE  ProgressInvariant(r)'
<1>1. Succeeded(r)' = Succeeded(r)
  BY SucceededSame
<1> QED
  BY <1>1 DEF ProgressInvariant, InStage, Busy

\* ... and OutputsInvariant.
LEMMA OutputsKept ==
    ASSUME NEW r \in Runs, OutputsInvariant(r), stageStatus'[r] = stageStatus[r],
           opts'[r] = opts[r], artifacts'[r] = artifacts[r],
           status'[r] # "succeeded" \/ status'[r] = status[r],
           \/ Busy(r) /\ stage'[r] = stage[r] /\ outs'[r] = outs[r]
           \/ pc'[r] \notin {"spawning", "training", "working", "written"}
    PROVE  OutputsInvariant(r)'
<1>1. Succeeded(r)' = Succeeded(r)
  BY SucceededSame
<1>2. \A s, kind : Recorded(r, s, kind)' = Recorded(r, s, kind)
  BY RecordedSame
<1>3. (\A s \in Succeeded(r) : \A kind \in Stage(s).outputs : Recorded(r, s, kind))'
  BY <1>1, <1>2 DEF OutputsInvariant
<1>4. (Busy(r) => \A kind \in Stage(stage[r]).outputs :
         \/ Recorded(r, stage[r], kind)
         \/ \E i \in DOMAIN outs[r] : Kind(outs[r][i]) = kind)'
  BY <1>2 DEF OutputsInvariant, Busy
<1>5. (status[r] = "succeeded" => Succeeded(r) = opts[r].stages)'
  BY <1>1 DEF OutputsInvariant
<1> QED
  BY <1>3, <1>4, <1>5 DEF OutputsInvariant

\* A stage that returns has succeeded.
LEMMA ReturnStep ==
    ASSUME TypeOK, NEW r \in Runs, ReturnStage(r)
    PROVE  Succeeded(r)' = Succeeded(r) \cup {stage[r]}
<1>1. /\ stage[r] \in StageNames
      /\ stageStatus'[r] = [stageStatus[r] EXCEPT ![stage[r]] = "succeeded"]
      /\ DOMAIN stageStatus[r] = StageNames
  BY DEF ReturnStage, TypeOK
<1> QED
  BY <1>1 DEF Succeeded

\* The stage that begins is the first of those to come.
LEMMA StartStep ==
    ASSUME TypeOK, NEW r \in Runs, ProgressInvariant(r), StartStage(r)
    PROVE  /\ Succeeded(r)' = Succeeded(r)
           /\ stage'[r] \in todo[r]
           /\ todo'[r] = todo[r] \ {stage'[r]}
           /\ \A t \in todo[r] : Rank(stage'[r]) <= Rank(t)
<1>1. PICK s \in StageNames :
        /\ NextStage(r, s)
        /\ stage' = [stage EXCEPT ![r] = s]
        /\ todo' = [todo EXCEPT ![r] = @ \ {s}]
        /\ stageStatus' = [stageStatus EXCEPT ![r][s] = "running"]
  BY DEF StartStage
<1>2. stage'[r] = s /\ todo'[r] = todo[r] \ {s} /\ s \in todo[r]
  BY <1>1 DEF TypeOK, NextStage
<1>3. /\ stageStatus'[r] = [stageStatus[r] EXCEPT ![s] = "running"]
      /\ DOMAIN stageStatus[r] = StageNames
  BY <1>1 DEF TypeOK
<1>4. s \notin Succeeded(r)
  BY <1>2 DEF StartStage, Goto, ProgressInvariant
<1>5. Succeeded(r)' = Succeeded(r)
  BY <1>3, <1>4 DEF Succeeded
<1> QED
  BY <1>1, <1>2, <1>5 DEF NextStage

\* ProgressInvariant, action by action.
LEMMA ProgressStep ==
    ASSUME TypeOK, NEW r \in Runs, StageInvariant(r), ProgressInvariant(r), StepOf(r)
    PROVE  ProgressInvariant(r)'
<1> USE DEF Goto, process, record
<1>1. CASE Create(r)
  <2>1. /\ pc[r] = "idle" /\ pc'[r] = "created" /\ status'[r] = "pending"
        /\ opts'[r].stages = todo'[r] /\ stageStatus'[r] = stageStatus[r]
    BY <1>1 DEF Create, TypeOK
  <2> QED
    BY <2>1, SucceededSame DEF ProgressInvariant, InStage, Busy
<1>2. CASE MarkRunning(r)
  <2>1. /\ pc[r] = "created" /\ pc'[r] = "next" /\ status'[r] = "running"
        /\ opts'[r] = opts[r] /\ todo'[r] = todo[r] /\ stageStatus'[r] = stageStatus[r]
    BY <1>2 DEF MarkRunning, TypeOK
  <2> QED
    BY <2>1, SucceededSame DEF ProgressInvariant, InStage, Busy
<1>3. CASE StartStage(r)
  <2>1. /\ pc[r] = "next" /\ pc'[r] = "starting" /\ status'[r] = status[r]
        /\ opts'[r] = opts[r]
    BY <1>3 DEF StartStage, TypeOK
  <2> QED
    BY <1>3, <2>1, StartStep DEF ProgressInvariant, InStage, Busy
<1>4. CASE ReturnStage(r)
  <2>1. /\ pc[r] = "working" /\ pc'[r] = "next" /\ status'[r] = status[r]
        /\ opts'[r] = opts[r] /\ todo'[r] = todo[r]
    BY <1>4 DEF ReturnStage, TypeOK
  <2> QED
    BY <1>4, <2>1, ReturnStep DEF ProgressInvariant, StageInvariant, InStage, Busy
<1>5. CASE MissingInput(r) \/ BadData(r) \/ Finish(r)
  <2>1. pc'[r] \in {"failed", "exited"}
    BY <1>5 DEF MissingInput, BadData, StageError, Finish, TypeOK
  <2> QED
    BY <2>1 DEF ProgressInvariant, InStage, Busy
<1>6. CASE Refuse(r)
  <2>1. /\ pc[r] = "idle" /\ pc'[r] = "refused" /\ status'[r] = status[r]
        /\ stageStatus'[r] = stageStatus[r]
    BY <1>6 DEF Refuse, TypeOK
  <2> QED
    BY <2>1, SucceededSame DEF ProgressInvariant, InStage, Busy
<1>7. CASE LookUp(r) \/ WriteOutput(r) \/ RecordOutput(r) \/ StartWorker(r)
           \/ WorkerSaves(r) \/ WorkerDone(r) \/ OrphanSaves(r) \/ OrphanExits(r)
  <2>1. /\ stageStatus'[r] = stageStatus[r] /\ opts'[r] = opts[r] /\ todo'[r] = todo[r]
        /\ stage'[r] = stage[r] /\ status'[r] = status[r]
    BY <1>7 DEF LookUp, WriteOutput, RecordOutput, StartWorker, WorkerSaves, WorkerDone,
       OrphanSaves, OrphanExits
  <2>2. \/ pc'[r] = pc[r]
        \/ InStage(r) /\ (pc'[r] \in {"spawning", "training", "working", "written"})
    BY <1>7 DEF LookUp, WriteOutput, RecordOutput, StartWorker, WorkerSaves, WorkerDone,
       OrphanSaves, OrphanExits, TypeOK, InStage, Busy
  <2> QED
    BY <2>1, <2>2, ProgressKept
<1>8. CASE CrashWithoutLoss(r) \/ Crash(r) \/ Kill(r)
  <2>1. /\ stageStatus'[r] = stageStatus[r] /\ opts'[r] = opts[r] /\ todo'[r] = todo[r]
        /\ stage'[r] = stage[r] /\ status'[r] = status[r]
        /\ pc'[r] \in {"crashed", "killed"}
    BY <1>8 DEF CrashWithoutLoss, Crash, Kill, TypeOK
  <2> QED
    BY <2>1, ProgressKept
<1> QED
  BY <1>1, <1>2, <1>3, <1>4, <1>5, <1>6, <1>7, <1>8 DEF StepOf, Step

\* Every kind that a plan declares is among the outputs of the stage.
LEMMA DeclaredIsWritten ==
    ASSUME NEW r \in Runs, stage[r] \in StageNames, NEW kind \in Stage(stage[r]).outputs
    PROVE  \E i \in DOMAIN Outputs(r) : Kind(Outputs(r)[i]) = kind
<1>1. kind \in Slots \ {"dataset.val"} /\ Kind(kind) = kind /\ Producer(kind) = stage[r]
  BY DeclaredIsASlot
<1>2. PICK i \in DOMAIN Outputs(r) : Outputs(r)[i] = kind
  BY <1>1, OutputsOf
<1> QED
  BY <1>1, <1>2

\* OutputsInvariant, action by action.
LEMMA OutputsStep ==
    ASSUME LoopInvariant, NEW r \in Runs, ProgressInvariant(r), OutputsInvariant(r),
           StepOf(r)
    PROVE  OutputsInvariant(r)'
<1> USE DEF Goto, process, record
<1>0. TypeOK /\ StageInvariant(r)
  BY DEF LoopInvariant
<1>1. CASE Create(r)
  <2>1. /\ pc[r] = "idle" /\ pc'[r] = "created" /\ status'[r] = "pending"
        /\ stageStatus'[r] = stageStatus[r]
    BY <1>0, <1>1 DEF Create, TypeOK
  <2>2. Succeeded(r)' = {}
    BY <2>1, SucceededSame DEF ProgressInvariant
  <2> QED
    BY <2>1, <2>2 DEF OutputsInvariant, Busy
<1>2. CASE StartStage(r)
  <2>1. /\ pc[r] = "next" /\ pc'[r] = "starting" /\ status'[r] = status[r]
        /\ artifacts'[r] = artifacts[r] /\ opts'[r] = opts[r]
    BY <1>0, <1>2 DEF StartStage, TypeOK
  <2>2. Succeeded(r)' = Succeeded(r)
    BY <1>0, <1>2, StartStep
  <2>3. \A s, kind : Recorded(r, s, kind)' = Recorded(r, s, kind)
    BY <2>1, RecordedSame
  <2> QED
    BY <2>1, <2>2, <2>3 DEF OutputsInvariant, Busy
<1>3. CASE LookUp(r)
  <2>1. /\ pc[r] = "starting" /\ pc'[r] \in {"spawning", "working"} /\ status'[r] = status[r]
        /\ artifacts'[r] = artifacts[r] /\ opts'[r] = opts[r]
        /\ stageStatus'[r] = stageStatus[r] /\ stage'[r] = stage[r]
        /\ outs'[r] = Outputs(r) /\ stage[r] \in StageNames
    BY <1>0, <1>3 DEF LookUp, TypeOK
  <2>2. Succeeded(r)' = Succeeded(r)
    BY <2>1, SucceededSame
  <2>3. \A s, kind : Recorded(r, s, kind)' = Recorded(r, s, kind)
    BY <2>1, RecordedSame
  <2>4. \A kind \in Stage(stage[r]).outputs :
          \E i \in DOMAIN Outputs(r) : Kind(Outputs(r)[i]) = kind
    BY <2>1, DeclaredIsWritten
  <2> QED
    BY <2>1, <2>2, <2>3, <2>4 DEF OutputsInvariant, Busy
<1>4. CASE RecordOutput(r)
  <2> DEFINE slot == outs[r][1]
             new  == [slot |-> slot, sha |-> disk[Path(r, slot)],
                      from |-> ProvenanceOf(r, slot)]
             n    == Len(artifacts[r])
  <2>1. /\ pc[r] = "written" /\ pc'[r] = "working" /\ status'[r] = status[r]
        /\ opts'[r] = opts[r] /\ stageStatus'[r] = stageStatus[r]
        /\ stage'[r] = stage[r] /\ outs'[r] = Tail(outs[r])
    BY <1>0, <1>4 DEF RecordOutput, TypeOK
  <2>2. artifacts'[r] = Append(artifacts[r], new) /\ artifacts[r] \in Seq(Artifacts)
    BY <1>0, <1>4, RecordStep DEF TypeOK
  <2>3. new.slot = slot
    OBVIOUS
  <2>4. outs[r] # << >> /\ Producer(slot) = stage[r]
    BY <1>0, <2>1, HeadTail DEF StageInvariant, Busy
  <2> HIDE DEF new, slot
  <2>5. /\ \A k \in DOMAIN artifacts[r] :
             k \in DOMAIN artifacts'[r] /\ artifacts'[r][k] = artifacts[r][k]
        /\ n + 1 \in DOMAIN artifacts'[r] /\ artifacts'[r][n + 1] = new
    BY <2>2
  <2>6. \A s, kind : Recorded(r, s, kind) => Recorded(r, s, kind)'
    BY <2>5 DEF Recorded
  <2>7. \A s, kind : s = stage[r] /\ kind = Kind(slot) => Recorded(r, s, kind)'
    BY <2>3, <2>4, <2>5 DEF Recorded
  <2>8. \A i \in DOMAIN outs[r] :
          outs[r][i] = slot \/ \E j \in DOMAIN outs'[r] : outs'[r][j] = outs[r][i]
    <3>1. \A i \in DOMAIN outs[r] :
            i = 1 \/ (/\ i - 1 \in DOMAIN Tail(outs[r])
                     /\ Tail(outs[r])[i - 1] = outs[r][i])
      BY <1>0, <2>4, HeadTail
    <3>2. outs'[r] = Tail(outs[r])
      BY <2>1
    <3> QED
      BY <3>1, <3>2 DEF slot
  <2>9. Succeeded(r)' = Succeeded(r)
    BY <2>1, SucceededSame
  <2>10. (\A s \in Succeeded(r) : \A kind \in Stage(s).outputs : Recorded(r, s, kind))'
    BY <2>6, <2>9 DEF OutputsInvariant
  <2>11. (\A kind \in Stage(stage[r]).outputs :
            \/ Recorded(r, stage[r], kind)
            \/ \E i \in DOMAIN outs[r] : Kind(outs[r][i]) = kind)'
    <3> SUFFICES ASSUME NEW kind \in Stage(stage[r]).outputs,
                        NEW s, s = stage[r], ~Recorded(r, s, kind)'
                 PROVE  \E i \in DOMAIN outs'[r] : Kind(outs'[r][i]) = kind
      BY <2>1
    <3>1. PICK i \in DOMAIN outs[r] : Kind(outs[r][i]) = kind
      BY <2>1, <2>6 DEF OutputsInvariant, Busy
    <3>2. outs[r][i] # slot
      BY <2>7, <3>1
    <3> QED
      BY <2>8, <3>1, <3>2
  <2> QED
    BY <2>1, <2>9, <2>10, <2>11 DEF OutputsInvariant
<1>5. CASE ReturnStage(r)
  <2>1. /\ pc[r] = "working" /\ pc'[r] = "next" /\ status'[r] = status[r]
        /\ opts'[r] = opts[r] /\ artifacts'[r] = artifacts[r] /\ outs[r] = << >>
    BY <1>0, <1>5 DEF ReturnStage, TypeOK
  <2>2. Succeeded(r)' = Succeeded(r) \cup {stage[r]}
    BY <1>0, <1>5, ReturnStep
  <2>3. \A s, kind : Recorded(r, s, kind)' = Recorded(r, s, kind)
    BY <2>1, RecordedSame
  <2>4. \A kind \in Stage(stage[r]).outputs : Recorded(r, stage[r], kind)
    BY <2>1 DEF OutputsInvariant, Busy
  <2>5. status'[r] = "running"
    BY <2>1 DEF ProgressInvariant, InStage, Busy
  <2> QED
    BY <2>1, <2>2, <2>3, <2>4, <2>5 DEF OutputsInvariant, Busy
<1>6. CASE Finish(r)
  <2>1. /\ pc[r] = "next" /\ pc'[r] = "exited" /\ todo[r] = {}
        /\ opts'[r] = opts[r] /\ artifacts'[r] = artifacts[r]
        /\ stageStatus'[r] = stageStatus[r]
    BY <1>0, <1>6 DEF Finish, TypeOK
  <2>2. Succeeded(r)' = Succeeded(r)
    BY <2>1, SucceededSame
  <2>3. \A s, kind : Recorded(r, s, kind)' = Recorded(r, s, kind)
    BY <2>1, RecordedSame
  <2>4. Succeeded(r) = opts[r].stages
    BY <2>1 DEF ProgressInvariant
  <2> QED
    BY <2>1, <2>2, <2>3, <2>4 DEF OutputsInvariant, Busy
<1>7. CASE WriteOutput(r) \/ StartWorker(r) \/ WorkerSaves(r) \/ WorkerDone(r)
           \/ OrphanSaves(r) \/ OrphanExits(r)
  <2>1. /\ stageStatus'[r] = stageStatus[r] /\ opts'[r] = opts[r]
        /\ artifacts'[r] = artifacts[r] /\ status'[r] = status[r]
        /\ stage'[r] = stage[r] /\ outs'[r] = outs[r]
    BY <1>7 DEF WriteOutput, StartWorker, WorkerSaves, WorkerDone, OrphanSaves, OrphanExits
  <2>2. Busy(r) \/ pc'[r] = pc[r]
    BY <1>7
    DEF WriteOutput, StartWorker, WorkerSaves, WorkerDone, OrphanSaves, OrphanExits, Busy
  <2> QED
    BY <2>1, <2>2, OutputsKept DEF Busy
<1>8. CASE Refuse(r) \/ MarkRunning(r) \/ MissingInput(r) \/ BadData(r)
           \/ CrashWithoutLoss(r) \/ Crash(r) \/ Kill(r)
  <2>1. /\ stageStatus'[r] = stageStatus[r] /\ opts'[r] = opts[r]
        /\ artifacts'[r] = artifacts[r]
        /\ status'[r] # "succeeded" \/ status'[r] = status[r]
        /\ pc'[r] \in {"refused", "next", "failed", "crashed", "killed"}
    BY <1>0, <1>8 DEF Refuse, MarkRunning, MissingInput, BadData, StageError,
       CrashWithoutLoss, Crash, Kill, TypeOK
  <2> QED
    BY <2>1, OutputsKept
<1> QED
  BY <1>1, <1>2, <1>3, <1>4, <1>5, <1>6, <1>7, <1>8 DEF StepOf, Step

\* In every run the stages asked for are the succeeded ones, the one in progress and
\* those to come, and a succeeded stage has recorded what it declares.
THEOREM BuildInvariantHolds == Spec => []BuildInvariant
<1>1. Init => BuildInvariant
  <2> SUFFICES ASSUME Init, NEW r \in Runs
               PROVE  ProgressInvariant(r) /\ OutputsInvariant(r)
    BY DEF BuildInvariant
  <2>1. Succeeded(r) = {}
    BY DEF Init, Succeeded
  <2> QED
    BY <2>1 DEF Init, ProgressInvariant, OutputsInvariant, InStage, Busy
<1>2. LoopInvariant /\ BuildInvariant /\ [Next]_vars => BuildInvariant'
  <2> SUFFICES ASSUME LoopInvariant, BuildInvariant, [Next]_vars
               PROVE  BuildInvariant'
    OBVIOUS
  <2>0. TypeOK
    BY DEF LoopInvariant
  <2>1. ASSUME NEW r \in Runs, StepOf(r), NEW q \in Runs
        PROVE  ProgressInvariant(q)' /\ OutputsInvariant(q)'
    <3>1. /\ ProgressInvariant(q) /\ OutputsInvariant(q) /\ StageInvariant(q)
      BY DEF BuildInvariant, LoopInvariant
    <3>2. CASE q = r
      BY <2>0, <2>1, <3>1, <3>2, ProgressStep, OutputsStep
    <3>3. CASE q # r
      <4>1. /\ pc'[q] = pc[q] /\ opts'[q] = opts[q] /\ todo'[q] = todo[q]
            /\ stage'[q] = stage[q] /\ outs'[q] = outs[q] /\ status'[q] = status[q]
            /\ stageStatus'[q] = stageStatus[q] /\ artifacts'[q] = artifacts[q]
        BY <2>0, <2>1, <3>3, FrameStep
      <4> QED
        BY <3>1, <4>1, ProgressKept, OutputsKept DEF Busy
    <3> QED
      BY <3>2, <3>3
  <2>2. CASE UNCHANGED vars
    <3> SUFFICES ASSUME NEW q \in Runs
                 PROVE  ProgressInvariant(q)' /\ OutputsInvariant(q)'
      BY DEF BuildInvariant
    <3>1. ProgressInvariant(q) /\ OutputsInvariant(q)
      BY DEF BuildInvariant
    <3>2. /\ pc' = pc /\ opts' = opts /\ todo' = todo /\ stage' = stage /\ outs' = outs
          /\ status' = status /\ stageStatus' = stageStatus /\ artifacts' = artifacts
      BY <2>2 DEF vars, process, record
    <3> QED
      BY <3>1, <3>2, ProgressKept, OutputsKept DEF Busy
  <2> QED
    BY <2>1, <2>2, NextIsStep DEF BuildInvariant
<1> QED
  BY <1>1, <1>2, LoopInvariantHolds, PTL DEF Spec

\* For any command line and any faults: a record that says "succeeded" has every
\* selected stage and every declared output.
THEOREM SuccessVouches == Spec => []SuccessIsComplete
<1>1. BuildInvariant => SuccessIsComplete
  BY DEF BuildInvariant, OutputsInvariant, SuccessIsComplete, Recorded
<1> QED
  BY <1>1, BuildInvariantHolds, PTL

\* BuildRun and Pipeline speak of the same stages in the same order.
LEMMA BuildSchema ==
    ASSUME NEW r \in Runs
    PROVE  Build(r)!StageNames = StageNames /\ \A s : Build(r)!Rank(s) = Rank(s)
BY DEF Build!StageNames, Build!Rank, Build!STAGE_ORDER, StageNames, Rank, STAGE_ORDER

\* A step of a run is one of BuildRun, or none.
LEMMA BuildStep ==
    ASSUME LoopInvariant, BuildInvariant, NEW r \in Runs, StepOf(r)
    PROVE  [Build(r)!Next]_(Build(r)!vars)
<1> USE DEF Goto, process, record
<1>0. TypeOK /\ ProgressInvariant(r)
  BY DEF LoopInvariant, BuildInvariant
<1>1. CASE Create(r)
  <2>1. /\ pc[r] = "idle" /\ status'[r] = "pending"
        /\ opts'[r].stages \in SUBSET StageNames /\ stageStatus'[r] = stageStatus[r]
    BY <1>0, <1>1, OptionsAssumption DEF Create, TypeOK, OptionSpecs
  <2>2. status[r] = "absent" /\ Succeeded(r)' = Succeeded(r)
    BY <1>0, <2>1, SucceededSame DEF ProgressInvariant
  <2> QED
    BY <2>1, <2>2, BuildSchema DEF Build!Next, Build!Create
<1>2. CASE MarkRunning(r)
  <2>1. /\ pc[r] = "created" /\ status'[r] = "running"
        /\ opts'[r] = opts[r] /\ stageStatus'[r] = stageStatus[r]
    BY <1>0, <1>2 DEF MarkRunning, TypeOK
  <2>2. status[r] = "pending" /\ Succeeded(r)' = Succeeded(r)
    BY <1>0, <2>1, SucceededSame DEF ProgressInvariant
  <2> QED
    BY <2>1, <2>2 DEF Build!Next, Build!Start
<1>3. CASE ReturnStage(r)
  <2>1. /\ pc[r] = "working" /\ status'[r] = status[r] /\ opts'[r] = opts[r]
    BY <1>0, <1>3 DEF ReturnStage, TypeOK
  <2>2. Succeeded(r)' = Succeeded(r) \cup {stage[r]}
    BY <1>0, <1>3, ReturnStep
  <2>3. /\ status[r] = "running"
        /\ opts[r].stages = todo[r] \cup Succeeded(r) \cup {stage[r]}
        /\ stage[r] \notin Succeeded(r)
        /\ \A t \in todo[r] : Rank(stage[r]) <= Rank(t)
    BY <1>0, <2>1 DEF ProgressInvariant, InStage, Busy
  <2>4. stage[r] \in StageNames /\ todo[r] \subseteq StageNames
    BY <1>0 DEF TypeOK
  <2>5. \A t \in StageNames : Rank(t) \in Nat
    BY StageNamesAre, RankOf
  <2>6. \A t \in opts[r].stages : Rank(t) < Rank(stage[r]) => t \in Succeeded(r)
    BY <2>3, <2>4, <2>5
  <2> QED
    BY <2>1, <2>2, <2>3, <2>4, <2>6, BuildSchema DEF Build!Next, Build!StageSucceeds
<1>4. CASE Finish(r)
  <2>1. /\ pc[r] = "next" /\ todo[r] = {} /\ status'[r] = "succeeded"
        /\ opts'[r] = opts[r] /\ stageStatus'[r] = stageStatus[r]
    BY <1>0, <1>4 DEF Finish, TypeOK
  <2>2. /\ status[r] = "running" /\ Succeeded(r) = opts[r].stages
        /\ Succeeded(r)' = Succeeded(r)
    BY <1>0, <2>1, SucceededSame DEF ProgressInvariant
  <2> QED
    BY <2>1, <2>2 DEF Build!Next, Build!Succeed
<1>5. CASE MissingInput(r) \/ BadData(r)
  <2>1. /\ InStage(r) /\ status'[r] = "failed"
        /\ opts'[r] = opts[r] /\ stageStatus'[r] = stageStatus[r]
    BY <1>0, <1>5 DEF MissingInput, BadData, StageError, TypeOK, InStage, Busy
  <2>2. /\ status[r] = "running" /\ Succeeded(r) # opts[r].stages
        /\ Succeeded(r)' = Succeeded(r)
    BY <1>0, <2>1, SucceededSame DEF ProgressInvariant
  <2> QED
    BY <2>1, <2>2 DEF Build!Next, Build!Fail
<1>6. CASE StartStage(r)
  <2>1. status'[r] = status[r] /\ opts'[r] = opts[r] /\ Succeeded(r)' = Succeeded(r)
    BY <1>0, <1>6, StartStep DEF StartStage
  <2> QED
    BY <2>1 DEF Build!vars
<1>7. CASE \/ Refuse(r) \/ LookUp(r) \/ WriteOutput(r) \/ RecordOutput(r)
           \/ CrashWithoutLoss(r) \/ StartWorker(r) \/ WorkerSaves(r) \/ WorkerDone(r)
           \/ OrphanSaves(r) \/ OrphanExits(r) \/ Crash(r) \/ Kill(r)
  <2>1. /\ stageStatus'[r] = stageStatus[r] /\ opts'[r] = opts[r]
        /\ status'[r] = status[r]
    BY <1>7 DEF Refuse, LookUp, WriteOutput, RecordOutput, CrashWithoutLoss, StartWorker,
       WorkerSaves, WorkerDone, OrphanSaves, OrphanExits, Crash, Kill
  <2>2. Succeeded(r)' = Succeeded(r)
    BY <2>1, SucceededSame
  <2> QED
    BY <2>1, <2>2 DEF Build!vars
<1> QED
  BY <1>1, <1>2, <1>3, <1>4, <1>5, <1>6, <1>7 DEF StepOf, Step

\* For any number of runs and whatever the others do, the record of each is a run
\* as BuildRun describes it.
THEOREM RunsAreBuilds == Spec => RunsImplementBuild
<1> DEFINE Step1 == \A r \in Runs : [Build(r)!Next]_(Build(r)!vars)
           Init1 == \A r \in Runs : Build(r)!Init
<1>1. Init => Init1
  <2> SUFFICES ASSUME Init, NEW q \in Runs
               PROVE  Build(q)!Init
    OBVIOUS
  <2>1. status[q] = "absent" /\ Succeeded(q) = {}
    BY DEF Init, Succeeded
  <2>2. opts[q].stages \in SUBSET StageNames
    BY LoopInit, OptionsAssumption DEF LoopInvariant, TypeOK, OptionSpecs
  <2> QED
    BY <2>1, <2>2, BuildSchema DEF Build!Init
<1>2. LoopInvariant /\ BuildInvariant /\ [Next]_vars => [Step1]_vars
  <2> SUFFICES ASSUME LoopInvariant, BuildInvariant, NEW r \in Runs, StepOf(r),
                      NEW q \in Runs
               PROVE  [Build(q)!Next]_(Build(q)!vars)
    BY NextIsStep
  <2>1. CASE q = r
    BY <2>1, BuildStep
  <2>2. CASE q # r
    <3>1. /\ opts'[q] = opts[q] /\ status'[q] = status[q]
          /\ stageStatus'[q] = stageStatus[q]
      BY <2>2, FrameStep DEF LoopInvariant
    <3>2. Succeeded(q)' = Succeeded(q)
      BY <3>1, SucceededSame
    <3> QED
      BY <3>1, <3>2 DEF Build!vars
  <2> QED
    BY <2>1, <2>2
<1> HIDE DEF Step1, Init1
<1>3. Spec => Init1 /\ [][Step1]_vars
  BY <1>1, <1>2, LoopInvariantHolds, BuildInvariantHolds, PTL DEF Spec
<1> USE DEF Step1, Init1
<1> QED
  BY <1>3, PTL DEF RunsImplementBuild

-----------------------------------------------------------------------------
(***************************************************************************)
(* Where a failed run stopped, and what becomes of a record.               *)
(***************************************************************************)

\* What FailureShowsItsStage says of a failed run.
FailureShown(r) ==
    \E s \in opts[r].stages :
        /\ stageStatus[r] = [t \in StageNames |->
             IF t = s THEN "running"
             ELSE IF t \in opts[r].stages /\ Rank(t) < Rank(s) THEN "succeeded"
             ELSE "absent"]
        /\ \A k \in DOMAIN artifacts[r] : Rank(Producer(artifacts[r][k].slot)) <= Rank(s)

Between(r) == pc[r] \in {"idle", "created", "next"}

\* Only the stage in progress is "running", the stages are in order, every artifact is of
\* a stage that has begun, and a run that has ended has left the loop.
TrailInvariant(r) ==
    /\ Between(r) => \A t \in StageNames : stageStatus[r][t] # "running"
    /\ InStage(r) => \A t \in StageNames : stageStatus[r][t] = "running" <=> t = stage[r]
    /\ InStage(r) => \A t \in Succeeded(r) : Rank(t) < Rank(stage[r])
    /\ Between(r) \/ InStage(r) =>
         \A t \in Succeeded(r), u \in todo[r] : Rank(t) < Rank(u)
    /\ \A k \in DOMAIN artifacts[r] :
         /\ Between(r) => Producer(artifacts[r][k].slot) \in Succeeded(r)
         /\ InStage(r) => Producer(artifacts[r][k].slot) \in Succeeded(r) \cup {stage[r]}
    /\ status[r] = "failed" => pc[r] = "failed" /\ FailureShown(r)
    /\ status[r] = "succeeded" => pc[r] = "exited"

\* Ranks are different numbers.
LEMMA RankInjective ==
    \A s, t \in StageNames :
        /\ Rank(s) \in Nat /\ Rank(t) \in Nat
        /\ Rank(s) = Rank(t) => s = t
BY StageNamesAre, RankOf

\* A step that leaves the record, the loop and the kind of place alone keeps it.
LEMMA TrailKept ==
    ASSUME NEW r \in Runs, TrailInvariant(r), stageStatus'[r] = stageStatus[r],
           opts'[r] = opts[r], todo'[r] = todo[r], stage'[r] = stage[r],
           status'[r] = status[r], artifacts'[r] = artifacts[r],
           Between(r)' => Between(r), InStage(r)' => InStage(r),
           status[r] \in {"failed", "succeeded"} => pc'[r] = pc[r]
    PROVE  TrailInvariant(r)'
<1>1. Succeeded(r)' = Succeeded(r)
  BY SucceededSame
<1>2. FailureShown(r)' <=> FailureShown(r)
  BY DEF FailureShown
<1> QED
  BY <1>1, <1>2 DEF TrailInvariant

\* A stage that fails is the one that is "running", after all those before it.
LEMMA FailureStep ==
    ASSUME TypeOK, NEW r \in Runs, ProgressInvariant(r), TrailInvariant(r), InStage(r)
    PROVE  FailureShown(r)
<1> DEFINE s == stage[r]
<1>1. /\ s \in StageNames /\ todo[r] \subseteq StageNames
      /\ opts[r].stages = todo[r] \cup Succeeded(r) \cup {s}
      /\ \A t \in todo[r] : Rank(s) <= Rank(t)
      /\ \A t \in Succeeded(r) : Rank(t) < Rank(s)
  BY DEF TypeOK, ProgressInvariant, TrailInvariant
<1>2. stageStatus[r] \in [StageNames -> {"absent", "running", "succeeded"}]
  BY DEF TypeOK
<1>3. ASSUME NEW t \in StageNames
      PROVE  stageStatus[r][t] = IF t = s THEN "running"
               ELSE IF t \in opts[r].stages /\ Rank(t) < Rank(s) THEN "succeeded"
               ELSE "absent"
  <2>1. CASE t = s
    BY <2>1 DEF TrailInvariant
  <2>2. CASE t # s /\ t \in opts[r].stages /\ Rank(t) < Rank(s)
    <3>1. Rank(t) \in Nat /\ Rank(s) \in Nat
      BY <1>1, RankInjective
    <3>2. t \in Succeeded(r)
      BY <1>1, <2>2, <3>1
    <3> QED
      BY <2>2, <3>2 DEF Succeeded
  <2>3. CASE t # s /\ ~(t \in opts[r].stages /\ Rank(t) < Rank(s))
    <3>1. t \notin Succeeded(r) /\ stageStatus[r][t] # "running"
      BY <1>1, <2>3 DEF TrailInvariant
    <3> QED
      BY <1>2, <2>3, <3>1 DEF Succeeded
  <2> QED
    BY <2>1, <2>2, <2>3
<1>4. stageStatus[r] = [t \in StageNames |->
         IF t = s THEN "running"
         ELSE IF t \in opts[r].stages /\ Rank(t) < Rank(s) THEN "succeeded"
         ELSE "absent"]
  BY <1>2, <1>3
<1>5. \A k \in DOMAIN artifacts[r] : Rank(Producer(artifacts[r][k].slot)) <= Rank(s)
  <2> SUFFICES ASSUME NEW k \in DOMAIN artifacts[r], NEW t, t = Producer(artifacts[r][k].slot)
               PROVE  Rank(t) <= Rank(s)
    OBVIOUS
  <2>1. t \in Succeeded(r) \cup {s}
    BY DEF TrailInvariant
  <2>2. Rank(t) \in Nat /\ Rank(s) \in Nat
    BY <1>1, <2>1, RankInjective DEF Succeeded
  <2> QED
    BY <1>1, <2>1, <2>2
<1> QED
  BY <1>1, <1>4, <1>5 DEF FailureShown

\* TrailInvariant, action by action.
LEMMA TrailStep ==
    ASSUME LoopInvariant, BuildInvariant, NEW r \in Runs, TrailInvariant(r), StepOf(r)
    PROVE  TrailInvariant(r)'
<1> USE DEF Goto, process, record
<1>0. /\ TypeOK /\ ProgressInvariant(r) /\ RecordInvariant(r) /\ StageInvariant(r)
      /\ stage[r] \in StageNames /\ todo[r] \subseteq StageNames
      /\ stageStatus[r] \in [StageNames -> {"absent", "running", "succeeded"}]
  BY DEF LoopInvariant, BuildInvariant, TypeOK
<1>1. CASE Create(r)
  <2>1. /\ pc[r] = "idle" /\ pc'[r] = "created" /\ status'[r] = "pending"
        /\ stageStatus'[r] = stageStatus[r] /\ artifacts'[r] = artifacts[r]
    BY <1>0, <1>1 DEF Create, TypeOK
  <2>2. Succeeded(r)' = Succeeded(r) /\ Succeeded(r) = {}
    BY <1>0, <2>1, SucceededSame DEF ProgressInvariant
  <2> QED
    BY <2>1, <2>2 DEF TrailInvariant, Between, InStage, Busy
<1>2. CASE MarkRunning(r)
  <2>1. /\ pc[r] = "created" /\ pc'[r] = "next" /\ status'[r] = "running"
        /\ todo'[r] = todo[r] /\ stageStatus'[r] = stageStatus[r]
        /\ artifacts'[r] = artifacts[r]
    BY <1>0, <1>2 DEF MarkRunning, TypeOK
  <2> QED
    BY <2>1, SucceededSame DEF TrailInvariant, Between, InStage, Busy
<1>3. CASE StartStage(r)
  <2>1. /\ pc[r] = "next" /\ pc'[r] = "starting" /\ status'[r] = status[r]
        /\ artifacts'[r] = artifacts[r] /\ status[r] = "running"
        /\ todo[r] \cap Succeeded(r) = {}
    BY <1>0, <1>3 DEF StartStage, TypeOK, ProgressInvariant
  <2>2. /\ Succeeded(r)' = Succeeded(r) /\ stage'[r] \in todo[r]
        /\ todo'[r] = todo[r] \ {stage'[r]}
    BY <1>0, <1>3, StartStep
  <2>3. stageStatus'[r] = [stageStatus[r] EXCEPT ![stage'[r]] = "running"]
    BY <1>0, <1>3 DEF StartStage, TypeOK
  <2>4. \A t \in StageNames : stageStatus'[r][t] = "running" <=> t = stage'[r]
    BY <1>0, <2>1, <2>2, <2>3 DEF TrailInvariant, Between
  <2>5. /\ \A t \in Succeeded(r) : Rank(t) < Rank(stage'[r])
        /\ \A t \in Succeeded(r), u \in todo'[r] : Rank(t) < Rank(u)
    BY <2>1, <2>2 DEF TrailInvariant, Between
  <2>6. \A k \in DOMAIN artifacts[r] : Producer(artifacts[r][k].slot) \in Succeeded(r)
    BY <2>1 DEF TrailInvariant, Between
  <2> QED
    BY <2>1, <2>2, <2>4, <2>5, <2>6 DEF TrailInvariant, Between, InStage, Busy
<1>4. CASE ReturnStage(r)
  <2>1. /\ pc[r] = "working" /\ pc'[r] = "next" /\ status'[r] = status[r]
        /\ todo'[r] = todo[r] /\ artifacts'[r] = artifacts[r] /\ InStage(r)
    BY <1>0, <1>4 DEF ReturnStage, TypeOK, InStage, Busy
  <2>2. Succeeded(r)' = Succeeded(r) \cup {stage[r]}
    BY <1>0, <1>4, ReturnStep
  <2>3. stageStatus'[r] = [stageStatus[r] EXCEPT ![stage[r]] = "succeeded"]
    BY <1>0, <1>4 DEF ReturnStage, TypeOK
  <2>4. \A t \in StageNames : stageStatus'[r][t] # "running"
    BY <1>0, <2>1, <2>3 DEF TrailInvariant
  <2>5. \A u \in todo[r] : Rank(stage[r]) < Rank(u)
    <3> SUFFICES ASSUME NEW u \in todo[r] PROVE Rank(stage[r]) < Rank(u)
      OBVIOUS
    <3>1. Rank(stage[r]) <= Rank(u) /\ u # stage[r]
      BY <1>0, <2>1 DEF ProgressInvariant, StageInvariant
    <3> QED
      BY <1>0, <3>1, RankInjective
  <2>6. \A t \in Succeeded(r)', u \in todo'[r] : Rank(t) < Rank(u)
    BY <2>1, <2>2, <2>5 DEF TrailInvariant
  <2>7. \A k \in DOMAIN artifacts[r] : Producer(artifacts[r][k].slot) \in Succeeded(r)'
    BY <2>1, <2>2 DEF TrailInvariant
  <2>8. status[r] = "running"
    BY <1>0, <2>1 DEF ProgressInvariant
  <2> QED
    BY <2>1, <2>4, <2>6, <2>7, <2>8 DEF TrailInvariant, Between, InStage, Busy
<1>5. CASE RecordOutput(r)
  <2>1. /\ pc[r] = "written" /\ pc'[r] = "working" /\ status'[r] = status[r]
        /\ todo'[r] = todo[r] /\ stage'[r] = stage[r] /\ stageStatus'[r] = stageStatus[r]
        /\ InStage(r) /\ status[r] = "running"
    BY <1>0, <1>5 DEF RecordOutput, TypeOK, InStage, Busy, ProgressInvariant
  <2>2. outs[r] # << >> /\ 1 \in DOMAIN outs[r]
    BY <1>0, <2>1, HeadTail DEF StageInvariant
  <2>3. Producer(outs[r][1]) = stage[r]
    BY <1>0, <2>1, <2>2 DEF StageInvariant, Busy
  <2> DEFINE new == [slot |-> outs[r][1], sha |-> disk[Path(r, outs[r][1])],
                     from |-> ProvenanceOf(r, outs[r][1])]
  <2>4. artifacts'[r] = Append(artifacts[r], new) /\ new.slot = outs[r][1]
    BY <1>5, RecordStep
  <2> HIDE DEF new
  <2>5. artifacts[r] \in Seq(Artifacts)
    BY <1>0 DEF TypeOK
  <2>6. \A k \in DOMAIN artifacts'[r] :
          artifacts'[r][k] = new \/ (k \in DOMAIN artifacts[r] /\ artifacts'[r][k] = artifacts[r][k])
    BY <2>4, <2>5
  <2>7. \A k \in DOMAIN artifacts'[r] :
          Producer(artifacts'[r][k].slot) \in Succeeded(r) \cup {stage[r]}
    BY <2>1, <2>3, <2>4, <2>6 DEF TrailInvariant
  <2>8. Succeeded(r)' = Succeeded(r)
    BY <2>1, SucceededSame
  <2> QED
    BY <2>1, <2>7, <2>8 DEF TrailInvariant, Between, InStage, Busy
<1>6. CASE MissingInput(r) \/ BadData(r)
  <2>1. /\ InStage(r) /\ pc'[r] = "failed" /\ status'[r] = "failed" /\ opts'[r] = opts[r]
        /\ stageStatus'[r] = stageStatus[r] /\ artifacts'[r] = artifacts[r]
    BY <1>0, <1>6 DEF MissingInput, BadData, StageError, TypeOK, InStage, Busy
  <2>2. FailureShown(r)'
    BY <1>0, <2>1, FailureStep DEF FailureShown
  <2> QED
    BY <2>1, <2>2 DEF TrailInvariant, Between, InStage, Busy
<1>7. CASE Finish(r)
  <2>1. pc'[r] = "exited" /\ status'[r] = "succeeded"
    BY <1>0, <1>7 DEF Finish, TypeOK
  <2> QED
    BY <2>1 DEF TrailInvariant, Between, InStage, Busy
<1>8. CASE LookUp(r) \/ WriteOutput(r) \/ StartWorker(r) \/ WorkerSaves(r) \/ WorkerDone(r)
  <2>1. /\ stageStatus'[r] = stageStatus[r] /\ opts'[r] = opts[r] /\ todo'[r] = todo[r]
        /\ stage'[r] = stage[r] /\ status'[r] = status[r] /\ artifacts'[r] = artifacts[r]
    BY <1>8 DEF LookUp, WriteOutput, StartWorker, WorkerSaves, WorkerDone
  <2>2. InStage(r) /\ InStage(r)' /\ ~Between(r)'
    BY <1>0, <1>8 DEF LookUp, WriteOutput, StartWorker, WorkerSaves, WorkerDone, TypeOK,
       InStage, Busy, Between
  <2>3. status[r] = "running"
    BY <1>0, <2>2 DEF ProgressInvariant
  <2> QED
    BY <2>1, <2>2, <2>3, TrailKept
<1>9. CASE Refuse(r) \/ CrashWithoutLoss(r) \/ Crash(r) \/ Kill(r)
  <2>1. /\ stageStatus'[r] = stageStatus[r] /\ opts'[r] = opts[r] /\ todo'[r] = todo[r]
        /\ stage'[r] = stage[r] /\ status'[r] = status[r] /\ artifacts'[r] = artifacts[r]
        /\ pc'[r] \in {"refused", "crashed", "killed"} /\ pc[r] \notin {"exited", "failed"}
    BY <1>0, <1>9 DEF Refuse, CrashWithoutLoss, Crash, Kill, TypeOK, Ended
  <2>2. ~Between(r)' /\ ~InStage(r)' /\ status[r] \notin {"failed", "succeeded"}
    BY <2>1 DEF TrailInvariant, Between, InStage, Busy
  <2> QED
    BY <2>1, <2>2, TrailKept
<1>10. CASE OrphanSaves(r) \/ OrphanExits(r)
  <2>1. /\ stageStatus'[r] = stageStatus[r] /\ opts'[r] = opts[r] /\ todo'[r] = todo[r]
        /\ stage'[r] = stage[r] /\ status'[r] = status[r] /\ artifacts'[r] = artifacts[r]
        /\ pc'[r] = pc[r]
    BY <1>10 DEF OrphanSaves, OrphanExits
  <2> QED
    BY <2>1, TrailKept DEF Between, InStage, Busy
<1> QED
  BY <1>1, <1>2, <1>3, <1>4, <1>5, <1>6, <1>7, <1>8, <1>9, <1>10 DEF StepOf, Step

\* For any number of runs, the record of each is the trail of its loop.
THEOREM TrailInvariantHolds == Spec => [](\A r \in Runs : TrailInvariant(r))
<1> DEFINE Trail == \A r \in Runs : TrailInvariant(r)
<1>1. Init => Trail
  <2> SUFFICES ASSUME Init, NEW r \in Runs PROVE TrailInvariant(r)
    OBVIOUS
  <2>1. /\ pc[r] = "idle" /\ artifacts[r] = << >> /\ status[r] = "absent"
        /\ Succeeded(r) = {} /\ \A t \in StageNames : stageStatus[r][t] = "absent"
    BY DEF Init, Succeeded
  <2> QED
    BY <2>1 DEF TrailInvariant, Between, InStage, Busy
<1>2. LoopInvariant /\ BuildInvariant /\ Trail /\ [Next]_vars => Trail'
  <2> SUFFICES ASSUME LoopInvariant, BuildInvariant, Trail, [Next]_vars, NEW q \in Runs
               PROVE  TrailInvariant(q)'
    OBVIOUS
  <2>0. TypeOK
    BY DEF LoopInvariant
  <2>1. CASE UNCHANGED vars
    <3>1. /\ pc' = pc /\ opts' = opts /\ todo' = todo /\ stage' = stage
          /\ status' = status /\ stageStatus' = stageStatus /\ artifacts' = artifacts
      BY <2>1 DEF vars, process, record
    <3> QED
      BY <3>1, TrailKept DEF Between, InStage, Busy
  <2>2. ASSUME NEW r \in Runs, StepOf(r)
        PROVE  TrailInvariant(q)'
    <3>1. CASE q = r
      BY <2>2, <3>1, TrailStep
    <3>2. CASE q # r
      <4>1. /\ pc'[q] = pc[q] /\ opts'[q] = opts[q] /\ todo'[q] = todo[q]
            /\ stage'[q] = stage[q] /\ status'[q] = status[q]
            /\ stageStatus'[q] = stageStatus[q] /\ artifacts'[q] = artifacts[q]
        BY <2>0, <2>2, <3>2, FrameStep
      <4> QED
        BY <4>1, TrailKept DEF Between, InStage, Busy
    <3> QED
      BY <3>1, <3>2
  <2> QED
    BY <2>1, <2>2, NextIsStep
<1> HIDE DEF Trail
<1>3. Spec => []Trail
  BY <1>1, <1>2, LoopInvariantHolds, BuildInvariantHolds, PTL DEF Spec
<1> QED
  BY <1>3 DEF Trail

\* Whatever other runs do and wherever a stage fails: a failed record leaves the stage
\* that stopped it "running", after those that succeeded and before those that never began
\* (the except clause of Pipeline.run, which marks the run and not the stage).
THEOREM FailureIsShown == Spec => []FailureShowsItsStage
<1>1. (\A r \in Runs : TrailInvariant(r)) => FailureShowsItsStage
  BY DEF TrailInvariant, FailureShown, FailureShowsItsStage
<1> QED
  BY <1>1, TrailInvariantHolds, PTL

\* A step of a run extends its record, and leaves the record of an ended run alone.
LEMMA RecordExtends ==
    ASSUME LoopInvariant, NEW r \in Runs, StepOf(r), NEW q \in Runs, TrailInvariant(q)
    PROVE  /\ Len(artifacts[q]) <= Len(artifacts'[q])
           /\ artifacts[q] = SubSeq(artifacts'[q], 1, Len(artifacts[q]))
           /\ status[q] \in {"succeeded", "failed"} =>
                /\ status'[q] = status[q] /\ stageStatus'[q] = stageStatus[q]
                /\ artifacts'[q] = artifacts[q]
<1>0. TypeOK /\ artifacts[q] \in Seq(Artifacts)
  BY DEF LoopInvariant, TypeOK
<1>1. CASE artifacts'[q] = artifacts[q]
  <2>1. /\ Len(artifacts[q]) <= Len(artifacts'[q])
        /\ artifacts[q] = SubSeq(artifacts'[q], 1, Len(artifacts[q]))
    BY <1>0, <1>1
  <2>2. ASSUME status[q] \in {"succeeded", "failed"}
        PROVE  status'[q] = status[q] /\ stageStatus'[q] = stageStatus[q]
    <3>1. pc[q] \in {"exited", "failed"}
      BY <2>2 DEF TrailInvariant
    <3>2. CASE q # r
      BY <1>0, <3>2, FrameStep
    <3>3. CASE q = r
      <4>1. OrphanSaves(q) \/ OrphanExits(q)
        BY <3>1, <3>3 DEF StepOf, Step, Refuse, Create, MarkRunning, StartStage, MissingInput,
           BadData, LookUp, WriteOutput, RecordOutput, ReturnStage, CrashWithoutLoss, Finish,
           Crash, Kill, StartWorker, WorkerSaves, WorkerDone, Goto, Ended
      <4> QED
        BY <4>1 DEF OrphanSaves, OrphanExits, record
    <3> QED
      BY <3>2, <3>3
  <2> QED
    BY <1>1, <2>1, <2>2
<1>2. CASE q = r /\ RecordOutput(r)
  <2>1. pc[q] = "written"
    BY <1>2 DEF RecordOutput, Goto
  <2>2. status[q] \notin {"succeeded", "failed"}
    BY <2>1 DEF TrailInvariant
  <2> DEFINE new == [slot |-> outs[q][1], sha |-> disk[Path(q, outs[q][1])],
                     from |-> ProvenanceOf(q, outs[q][1])]
  <2>3. artifacts'[q] = Append(artifacts[q], new)
    BY <1>2, RecordStep
  <2> HIDE DEF new
  <2>4. artifacts'[q] \in Seq(Artifacts \cup {new}) /\ artifacts[q] \in Seq(Artifacts \cup {new})
    BY <1>0, <2>3
  <2>5. /\ Len(artifacts[q]) <= Len(artifacts'[q])
        /\ artifacts[q] = SubSeq(artifacts'[q], 1, Len(artifacts[q]))
    BY <2>3, <2>4
  <2> QED
    BY <2>2, <2>5
<1> QED
  BY <1>0, <1>1, <1>2, OnlyRecordOutputRecords

\* No step of any run takes anything out of a record, or touches that of an ended run
\* (core/pipeline/runs.py).
THEOREM RecordsGrow == Spec => RecordOnlyGrows
<1> DEFINE Grows ==
      \A r \in Runs :
         /\ Len(artifacts[r]) <= Len(artifacts'[r])
         /\ artifacts[r] = SubSeq(artifacts'[r], 1, Len(artifacts[r]))
         /\ status[r] \in {"succeeded", "failed"} =>
              /\ status'[r] = status[r] /\ stageStatus'[r] = stageStatus[r]
              /\ artifacts'[r] = artifacts[r]
           Trail == \A r \in Runs : TrailInvariant(r)
<1>1. LoopInvariant /\ Trail /\ [Next]_vars => [Grows]_vars
  BY RecordExtends, NextIsStep
<1>2. Spec => []Trail
  BY TrailInvariantHolds
<1> HIDE DEF Grows, Trail
<1>3. Spec => [][Grows]_vars
  BY <1>1, <1>2, LoopInvariantHolds, PTL DEF Spec
<1> USE DEF Grows
<1> QED
  BY <1>3, PTL DEF RecordOnlyGrows
-----------------------------------------------------------------------------
(***************************************************************************)
(* One run of the project at a time: nobody else writes the checkpoint.    *)
(***************************************************************************)

\* The artifacts with a model that a run makes of its checkpoint.
Derived == {"eval_report", "quantized_model", "package"}

FileModel(r, slot) == disk[Path(r, slot)].model

\* Once the checkpoint is recorded nobody trains it further, and what is made of it,
\* on disk and recorded or about to be, has its model.
CheckpointInvariant(r) ==
    /\ orphan[r] => pc[r] = "killed" /\ ~Has(r, "checkpoint")
    /\ \A c \in DOMAIN artifacts[r] : artifacts[r][c].slot = "checkpoint" =>
         artifacts[r][c].sha = disk[Path(r, "checkpoint")]
    /\ \A slot \in Derived :
         Has(r, slot) \/ (pc[r] = "written" /\ Head(outs[r]) = slot) =>
           Has(r, "checkpoint") /\ FileModel(r, slot) = FileModel(r, "checkpoint")

\* What a run has recorded after RecordOutput.
LEMMA HasAfterRecord ==
    ASSUME LoopInvariant, NEW r \in Runs, RecordOutput(r), NEW x
    PROVE  /\ Has(r, x)' <=> Has(r, x) \/ x = Head(outs[r])
           /\ \A k \in DOMAIN artifacts'[r] :
                \/ k \in DOMAIN artifacts[r] /\ artifacts'[r][k] = artifacts[r][k]
                \/ /\ artifacts'[r][k].slot = Head(outs[r])
                   /\ artifacts'[r][k].sha = disk[Path(r, Head(outs[r]))]
<1> DEFINE slot == Head(outs[r])
           n    == Len(artifacts[r])
           new  == [slot |-> slot, sha |-> disk[Path(r, slot)],
                    from |-> ProvenanceOf(r, slot)]
<1>1. artifacts[r] \in Seq(Artifacts) /\ artifacts'[r] = Append(artifacts[r], new)
  BY DEF RecordOutput, LoopInvariant, TypeOK
<1>2. new.slot = slot /\ new.sha = disk[Path(r, slot)]
  OBVIOUS
<1> HIDE DEF new, slot
<1>3. /\ DOMAIN artifacts[r] = 1 .. n /\ DOMAIN artifacts'[r] = 1 .. n + 1 /\ n \in Nat
      /\ \A k \in 1 .. n : artifacts'[r][k] = artifacts[r][k]
      /\ artifacts'[r][n + 1] = new
  BY <1>1
<1>4. \A k \in 1 .. n + 1 : k \in 1 .. n \/ k = n + 1
  BY <1>3
<1>5. n + 1 \in 1 .. n + 1 /\ \A k \in 1 .. n : k \in 1 .. n + 1
  BY <1>3
<1> HIDE DEF n
<1>6. Has(r, x)' <=> Has(r, x) \/ x = slot
  BY <1>2, <1>3, <1>4, <1>5 DEF Has
<1>7. \A k \in DOMAIN artifacts'[r] :
        \/ k \in DOMAIN artifacts[r] /\ artifacts'[r][k] = artifacts[r][k]
        \/ artifacts'[r][k].slot = slot /\ artifacts'[r][k].sha = disk[Path(r, slot)]
  BY <1>2, <1>3, <1>4
<1> QED
  BY <1>6, <1>7 DEF slot

\* Of a step that neither records nor writes, nor lets the worker outlive its parent.
LEMMA CheckpointKeptWhenQuiet ==
    ASSUME NEW r \in Runs, CheckpointInvariant(r), artifacts'[r] = artifacts[r], disk' = disk,
           orphan'[r] => orphan[r] /\ pc'[r] = pc[r],
           pc'[r] # "written" \/ (pc'[r] = pc[r] /\ outs'[r] = outs[r])
    PROVE  CheckpointInvariant(r)'
BY DEF CheckpointInvariant, Has, FileModel, Path

\* A worker that is training, or an orphan, has no checkpoint recorded by its run.
LEMMA TrainingBeforeRecord ==
    ASSUME LoopInvariant, NEW r \in Runs, pc[r] = "training"
    PROVE  ~Has(r, "checkpoint") /\ outs[r] # << >> /\ Head(outs[r]) = "checkpoint"
<1>1. stage[r] = "pretrain" /\ outs[r] # << >>
  BY DEF LoopInvariant, StageInvariant
<1>2. /\ Head(outs[r]) \in Slots /\ Producer(Head(outs[r])) = "pretrain"
      /\ ~Has(r, Head(outs[r]))
  BY <1>1, HeadTail DEF LoopInvariant, StageInvariant, Busy
<1>3. Head(outs[r]) = "checkpoint"
  BY <1>2, ProducerOf DEF Slots
<1> QED
  BY <1>1, <1>2, <1>3

\* The step of the induction for what is made of the checkpoint.
LEMMA CheckpointStep ==
    ASSUME LoopInvariant, WorkspaceVerifiable, NEW r \in Runs, CheckpointInvariant(r), StepOf(r)
    PROVE  CheckpointInvariant(r)'
<1>0. TypeOK
  BY DEF LoopInvariant
<1>1. CASE \/ Refuse(r) \/ Create(r) \/ MarkRunning(r) \/ StartStage(r) \/ MissingInput(r)
           \/ BadData(r) \/ LookUp(r) \/ ReturnStage(r) \/ CrashWithoutLoss(r) \/ Finish(r)
           \/ Crash(r) \/ StartWorker(r) \/ OrphanExits(r)
  <2>1. artifacts'[r] = artifacts[r] /\ disk' = disk
    BY <1>1 DEF Refuse, Create, MarkRunning, StartStage, MissingInput, BadData, StageError,
                LookUp, ReturnStage, CrashWithoutLoss, Finish, Crash, StartWorker,
                OrphanExits, process, record
  <2>2. CASE OrphanExits(r)
    BY <1>0, <2>1, <2>2, CheckpointKeptWhenQuiet DEF OrphanExits, TypeOK
  <2>3. CASE ~OrphanExits(r)
    <3>1. orphan' = orphan
      BY <1>1, <2>3 DEF Refuse, Create, MarkRunning, StartStage, MissingInput, BadData,
                        StageError, LookUp, ReturnStage, CrashWithoutLoss, Finish, Crash,
                        StartWorker, process
    <3>2. pc[r] # "killed"
      BY <1>1, <2>3 DEF Refuse, Create, MarkRunning, StartStage, MissingInput, BadData,
                        LookUp, ReturnStage, CrashWithoutLoss, Finish, Crash, StartWorker,
                        Goto, Ended
    <3>3. pc'[r] # "written"
      BY <1>0, <1>1, <2>3 DEF Refuse, Create, MarkRunning, StartStage, MissingInput,
                        BadData, StageError, LookUp, ReturnStage, CrashWithoutLoss, Finish,
                        Crash, StartWorker, Goto, TypeOK
    <3>4. ~orphan'[r]
      BY <3>1, <3>2 DEF CheckpointInvariant
    <3> QED
      BY <2>1, <3>3, <3>4, CheckpointKeptWhenQuiet
  <2> QED
    BY <2>2, <2>3
<1>2. CASE Kill(r)
  <2>1. /\ pc'[r] = "killed" /\ UNCHANGED <<artifacts, disk>>
        /\ orphan'[r] => pc[r] = "training"
    BY <1>0, <1>2 DEF Kill, TypeOK, record
  <2>2. orphan'[r] => ~Has(r, "checkpoint")
    BY <2>1, TrainingBeforeRecord
  <2> QED
    BY <2>1, <2>2 DEF CheckpointInvariant, Has, FileModel, Path
\* The checkpoint is written before it is recorded, so nothing is made of it yet.
<1>3. ASSUME ~Has(r, "checkpoint"), artifacts'[r] = artifacts[r],
             orphan'[r] => orphan[r] /\ pc'[r] = pc[r],
             pc'[r] # "written" \/ Head(outs'[r]) \notin Derived
      PROVE  CheckpointInvariant(r)'
  <2>1. \A slot \in Derived : ~Has(r, slot)
    BY <1>3 DEF CheckpointInvariant
  <2>2. \A x : Has(r, x)' <=> Has(r, x)
    BY <1>3 DEF Has
  <2>3. \A c \in DOMAIN artifacts'[r] : artifacts'[r][c].slot # "checkpoint"
    BY <1>3 DEF Has
  <2> QED
    BY <1>3, <2>1, <2>2, <2>3 DEF CheckpointInvariant
<1>4. CASE WorkerSaves(r)
  <2>1. pc[r] = "training" /\ pc'[r] = pc[r] /\ UNCHANGED <<artifacts, orphan, outs>>
    BY <1>4 DEF WorkerSaves, record
  <2> QED
    BY <1>3, <2>1, TrainingBeforeRecord
<1>5. CASE WorkerDone(r)
  <2>1. pc[r] = "training" /\ pc'[r] = "written" /\ UNCHANGED <<artifacts, orphan, outs>>
    BY <1>0, <1>5 DEF WorkerDone, Goto, record, TypeOK
  <2>2. ~Has(r, "checkpoint") /\ Head(outs[r]) \notin Derived
    BY <2>1, TrainingBeforeRecord DEF Derived
  <2>3. ~orphan[r]
    BY <2>1 DEF CheckpointInvariant
  <2> QED
    BY <1>3, <2>1, <2>2, <2>3
<1>6. CASE OrphanSaves(r)
  <2>1. pc[r] = "killed" /\ ~Has(r, "checkpoint")
    BY <1>6 DEF OrphanSaves, CheckpointInvariant
  <2>2. ~orphan'[r] /\ pc'[r] = pc[r] /\ UNCHANGED artifacts
    BY <1>0, <1>6 DEF OrphanSaves, record, TypeOK
  <2> QED
    BY <1>3, <2>1, <2>2
<1>7. CASE RecordOutput(r)
  <2> DEFINE slot == Head(outs[r])
  <2>1. /\ pc[r] = "written" /\ pc'[r] = "working" /\ UNCHANGED <<disk, orphan>>
    BY <1>0, <1>7 DEF RecordOutput, Goto, TypeOK
  <2>2. ~orphan'[r]
    BY <2>1 DEF CheckpointInvariant
  <2>3. \A c \in DOMAIN artifacts'[r] : artifacts'[r][c].slot = "checkpoint" =>
          artifacts'[r][c].sha = disk[Path(r, "checkpoint")]
    BY <1>7, HasAfterRecord DEF CheckpointInvariant
  <2>4. \A x \in Derived : Has(r, x)' =>
          Has(r, "checkpoint")' /\ FileModel(r, x) = FileModel(r, "checkpoint")
    BY <1>7, <2>1, HasAfterRecord DEF CheckpointInvariant
  <2>5. \A x : FileModel(r, x)' = FileModel(r, x) /\ Path(r, x)' = Path(r, x)
    BY <2>1 DEF FileModel, Path
  <2> QED
    BY <2>1, <2>2, <2>3, <2>4, <2>5 DEF CheckpointInvariant
<1>8. CASE WriteOutput(r)
  <2> DEFINE slot == Head(outs[r])
  <2>1. /\ outs[r] # << >> /\ pc[r] = "working" /\ pc'[r] = "written"
        /\ UNCHANGED <<artifacts, outs, orphan>>
        /\ disk' = [disk EXCEPT ![Path(r, slot)] =
                      [of |-> r, model |-> OutputModel(r, slot)]]
    BY <1>0, <1>8 DEF WriteOutput, Goto, process, record, TypeOK
  <2>2. /\ slot \in Slots /\ Producer(slot) = stage[r] /\ ~Has(r, slot)
        /\ \A x \in Stage(stage[r]).inputs : Has(r, x)
    BY <1>0, <2>1, HeadTail DEF LoopInvariant, StageInvariant, Busy
  <2>3. ~orphan[r]
    BY <2>1 DEF CheckpointInvariant
  <2>4. CASE slot = "checkpoint"
    BY <1>3, <2>1, <2>2, <2>3, <2>4 DEF Derived
  <2>5. CASE slot # "checkpoint"
    <3>1. \A x \in Slots : x # slot => disk'[Path(r, x)] = disk[Path(r, x)]
      BY <2>1, <2>2, PathInjective, PathType, <1>0 DEF TypeOK
    <3>2. \A x : Has(r, x)' <=> Has(r, x)
      BY <2>1 DEF Has
    <3>3. disk'[Path(r, "checkpoint")] = disk[Path(r, "checkpoint")]
      BY <2>5, <3>1 DEF Slots
    <3>4. \A x \in Derived : Has(r, x) => FileModel(r, x)' = FileModel(r, x)
      BY <2>2, <3>1 DEF FileModel, Path, Derived, Slots
    <3>5. ASSUME slot \in Derived
          PROVE  Has(r, "checkpoint") /\ FileModel(r, slot)' = FileModel(r, "checkpoint")
      <4>1. FileModel(r, slot)' = OutputModel(r, slot)
        BY <1>0, <2>1, <2>2, PathType DEF FileModel, Path, TypeOK
      <4>2. CASE slot = "package"
        <5>1. Has(r, "quantized_model")
          BY <2>2, <4>2, ProducerOf, InputsOf
        <5>2. PICK k \in DOMAIN artifacts[r] : artifacts[r][k].slot = "quantized_model"
          BY <5>1 DEF Has
        <5>3. disk[Path(r, "quantized_model")] = artifacts[r][k].sha
          BY <5>2 DEF WorkspaceVerifiable
        <5>4. artifacts[r][k] \in Artifacts
          BY <1>0, <5>2 DEF TypeOK
        <5>5. disk[Path(r, "quantized_model")] # NoFile
          BY <5>3, <5>4, NoFileAssumption DEF Artifacts
        <5>6. OutputModel(r, slot) = ModelOf(Path(r, "quantized_model"))
          BY <4>2, Zenon DEF OutputModel
        <5>7. OutputModel(r, slot) = FileModel(r, "quantized_model")
          BY <5>5, <5>6 DEF ModelOf, FileModel
        <5> QED
          BY <4>1, <5>1, <5>7 DEF CheckpointInvariant, Derived
      <4>3. CASE slot \in {"eval_report", "quantized_model"}
        <5>1. Has(r, "checkpoint")
          BY <2>2, <4>3, ProducerOf, InputsOf
        <5>2. PICK k \in DOMAIN artifacts[r] : artifacts[r][k].slot = "checkpoint"
          BY <5>1 DEF Has
        <5>3. disk[Path(r, "checkpoint")] = artifacts[r][k].sha
          BY <5>2 DEF CheckpointInvariant
        <5>4. artifacts[r][k] \in Artifacts
          BY <1>0, <5>2 DEF TypeOK
        <5>5. disk[Path(r, "checkpoint")] # NoFile
          BY <5>3, <5>4, NoFileAssumption DEF Artifacts
        <5>6. OutputModel(r, slot) = ModelOf(Path(r, "checkpoint"))
          BY <4>3, Zenon DEF OutputModel
        <5> QED
          BY <4>1, <5>1, <5>5, <5>6 DEF ModelOf, FileModel
      <4> QED
        BY <3>5, <4>2, <4>3 DEF Derived
    <3>6. FileModel(r, "checkpoint")' = FileModel(r, "checkpoint")
      BY <3>3 DEF FileModel, Path
    <3>7. \A c \in DOMAIN artifacts'[r] : artifacts'[r][c].slot = "checkpoint" =>
            artifacts'[r][c].sha = disk'[Path(r, "checkpoint")]
      BY <2>1, <3>3 DEF CheckpointInvariant
    <3>8. Path(r, "checkpoint")' = Path(r, "checkpoint")
      BY DEF Path
    <3>9. \A x \in Derived :
            Has(r, x)' \/ (pc'[r] = "written" /\ Head(outs'[r]) = x) =>
              Has(r, "checkpoint")' /\ FileModel(r, x)' = FileModel(r, "checkpoint")'
      BY <2>1, <3>2, <3>4, <3>5, <3>6 DEF CheckpointInvariant
    <3> QED
      BY <2>1, <2>3, <3>7, <3>8, <3>9 DEF CheckpointInvariant
  <2> QED
    BY <2>4, <2>5
<1> QED
  BY <1>1, <1>2, <1>4, <1>5, <1>6, <1>7, <1>8 DEF StepOf, Step

\* When it is the only run, it keeps this invariant ...
LEMMA CheckpointInvariantHolds ==
    ASSUME \A q, r \in Runs : q = r
    PROVE  Spec => [](\A r \in Runs : CheckpointInvariant(r))
<1> DEFINE Inv == \A r \in Runs : CheckpointInvariant(r)
<1>1. Init => Inv
  BY DEF Init, CheckpointInvariant, Has
<1>2. LoopInvariant /\ WorkspaceVerifiable /\ Inv /\ [Next]_vars => Inv'
  <2> SUFFICES ASSUME LoopInvariant, WorkspaceVerifiable, Inv, [Next]_vars
               PROVE  Inv'
    OBVIOUS
  <2>1. CASE UNCHANGED vars
    BY <2>1 DEF CheckpointInvariant, Has, FileModel, Path, vars, process, record
  <2>2. ASSUME NEW r \in Runs, StepOf(r)
        PROVE  Inv'
    BY <2>2, CheckpointStep
  <2> QED
    BY <2>1, <2>2, NextIsStep
<1> QED
  BY <1>1, <1>2, LoopInvariantHolds, WorkspaceStaysVerifiable, PTL DEF Spec

(***************************************************************************)
(* ... and every evaluation, quantized model and package that its record   *)
(* names was made of the model in the checkpoint that the record names.    *)
(* With two runs the checkpoint may change in between.                     *)
(***************************************************************************)
THEOREM OneRunPackagesItsCheckpoint ==
    ASSUME \A q, r \in Runs : q = r
    PROVE  Spec => []PackagesItsCheckpoint
<1>1. WorkspaceVerifiable /\ (\A r \in Runs : CheckpointInvariant(r)) => PackagesItsCheckpoint
  <2> SUFFICES ASSUME WorkspaceVerifiable, NEW r \in Runs, CheckpointInvariant(r),
                      NEW k \in DOMAIN artifacts[r], NEW c \in DOMAIN artifacts[r],
                      artifacts[r][k].slot \in Derived,
                      artifacts[r][c].slot = "checkpoint"
               PROVE  artifacts[r][k].sha.model = artifacts[r][c].sha.model
    BY DEF PackagesItsCheckpoint, Derived
  <2>1. artifacts[r][c].sha = disk[Path(r, "checkpoint")]
    BY DEF CheckpointInvariant
  <2>2. artifacts[r][k].sha = disk[Path(r, artifacts[r][k].slot)]
    BY DEF WorkspaceVerifiable, Derived
  <2>3. FileModel(r, artifacts[r][k].slot) = FileModel(r, "checkpoint")
    BY DEF CheckpointInvariant, Has
  <2> QED
    BY <2>1, <2>2, <2>3 DEF FileModel
<1> QED
  BY <1>1, CheckpointInvariantHolds, WorkspaceStaysVerifiable, PTL

-----------------------------------------------------------------------------
(***************************************************************************)
(* How much a run has left to do: its stages, each with its outputs and    *)
(* the training steps that it may ask for, and where it is in the loop.    *)
(***************************************************************************)
Over(r) == pc[r] \in Ended \cup {"idle"}

ToTrain(r) ==
    IF worker[r].model.steps < opts[r].steps THEN opts[r].steps - worker[r].model.steps ELSE 0

Place(r) ==
    CASE pc[r] = "created"  -> 2
      [] pc[r] = "next"     -> 1
      [] pc[r] = "starting" -> opts[r].steps + 9
      [] pc[r] = "spawning" -> opts[r].steps + 8
      [] pc[r] = "training" -> ToTrain(r) + 2 * Len(outs[r]) + 2
      [] pc[r] = "working"  -> 2 * Len(outs[r]) + 2
      [] pc[r] = "written"  -> 2 * Len(outs[r]) + 1

RunLeft(r) ==
    IF Over(r) THEN 0 ELSE Cardinality(todo[r]) * (opts[r].steps + 10) + Place(r)

\* The numbers it is made of.
LEMMA RunNumbers ==
    ASSUME TypeOK, NEW r \in Runs
    PROVE  /\ IsFiniteSet(todo[r]) /\ Cardinality(todo[r]) \in Nat
           /\ opts[r].steps \in Nat \ {0} /\ worker[r].model.steps \in Nat
           /\ Len(outs[r]) \in Nat /\ ToTrain(r) \in 0 .. opts[r].steps
           /\ ~Over(r) => Place(r) \in Nat \ {0}
<1>1. IsFiniteSet(StageNames)
  <2>1. IsFiniteSet(1 .. 8)
    <3>1. PICK a \in Int, b \in Int : a = 1 /\ b = 8
      OBVIOUS
    <3>2. IsFiniteSet(a .. b)
      BY FS_Interval
    <3> QED
      BY <3>1, <3>2
  <2>2. StageNames = {STAGE_ORDER[i] : i \in 1 .. 8}
    BY StageNamesAre DEF STAGE_ORDER
  <2> QED
    BY <2>1, <2>2, ValuesAreFinite
<1>2. IsFiniteSet(todo[r]) /\ Cardinality(todo[r]) \in Nat
  <2>1. todo[r] \in SUBSET StageNames
    BY DEF TypeOK
  <2> QED
    BY <1>1, <2>1, FS_Subset, FS_CardinalityType
<1>3. opts[r].steps \in Nat \ {0} /\ worker[r].model.steps \in Nat
  BY OptionsAssumption DEF TypeOK, OptionSpecs, Models
<1>4. Len(outs[r]) \in Nat
  <2>1. outs[r] \in Seq(Slots)
    BY DEF TypeOK
  <2> QED
    BY <2>1
<1>5. ToTrain(r) \in 0 .. opts[r].steps
  BY <1>3 DEF ToTrain
<1>6. ~Over(r) => Place(r) \in Nat \ {0}
  <2>1. ~Over(r) => pc[r] \in {"created", "next", "starting", "spawning", "training", "working",
                              "written"}
    BY DEF Over, TypeOK, PCs
  <2>2. PICK a \in Nat, b \in Nat, c \in Nat : a = opts[r].steps /\ b = ToTrain(r) /\ c = Len(outs[r])
    BY <1>3, <1>4, <1>5
  <2>3. CASE pc[r] = "created"
    BY <2>3 DEF Place
  <2>4. CASE pc[r] = "next"
    BY <2>4 DEF Place
  <2>5. CASE pc[r] \in {"starting", "spawning"}
    <3>1. Place(r) = a + 9 \/ Place(r) = a + 8
      BY <2>2, <2>5 DEF Place
    <3> QED
      BY <3>1
  <2>6. CASE pc[r] \in {"training", "working", "written"}
    BY <2>2, <2>6 DEF Place
  <2> QED
    BY <2>1, <2>3, <2>4, <2>5, <2>6
<1> QED
  BY <1>2, <1>3, <1>4, <1>5, <1>6

\* A product of natural numbers, and one factor less in it.
LEMMA Products ==
    \A n, k \in Nat : n * k \in Nat /\ (n # 0 => n * k = (n - 1) * k + k)
OBVIOUS

\* It is a natural number.
LEMMA RunLeftType == ASSUME TypeOK, NEW r \in Runs PROVE RunLeft(r) \in Nat
<1>1. PICK n \in Nat, k \in Nat : n = Cardinality(todo[r]) /\ k = opts[r].steps + 10
  BY RunNumbers
<1>2. n * k \in Nat
  BY Products
<1> QED
  BY <1>1, <1>2, RunNumbers DEF RunLeft

LeftIsNatural == \A r \in Runs : RunLeft(r) \in Nat

\* Before a step ...
LEMMA RunLeftBefore == TypeOK => LeftIsNatural
BY RunLeftType DEF LeftIsNatural

\* ... and after it.
LEMMA RunLeftAfter == TypeOK' => LeftIsNatural'
BY RunLeftBefore, PTL

\* A stage that begins takes its share.
LEMMA StartIsProgress ==
    ASSUME TypeOK, NEW r \in Runs, StartStage(r)
    PROVE  RunLeft(r)' < RunLeft(r)
<1>1. PICK s \in todo[r] : todo'[r] = todo[r] \ {s}
  BY DEF StartStage, NextStage, TypeOK
<1>2. /\ pc[r] = "next" /\ pc'[r] = "starting" /\ opts'[r] = opts[r]
  BY DEF StartStage, Goto, TypeOK
<1>3. /\ Cardinality(todo'[r]) = Cardinality(todo[r]) - 1
      /\ Cardinality(todo[r]) \in Nat /\ Cardinality(todo[r]) # 0
  <2>1. IsFiniteSet(todo[r]) /\ todo[r] # {}
    BY <1>1, RunNumbers
  <2> QED
    BY <1>1, <2>1, RunNumbers, FS_RemoveElement, FS_EmptySet
<1>4. PICK n \in Nat, k \in Nat : n = Cardinality(todo[r]) /\ k = opts[r].steps + 10 /\ n # 0
  BY <1>3, RunNumbers
<1>5. PICK x \in Nat : x = (n - 1) * k /\ n * k = x + k
  BY <1>4, Products
<1>6. RunLeft(r) = n * k + 1
  BY <1>2, <1>4 DEF RunLeft, Over, Ended, Place
<1>7. opts[r].steps = k - 10 /\ Cardinality(todo'[r]) = n - 1
  BY <1>3, <1>4, RunNumbers
<1>8. Place(r)' = k - 1
  BY <1>2, <1>7 DEF Place
<1>9. RunLeft(r)' = (n - 1) * k + (k - 1)
  BY <1>2, <1>4, <1>7, <1>8 DEF RunLeft, Over, Ended
<1> QED
  BY <1>5, <1>6, <1>9

\* In a stage, what is left is less at every step.
LEMMA InnerProgress ==
    ASSUME TypeOK, NEW r \in Runs, todo'[r] = todo[r], opts'[r] = opts[r],
           ~Over(r), ~Over(r)', Place(r)' \in Nat, Place(r)' < Place(r)
    PROVE  RunLeft(r)' < RunLeft(r)
<1>1. PICK x \in Nat : x = Cardinality(todo[r]) * (opts[r].steps + 10)
  <2>1. PICK n \in Nat, k \in Nat : n = Cardinality(todo[r]) /\ k = opts[r].steps + 10
    BY RunNumbers
  <2> QED
    BY <2>1, Products
<1>2. RunLeft(r) = x + Place(r) /\ RunLeft(r)' = x + Place(r)'
  BY <1>1 DEF RunLeft
<1>3. Place(r) \in Nat
  BY RunNumbers
<1> QED
  BY <1>2, <1>3

\* At the end nothing is left.
LEMMA EndIsProgress ==
    ASSUME TypeOK, NEW r \in Runs, ~Over(r), Over(r)'
    PROVE  RunLeft(r)' < RunLeft(r)
<1>1. PICK n \in Nat, k \in Nat : n = Cardinality(todo[r]) /\ k = opts[r].steps + 10
  BY RunNumbers
<1>2. n * k \in Nat
  BY Products
<1>3. RunLeft(r) = n * k + Place(r) /\ RunLeft(r)' = 0
  BY <1>1 DEF RunLeft
<1>4. Place(r) \in Nat \ {0}
  BY RunNumbers
<1> QED
  BY <1>2, <1>3, <1>4

\* A stage has at most two files to write.
FewOutputs(r) == Len(outs[r]) <= 2

\* A step of a run leaves less to do.
LEMMA StepIsProgress ==
    ASSUME LoopInvariant, NEW r \in Runs, Step(r), FewOutputs(r)
    PROVE  RunLeft(r)' < RunLeft(r)
<1>0. TypeOK
  BY DEF LoopInvariant
<1>1. PICK a \in Nat, b \in Nat, c \in Nat :
        /\ a = opts[r].steps /\ b = ToTrain(r) /\ c = Len(outs[r])
        /\ b <= a /\ c <= 2
  BY <1>0, RunNumbers DEF FewOutputs
<1>2. CASE StartStage(r)
  BY <1>0, <1>2, StartIsProgress
<1>3. CASE MissingInput(r) \/ CrashWithoutLoss(r) \/ Finish(r)
  <2>1. ~Over(r) /\ Over(r)'
    BY <1>0, <1>3
    DEF MissingInput, StageError, CrashWithoutLoss, Finish, Goto, Over, Ended, TypeOK
  <2> QED
    BY <1>0, <2>1, EndIsProgress
<1>4. ASSUME todo'[r] = todo[r], opts'[r] = opts[r], ~Over(r), ~Over(r)',
             NEW x \in Nat, NEW y \in Nat, x < y, Place(r)' = x, Place(r) = y
      PROVE  RunLeft(r)' < RunLeft(r)
  BY <1>0, <1>4, InnerProgress
<1>5. CASE MarkRunning(r)
  <2>1. /\ todo'[r] = todo[r] /\ opts'[r] = opts[r] /\ pc[r] = "created" /\ pc'[r] = "next"
    BY <1>0, <1>5 DEF MarkRunning, Goto, process, TypeOK
  <2>2. ~Over(r) /\ ~Over(r)' /\ Place(r) = 2 /\ Place(r)' = 1
    BY <2>1 DEF Over, Ended, Place
  <2> QED
    BY <1>4, <2>1, <2>2
<1>6. CASE LookUp(r)
  <2>1. /\ todo'[r] = todo[r] /\ opts'[r] = opts[r] /\ pc[r] = "starting"
        /\ pc'[r] \in {"spawning", "working"} /\ outs'[r] = Outputs(r)
    BY <1>0, <1>6 DEF LookUp, Goto, TypeOK
  <2>2. PICK d \in Nat : d = Len(outs'[r]) /\ d <= 2
    <3>1. stage[r] \in StageNames
      BY <1>0 DEF TypeOK
    <3>2. Len(Outputs(r)) \in Nat /\ Len(Outputs(r)) <= 2
      BY <3>1, OutputsOf
    <3> QED
      BY <2>1, <3>2
  <2>3. ~Over(r) /\ ~Over(r)' /\ Place(r) = a + 9
    BY <1>1, <2>1 DEF Over, Ended, Place
  <2>4. CASE pc'[r] = "spawning"
    <3>1. Place(r)' = a + 8
      BY <1>1, <2>1, <2>4 DEF Place
    <3> QED
      BY <1>4, <2>1, <2>3, <3>1
  <2>5. CASE pc'[r] = "working"
    <3>1. Place(r)' = 2 * d + 2
      BY <2>2, <2>5 DEF Place
    <3> QED
      BY <1>4, <2>1, <2>2, <2>3, <3>1
  <2> QED
    BY <2>1, <2>4, <2>5
<1>7. CASE WriteOutput(r)
  <2>1. /\ todo'[r] = todo[r] /\ opts'[r] = opts[r] /\ outs'[r] = outs[r]
        /\ pc[r] = "working" /\ pc'[r] = "written"
    BY <1>0, <1>7 DEF WriteOutput, Goto, process, TypeOK
  <2>2. ~Over(r) /\ ~Over(r)' /\ Place(r) = 2 * c + 2 /\ Place(r)' = 2 * c + 1
    BY <1>1, <2>1 DEF Over, Ended, Place
  <2>3. 2 * c + 1 \in Nat /\ 2 * c + 2 \in Nat /\ 2 * c + 1 < 2 * c + 2
    OBVIOUS
  <2> QED
    BY <1>4, <2>1, <2>2, <2>3
<1>8. CASE RecordOutput(r)
  <2>1. /\ todo'[r] = todo[r] /\ opts'[r] = opts[r] /\ outs'[r] = Tail(outs[r])
        /\ pc[r] = "written" /\ pc'[r] = "working"
    BY <1>0, <1>8 DEF RecordOutput, Goto, TypeOK
  <2>2. outs[r] # << >> /\ outs[r] \in Seq(Slots)
    BY <1>0, <2>1 DEF LoopInvariant, StageInvariant, TypeOK
  <2>3. Len(outs'[r]) = c - 1 /\ c # 0
    BY <1>1, <2>1, <2>2, HeadTailProperties, EmptySeq
  <2>4. ~Over(r) /\ ~Over(r)' /\ Place(r) = 2 * c + 1 /\ Place(r)' = 2 * (c - 1) + 2
    BY <1>1, <2>1, <2>3 DEF Over, Ended, Place
  <2>5. /\ 2 * (c - 1) + 2 \in Nat /\ 2 * c + 1 \in Nat
        /\ 2 * (c - 1) + 2 < 2 * c + 1
    BY <2>3
  <2> QED
    BY <1>4, <2>1, <2>4, <2>5
<1>9. CASE ReturnStage(r)
  <2>1. /\ todo'[r] = todo[r] /\ opts'[r] = opts[r] /\ outs[r] = << >>
        /\ pc[r] = "working" /\ pc'[r] = "next"
    BY <1>0, <1>9 DEF ReturnStage, Goto, process, TypeOK
  <2>2. ~Over(r) /\ ~Over(r)' /\ Place(r) = 2 /\ Place(r)' = 1
    BY <2>1 DEF Over, Ended, Place
  <2> QED
    BY <1>4, <2>1, <2>2
<1>10. CASE StartWorker(r)
  <2>1. /\ todo'[r] = todo[r] /\ opts'[r] = opts[r] /\ outs'[r] = outs[r]
        /\ pc[r] = "spawning" /\ pc'[r] = "training"
    BY <1>0, <1>10 DEF StartWorker, Goto, TypeOK
  <2>2. PICK d \in Nat : d = ToTrain(r)' /\ d <= a
    <3>1. worker'[r].model.steps \in Nat
      BY <1>0, <1>10, TypeStep DEF StepOf, TypeOK, Models
    <3> QED
      BY <1>1, <2>1, <3>1 DEF ToTrain
  <2>3. ~Over(r) /\ ~Over(r)' /\ Place(r) = a + 8 /\ Place(r)' = d + 2 * c + 2
    BY <1>1, <2>1, <2>2 DEF Over, Ended, Place
  <2> QED
    BY <1>1, <1>4, <2>1, <2>2, <2>3
<1>11. CASE WorkerSaves(r)
  <2>1. /\ todo'[r] = todo[r] /\ opts'[r] = opts[r] /\ outs'[r] = outs[r]
        /\ pc[r] = "training" /\ pc'[r] = "training"
    BY <1>0, <1>11 DEF WorkerSaves, TypeOK
  <2>2. PICK m \in Ahead(r) : worker'[r].model = m
    BY <1>0, <1>11 DEF WorkerSaves, Save, TypeOK
  <2>3. PICK u \in Nat, v \in Nat :
          u = worker[r].model.steps /\ v = worker'[r].model.steps /\ u < v /\ v <= a
    BY <1>0, <1>1, <2>2, RunNumbers DEF Ahead, TypeOK, Models
  <2>4. b = a - u /\ ToTrain(r)' = a - v
    BY <1>1, <2>1, <2>3 DEF ToTrain
  <2>5. ~Over(r) /\ ~Over(r)' /\ Place(r) = b + 2 * c + 2 /\ Place(r)' = (a - v) + 2 * c + 2
    BY <1>1, <2>1, <2>4 DEF Over, Ended, Place
  <2>6. /\ (a - v) + 2 * c + 2 \in Nat /\ b + 2 * c + 2 \in Nat
        /\ (a - v) + 2 * c + 2 < b + 2 * c + 2
    <3>1. \A i, j, k, l \in Nat : k < l /\ l <= i =>
            /\ (i - l) + 2 * j + 2 \in Nat /\ (i - k) + 2 * j + 2 \in Nat
            /\ (i - l) + 2 * j + 2 < (i - k) + 2 * j + 2
      OBVIOUS
    <3> QED
      BY <3>1, <2>3, <2>4
  <2> QED
    BY <1>4, <2>1, <2>5, <2>6
<1>12. CASE WorkerDone(r)
  <2>1. /\ todo'[r] = todo[r] /\ opts'[r] = opts[r] /\ outs'[r] = outs[r]
        /\ pc[r] = "training" /\ pc'[r] = "written"
    BY <1>0, <1>12 DEF WorkerDone, Goto, TypeOK
  <2>2. ~Over(r) /\ ~Over(r)' /\ Place(r) = b + 2 * c + 2 /\ Place(r)' = 2 * c + 1
    BY <1>1, <2>1 DEF Over, Ended, Place
  <2> QED
    BY <1>4, <2>1, <2>2
<1> QED
  BY <1>2, <1>3, <1>5, <1>6, <1>7, <1>8, <1>9, <1>10, <1>11, <1>12 DEF Step

\* Nothing that another process does, and no fault, gives a run more to do.
LEMMA RunLeftStep ==
    ASSUME LoopInvariant, NEW r \in Runs, NEW q \in Runs, StepOf(q), FewOutputs(r),
           pc[r] # "idle"
    PROVE  RunLeft(r)' <= RunLeft(r)
<1>0. TypeOK /\ RunLeft(r) \in Nat
  BY RunLeftType DEF LoopInvariant
<1>1. CASE Over(r)'
  BY <1>0, <1>1 DEF RunLeft
<1>2. CASE Step(r)
  <2>1. RunLeft(r)' < RunLeft(r)
    BY <1>2, StepIsProgress
  <2>2. TypeOK'
    BY <1>0, TypeStep
  <2>3. RunLeft(r)' \in Nat
    BY <2>2, RunLeftAfter DEF LeftIsNatural
  <2> QED
    BY <1>0, <2>1, <2>3
<1>3. ASSUME pc'[r] = pc[r], opts'[r] = opts[r], todo'[r] = todo[r], outs'[r] = outs[r],
             ~Over(r)', worker'[r] = worker[r] \/ OrphanSaves(r)
      PROVE  RunLeft(r)' <= RunLeft(r)
  <2>1. PICK a \in Nat, b \in Nat, c \in Nat, d \in Nat :
          /\ a = opts[r].steps /\ b = ToTrain(r) /\ c = Len(outs[r]) /\ d = ToTrain(r)' /\ d <= b
    <3>1. PICK u \in Nat, v \in Nat :
            u = worker[r].model.steps /\ v = worker'[r].model.steps /\ u <= v
      <4>1. CASE worker'[r] = worker[r]
        BY <1>0, <4>1, RunNumbers
      <4>2. CASE OrphanSaves(r)
        <5>1. PICK m \in Ahead(r) \cup {worker[r].model} : worker'[r].model = m
          BY <1>0, <4>2 DEF OrphanSaves, Save, TypeOK
        <5>2. CASE m = worker[r].model
          BY <1>0, <5>1, <5>2, RunNumbers
        <5>3. CASE m \in Ahead(r)
          BY <1>0, <5>1, <5>3, RunNumbers DEF Ahead, TypeOK, Models
        <5> QED
          BY <5>1, <5>2, <5>3
      <4> QED
        BY <1>3, <4>1, <4>2
    <3>2. PICK a \in Nat : a = opts[r].steps
      BY <1>0, RunNumbers
    <3>3. /\ ToTrain(r) = IF u < a THEN a - u ELSE 0
          /\ ToTrain(r)' = IF v < a THEN a - v ELSE 0
      BY <1>3, <3>1, <3>2 DEF ToTrain
    <3>4. ToTrain(r) \in Nat /\ ToTrain(r)' \in Nat /\ ToTrain(r)' <= ToTrain(r)
      <4>1. \A i, j, k \in Nat : j <= k =>
              /\ (IF j < i THEN i - j ELSE 0) \in Nat /\ (IF k < i THEN i - k ELSE 0) \in Nat
              /\ (IF k < i THEN i - k ELSE 0) <= (IF j < i THEN i - j ELSE 0)
        OBVIOUS
      <4> QED
        BY <3>1, <3>3, <4>1
    <3> QED
      BY <1>0, <3>2, <3>4, RunNumbers
  <2>2. PICK n \in Nat, k \in Nat : n = Cardinality(todo[r]) /\ k = a + 10
    BY <1>0, <2>1, RunNumbers
  <2>3. PICK x \in Nat : x = n * k
    BY Products
  <2>4. ~Over(r) /\ RunLeft(r) = x + Place(r) /\ RunLeft(r)' = x + Place(r)'
    BY <1>3, <2>1, <2>2, <2>3 DEF RunLeft, Over
  <2>5. CASE pc[r] = "training"
    <3>1. Place(r) = b + 2 * c + 2 /\ Place(r)' = d + 2 * c + 2
      BY <1>3, <2>1, <2>5 DEF Place
    <3> QED
      BY <2>1, <2>4, <3>1
  <2>6. CASE pc[r] # "training"
    <3>1. Place(r)' = Place(r)
      BY <1>3, <2>6 DEF Place
    <3>2. Place(r) \in Nat
      BY <1>0, <2>4, RunNumbers
    <3> QED
      BY <2>4, <3>1, <3>2
  <2> QED
    BY <2>5, <2>6
<1>4. ASSUME q # r, ~Over(r)'
      PROVE  RunLeft(r)' <= RunLeft(r)
  <2>1. worker'[r] = worker[r]
    BY <1>0, <1>4
    DEF TypeOK, StepOf, Step, Refuse, Create, MarkRunning, StartStage, MissingInput, BadData,
        StageError, LookUp, WriteOutput, RecordOutput, ReturnStage, CrashWithoutLoss, Finish,
        Crash, Kill, StartWorker, WorkerSaves, WorkerDone, OrphanSaves, OrphanExits, Save,
        process, record
  <2> QED
    BY <1>0, <1>3, <1>4, <2>1, FrameStep
<1>5. ASSUME q = r, ~Step(r), ~Over(r)'
      PROVE  RunLeft(r)' <= RunLeft(r)
  <2>1. CASE OrphanSaves(r)
    BY <1>3, <1>5, <2>1 DEF OrphanSaves
  <2>2. CASE OrphanExits(r)
    BY <1>3, <1>5, <2>2 DEF OrphanExits, record
  <2>3. CASE Refuse(r) \/ Create(r) \/ BadData(r) \/ Crash(r) \/ Kill(r)
    BY <1>0, <1>5, <2>3
    DEF Refuse, Create, BadData, StageError, Crash, Kill, Goto, Over, Ended, TypeOK
  <2> QED
    BY <1>5, <2>1, <2>2, <2>3 DEF StepOf
<1> QED
  BY <1>1, <1>2, <1>4, <1>5

\* A stage that looks its inputs up has at most two files to write, and no step adds one.
LEMMA FewOutputsStep ==
    ASSUME TypeOK, NEW r \in Runs, NEW q \in Runs, StepOf(q), FewOutputs(r), StageInvariant(r)
    PROVE  FewOutputs(r)'
<1>1. CASE outs'[r] = outs[r]
  BY <1>1 DEF FewOutputs
<1>2. CASE LookUp(r)
  <2>1. stage[r] \in StageNames /\ outs'[r] = Outputs(r)
    BY <1>2 DEF LookUp, TypeOK
  <2> QED
    BY <2>1, OutputsOf DEF FewOutputs
<1>3. CASE RecordOutput(r)
  <2>1. outs[r] # << >> /\ outs[r] \in Seq(Slots) /\ outs'[r] = Tail(outs[r])
    BY <1>3 DEF RecordOutput, Goto, StageInvariant, TypeOK
  <2>2. Len(outs'[r]) = Len(outs[r]) - 1 /\ Len(outs[r]) \in Nat
    BY <2>1, HeadTailProperties
  <2> QED
    BY <2>2 DEF FewOutputs
<1>4. outs'[r] = outs[r] \/ LookUp(r) \/ RecordOutput(r)
  <2>1. CASE q # r
    BY <2>1, FrameStep
  <2>2. CASE q = r
    BY <2>2
    DEF StepOf, Step, Refuse, Create, MarkRunning, StartStage, MissingInput, BadData,
        StageError, WriteOutput, ReturnStage, CrashWithoutLoss, Finish, Crash, Kill,
        StartWorker, WorkerSaves, WorkerDone, OrphanSaves, OrphanExits, process, record
  <2> QED
    BY <2>1, <2>2
<1> QED
  BY <1>1, <1>2, <1>3, <1>4

(***************************************************************************)
(* Every run wears down: what it has left to do is a natural number that   *)
(* each step of its process or its worker lowers, and that no other run,   *)
(* no orphan and no fault raises once the run is created.                  *)
(***************************************************************************)
THEOREM RunsWearDown ==
    Spec => /\ []LeftIsNatural
            /\ [][\A r \in Runs :
                    /\ pc[r] # "idle" => RunLeft(r)' <= RunLeft(r)
                    /\ Step(r) => RunLeft(r)' < RunLeft(r)]_vars
<1> DEFINE Few  == \A r \in Runs : FewOutputs(r)
           Less == \A r \in Runs :
                     /\ pc[r] # "idle" => RunLeft(r)' <= RunLeft(r)
                     /\ Step(r) => RunLeft(r)' < RunLeft(r)
<1>1. Init => Few
  BY DEF Init, FewOutputs
<1>2. LoopInvariant /\ Few /\ [Next]_vars => Few'
  <2>1. ASSUME LoopInvariant, Few, NEW q \in Runs, StepOf(q)
        PROVE  Few'
    BY <2>1, FewOutputsStep DEF LoopInvariant
  <2>2. ASSUME Few, UNCHANGED vars
        PROVE  Few'
    BY <2>2 DEF FewOutputs, vars, process
  <2> QED
    BY <2>1, <2>2, NextIsStep
<1>3. LoopInvariant => LeftIsNatural
  BY RunLeftBefore DEF LoopInvariant
<1>4. LoopInvariant /\ Few /\ [Next]_vars => [Less]_vars
  <2> SUFFICES ASSUME LoopInvariant, Few, NEW q \in Runs, StepOf(q), NEW r \in Runs
               PROVE  /\ pc[r] # "idle" => RunLeft(r)' <= RunLeft(r)
                      /\ Step(r) => RunLeft(r)' < RunLeft(r)
    BY NextIsStep
  <2> QED
    BY RunLeftStep, StepIsProgress
<1> HIDE DEF Few, Less
<1>5. Spec => []LeftIsNatural /\ [][Less]_vars
  BY <1>1, <1>2, <1>3, <1>4, LoopInvariantHolds, PTL DEF Spec
<1> QED
  BY <1>5 DEF Less
=============================================================================
