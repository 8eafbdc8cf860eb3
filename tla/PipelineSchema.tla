---------------------------- MODULE PipelineSchema ----------------------------
(***************************************************************************)
(* The vocabulary of the pipeline (schemas/pipeline.py) and, per stage of  *)
(* the registry, what its plan declares and what its run looks up          *)
(* (core/pipeline/stages).  A slot is an output file of a stage: the kinds *)
(* of artifact, with the two roles of a dataset apart.                     *)
(***************************************************************************)
EXTENDS Naturals, Sequences

STAGE_ORDER == << "data-ingest", "tokenizer-train", "model-init", "pretrain",
                  "evaluate", "quantize", "package", "on-device-smoke-test" >>

StageNames  == {STAGE_ORDER[i] : i \in DOMAIN STAGE_ORDER}
Rank(stage) == CHOOSE i \in DOMAIN STAGE_ORDER : STAGE_ORDER[i] = stage

Slots == {"dataset", "dataset.val", "tokenizer", "model_init", "checkpoint",
          "eval_report", "quantized_model", "package"}

\* ArtifactKind
Kind(slot) == IF slot = "dataset.val" THEN "dataset" ELSE slot

\* produced_by_stage of the artifacts in a slot.
Producer(slot) ==
    CASE slot \in {"dataset", "dataset.val"} -> "data-ingest"
      [] slot = "tokenizer"                  -> "tokenizer-train"
      [] slot = "model_init"                 -> "model-init"
      [] slot = "checkpoint"                 -> "pretrain"
      [] slot = "eval_report"                -> "evaluate"
      [] slot = "quantized_model"            -> "quantize"
      [] slot = "package"                    -> "package"

(***************************************************************************)
(* A stage of the registry: the inputs that its run looks up (a StageError *)
(* when one is missing), the kinds of artifact that its plan declares as   *)
(* outputs, and the inputs whose ids go into the provenance of what it     *)
(* records.                                                                *)
(***************************************************************************)
DataIngestStage ==
    [inputs |-> {}, outputs |-> {"dataset"}, cited |-> {}]

TokenizerTrainStage ==
    [inputs |-> {"dataset"}, outputs |-> {"tokenizer"}, cited |-> {"dataset"}]

ModelInitStage ==
    [inputs |-> {"tokenizer"}, outputs |-> {"model_init"}, cited |-> {"tokenizer"}]

PretrainStage ==
    [inputs |-> {"dataset", "model_init", "tokenizer"}, outputs |-> {"checkpoint"},
     cited |-> {"model_init"}]

EvaluateStage ==
    [inputs |-> {"checkpoint", "dataset.val", "tokenizer"},
     outputs |-> {"eval_report"}, cited |-> {"checkpoint"}]

QuantizeStage ==
    [inputs |-> {"checkpoint", "tokenizer"}, outputs |-> {"quantized_model"},
     cited |-> {"checkpoint", "tokenizer"}]

PackageStage ==
    [inputs |-> {"quantized_model", "tokenizer"}, outputs |-> {"package"}, cited |-> {}]

OnDeviceSmokeTestStage ==
    [inputs |-> {"package"}, outputs |-> {}, cited |-> {}]

Stage(name) ==
    CASE name = "data-ingest"          -> DataIngestStage
      [] name = "tokenizer-train"      -> TokenizerTrainStage
      [] name = "model-init"           -> ModelInitStage
      [] name = "pretrain"             -> PretrainStage
      [] name = "evaluate"             -> EvaluateStage
      [] name = "quantize"             -> QuantizeStage
      [] name = "package"              -> PackageStage
      [] name = "on-device-smoke-test" -> OnDeviceSmokeTestStage

\* REMOTE_STAGE_FEATURES (core/pipeline/registry.py).  No stage of the default
\* pipeline has a required_feature of its own.
RemoteStages == {"pretrain", "package", "on-device-smoke-test"}
=============================================================================
