# TLA+ verification of Whittle

Whittle builds a small language model on one machine: raw text in, a packaged GGUF
model out. This directory holds TLA+ models of the parts of it that keep state across
steps, processes and runs, the TLC configurations that model-check them, and proofs
checked by TLAPS. Paths below are relative to the repository's root (`src/` in
`PROJECT.json`).

## The system

| Part | Code | State it keeps | Operations |
|---|---|---|---|
| Pipeline orchestration | `core/pipeline/pipeline.py`, `registry.py`, `context.py` | the loop over the selected stages | `plan`, `run`: select, gate, create a run, run the stages, mark the run |
| Run store | `core/pipeline/runs.py` | `run.json` (status, stages, artifacts), `events.jsonl`, `artifacts/` per run | create, save, record an artifact with its sha256, append an event, load, list |
| Stages | `core/pipeline/stages/` | files in the run's workspace | look up input artifacts, write outputs, record them |
| Worker call | `stages/pretrain.py` | two pipes, last `done` and `error` event | spawn, forward events, wait, judge, record the checkpoint |
| Training worker | `core/pipeline/workers/train_worker.py` | model, optimizer, step; `checkpoint_last.pt` of the *project* | load, resume, train, save, report |
| Data ingest | `stages/data_ingest.py` | documents seen, train and val files | parse, deduplicate, split by hash |
| Tokenizer and packing | `stages/tokenizer_train.py`, `stages/_dataset.py`, `core/training/data.py` | none | select a side of the split, train on it, count it, cut it into blocks |
| Hardware profiler | `core/hardware/profiler.py` | none | probe the machine with fallbacks, choose the adapter |
| Sizing | `core/sizing/engine.py`, `core/catalog.py`, `core/models.py` | none | estimate memory, disk and time, classify |
| Editions | `core/editions.py`, `core/licensing.py` | the license file, the clock | resolve, require |
| Project | `core/project.py` | `project.json` | create, load, refresh |
| Front ends | `apps/cli/main.py`, `apps/desktop/main.py` | the desktop's queue and poll | one command; detect in a thread and render |
| Numerics | `core/training/model.py`, `core/runtime/gguf_export.py` | none | tensors, GGUF |

How they interact. A command line makes a `Pipeline`, which creates one run record and
calls the selected stages in canonical order. Stages communicate through the record
alone: each looks up the most recent artifact of an earlier stage and records its own.
`pretrain` starts the worker as a process of its own; they share no memory but three
channels (stdout, stderr, exit code) and a file, the checkpoint. The checkpoint belongs
to the project, so it is also the channel between a run and every later or concurrent
run of the same project. Nothing is locked.

Before a run there is a project: `project create` and `project refresh` ask the profiler
and the fit engine and write `project.json`, which the user also edits; the desktop
window asks the same two and writes nothing. The edition, resolved anew by each command
from the environment, the license file and the clock, decides which sizes may be created
and which variants of the pipeline may run.

What is hard about it:

* a process can be killed between any two steps, with or without its parent, and the
  next command picks up what is on disk;
* a worker outlives a killed parent until it next writes to its pipe, and may save once
  more next to its successor;
* stdout and stderr are bounded, and the parent reads one after the other;
* the verdict on a worker is put together from an exit code, a `done` and an `error`
  event;
* a record is the only evidence of a run, written many times, by a process that may fail
  in the middle with or without a `StageError`;
* `run.json` and `project.json` are truncated and then written, in place, under the eyes
  of readers and of other writers, and run ids are drawn at random;
* the split of the documents must say the same of a text in every run, whatever has been
  added to the corpus since;
* commands act on what they read before a probe that takes seconds.

The full list, each at its line, is `hazards` in `PROJECT.json`.

## Modules

| Module | Models | Lines |
|---|---|---|
| `TrainWorker` | worker processes of one project and the checkpoint directory they share | `train_worker.py` |
| `TrainWorkerProofs` | theorems about `TrainWorker` | |
| `JobCall` | what a call of the worker promises the pipeline (abstract) | `pretrain.py` |
| `JobProtocol` | one parent and one worker, their pipes and exceptions; implements `JobCall` | `pretrain.py`, `train_worker.py` |
| `JobProtocolProofs` | theorems about `JobProtocol` | |
| `PipelineSchema` | one record per stage: what it looks up, declares as output and cites as provenance | `schemas/pipeline.py`, `stages/*.py` |
| `BuildRun` | what a run record promises its readers (abstract) | `pipeline.py`, `runs.py` |
| `Pipeline` | runs of one project: orchestration, records, files; each implements `BuildRun` | `pipeline.py`, `runs.py`, `context.py`, `stages/*.py` |
| `PipelineProofs` | theorems about `Pipeline` | |
| `RunRecords` | the record of a run, as readers tell records apart | `schemas/pipeline.py` |
| `RunLedger` | what the run store promises a reader who tries again (abstract) | `runs.py` |
| `RunStore` | run directories, `run.json` and `events.jsonl` under commands, kills and a reader; implements `RunLedger` | `runs.py`, `pipeline.py` |
| `RunStoreProofs` | theorems about `RunStore` | |
| `DataIngest` | sources, documents, split, tokenizer's text and blocks, over runs | `data_ingest.py`, `tokenizer_train.py`, `_dataset.py`, `training/data.py` |
| `DataIngestProofs` | theorems about `DataIngest` | |
| `Sizing` | catalog and fit engine, as operators | `engine.py`, `catalog.py`, `core/models.py` |
| `Profiler` | what the fit engine gets to know of a machine, as operators | `profiler.py` |
| `Entitlements` | resolution of the edition, as operators | `editions.py`, `licensing.py` |
| `Workbench` | terminals, window and user around one project file; composes the three above | `apps/cli/main.py`, `apps/desktop/main.py`, `project.py` |
| `WorkbenchProofs` | theorems about `Workbench` | |
| `SizingProofs` | lemmas about `Sizing` and `Profiler`, for `WorkbenchProofs` | |
| `Counting` | lemmas about least numbers, induction, remainders and finite counts, shared by the proofs | |
| `MC*` | instances for TLC | |

`Pipeline` takes a save of `run.json` as one step; `RunStore` opens it up, and says when
a reader may take it so. `Pipeline` treats a training worker as three actions (start,
save, done); `JobProtocol` opens the call up and treats a save as one action; `TrainWorker` opens the save up. A
definition whose comment begins with "Variant" is a plausible bug in the definition that
follows it; no specification uses it, and the property it breaks is listed under
`mutants` in `PROJECT.json`.

### TrainWorker

`pc[w]` follows `run()`: `resume` (load `model_init`, look for the checkpoint),
`tokenize`, `loop`, and for a save `open` (`torch.save` truncates the temporary file),
`write`, `rename`, `saved` (the event that follows). Weights are told apart by what
determines them: the random initialization they come from and the sequence of batches
the optimizer has consumed. `dir` maps the two file names to files and `data` the files
to contents, so that a process keeps writing to the file it opened after another one has
renamed it. `Overlap` says which workers may be alive when one starts: `none`, only
`orphans` (their parent is gone), or `any`. A job's `max_steps` and `checkpoint_every`
are any integers, as on the command line. Dataset, seed, block size and batch size are
one for all jobs: the code compares none of them with the checkpoint (train_worker.py:68-75,
94-99, 114), so what a run with other ones resumes has no uninterrupted run to be compared
with, and `CanonicalHistory` and `BalancedUse` say nothing of it.

Loading a checkpoint is one action: a rename replaces the directory entry and never
changes an open file. Power loss (unsynced data) is not modelled, only processes that
die.

### JobProtocol

`wpc` follows the worker's `run()` and `main()`, `ppc` the parent's `run()` and
`_run_worker()`. A write to a full pipe is an action that is not enabled. A write to a
pipe whose reader is gone raises; `main` then tries to report that and raises again.
Lines are kind, step and loss, and a NaN loss is `null` in JSON. An exception in the
parent leaves the `with Popen(...)` block, which closes the pipes and waits.
`NoCheckpoint` and `Unrecorded` are -1 and -2, so that steps can be compared.

### Pipeline

`pc[r]` follows `Pipeline.run` of run `r`: refused before anything is created, or
`created`, `next` (the top of the loop), `starting` (inputs are looked up), `working`
and `written` (before and after an output is in its file, recorded by the step back to
`working`), `spawning` and `training` (pretrain only), and one of the ends. A step ends
at every save of the record and every write of a file. `Path` says where a slot's file
is: the run's workspace, or, for the checkpoint, the project. Contents of a file are
whose it is and the model in it; a sha256 is the contents. A missing input and bad data
are `StageError`s; `Crash` is any other exception; `Kill` may leave an orphan worker.

A stage result with a status other than `succeeded` (`pipeline.py:88`) does not occur:
no stage returns one. Artifact and run ids are unique.

### RunStore

`pc[c]` follows the calls that `Pipeline.run` makes of the store: `create_run` (directory,
record, first event), `set_status`, and per stage `set_stage_status`, an event, any number
of `record_artifact`, and the verdict. Each save is two actions, `BeginSave` (the record
in memory has changed and `open("w")` has truncated the file) and `EndSave`; a kill may
come between them, and so may the reader, or another command that has drawn the same id:
ids have a resolution of one second plus three random bytes and an existing directory is
accepted (runs.py:110-113). `Mixed` is a file with the text of one record and the tail of
another, which two such commands can leave. The reader lists the directories that are
there when it begins, in order, or loads one run; it keeps nothing of what it reads.

What a reader is promised is `RunLedger`: a record appears once, advances, ends for ever,
and becomes unreadable only with the death of its command. The refinement mapping takes a
truncated file of a live command as the record in memory: a reader who tries again sees
it. Nothing is promised of a shared directory (`shared`).

### DataIngest

A run reads its sources one line per action, in the order of `--input`. A line is a text,
or one of the values that the code tells apart: blank, the empty text, not JSON, JSON
without a text, too long; what becomes of it depends on the format of the source. The
hash of the split is any function `Bucket` of seed and text into `0 .. Scale - 1`, a
ratio is a fraction of `Scale`. A document is its number in the order in which documents
are kept, a file of the split a set of numbers. Between runs a user appends lines to
sources. `tokenizer-train`, `pretrain` and `evaluate` then select their side and pack it
as `tokenize_to_blocks` does: all tokens with an end mark after each text, cut into
blocks of `block_size + 1`.

### Workbench, Sizing, Profiler, Entitlements

`Sizing` computes in integers: memory and disk in 1/100 GB, times in 1/10 h, free disk in
1/1000 GB, since a free disk that rounds to 0.0 GB is treated as unknown. It was compared
with the engine on 144,000 combinations of hardware, size and knobs; they differ by at
most 0.01 GB, where a decimal fraction that should be a tie is not one in binary.
`Profiler` keeps what the engine uses: cores, available memory, free disk and one
adapter, chosen among those WMI lists (discrete before integrated, then by memory), whose
memory is the larger of the 32-bit WMI field and the registry's. The query may fail or
time out, then there is no adapter.

In `Workbench` a command profiles (`profiling`), is about to save (`ready`), and has
truncated `project.json` (`saving`); it acts on the project it loaded at its start. The
window is an event loop with a timer, a daemon thread and a queue between them. The
machine, the license file, `SG2_EDITION` and the clock change at any time. A `FitResult`
is represented by the arguments of `Evaluate` it was computed from, and `readings` is the
set of profiles that the profiler may return: values that cost much to compute are
computed where a property needs them. `intent`, `paid` and the field `note` are history:
what the user last asked the file to be (undecided while a refresh that will write an
older text is under way), whether a good license was ever installed, and who wrote the
project last.

## Runs

| Run | Question | Bounds |
|---|---|---|
| `train_resume` | one worker at a time, killed and run again with other options | 3 blocks in batches of 2 (the order wraps inside a batch), 5 jobs (also zero, negative, too few tokens, another architecture), 3 processes, 2 faults |
| `train_overlap` | two workers at once | 1 job with three saves, 3 processes, 1 fault, symmetry of workers and files |
| `job_protocol` | the call, over small pipes | 3 steps, stdout of 2 lines, stderr of 1, 1 foreign line, 1 kill; first run, resumed run, run with nothing to do |
| `pipeline_one` | every choice of stages in one run | 256 subsets, with and without val split, refused or not, three leftovers, 1 fault |
| `pipeline_two` | two runs, overlapping or not | 2 commands (one without evaluate to a package, one with), 1 fault, symmetry of runs |
| `run_store` | commands and a reader at the files of the store | 2 commands, 2 ids (equal or not), 1 stage, 1 artifact, 1 kill or exception |
| `data_ingest` | the text of two runs | 3 sources of every format, 36 corpora, 4 texts, 18 requests, blocks of 3 tokens, 1 line added in each place |
| `workbench` | project file, advice, editions, window | 2 terminals and the window, 3 machines, 4 license files, 2 times, 3 commands, 1 edit, kill or change |
| `train_orphan`, `job_rerun`, `pipeline_resume`, `pipeline_verify` | see Findings | as small as shows it |

Why the bounds are enough to be worth running: the interesting cases of a save are
reached with one save on each side of a kill, and `train_resume` has up to three
processes with up to five saves each; two faults allow a fault during the recovery from
a fault. A stdout pipe of two lines makes every write wait at some point, and a stderr
pipe of one makes it fill. One run of the pipeline has no parameter that repeats except
the stages, all subsets of which are taken. In `run_store` every hazard is one of two
saves that meet in one directory, or of a kill inside a save: two commands and one kill
reach each, and a second stage adds only a longer loop. In `data_ingest` a duplicate can
be in one source or in two, on a line before or after, and both runs can have either
order of sources; 4 hash values put a text on each side of every ratio. In `workbench` two
terminals give every order of the loads and saves of two commands, and the third command
or the window comes on top; the three machines are a workstation with two cards whose
names contain each other, the same when it is busy, its disk nearly full and its registry
key without a description, and a server without Windows, cores or free disk. Deadlock is
checked in `run_store`, where a reader can always begin again, and nowhere else: the other
models end when their processes have.

Fairness is that of the operating system's scheduler: weak fairness of the steps of a
worker (`TrainWorker`), of the worker and of the parent (`JobProtocol`), of a run and
its worker (`Pipeline`), of a command and of the reader (`RunStore`), of a command, the
detection thread and the timer (`Workbench`; every probe of the profiler has a timeout, and
Tk fires its timers). `RunStore` also lets the reader list again and again, which is what
`ListingAnswers` is about. No fault, no bad data, no user command is fair.

### What the runs show

* After any kill the checkpoint on disk loads, never goes back, keeps its origin, and
  is at most `checkpoint_every` steps behind (`CheckpointReadable`, `NoProgressLost`,
  `LostWorkBounded`), as long as workers do not overlap.
* A resumed model has consumed exactly the batches of an uninterrupted one, and no block
  more than once more often than another, whatever overlaps (`CanonicalHistory`,
  `BalancedUse`).
* `done` is reported when the checkpoint in place is the model in memory
  (`DoneIsDurable`), and a worker fails only for a visible cause (`OnlyDeclaredFailures`).
* The parent gives one outcome, after the worker is gone, having read all its lines;
  it returns normally only with the finished checkpoint recorded (`ImplementsCall`,
  `EveryLineRead`, `NoSuccessLost`). It always ends, but for a full stderr pipe
  (`TerminatesUnlessStderrFull`).
* A record that says `succeeded` has every selected stage and every declared output, one
  that says `failed` shows where, by the one stage it leaves `running`, as no stage is ever
  marked failed (`SuccessIsComplete`, `FailureShowsItsStage`); records
  are runs as `BuildRun` describes and only grow (`RunsImplementBuild`, `RecordOnlyGrows`).
* Overlapping runs keep their workspaces apart (`WorkspaceVerifiable`), and a run that
  nobody interferes with packages the model its checkpoint artifact records
  (`PackagesItsCheckpoint`).
* The checkpoint of an evaluation report leads back, by the ids in its provenance, to the
  training side of the split and to nothing of the side it is evaluated on
  (`EvaluationIsHeldOut`); data-ingest records both under one stage and one kind.
* `run.json` is the record in memory whenever no save is open (`WriteThrough`), a record
  that has ended is explained by its log, also in a shared directory (`EndIsExplained`),
  and records advance as `RunLedger` says (`ImplementsLedger`). A listing fails for ever
  only because of a record that stays unreadable (`ListingAnswers`); a record says
  `running` for ever only when its command died (`UnendedIsDead`); this takes for granted
  that a stage returns, and the one that may not is the call with a full stderr pipe.
* Ingest keeps every text once, or as often as it occurs, on one side (`IngestIsExact`);
  a text held out by one run is not trained on by a later one with the same seed and a
  ratio at least as large (`SplitIsStable`); the tokenizer learns from all of the train
  side, which is not empty (`LearnsFromTrain`); packing loses a tail shorter than a block,
  and what is evaluated has not been learned (`PackingKeepsTokens`).
* A project file that loads is what its user last asked for, unless a refresh was under
  way: the edit that such a refresh overwrites is lost in the code and undecided in
  `intent` (`EditsSurvive`); the recommendation in it belongs to the hardware beside it, which
  the machine has (`AdviceFitsProject`, whose clause on plans compares equal arguments of
  the engine; a memory reported of another card, whose name contains this one's, passes);
  a larger model is never told to fit better, nor a
  smaller machine (`AdviceIsMonotone`).
* Paid features need a good license, time takes them away and gives none, and no larger
  model is created before a license (`OnlyALicenseGrants`); the last is of `create` alone:
  the code takes a hand-edited `model.name` of any size without asking for the edition, and
  `Edit` leaves the size as it is; the gates of a pipeline run are in `Pipeline`. Commands and the window come
  to an answer, once (`WindowAnswers`).

### Findings

* `train_orphan`: a worker whose parent was killed can truncate the temporary file that
  its successor is about to rename; the checkpoint is then unreadable until the orphan has
  written the rest. When the orphan dies too before that, it stays so, and every later run
  of the project fails. README.md:17 promises resumption after a kill.
* `job_rerun`: a run that resumes at `max_steps` trains nothing, its final loss is
  `null`, and formatting it raises a `TypeError` after the artifact was recorded; the
  run stays `running`.
* `pipeline_resume`: `--stage pretrain` alone fails for want of a dataset artifact in
  its own new record, where README.md:75 says that it resumes.
* `pipeline_verify`: the sha256 recorded for a checkpoint is that of a file the next run
  overwrites, where docs/pipeline.md:48 says that a later stage can verify it.

`job_rerun` has no loss that diverges; those are in `job_protocol`.

More divergences met while modelling have no run of their own:

* a second complete run trains the first run's weights although its checkpoint's
  provenance names its own `model_init` (model_init.py:3);
* `evaluate` needs a val split that its plan does not declare and the default
  `--val-ratio 0.0` never makes (evaluate.py:36);
* docs/hardware-sizing.md:30 caps the status when free disk is short, but a disk whose
  free space rounds to 0.0 GB is not gated at all (engine.py:331), so the fullest disk is
  told the best; `AtLeastAs`, the premise of `AdviceIsMonotone`, leaves it out;
* docs/hardware-sizing.md:3 says that the estimate is of the project's `ModelConfig`, but
  `project create --with-hardware` evaluates a default architecture (main.py:165) until
  the first refresh; `AdviceFitsProject` states which of the two the file has;
* docs/datasets.md:13 says that empty strings are skipped, but the JSON string `""` (or
  an empty `text` field) in a JSONL file becomes a document, is counted and split, and is
  passed over only by those who read it (data_ingest.py:261-279, training/data.py:43);
* the docstring at editions.py:134-136 says that a malformed license file is treated as none,
  but one that is not UTF-8 raises a `UnicodeDecodeError` (editions.py:142-143), with which
  every command that resolves the edition ends, and the desktop window; `Undecodable` in `Entitlements`;
* the profiler takes the memory of an adapter from any registry key whose description
  matches its name (profiler.py), also from one that a removed card has left behind; the
  upper bound in `GpuIsPresent` has the condition that there is none (`RegistryIsCurrent`,
  true of the machines of `workbench`), the lower bound has not;
* when the adapter query fails, the estimate lacks the accelerator's overhead and is
  lower than with an adapter, so a failed probe looks more optimistic; the order of
  machines in `AdviceIsMonotone` compares adapters of one vendor.

## Proofs

Every invariant, action property and refinement that a passing run checks is proved, for
every value of the constants that the named assumptions of the modules admit. The
assumptions say what kind of thing a constant is and, where it matters, what the code
guarantees of it: a training configuration has Pydantic's bounds (`TrainingsAssumption`),
a machine has finitely many registry keys (`KeysAssumption`), the files of two runs have
different names (`NamesAssumption`). Theorems that hold for one worker or one run at a time
have that as a hypothesis.

`TrainWorkerProofs` proves, for any number of workers, jobs, blocks, faults and spawns:

* `TypeCorrect`: `TypeOK` is invariant. The batch of a step is a function into the
  blocks because the order is and the index is taken modulo its length.
* `ResumeIsExact`: `CanonicalHistory` is invariant, with overlap of any kind. It is
  inductive by itself together with `TypeOK`: a step appends the batch of its own number,
  a save copies model and step together, a load does too, and a file that two processes
  write holds the bytes of one of them or does not load.
* `BlocksAreUsedEvenly`: `BalancedUse`, with overlap of any kind. The batches of a canonical
  history are consecutive places of a sequence that goes round the blocks, and among
  consecutive numbers the remainders are spread evenly (`EvenlySpread` in `Counting`).
* `CheckpointSurvives` (assuming `Overlap = "none"`): the checkpoint is loadable whenever
  it exists. The inductive invariant, `SaveInvariant`, says that at most one worker is
  alive, which files are the temporary and the last one in each part of a save, and what
  they contain; without it a rename could install anything.
* `ProgressSurvives` (same assumption): `NoProgressLost`, from the same invariant and the
  fact that the live worker's step is at least the checkpoint's.
* `KillCostsLittle`, `DoneMeansSaved`, `FailuresAreDeclared` (same assumption):
  `LostWorkBounded`, `DoneIsDurable` and `OnlyDeclaredFailures`, from `LossInv`: in the loop
  a worker is ahead of the checkpoint by at most its step modulo `checkpoint_every`, which
  grows with the step until a save is due (`ModNext`), after a resume at any step too.
* `WorkersWearDown`: `WorkLeft`, five for each training step to come (one, and four of a
  save) and the place in `run()`, is a natural number, positive while the worker is alive,
  that each of its steps lowers and nothing that anybody else does raises. A worker does
  not go round in circles, whatever `max_steps` and `checkpoint_every` are.

`JobProtocolProofs` proves, for pipes of any capacity and any number of steps, warnings,
foreign lines and kills:

* `CallTypeCorrect`: `TypeOK`, the capacities of the pipes included, is inductive.
* `AllIsRead`, `SuccessIsKept`: `EveryLineRead` and `NoSuccessLost`, from `CallInv`: a
  `done` in the pipe or with the parent means a checkpoint of `max_steps` (`DoneIsTrue`),
  an `error` means exit code 1 (`ErrorIsTrue`), exit code 0 that a `done` was written and
  not dropped (`SuccessIsSaid`), and beyond the read loop the worker is gone and the pipe
  empty (`CallerOrder`).
* `ProtocolIsACall`: the refinement `ImplementsCall`. A save of the worker maps to `Save`
  because a worker is never behind the checkpoint it may save over (`SaveOrder`), its exit
  or kill to `WorkerGone`, the recording to `Record`, and the ends to `Return`, `Raise` and
  `CallerKilled`.
* `CallIsFinite`: `CallWork`, made of the worker's steps, the lines in the pipe, the places of
  both processes and what the bounds leave of warnings, foreign lines and kills, is a
  natural number that every step of the call lowers. So a call that does not end is one
  in which nobody can move; `job_protocol` shows that this is the full stderr pipe only.

`PipelineProofs` proves, for any number of runs, command lines, leftover checkpoints and
faults:

* `RunTypeCorrect`: `TypeOK` is invariant. It is not inductive: a hash of a missing file
  or a provenance that names a missing artifact would have no type. `LoopInvariant` adds
  that in the loop body the inputs of the stage are recorded, that what it has still to
  write is its own and not recorded, that a slot is recorded once and only when the loop
  has reached its stage, and that what is about to be hashed is there.
* `WorkspaceStaysVerifiable`: from the same invariant, with the facts that the files of two
  runs and of two slots are different (`PathInjective`, from `NamesAssumption`) and that no
  slot is written after it was recorded.
* `EvaluationsAreHeldOut`: `EvaluationIsHeldOut`. That an artifact names, of its own
  record, artifacts of exactly the slots that its stage cites (`CitesItsInputs`) is inductive with
  `LoopInvariant`; so a report leads over checkpoint, initial weights and tokenizer to the
  training side, and the slots that a checkpoint may lead to are a set that the ids do not
  leave and that the held-out side is not in.
* `SuccessVouches`: `BuildInvariant` says that the selected stages are those that
  succeeded, the one in progress and those to come, and that what a stage declares is
  recorded or still to be written.
* `RunsAreBuilds`: the refinement `RunsImplementBuild`. Every step of a run maps to a
  step of `BuildRun` or to none; both invariants are needed, for canonical order in
  `StageSucceeds` and for the guards of `Succeed` and `Fail`.
* `FailureIsShown`, `RecordsGrow`: `FailureShowsItsStage` (a failed record has one stage
  left `running`, and those that succeeded are before it) and `RecordOnlyGrows`, from
  `TrailInvariant`: only the stage in progress is `running`, the succeeded stages rank
  before it, every artifact is of a stage that has begun, and a run whose status is an end
  has left the loop.
* `OneRunPackagesItsCheckpoint` (assuming that there is one run): `PackagesItsCheckpoint`,
  from `CheckpointInvariant`: nobody saves the checkpoint once it is recorded, not even an
  orphan, and what has been made of it, on disk and recorded or about to be, has its model.
* `RunsWearDown`: `RunLeft`, a share for each stage to come (more than the training steps
  that it may ask for) and the place in the current one, is a natural number that each
  step of the run or its worker lowers; no other run, no orphan and no fault raises it.
  It takes that a stage has at most two files to write (`FewOutputs`).

`RunStoreProofs` proves, for any number of commands, stages, ids and kills:

* `StoreTypeCorrect`, `RecordIsWrittenThrough`: from `IInv`, which adds to `TypeOK` and
  `WriteThrough` that a command has an id exactly when it has begun (`Placed`), that status and
  stages fit the place in the loop (`Told`), and that a directory which nobody has drawn,
  or only a command that has not written yet, has no record (`Unwritten`).
* `StoreIsALedger`: the refinement `ImplementsLedger`. A save maps to `Advance` when it
  begins, the end of a save to a stutter, a kill inside a save to `Lose`, a second
  command in a directory to `Share`.
* `EndsAreExplained`: `EndIsExplained`, from `EInv`: what a command has logged at each of
  its calls, counting its own lines only (`Logged`); that it has logged nothing in
  another directory (`Elsewhere`); and that a record of it that can be read is the one in
  its memory (`OwnFile`). Two commands in one directory mix their lines, but keep the
  order of each.
* `CommandsWearDown`, `ReturnsAreShown`: the calls and artifacts still to come and the second
  half of a save are a natural number, `WorkLeft`, that each step of a command lowers and
  nothing else raises; and a command that has returned, in a directory of its own, has
  left a record on disk that says how the run ended (`Concluded`, `WriteThrough`). These
  are the two halves of `UnendedIsDead` that do not need fairness.

`DataIngestProofs` proves, for any corpus, hash, requests and number of runs:

* `IngestTypeCorrect`, `HeldOutStaysHeldOut`, `TokenizerLearnsFromTrain`: from the
  invariant that every workspace is `Sound`: val is inside the split of its documents and
  train outside, whatever has been written so far, and what was learned is the train
  side. Two sound workspaces agree on a text because `Split` is a function of text, seed
  and ratio that grows with the ratio.
* `IngestKeepsEveryText`: `IngestIsExact`, from `EInv`: what the workspace has kept at any
  line is what the lines read so far define (`Kept`), each text once or as often as it
  occurs, and documents and duplicates add up to the lines that are documents.
* `PackingLosesOnlyATail`: `PackingKeepsTokens`, from `PInv`: blocks begin at the multiples of
  their size that leave room for one, so their number is a quotient and what is lost a
  remainder (`MultiplesWithRoom`). Val texts are not learned because a text is on one side.

`WorkbenchProofs` proves, for any terminals, machines, licenses and knobs:

* `EditsAreKept`: `EditsSurvive`, from the invariant that while the user's intent is
  known, the file and every refresh under way have it (`Intended`).
* `LicensesGrant`: the action property `OnlyALicenseGrants`, from `Licensed` and the fact
  that a license that is good was good at every earlier time.
* `WorkbenchTypeCorrect`: `TypeOK`, from `AInv`, the same with what commands and window carry.
  That a profile of any machine is hardware takes that there is a best adapter and a
  greatest registry value, by induction over finite sets (`FiniteInduction`).
* `AdviceIsForTheMachine`: `AdviceFitsProject`. What is in the file, or about to be, is as its
  last writer should leave it (`Fresh`); the chosen adapter is one of the machine's, with
  the preference of the code; a plan's figures are the fit engine's, of the same project.
* `MoreIsNeverWorse`: `AdviceIsMonotone`. Rounding, the safety margin, each component of the
  estimate and the time grow with the size, the classes fall with what is required and
  grow with what is there; `SizingProofs` has one lemma for each, by the monotony of
  products and quotients.
* `WindowIsServed`: the safety part of `WindowAnswers`, from `Awaited`: a window renders once,
  and one that detects has its timer and an answer or the thread that will give it.

Left to TLC: liveness under fairness and `ENABLED`, which the prover does not do, that is
`EveryWorkerEnds`, `TerminatesUnlessStderrFull`, `EveryRunEnds`, `ListingAnswers`,
`UnendedIsDead` and the `~>` parts of `WindowAnswers`. Of all but `ListingAnswers`, the theorems
above prove what does not need fairness: the number that goes down, the state at the end,
or that somebody is there to answer. That a process with work left can move, and what
follows with fairness, is what the runs show.

The library's induction theorems take an operator, which no installed backend can
instantiate. `Counting` states induction over a *set* instead (`LeastNatural`,
`NaturalInduction`, `FiniteInduction`), from the well-foundedness of the finite subsets;
that is enough for what counts, sums or reads a log line by line (`LinesBy`).

## Plan

1. `TrainWorker`, `JobCall`, `JobProtocol` (done): the checkpoint and the worker call.
2. `PipelineSchema`, `BuildRun`, `Pipeline` (done): runs and records.
3. `RunRecords`, `RunLedger`, `RunStore` (done): the files of a record.
4. `DataIngest` (done): the text of a build.
5. `Sizing`, `Profiler`, `Entitlements`, `Workbench` (done): the project and its front
   ends.
6. Proofs (done) of the invariants, action properties and refinements of the passing runs,
   and of what holds up the liveness properties. Left is the reader's progress under
   `ListingAnswers`, and that a process with work left satisfies the guard of some step.

## Not modelled

* `core/training/model.py`: tensor numerics. Architectures are told apart by their shapes
  in `TrainWorker` and `Sizing`.
* `core/runtime/gguf_export.py`, and the bytes that `quantize` and `package` write:
  conversions of a file format without state; which model goes into which file is in
  `Pipeline`.
* BPE and Unigram training and Ed25519: library calls. Which text goes in is in
  `DataIngest`; whether a signature verifies is a flag of a license in `Entitlements`.
* Parts of a hardware profile that are only printed (driver, runtime, CPU model), the
  wording of reasons and reports, widgets, argument parsing.
* `core/safety/paths.py`: `safe_resolve` is only called with constant names, and
  `safe_extract` is not implemented.
* Power loss: files are as the operating system holds them, only processes die.
