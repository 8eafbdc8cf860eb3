----------------------------- MODULE TrainWorker -----------------------------
(***************************************************************************)
(* The training worker (core/pipeline/workers/train_worker.py): processes  *)
(* that load the initial weights, resume from the project's checkpoint,    *)
(* train, and save the checkpoint again with a temporary file and a        *)
(* rename.  All workers of one project share one checkpoint directory and  *)
(* no lock.  A process may be killed between any two steps; so may its     *)
(* parent, which leaves the worker an orphan whose next write to stdout    *)
(* fails.                                                                  *)
(*                                                                         *)
(* Weights are abstracted to what determines them: the initial weights     *)
(* they come from and the sequence of batches the optimizer has consumed.  *)
(* A checkpoint file is a directory entry that names an inode, so that an  *)
(* open handle keeps writing to the file it opened after a rename.         *)
(*                                                                         *)
(* Seed, dataset, block size and batch size (Order, NBlocks, BatchSize) are *)
(* those of the project and do not change from one worker to the next.  The *)
(* code takes them from each job and compares none with the checkpoint's:  *)
(* the module says nothing of a job resumed under other ones.              *)
(***************************************************************************)
EXTENDS Integers, Sequences, FiniteSets

CONSTANTS
    Workers,     \* process slots; a slot is reused once its process is gone
    Inodes,      \* files that can exist in the checkpoint directory
    NoInode,     \* an absent directory entry, a closed handle
    Torn,        \* contents of a file that torch.load cannot read
    Jobs,        \* job specs a user may ask for
    Archs,       \* model architectures, told apart by their tensor shapes
    NBlocks,     \* blocks in the tokenized dataset, len(order)
    BatchSize,   \* batch_size
    Order,       \* torch.randperm(len(blocks)) under the job's seed
    Overlap,     \* which workers may be alive when another one starts
    MaxSpawns,   \* bound: processes ever started
    MaxFaults    \* bound: processes killed and saves that run out of disk

Blocks == 0 .. NBlocks - 1

\* max_steps and checkpoint_every come from the command line (any integer);
\* "short" says that the dataset has fewer tokens than one block of the job.
JobSpecs == [max_steps : Int, every : Int, arch : Archs, short : BOOLEAN]

ASSUME WorkersAssumption == IsFiniteSet(Workers)
ASSUME InodesAssumption  == NoInode \notin Inodes
ASSUME JobsAssumption    == Jobs \subseteq JobSpecs /\ Jobs # {} /\ Archs # {}
ASSUME DataAssumption    ==
    /\ NBlocks \in Nat \ {0}
    /\ BatchSize \in Nat \ {0}
    /\ Order \in [Blocks -> Blocks]
    /\ \A b \in Blocks : \E i \in Blocks : Order[i] = b
ASSUME OverlapAssumption == Overlap \in {"none", "orphans", "any"}
ASSUME BoundAssumption   == MaxSpawns \in Nat /\ MaxFaults \in Nat

(***************************************************************************)
(* The batch of a training step.  It depends on the step alone, and        *)
(* gradient accumulation repeats it: batch_ids is the same list in every   *)
(* round of the accumulation loop.                                         *)
(***************************************************************************)
\* Variant (off by one): the last block of the dataset is never used.
BatchShortOrder(step) ==
    [i \in 1 .. BatchSize |-> Order[(step * BatchSize + i - 1) % (NBlocks - 1)]]

Batch(step) ==
    [i \in 1 .. BatchSize |-> Order[(step * BatchSize + i - 1) % NBlocks]]

Batches   == [1 .. BatchSize -> Blocks]
Weights   == [arch : Archs, init : Nat, hist : Seq(Batches)]
Snapshots == [model : Weights, step : Nat]

ASSUME TornAssumption == Torn \notin Snapshots

-----------------------------------------------------------------------------
VARIABLES
    pc,       \* where each worker is in run()
    job,      \* the job spec it was given
    model,    \* its weights and optimizer state
    step,     \* its local variable step
    loss,     \* its last_loss: "nan" until a step of this process
    ending,   \* the save under way is the one after the loop
    handle,   \* the file torch.save has open
    mixed,    \* the open file has been opened by another worker too
    parent,   \* the process that reads its stdout is alive
    dir,      \* checkpoint_last.tmp and checkpoint_last.pt
    data,     \* contents of each file
    spawned,  \* processes started so far
    faults    \* kills and failed writes so far

local == <<job, model, step, loss, ending>>
files == <<dir, data, handle, mixed>>
vars  == <<pc, local, files, parent, spawned, faults>>

Live == {"resume", "tokenize", "loop", "open", "write", "rename",
         "saved"}
PCs  == Live \cup {"off", "done", "failed"}

NoWeights == [arch |-> CHOOSE a \in Archs : TRUE, init |-> 0, hist |-> << >>]

TypeOK ==
    /\ pc \in [Workers -> PCs]
    /\ job \in [Workers -> Jobs]
    /\ model \in [Workers -> Weights]
    /\ step \in [Workers -> Nat]
    /\ loss \in [Workers -> {"nan", "num"}]
    /\ ending \in [Workers -> BOOLEAN]
    /\ handle \in [Workers -> Inodes \cup {NoInode}]
    /\ mixed \in [Workers -> BOOLEAN]
    /\ parent \in [Workers -> BOOLEAN]
    /\ dir \in [{"tmp", "last"} -> Inodes \cup {NoInode}]
    /\ data \in [Inodes -> Snapshots \cup {Torn}]
    /\ spawned \in Nat
    /\ faults \in Nat

Init ==
    /\ pc = [w \in Workers |-> "off"]
    /\ job = [w \in Workers |-> CHOOSE j \in Jobs : TRUE]
    /\ model = [w \in Workers |-> NoWeights]
    /\ step = [w \in Workers |-> 0]
    /\ loss = [w \in Workers |-> "nan"]
    /\ ending = [w \in Workers |-> FALSE]
    /\ handle = [w \in Workers |-> NoInode]
    /\ mixed = [w \in Workers |-> FALSE]
    /\ parent = [w \in Workers |-> FALSE]
    /\ dir = [n \in {"tmp", "last"} |-> NoInode]
    /\ data = [i \in Inodes |-> Torn]
    /\ spawned = 0
    /\ faults = 0

-----------------------------------------------------------------------------
\* checkpoint_every = max(1, int(...)): zero and negative values mean 1.
Every(w) == IF job[w].every > 1 THEN job[w].every ELSE 1

\* Variant: checkpoint_every is ignored.
SaveDueAtEnd(w, n) == n = job[w].max_steps

\* Whether the step that brought the worker to n is followed by a save.
SaveDue(w, n) == n % Every(w) = 0 \/ n = job[w].max_steps

\* The worker goes to a step of run() that has nothing to report ...
Goto(w, next) == pc' = [pc EXCEPT ![w] = next]

\* ... or first emits an event.  With the parent gone the pipe is broken: the
\* write raises, reporting the error raises again, and the process exits.
EmitGoto(w, next) == Goto(w, IF parent[w] THEN next ELSE "failed")

\* Which workers may still be alive when a new one is started.
MayStart ==
    \A v \in Workers :
        pc[v] \in Live => \/ Overlap = "any"
                          \/ Overlap = "orphans" /\ ~parent[v]

\* The user runs pretrain: a new process loads the weights that this run's
\* model-init has drawn at random, told apart by the number of the run.
Spawn(w) ==
    /\ pc[w] \notin Live
    /\ MayStart
    /\ spawned < MaxSpawns
    /\ spawned' = spawned + 1
    /\ \E j \in Jobs :
         /\ job' = [job EXCEPT ![w] = j]
         /\ model' = [model EXCEPT ![w] = [arch |-> j.arch, init |-> spawned + 1,
                                           hist |-> << >>]]
    /\ step' = [step EXCEPT ![w] = 0]
    /\ loss' = [loss EXCEPT ![w] = "nan"]
    /\ ending' = [ending EXCEPT ![w] = FALSE]
    /\ parent' = [parent EXCEPT ![w] = TRUE]
    /\ Goto(w, "resume")
    /\ UNCHANGED <<files, faults>>

\* Variant: the checkpoint is never looked for.
StartFreshAlways(w) ==
    /\ pc[w] = "resume"
    /\ Goto(w, "tokenize")
    /\ UNCHANGED <<local, files, parent, spawned, faults>>

\* Without a checkpoint the worker seeds the generator and starts at step 0.
StartFresh(w) ==
    /\ pc[w] = "resume"
    /\ dir["last"] = NoInode
    /\ Goto(w, "tokenize")
    /\ UNCHANGED <<local, files, parent, spawned, faults>>

\* Variant: only a checkpoint of this very model_init is accepted.
LoadableSameInit(w, c) == c # Torn /\ c.model.init = model[w].init

Loadable(w, c) == c # Torn /\ c.model.arch = job[w].arch

\* Variant: the weights are restored and start_step is not.
ResumeAtStepZero(w) ==
    /\ pc[w] = "resume"
    /\ dir["last"] # NoInode
    /\ LET ckpt == data[dir["last"]] IN
         /\ Loadable(w, ckpt)
         /\ model' = [model EXCEPT ![w] = ckpt.model]
    /\ EmitGoto(w, "tokenize")
    /\ UNCHANGED <<job, step, loss, ending, files, parent, spawned, faults>>

\* Variant (off by one): the step of the checkpoint is done once more.
ResumeOneBack(w) ==
    /\ pc[w] = "resume"
    /\ dir["last"] # NoInode
    /\ LET ckpt == data[dir["last"]] IN
         /\ Loadable(w, ckpt)
         /\ model' = [model EXCEPT ![w] = ckpt.model]
         /\ step' = [step EXCEPT ![w] = ckpt.step - 1]
    /\ EmitGoto(w, "tokenize")
    /\ UNCHANGED <<job, loss, ending, files, parent, spawned, faults>>

Resume(w) ==
    /\ pc[w] = "resume"
    /\ dir["last"] # NoInode
    /\ LET ckpt == data[dir["last"]] IN
         /\ Loadable(w, ckpt)
         /\ model' = [model EXCEPT ![w] = ckpt.model]
         /\ step' = [step EXCEPT ![w] = ckpt.step]
    /\ EmitGoto(w, "tokenize")
    /\ UNCHANGED <<job, loss, ending, files, parent, spawned, faults>>

\* torch.load raises on a torn file, load_state_dict on other tensor shapes.
ResumeFails(w) ==
    /\ pc[w] = "resume"
    /\ dir["last"] # NoInode
    /\ ~Loadable(w, data[dir["last"]])
    /\ Goto(w, "failed")
    /\ UNCHANGED <<local, files, parent, spawned, faults>>

Tokenize(w) ==
    /\ pc[w] = "tokenize"
    /\ Goto(w, IF job[w].short THEN "failed" ELSE "loop")
    /\ UNCHANGED <<local, files, parent, spawned, faults>>

TrainStep(w) ==
    /\ pc[w] = "loop"
    /\ step[w] < job[w].max_steps
    /\ model' = [model EXCEPT ![w].hist = Append(@, Batch(step[w]))]
    /\ step' = [step EXCEPT ![w] = @ + 1]
    /\ loss' = [loss EXCEPT ![w] = "num"]
    /\ EmitGoto(w, IF SaveDue(w, step[w] + 1) THEN "open" ELSE "loop")
    /\ UNCHANGED <<job, ending, files, parent, spawned, faults>>

\* Variant: the save after the loop, redundant at first sight, is left out.
LoopExitWithoutSave(w) ==
    /\ pc[w] = "loop"
    /\ step[w] >= job[w].max_steps
    /\ ending' = [ending EXCEPT ![w] = TRUE]
    /\ Goto(w, "saved")
    /\ UNCHANGED <<job, model, step, loss, files, parent, spawned, faults>>

\* Variant (off by one): the loop is left one step after it stops training.
LoopExitLate(w) ==
    /\ pc[w] = "loop"
    /\ step[w] > job[w].max_steps
    /\ ending' = [ending EXCEPT ![w] = TRUE]
    /\ Goto(w, "open")
    /\ UNCHANGED <<job, model, step, loss, files, parent, spawned, faults>>

\* The loop ends and the worker saves once more, at whatever step it is.
LoopExit(w) ==
    /\ pc[w] = "loop"
    /\ step[w] >= job[w].max_steps
    /\ ending' = [ending EXCEPT ![w] = TRUE]
    /\ Goto(w, "open")
    /\ UNCHANGED <<job, model, step, loss, files, parent, spawned, faults>>

InUse(i) == i \in {dir["tmp"], dir["last"]} \cup {handle[v] : v \in Workers}

\* Variant: the checkpoint is written in place, without a temporary file.
OpenInPlace(w) ==
    /\ pc[w] = "open"
    /\ \E i \in Inodes :
         /\ IF dir["last"] # NoInode THEN i = dir["last"] ELSE ~InUse(i)
         /\ dir' = [tmp |-> i, last |-> i]
         /\ data' = [data EXCEPT ![i] = Torn]
         /\ handle' = [handle EXCEPT ![w] = i]
         /\ UNCHANGED mixed
    /\ Goto(w, "write")
    /\ UNCHANGED <<local, parent, spawned, faults>>

\* torch.save opens checkpoint_last.tmp: it truncates the file that is there,
\* whoever is writing to it, or creates one.
OpenTmp(w) ==
    /\ pc[w] = "open"
    /\ \E i \in Inodes :
         /\ IF dir["tmp"] # NoInode THEN i = dir["tmp"] ELSE ~InUse(i)
         /\ dir' = [dir EXCEPT !["tmp"] = i]
         /\ data' = [data EXCEPT ![i] = Torn]
         /\ handle' = [handle EXCEPT ![w] = i]
         /\ LET others == {v \in Workers \ {w} : handle[v] = i}
            IN  mixed' = [v \in Workers |->
                            IF v = w THEN others # {}
                            ELSE mixed[v] \/ v \in others]
    /\ Goto(w, "write")
    /\ UNCHANGED <<local, parent, spawned, faults>>

Snapshot(w) == [model |-> model[w], step |-> step[w]]

\* The last byte is written and the file closed.  Two writers of one file may
\* leave the bytes of either or a mixture that does not load.
WriteTmp(w) ==
    /\ pc[w] = "write"
    /\ \E c \in {Snapshot(w)} \cup (IF mixed[w] THEN {Torn} ELSE {}) :
         data' = [data EXCEPT ![handle[w]] = c]
    /\ handle' = [handle EXCEPT ![w] = NoInode]
    /\ mixed' = [mixed EXCEPT ![w] = FALSE]
    /\ Goto(w, "rename")
    /\ UNCHANGED <<local, dir, parent, spawned, faults>>

\* tmp.replace(path) installs whatever file bears the temporary name now.
Replace(w) ==
    /\ pc[w] = "rename"
    /\ dir["tmp"] # NoInode
    /\ dir' = [tmp |-> NoInode, last |-> dir["tmp"]]
    /\ Goto(w, "saved")
    /\ UNCHANGED <<local, data, handle, mixed, parent, spawned, faults>>

\* Another worker has moved the temporary file away: FileNotFoundError.
ReplaceFails(w) ==
    /\ pc[w] = "rename"
    /\ dir["tmp"] = NoInode
    /\ Goto(w, "failed")
    /\ UNCHANGED <<local, files, parent, spawned, faults>>

\* emit("artifact") in the loop, emit("done") after it.
ReportSaved(w) ==
    /\ pc[w] = "saved"
    /\ EmitGoto(w, IF ending[w] THEN "done" ELSE "loop")
    /\ UNCHANGED <<local, files, parent, spawned, faults>>

\* A process that goes closes its file and leaves the file as it is.
Close(w) ==
    /\ handle' = [handle EXCEPT ![w] = NoInode]
    /\ mixed' = [mixed EXCEPT ![w] = FALSE]
    /\ UNCHANGED <<local, dir, data, spawned>>

\* torch.save raises half way (no space left): an error like any other.
WriteFails(w) ==
    /\ pc[w] = "write"
    /\ faults < MaxFaults
    /\ faults' = faults + 1
    /\ Goto(w, "failed")
    /\ Close(w)
    /\ UNCHANGED parent

\* The worker is killed (Ctrl-C reaches it together with its parent).
Kill(w) ==
    /\ pc[w] \in Live
    /\ faults < MaxFaults
    /\ faults' = faults + 1
    /\ Goto(w, "off")
    /\ Close(w)
    /\ UNCHANGED parent

\* The parent alone is killed: the worker goes on until it emits something.
KillParent(w) ==
    /\ pc[w] \in Live
    /\ parent[w]
    /\ faults < MaxFaults
    /\ faults' = faults + 1
    /\ parent' = [parent EXCEPT ![w] = FALSE]
    /\ UNCHANGED <<pc, local, files, spawned>>

Step(w) ==
    \/ StartFresh(w) \/ Resume(w) \/ ResumeFails(w)
    \/ Tokenize(w) \/ TrainStep(w) \/ LoopExit(w)
    \/ OpenTmp(w) \/ WriteTmp(w) \/ Replace(w) \/ ReplaceFails(w)
    \/ ReportSaved(w)

Fault(w) == WriteFails(w) \/ Kill(w) \/ KillParent(w)

Next == \E w \in Workers : Spawn(w) \/ Step(w) \/ Fault(w)

Spec == Init /\ [][Next]_vars

\* A worker that can take a step takes it.
FairSpec == Spec /\ \A w \in Workers : WF_vars(Step(w))

-----------------------------------------------------------------------------
Saved == dir["last"] # NoInode
Ckpt  == data[dir["last"]]

\* A worker between the resume and the end of run() has a step to speak of.
Training(w) == pc[w] \in Live \ {"resume"} \/ pc[w] = "done"

\* The batches that n steps consume when nothing ever interrupts them.
Uninterrupted(n) == [k \in 1 .. n |-> Batch(k - 1)]

(***************************************************************************)
(* Resuming is exact: whatever was killed, and however many workers trained *)
(* at once, a readable file and a running worker at step n have consumed    *)
(* exactly the batches that n uninterrupted steps consume.                  *)
(***************************************************************************)
CanonicalHistory ==
    /\ \A i \in Inodes :
         data[i] # Torn => data[i].model.hist = Uninterrupted(data[i].step)
    /\ \A w \in Workers : Training(w) => model[w].hist = Uninterrupted(step[w])

\* How often the optimizer has consumed a block.
Uses(hist, b) ==
    Cardinality({p \in (1 .. Len(hist)) \X (1 .. BatchSize) : hist[p[1]][p[2]] = b})

(***************************************************************************)
(* No block of the dataset is favoured: across kills and resumes the blocks *)
(* have been consumed equally often, or once more (the index into order     *)
(* wraps around at the end of the dataset).                                 *)
(***************************************************************************)
BalancedUse ==
    \A w \in Workers : Training(w) =>
        \A a, b \in Blocks : Uses(model[w].hist, a) <= Uses(model[w].hist, b) + 1

\* A kill at any point of a save leaves a checkpoint that loads, if there was
\* one: the temporary file and the rename in _save_checkpoint.
CheckpointReadable == Saved => Ckpt # Torn

\* A checkpoint once saved is only ever replaced by one at the same or a later
\* step, trained from the same initial weights.
NoProgressLost ==
    [][Saved => /\ Saved' /\ Ckpt' # Torn
                /\ Ckpt'.step >= Ckpt.step
                /\ Ckpt'.model.init = Ckpt.model.init]_vars

SavedStep == IF Saved THEN Ckpt.step ELSE 0

\* A kill never costs more than checkpoint_every steps of training.
LostWorkBounded ==
    \A w \in Workers : Training(w) /\ pc[w] # "done" =>
        step[w] - SavedStep <= Every(w)

\* When the worker reports "done" the checkpoint on disk is the model it has in
\* memory, trained for as many steps as the job asked for.
DoneIsDurable ==
    [][\A w \in Workers : pc[w] # "done" /\ pc'[w] = "done" =>
          /\ Saved /\ Ckpt = Snapshot(w)
          /\ step[w] >= job[w].max_steps]_vars

\* A worker fails only for a cause the user can see: too little data, another
\* architecture than the checkpoint's, a dead parent, no space left.
OnlyDeclaredFailures ==
    [][\A w \in Workers : pc[w] # "failed" /\ pc'[w] = "failed" =>
          \/ job[w].short
          \/ ~parent[w]
          \/ pc[w] = "resume" /\ Ckpt # Torn /\ Ckpt.model.arch # job[w].arch
          \/ faults' = faults + 1]_vars

\* A worker comes to an end, whatever max_steps and checkpoint_every are and
\* however far the checkpoint is that it resumes from.
EveryWorkerEnds == \A w \in Workers : pc[w] \in Live ~> pc[w] \notin Live
=============================================================================
