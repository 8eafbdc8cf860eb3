----------------------------- MODULE JobProtocol -----------------------------
(***************************************************************************)
(* The job protocol between PretrainStage (core/pipeline/stages/           *)
(* pretrain.py) and one worker process (core/pipeline/workers/             *)
(* train_worker.py): JobEvents through a bounded stdout pipe, warnings     *)
(* through a bounded stderr pipe that the parent reads only at the end,    *)
(* the exit code, the exceptions of either side, and kills of either side. *)
(* A blocked write is an action that is not enabled.  The save itself is   *)
(* one step here; TrainWorker has its parts.                               *)
(***************************************************************************)
EXTENDS Integers, Sequences

CONSTANTS
    MaxSteps,   \* max_steps of the job
    EveryStep,  \* checkpoint_every, at least 1
    FirstSteps, \* steps at which earlier runs may have left the checkpoint
    OutCap,     \* capacity of the stdout pipe, in lines
    ErrCap,     \* capacity of the stderr pipe, in writes
    MaxWarns,   \* bound: writes to stderr
    MaxNoise,   \* bound: lines on stdout that are not JobEvents
    MaxKills,   \* bound: processes killed
    MayDiverge, \* the loss may become NaN
    MayRaise    \* the worker may meet bad input

ASSUME ProtocolAssumption ==
    /\ MaxSteps \in Int
    /\ EveryStep \in Nat \ {0}
    /\ FirstSteps \subseteq Nat \cup {-1}
    /\ OutCap \in Nat \ {0} /\ ErrCap \in Nat \ {0}
    /\ {MaxWarns, MaxNoise, MaxKills} \subseteq Nat
    /\ {MayDiverge, MayRaise} \subseteq BOOLEAN

Kinds == {"progress", "metric", "log", "artifact", "done", "error", "noise"}

\* NaN has no JSON form: model_dump_json writes null.
Losses == {"number", "null"}
Lines  == [kind : Kinds, step : Nat, loss : Losses]
DoneLines == {line \in Lines : line.kind = "done"}

NoCheckpoint == -1
Unrecorded   == -2

\* log_every = max(1, max_steps // 20)
LogEvery == IF MaxSteps \div 20 > 1 THEN MaxSteps \div 20 ELSE 1

VARIABLES
    wpc,       \* where the worker is in run() and main()
    step,      \* its local variable step
    loss,      \* its last_loss
    warning,   \* it is inside a write to stderr
    rc,        \* its exit code, once it has exited
    stdout,    \* lines in the pipe
    stderr,    \* writes in the pipe
    ppc,       \* where the parent is in PretrainStage.run and _run_worker
    done,      \* done_payload: << >> or << line >>
    error,     \* error_message is set
    outcome,   \* how PretrainStage.run has ended
    saved,     \* the step of checkpoint_last.pt, or NoCheckpoint
    recorded,  \* the step of the checkpoint whose hash was recorded
    budget     \* writes, noise and kills so far

worker == <<wpc, step, loss, warning, rc>>
caller == <<ppc, done, error, outcome, recorded>>
pipes  == <<stdout, stderr>>
vars   == <<worker, caller, pipes, saved, budget>>

WorkerPCs == {"resume", "loop", "progress", "metric", "save", "artifact",
              "finalsave", "done", "error", "exit", "exited"}
CallerPCs == {"reading", "waiting", "draining", "judging", "recording",
              "reporting", "unwinding", "over"}
Outcomes  == {"running", "returned", "stage_error", "crashed", "killed"}

TypeOK ==
    /\ wpc \in WorkerPCs /\ step \in Nat /\ loss \in Losses
    /\ warning \in BOOLEAN /\ rc \in {0, 1}
    /\ stdout \in Seq(Lines) /\ Len(stdout) <= OutCap
    /\ stderr \in 0 .. ErrCap
    /\ ppc \in CallerPCs /\ outcome \in Outcomes
    /\ done \in Seq(DoneLines) /\ Len(done) <= 1
    /\ error \in BOOLEAN
    /\ saved \in Nat \cup {NoCheckpoint}
    /\ recorded \in Nat \cup {NoCheckpoint, Unrecorded}
    /\ budget \in [{"warns", "noise", "kills"} -> Nat]

Init ==
    /\ wpc = "resume" /\ step = 0 /\ loss = "null"
    /\ warning = FALSE /\ rc = 0
    /\ stdout = << >> /\ stderr = 0
    /\ ppc = "reading" /\ done = << >> /\ error = FALSE
    /\ outcome = "running" /\ recorded = Unrecorded
    /\ saved \in FirstSteps
    /\ budget = [b \in {"warns", "noise", "kills"} |-> 0]

Spend(b, max) ==
    /\ budget[b] < max
    /\ budget' = [budget EXCEPT ![b] = @ + 1]

\* Variant: the pipes are closed only after the wait for the worker.
ReaderGoneLate == ppc = "over"

\* The parent is gone or has left the with block, which closes its pipe ends.
ReaderGone == ppc \in {"unwinding", "over"}

-----------------------------------------------------------------------------
(***************************************************************************)
(* The worker.                                                             *)
(***************************************************************************)

Goto(next) == wpc' = next /\ UNCHANGED <<warning, rc>>

\* _stdout_emit: the write blocks while the pipe is full.  A closed pipe raises,
\* reporting that error raises again, and the process exits with code 1.
Emit(kind, next) ==
    \/ /\ ~ReaderGone
       /\ Len(stdout) < OutCap
       /\ stdout' = Append(stdout, [kind |-> kind, step |-> step, loss |-> loss])
       /\ Goto(next)
    \/ /\ ReaderGone
       /\ wpc' = "exited" /\ rc' = 1
       /\ UNCHANGED <<warning, stdout>>

EmitAt(pc, kind, next) ==
    /\ wpc = pc /\ ~warning
    /\ Emit(kind, next)
    /\ UNCHANGED <<step, loss, stderr, caller, saved, budget>>

\* A step of the worker that writes to no pipe.
Silent(pc) ==
    /\ wpc = pc /\ ~warning
    /\ UNCHANGED <<pipes, caller, budget>>

StartFresh ==
    /\ Silent("resume")
    /\ saved = NoCheckpoint
    /\ Goto("loop")
    /\ UNCHANGED <<step, loss, saved>>

\* Load the checkpoint and emit the "Resuming" log line.
Resume ==
    /\ wpc = "resume" /\ ~warning
    /\ saved # NoCheckpoint
    /\ step' = saved
    /\ \/ /\ ~ReaderGone
          /\ Len(stdout) < OutCap
          /\ stdout' = Append(stdout, [kind |-> "log", step |-> saved, loss |-> loss])
          /\ Goto("loop")
       \/ /\ ReaderGone
          /\ wpc' = "exited" /\ rc' = 1
          /\ UNCHANGED <<warning, stdout>>
    /\ UNCHANGED <<loss, stderr, caller, saved, budget>>

\* Anything that raises before the loop or in it: main's except clause.
Raise ==
    /\ MayRaise
    /\ \E pc \in {"resume", "loop"} : Silent(pc)
    /\ Goto("error")
    /\ UNCHANGED <<step, loss, saved>>

TrainStep ==
    /\ Silent("loop")
    /\ step < MaxSteps
    /\ step' = step + 1
    /\ loss' \in IF MayDiverge THEN Losses ELSE {"number"}
    /\ Goto("progress")
    /\ UNCHANGED saved

LoopExit ==
    /\ Silent("loop")
    /\ step >= MaxSteps
    /\ Goto("finalsave")
    /\ UNCHANGED <<step, loss, saved>>

EmitProgress == EmitAt("progress", "progress", "metric")

EmitMetric ==
    EmitAt("metric", "metric",
           IF step % EveryStep = 0 \/ step = MaxSteps THEN "save" ELSE "loop")

Save(pc, next) ==
    /\ Silent(pc)
    /\ saved' = step
    /\ Goto(next)
    /\ UNCHANGED <<step, loss>>

EmitArtifact == EmitAt("artifact", "artifact", "loop")

EmitDone == EmitAt("done", "done", "exit")

\* main's except clause emits the error and returns 1.
EmitError ==
    /\ wpc = "error" /\ ~warning
    /\ \/ /\ ~ReaderGone
          /\ Len(stdout) < OutCap
          /\ stdout' = Append(stdout, [kind |-> "error", step |-> step, loss |-> loss])
          /\ wpc' = "exit"
       \/ /\ ReaderGone
          /\ wpc' = "exited"
          /\ UNCHANGED stdout
    /\ rc' = 1
    /\ UNCHANGED <<step, loss, warning, stderr, caller, saved, budget>>

Exit ==
    /\ Silent("exit")
    /\ Goto("exited")
    /\ UNCHANGED <<step, loss, saved>>

\* torch and the interpreter write warnings to stderr at any time: the write
\* begins, and ends when there is room in the pipe.
BeginWarning ==
    /\ wpc # "exited" /\ ~warning
    /\ Spend("warns", MaxWarns)
    /\ warning' = TRUE
    /\ UNCHANGED <<wpc, step, loss, rc, pipes, caller, saved>>

EndWarning ==
    /\ warning /\ wpc # "exited"
    /\ \/ stderr < ErrCap /\ stderr' = stderr + 1
       \/ ReaderGone /\ UNCHANGED stderr
    /\ warning' = FALSE
    /\ UNCHANGED <<wpc, step, loss, rc, stdout, caller, saved, budget>>

\* A library prints to stdout.
Noise ==
    /\ wpc \notin {"exit", "exited"} /\ ~warning /\ ~ReaderGone
    /\ Len(stdout) < OutCap
    /\ Spend("noise", MaxNoise)
    /\ stdout' = Append(stdout, [kind |-> "noise", step |-> step, loss |-> loss])
    /\ UNCHANGED <<worker, stderr, caller, saved>>

WorkerStep ==
    \/ StartFresh \/ Resume \/ Raise \/ TrainStep \/ LoopExit
    \/ EmitProgress \/ EmitMetric
    \/ Save("save", "artifact") \/ EmitArtifact
    \/ Save("finalsave", "done") \/ EmitDone
    \/ EmitError \/ Exit \/ EndWarning

KillWorker ==
    /\ wpc # "exited"
    /\ Spend("kills", MaxKills)
    /\ wpc' = "exited" /\ rc' = 1
    /\ UNCHANGED <<step, loss, warning, caller, pipes, saved>>

-----------------------------------------------------------------------------
(***************************************************************************)
(* The parent.                                                             *)
(***************************************************************************)

CallerGoto(pc, next) ==
    /\ ppc = pc /\ ppc' = next
    /\ UNCHANGED <<worker, stderr, saved, budget>>

\* A line that is no JobEvent, and a null loss where a number is formatted, raise
\* an exception that nothing catches.
Unreadable(line) ==
    \/ line.kind = "noise"
    \/ line.kind = "metric" /\ line.step % LogEvery = 0 /\ line.loss = "null"

\* Variant: the artifact event, which names the checkpoint too, is taken for the
\* result.
ReadLineAnyPath ==
    /\ stdout # << >>
    /\ ~Unreadable(Head(stdout))
    /\ CallerGoto("reading", "reading")
    /\ stdout' = Tail(stdout)
    /\ done' = IF Head(stdout).kind \in {"done", "artifact"}
                 THEN <<Head(stdout)>> ELSE done
    /\ error' = (error \/ Head(stdout).kind = "error")
    /\ UNCHANGED <<outcome, recorded>>

ReadLine ==
    /\ stdout # << >>
    /\ ~Unreadable(Head(stdout))
    /\ CallerGoto("reading", "reading")
    /\ stdout' = Tail(stdout)
    /\ done' = IF Head(stdout).kind = "done" THEN <<Head(stdout)>> ELSE done
    /\ error' = (error \/ Head(stdout).kind = "error")
    /\ UNCHANGED <<outcome, recorded>>

ReadBadLine ==
    /\ stdout # << >>
    /\ Unreadable(Head(stdout))
    /\ CallerGoto("reading", "unwinding")
    /\ stdout' = << >>
    /\ UNCHANGED <<done, error, outcome, recorded>>

\* Variant: the exception leaves without waiting for the worker.
UnwindAtOnce ==
    /\ CallerGoto("unwinding", "over")
    /\ outcome' = "crashed"
    /\ UNCHANGED <<stdout, done, error, recorded>>

\* Popen.__exit__ has closed the pipes and waits for the worker.
Unwind ==
    /\ wpc = "exited"
    /\ CallerGoto("unwinding", "over")
    /\ outcome' = "crashed"
    /\ UNCHANGED <<stdout, done, error, recorded>>

\* Variant: the worker is waited for first and its pipe is read no further.
EndOfFileEarly ==
    /\ wpc = "exited"
    /\ CallerGoto("reading", "waiting")
    /\ UNCHANGED <<stdout, done, error, outcome, recorded>>

\* The read loop ends at end of file: the pipe is empty and nobody writes to it.
EndOfFile ==
    /\ stdout = << >> /\ wpc = "exited"
    /\ CallerGoto("reading", "waiting")
    /\ UNCHANGED <<stdout, done, error, outcome, recorded>>

Wait ==
    /\ wpc = "exited"
    /\ CallerGoto("waiting", "draining")
    /\ UNCHANGED <<stdout, done, error, outcome, recorded>>

DrainStderr ==
    /\ ppc = "draining" /\ ppc' = "judging"
    /\ stderr' = 0
    /\ UNCHANGED <<worker, stdout, done, error, outcome, recorded, saved, budget>>

\* Variant: anything the worker has written to stderr counts as a failure.
WorkerFailedOnWarning == error \/ rc # 0 \/ done = << >> \/ budget["warns"] > 0

WorkerFailed == error \/ rc # 0 \/ done = << >>

JudgeFailed ==
    /\ WorkerFailed
    /\ CallerGoto("judging", "over")
    /\ outcome' = "stage_error"
    /\ UNCHANGED <<stdout, done, error, recorded>>

JudgeDone ==
    /\ ~WorkerFailed
    /\ CallerGoto("judging", "recording")
    /\ UNCHANGED <<stdout, done, error, outcome, recorded>>

\* ctx.record_artifact hashes the checkpoint that is on disk now.
RecordCheckpoint ==
    /\ CallerGoto("recording", "reporting")
    /\ recorded' = saved
    /\ UNCHANGED <<stdout, done, error, outcome>>

\* float(final["final_loss"]) raises a TypeError when the loss is null.
Report ==
    /\ CallerGoto("reporting", "over")
    /\ outcome' = IF done[1].loss = "null" THEN "crashed" ELSE "returned"
    /\ UNCHANGED <<stdout, done, error, recorded>>

CallerStep ==
    \/ ReadLine \/ ReadBadLine \/ Unwind \/ EndOfFile \/ Wait \/ DrainStderr
    \/ JudgeFailed \/ JudgeDone \/ RecordCheckpoint \/ Report

KillCaller ==
    /\ ppc # "over"
    /\ Spend("kills", MaxKills)
    /\ ppc' = "over"
    /\ outcome' = "killed"
    /\ UNCHANGED <<worker, pipes, done, error, recorded, saved>>

Next ==
    \/ WorkerStep \/ BeginWarning \/ Noise \/ CallerStep
    \/ KillWorker \/ KillCaller

Spec == Init /\ [][Next]_vars

\* The operating system schedules both processes.
FairSpec == Spec /\ WF_vars(WorkerStep) /\ WF_vars(CallerStep)

-----------------------------------------------------------------------------
(***************************************************************************)
(* The protocol implements the call that JobCall promises: no outcome      *)
(* while the worker lives (unless the parent is killed), no return without *)
(* a finished checkpoint whose hash is the recorded one.                   *)
(***************************************************************************)
Call == INSTANCE JobCall WITH alive <- wpc # "exited"
ImplementsCall == Call!Spec

(***************************************************************************)
(* Whoever is killed, whatever is printed and however small the stdout     *)
(* pipe is, the pretrain stage ends.  The one way in which it may not: the *)
(* worker waits for room in stderr, and the parent, which reads stdout,    *)
(* waits for the worker.                                                   *)
(***************************************************************************)
TerminatesUnlessStderrFull ==
    \/ <>(outcome # "running")
    \/ <>[](stderr = ErrCap /\ warning /\ ppc = "reading")

\* A verdict about the worker is given only after everything it said was read.
EveryLineRead == outcome \in {"returned", "stage_error"} => stdout = << >>

\* A worker that has reported "done" and exited with code 0 is never reported as
\* a failure.
NoSuccessLost == outcome = "stage_error" => rc # 0

\* pretrain ends with a result or with a StageError, and never with another
\* exception: the pipeline would leave the run "running" for ever.
NeverCrashes == outcome # "crashed"
=============================================================================
