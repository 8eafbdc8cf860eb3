-------------------------- MODULE JobProtocolProofs --------------------------
(***************************************************************************)
(* Theorems about the job protocol, for pipes of any capacity, any number  *)
(* of steps, warnings, foreign lines and kills.                            *)
(***************************************************************************)
EXTENDS JobProtocol, SequenceTheorems, TLAPS

-----------------------------------------------------------------------------
\* A line has the kind it is emitted with, and the worker's step and loss.
LEMMA LineType ==
    \A kind \in Kinds, n \in Nat, l \in Losses :
        [kind |-> kind, step |-> n, loss |-> l] \in Lines
BY DEF Lines

\* A write that has room leaves a pipe within its capacity.
LEMMA AppendType ==
    ASSUME TypeOK, NEW line \in Lines, Len(stdout) < OutCap,
           stdout' = Append(stdout, line)
    PROVE  stdout' \in Seq(Lines) /\ Len(stdout') <= OutCap
BY ProtocolAssumption DEF TypeOK

\* Whatever Emit does leaves the worker and its pipe well-typed.
LEMMA EmitType ==
    ASSUME TypeOK, NEW kind \in Kinds, NEW next \in WorkerPCs, Emit(kind, next)
    PROVE  /\ wpc' \in WorkerPCs /\ rc' \in {0, 1} /\ warning' \in BOOLEAN
           /\ stdout' \in Seq(Lines) /\ Len(stdout') <= OutCap
<1> USE DEF TypeOK
<1>1. CASE ReaderGone /\ wpc' = "exited" /\ rc' = 1 /\ UNCHANGED <<warning, stdout>>
  BY <1>1 DEF WorkerPCs
<1>2. CASE Len(stdout) < OutCap /\ Goto(next)
           /\ stdout' = Append(stdout, [kind |-> kind, step |-> step, loss |-> loss])
  BY <1>2, LineType, AppendType DEF Goto
<1> QED
  BY <1>1, <1>2 DEF Emit

\* Spending leaves a budget.
LEMMA SpendType ==
    ASSUME TypeOK, NEW b \in {"warns", "noise", "kills"}, NEW max \in Nat, Spend(b, max)
    PROVE  budget' \in [{"warns", "noise", "kills"} -> Nat]
BY DEF TypeOK, Spend

\* The step of the induction for types, action by action.
LEMMA TypeStep ==
    ASSUME TypeOK, [Next]_vars
    PROVE  TypeOK'
<1> USE ProtocolAssumption DEF TypeOK, worker, caller, pipes, WorkerPCs, CallerPCs, Outcomes
<1>1. ASSUME StartFresh \/ Raise \/ LoopExit \/ Exit
      PROVE  TypeOK'
  BY <1>1 DEF StartFresh, Raise, LoopExit, Exit, Silent, Goto
<1>2. ASSUME Resume
      PROVE  TypeOK'
  <2>1. saved \in Nat
    BY <1>2 DEF Resume, NoCheckpoint
  <2>2. CASE ReaderGone
    BY <1>2, <2>1, <2>2 DEF Resume
  <2>3. CASE ~ReaderGone
    <3>1. [kind |-> "log", step |-> saved, loss |-> loss] \in Lines
      BY <2>1, LineType DEF Kinds
    <3>2. /\ Len(stdout) < OutCap
          /\ stdout' = Append(stdout, [kind |-> "log", step |-> saved, loss |-> loss])
      BY <1>2, <2>3 DEF Resume
    <3>3. stdout' \in Seq(Lines) /\ Len(stdout') <= OutCap
      BY <3>1, <3>2, AppendType
    <3> QED
      BY <1>2, <2>1, <2>3, <3>3 DEF Resume, Goto
  <2> QED
    BY <2>2, <2>3
<1>3. ASSUME TrainStep
      PROVE  TypeOK'
  BY <1>3 DEF TrainStep, Silent, Goto, Losses
<1>4. ASSUME NEW pc \in WorkerPCs, NEW kind \in Kinds, NEW next \in WorkerPCs,
             EmitAt(pc, kind, next)
      PROVE  TypeOK'
  BY <1>4, EmitType DEF EmitAt
<1>5. ASSUME EmitProgress \/ EmitMetric \/ EmitArtifact \/ EmitDone
      PROVE  TypeOK'
  BY <1>4, <1>5 DEF EmitProgress, EmitMetric, EmitArtifact, EmitDone, Kinds
<1>6. ASSUME NEW pc \in WorkerPCs, NEW next \in WorkerPCs, Save(pc, next)
      PROVE  TypeOK'
  BY <1>6 DEF Save, Silent, Goto
<1>7. ASSUME EmitError
      PROVE  TypeOK'
  <2>1. CASE ReaderGone
    BY <1>7, <2>1 DEF EmitError
  <2>2. CASE ~ReaderGone
    <3>1. [kind |-> "error", step |-> step, loss |-> loss] \in Lines
      BY LineType DEF Kinds
    <3>2. stdout' \in Seq(Lines) /\ Len(stdout') <= OutCap
      BY <1>7, <2>2, <3>1, AppendType DEF EmitError
    <3> QED
      BY <1>7, <2>2, <3>2 DEF EmitError
  <2> QED
    BY <2>1, <2>2
<1>8. ASSUME BeginWarning \/ EndWarning
      PROVE  TypeOK'
  <2>1. CASE BeginWarning
    BY <2>1, SpendType DEF BeginWarning
  <2>2. CASE EndWarning
    <3>1. stderr' \in 0 .. ErrCap
      BY <2>2 DEF EndWarning
    <3>2. /\ wpc' = wpc /\ step' = step /\ loss' = loss /\ rc' = rc /\ stdout' = stdout
          /\ ppc' = ppc /\ done' = done /\ error' = error /\ outcome' = outcome
          /\ recorded' = recorded /\ saved' = saved /\ budget' = budget
          /\ warning' \in BOOLEAN
      BY <2>2 DEF EndWarning
    <3> QED
      BY <3>1, <3>2
  <2> QED
    BY <1>8, <2>1, <2>2
<1>9. ASSUME Noise
      PROVE  TypeOK'
  <2>1. [kind |-> "noise", step |-> step, loss |-> loss] \in Lines
    BY LineType DEF Kinds
  <2>2. stdout' \in Seq(Lines) /\ Len(stdout') <= OutCap
    BY <1>9, <2>1, AppendType DEF Noise
  <2> QED
    BY <1>9, <2>2, SpendType DEF Noise
<1>10. ASSUME ReadLine
       PROVE  TypeOK'
  <2>1. /\ Head(stdout) \in Lines /\ Tail(stdout) \in Seq(Lines)
        /\ Len(Tail(stdout)) <= OutCap
    BY <1>10 DEF ReadLine
  <2>2. Head(stdout).kind = "done" =>
          <<Head(stdout)>> \in Seq(DoneLines) /\ Len(<<Head(stdout)>>) = 1
    BY <2>1 DEF DoneLines
  <2>3. done' \in Seq(DoneLines) /\ Len(done') <= 1
    BY <1>10, <2>2 DEF ReadLine
  <2> QED
    BY <1>10, <2>1, <2>3 DEF ReadLine, CallerGoto
<1>11. ASSUME ReadBadLine
       PROVE  TypeOK'
  BY <1>11 DEF ReadBadLine, CallerGoto
<1>12. ASSUME Unwind \/ EndOfFile \/ Wait \/ DrainStderr \/ JudgeFailed \/ JudgeDone
              \/ RecordCheckpoint \/ Report
       PROVE  TypeOK'
  <2>1. CASE Unwind
    BY <2>1 DEF Unwind, CallerGoto
  <2>2. CASE EndOfFile
    BY <2>2 DEF EndOfFile, CallerGoto
  <2>3. CASE Wait
    BY <2>3 DEF Wait, CallerGoto
  <2>4. CASE DrainStderr
    BY <2>4 DEF DrainStderr, CallerGoto
  <2>5. CASE JudgeFailed
    BY <2>5 DEF JudgeFailed, CallerGoto
  <2>6. CASE JudgeDone
    BY <2>6 DEF JudgeDone, CallerGoto
  <2>7. CASE RecordCheckpoint
    BY <2>7 DEF RecordCheckpoint, CallerGoto
  <2>8. CASE Report
    BY <2>8 DEF Report, CallerGoto
  <2> QED
    BY <1>12, <2>1, <2>2, <2>3, <2>4, <2>5, <2>6, <2>7, <2>8
<1>13. ASSUME KillWorker \/ KillCaller
       PROVE  TypeOK'
  <2>1. CASE KillWorker
    BY <2>1, SpendType DEF KillWorker
  <2>2. CASE KillCaller
    BY <2>2, SpendType DEF KillCaller
  <2> QED
    BY <1>13, <2>1, <2>2
<1>14. CASE UNCHANGED vars
  BY <1>14 DEF vars
<1>15. \A pc, next \in WorkerPCs : Save(pc, next) => TypeOK'
  BY <1>6
<1> QED
  BY <1>1, <1>2, <1>3, <1>5, <1>15, <1>7, <1>8, <1>9, <1>10, <1>11, <1>12, <1>13, <1>14
     DEF Next, WorkerStep, CallerStep

(***************************************************************************)
(* The pipes stay within their capacities, and what the parent keeps as    *)
(* the result is at most one line, a "done", whoever is killed and         *)
(* whatever is printed.                                                    *)
(***************************************************************************)
THEOREM CallTypeCorrect == Spec => []TypeOK
<1>1. ASSUME Init PROVE TypeOK
  <2>1. saved \in Nat \cup {NoCheckpoint}
    BY <1>1, ProtocolAssumption DEF Init, NoCheckpoint
  <2>2. budget \in [{"warns", "noise", "kills"} -> Nat]
    BY <1>1 DEF Init
  <2>3. /\ stdout \in Seq(Lines) /\ Len(stdout) <= OutCap
        /\ done \in Seq(DoneLines) /\ Len(done) <= 1
        /\ stderr \in 0 .. ErrCap
    BY <1>1, ProtocolAssumption DEF Init
  <2> QED
    BY <1>1, <2>1, <2>2, <2>3
       DEF Init, TypeOK, WorkerPCs, CallerPCs, Outcomes, Losses
<1> QED
  BY <1>1, TypeStep, PTL DEF Spec

-----------------------------------------------------------------------------
(***************************************************************************)
(* What the worker has said is true of the files, and the parent takes it  *)
(* for said only when it was: a "done" in the pipe or with the parent      *)
(* means a checkpoint of max_steps, an "error" an exit code of 1, and an   *)
(* exit code of 0 that a "done" was written.                               *)
(***************************************************************************)
Said(kind) == \E i \in 1 .. Len(stdout) : stdout[i].kind = kind

Leaving == wpc \in {"exit", "exited"}

\* The checkpoint is never ahead of a worker that may save, and the last save is
\* at max_steps or beyond.
SaveOrder ==
    /\ wpc \in {"loop", "progress", "metric", "save", "artifact", "finalsave"} => saved <= step
    /\ wpc \in {"finalsave", "done"} => step >= MaxSteps
    /\ wpc = "done" => saved = step

DoneIsTrue == Said("done") \/ done # << >> => saved >= MaxSteps /\ Leaving

ErrorIsTrue == Said("error") \/ error => rc # 0 /\ Leaving

SuccessIsSaid == rc = 0 /\ Leaving /\ ~ReaderGone => Said("done") \/ done # << >>

\* The parent leaves the read loop when the worker has left and all is read.
CallerOrder ==
    /\ outcome = "running" <=> ppc # "over"
    /\ ppc \in {"waiting", "draining", "judging", "recording", "reporting"} =>
         wpc = "exited" /\ stdout = << >>
    /\ ppc \in {"recording", "reporting"} => done # << >>
    /\ ppc = "reporting" => recorded = saved
    /\ outcome \in {"returned", "stage_error"} => wpc = "exited" /\ stdout = << >>
    /\ outcome = "stage_error" => rc # 0

CallInv == SaveOrder /\ DoneIsTrue /\ ErrorIsTrue /\ SuccessIsSaid /\ CallerOrder

\* What is said after a line was written.
LEMMA SaidAppend ==
    ASSUME TypeOK, NEW line \in Lines, stdout' = Append(stdout, line), NEW kind \in Kinds
    PROVE  Said(kind)' <=> Said(kind) \/ line.kind = kind
<1> USE DEF TypeOK
<1>1. Len(stdout') = Len(stdout) + 1 /\ Len(stdout) \in Nat
  OBVIOUS
<1>2. /\ \A i \in 1 .. Len(stdout) : stdout'[i] = stdout[i]
      /\ stdout'[Len(stdout) + 1] = line
  OBVIOUS
<1>3. Said(kind)' => Said(kind) \/ line.kind = kind
  BY <1>1, <1>2 DEF Said
<1>4. Said(kind) => Said(kind)'
  BY <1>1, <1>2 DEF Said
<1>5. line.kind = kind => Said(kind)'
  BY <1>1, <1>2, Len(stdout) + 1 \in 1 .. Len(stdout') DEF Said
<1> QED
  BY <1>3, <1>4, <1>5

\* What is left to read after a line was read.
LEMMA SaidTail ==
    ASSUME TypeOK, stdout # << >>, stdout' = Tail(stdout), NEW kind \in Kinds
    PROVE  Said(kind) <=> Said(kind)' \/ Head(stdout).kind = kind
<1> USE DEF TypeOK
<1>1. Len(stdout') = Len(stdout) - 1 /\ Len(stdout) \in Nat \ {0} /\ Head(stdout) = stdout[1]
  OBVIOUS
<1>2. \A i \in 1 .. Len(stdout') : stdout'[i] = stdout[i + 1]
  OBVIOUS
<1>3. ASSUME NEW i \in 1 .. Len(stdout), stdout[i].kind = kind, i # 1
      PROVE  Said(kind)'
  <2>1. i - 1 \in 1 .. Len(stdout')
    BY <1>1, <1>3
  <2>2. stdout'[i - 1] = stdout[i]
    BY <1>2, <2>1
  <2> QED
    BY <1>3, <2>1, <2>2 DEF Said
<1>4. Said(kind)' => Said(kind)
  BY <1>1, <1>2 DEF Said
<1>5. Head(stdout).kind = kind => Said(kind)
  BY <1>1 DEF Said
<1> QED
  BY <1>1, <1>3, <1>4, <1>5 DEF Said

\* Nothing is said in an empty pipe.
LEMMA SaidNothing == \A kind \in Kinds : stdout = << >> => ~Said(kind)
BY DEF Said

\* A line of another kind leaves what is said of the two verdicts as it is.
LEMMA SaidOther ==
    ASSUME TypeOK, NEW kind \in Kinds \ {"done", "error"},
           NEW n \in Nat, NEW l \in Losses,
           stdout' = Append(stdout, [kind |-> kind, step |-> n, loss |-> l])
    PROVE  /\ Said("done")' <=> Said("done")
           /\ Said("error")' <=> Said("error")
           /\ stdout' # << >>
<1>1. [kind |-> kind, step |-> n, loss |-> l] \in Lines
  BY LineType
<1> QED
  BY <1>1, SaidAppend DEF Kinds, TypeOK

\* The step of the induction for the protocol, action by action.
LEMMA CallStep ==
    ASSUME TypeOK, CallInv, [Next]_vars
    PROVE  CallInv'
<1> USE ProtocolAssumption
    DEF TypeOK, CallInv, SaveOrder, DoneIsTrue, ErrorIsTrue, SuccessIsSaid, CallerOrder,
        Leaving, worker, caller, pipes, WorkerPCs, CallerPCs, Outcomes
<1>0. stdout' = stdout => (Said("done")' <=> Said("done")) /\ (Said("error")' <=> Said("error"))
  BY DEF Said
<1>1. ASSUME StartFresh \/ Raise \/ LoopExit \/ TrainStep
      PROVE  CallInv'
  <2>1. CASE StartFresh
    BY <1>0, <2>1 DEF StartFresh, Silent, Goto, NoCheckpoint, ReaderGone
  <2>2. CASE Raise
    BY <1>0, <2>2 DEF Raise, Silent, Goto, NoCheckpoint, ReaderGone
  <2>3. CASE LoopExit
    BY <1>0, <2>3 DEF LoopExit, Silent, Goto, NoCheckpoint, ReaderGone
  <2>4. CASE TrainStep
    BY <1>0, <2>4 DEF TrainStep, Silent, Goto, NoCheckpoint, ReaderGone
  <2> QED
    BY <1>1, <2>1, <2>2, <2>3, <2>4
<1>2. ASSUME Resume
      PROVE  CallInv'
  <2>1. saved \in Nat
    BY <1>2 DEF Resume, NoCheckpoint
  <2>2. CASE ReaderGone
    BY <1>0, <1>2, <2>1, <2>2 DEF Resume, ReaderGone
  <2>3. CASE ~ReaderGone
    <3>1. /\ Said("done")' <=> Said("done")
          /\ Said("error")' <=> Said("error")
      BY <1>2, <2>1, <2>3, SaidOther DEF Resume, Kinds
    <3> QED
      BY <1>2, <2>1, <2>3, <3>1 DEF Resume, Goto, ReaderGone
  <2> QED
    BY <2>2, <2>3
\* A write that tells nothing of the verdict.
<1>3. ASSUME NEW pc \in {"progress", "metric", "artifact"},
             NEW next \in {"metric", "save", "loop"}, EmitAt(pc, pc, next)
      PROVE  CallInv'
  <2>1. CASE ReaderGone
    BY <1>0, <1>3, <2>1 DEF EmitAt, Emit, ReaderGone
  <2>2. CASE ~ReaderGone
    <3>1. /\ Said("done")' <=> Said("done")
          /\ Said("error")' <=> Said("error")
      BY <1>3, <2>2, SaidOther DEF EmitAt, Emit, Kinds
    <3> QED
      BY <1>3, <2>2, <3>1 DEF EmitAt, Emit, Goto, ReaderGone
  <2> QED
    BY <2>1, <2>2
<1>4. ASSUME EmitProgress \/ EmitMetric \/ EmitArtifact
      PROVE  CallInv'
  BY <1>3, <1>4 DEF EmitProgress, EmitMetric, EmitArtifact
<1>5. ASSUME Save("save", "artifact") \/ Save("finalsave", "done")
      PROVE  CallInv'
  BY <1>0, <1>5 DEF Save, Silent, Goto, ReaderGone
<1>6. ASSUME EmitDone
      PROVE  CallInv'
  <2>1. CASE ReaderGone
    BY <1>0, <1>6, <2>1 DEF EmitDone, EmitAt, Emit, ReaderGone
  <2>2. CASE ~ReaderGone
    <3>1. [kind |-> "done", step |-> step, loss |-> loss] \in Lines
      BY LineType DEF Kinds
    <3>2. Said("done")' /\ (Said("error")' <=> Said("error"))
      BY <1>6, <2>2, <3>1, SaidAppend DEF EmitDone, EmitAt, Emit, Kinds
    <3> QED
      BY <1>6, <2>2, <3>2 DEF EmitDone, EmitAt, Emit, Goto, ReaderGone
  <2> QED
    BY <2>1, <2>2
<1>7. ASSUME EmitError
      PROVE  CallInv'
  <2>1. CASE ReaderGone
    BY <1>0, <1>7, <2>1 DEF EmitError, ReaderGone
  <2>2. CASE ~ReaderGone
    <3>1. [kind |-> "error", step |-> step, loss |-> loss] \in Lines
      BY LineType DEF Kinds
    <3>2. Said("error")' /\ (Said("done")' <=> Said("done"))
      BY <1>7, <2>2, <3>1, SaidAppend DEF EmitError, Kinds
    <3> QED
      BY <1>7, <2>2, <3>2 DEF EmitError, ReaderGone
  <2> QED
    BY <2>1, <2>2
<1>8. ASSUME Exit \/ BeginWarning \/ EndWarning
      PROVE  CallInv'
  BY <1>0, <1>8 DEF Exit, BeginWarning, EndWarning, Silent, Goto, ReaderGone
<1>9. ASSUME Noise
      PROVE  CallInv'
  <2>1. /\ Said("done")' <=> Said("done")
        /\ Said("error")' <=> Said("error")
    BY <1>9, SaidOther DEF Noise, Kinds
  <2> QED
    BY <1>9, <2>1 DEF Noise, ReaderGone
\* What is taken from the pipe is kept by the parent.
<1>10. ASSUME ReadLine
       PROVE  CallInv'
  <2>1. stdout # << >> /\ stdout' = Tail(stdout)
    BY <1>10 DEF ReadLine
  <2>2. /\ Said("done") <=> Said("done")' \/ Head(stdout).kind = "done"
        /\ Said("error") <=> Said("error")' \/ Head(stdout).kind = "error"
    BY <2>1, SaidTail DEF Kinds
  <2>3. <<Head(stdout)>> # << >>
    OBVIOUS
  <2>4. (Said("done")' \/ done' # << >>) <=> (Said("done") \/ done # << >>)
    BY <1>10, <2>2, <2>3 DEF ReadLine
  <2>5. (Said("error")' \/ error') <=> (Said("error") \/ error)
    BY <1>10, <2>2 DEF ReadLine
  <2>6. /\ ppc = "reading" /\ ppc' = "reading"
        /\ UNCHANGED <<wpc, step, loss, warning, rc, saved, outcome, recorded>>
    BY <1>10 DEF ReadLine, CallerGoto
  <2> QED
    BY <2>4, <2>5, <2>6 DEF ReaderGone
<1>11. ASSUME ReadBadLine
       PROVE  CallInv'
  <2>1. ~Said("done")' /\ ~Said("error")'
    BY <1>11 DEF ReadBadLine, Said
  <2> QED
    BY <1>11, <2>1 DEF ReadBadLine, CallerGoto, ReaderGone
<1>12. ASSUME Unwind \/ EndOfFile \/ Wait \/ DrainStderr
       PROVE  CallInv'
  BY <1>0, <1>12 DEF Unwind, EndOfFile, Wait, DrainStderr, CallerGoto, ReaderGone
<1>13. ASSUME JudgeFailed \/ JudgeDone
       PROVE  CallInv'
  <2>1. ~Said("done")
    BY <1>13, SaidNothing DEF JudgeFailed, JudgeDone, CallerGoto, Kinds
  <2> QED
    BY <1>0, <1>13, <2>1 DEF JudgeFailed, JudgeDone, WorkerFailed, CallerGoto, ReaderGone
<1>14. ASSUME RecordCheckpoint \/ Report
       PROVE  CallInv'
  BY <1>0, <1>14 DEF RecordCheckpoint, Report, CallerGoto, ReaderGone
<1>15. ASSUME KillWorker \/ KillCaller
       PROVE  CallInv'
  BY <1>0, <1>15 DEF KillWorker, KillCaller, ReaderGone
<1>16. CASE UNCHANGED vars
  BY <1>0, <1>16 DEF vars, ReaderGone
<1> QED
  BY <1>1, <1>2, <1>4, <1>5, <1>6, <1>7, <1>8, <1>9, <1>10, <1>11, <1>12, <1>13, <1>14,
     <1>15, <1>16 DEF Next, WorkerStep, CallerStep

\* CallInv holds in every reachable state.
LEMMA CallInvariant == Spec => []CallInv
<1>1. Init => CallInv
  BY DEF Init, CallInv, SaveOrder, DoneIsTrue, ErrorIsTrue, SuccessIsSaid, CallerOrder, Said,
         Leaving, ReaderGone
<1>2. TypeOK /\ CallInv /\ [Next]_vars => CallInv'
  BY CallStep
<1> QED
  BY <1>1, <1>2, CallTypeCorrect, PTL DEF Spec

-----------------------------------------------------------------------------
(***************************************************************************)
(* The parent judges the worker with nothing left to read, though it reads *)
(* no more once the worker has exited.                                     *)
(***************************************************************************)
THEOREM AllIsRead == Spec => []EveryLineRead
<1>1. CallInv => EveryLineRead
  BY DEF CallInv, CallerOrder, EveryLineRead
<1> QED
  BY <1>1, CallInvariant, PTL

(***************************************************************************)
(* A worker that has finished and exited with code 0 is not reported as a  *)
(* failure, however its last lines and its exit are interleaved with the   *)
(* reads of the parent.                                                    *)
(***************************************************************************)
THEOREM SuccessIsKept == Spec => []NoSuccessLost
<1>1. CallInv => NoSuccessLost
  BY DEF CallInv, CallerOrder, NoSuccessLost
<1> QED
  BY <1>1, CallInvariant, PTL

\* The initial states of the protocol are initial states of the call.
LEMMA CallInit == Init => Call!Init
BY ProtocolAssumption DEF Init, Call!Init, NoCheckpoint, Call!NoCheckpoint, Unrecorded,
                          Call!Unrecorded

\* The abstract step of each concrete one.
LEMMA CallNext ==
    ASSUME TypeOK, CallInv, [Next]_vars
    PROVE  [Call!Next]_Call!vars
<1> USE DEF TypeOK, worker, caller, pipes
<1> DEFINE alive == wpc # "exited"
<1>1. ASSUME UNCHANGED <<outcome, saved, recorded>>, wpc = "exited" => wpc' = "exited"
      PROVE  [Call!Next]_Call!vars
  BY <1>1 DEF Call!Next, Call!WorkerGone, Call!vars
<1>2. ASSUME WorkerStep, UNCHANGED saved
      PROVE  [Call!Next]_Call!vars
  <2>1. wpc # "exited"
    BY <1>2 DEF WorkerStep, StartFresh, Resume, Raise, TrainStep, LoopExit, EmitProgress,
                EmitMetric, Save, EmitArtifact, EmitDone, EmitError, Exit, EndWarning,
                EmitAt, Silent
  <2>2. UNCHANGED <<outcome, recorded>>
    BY <1>2 DEF WorkerStep, StartFresh, Resume, Raise, TrainStep, LoopExit, EmitProgress,
                EmitMetric, Save, EmitArtifact, EmitDone, EmitError, Exit, EndWarning,
                EmitAt, Silent
  <2> QED
    BY <1>1, <1>2, <2>1, <2>2
<1>3. ASSUME Save("save", "artifact") \/ Save("finalsave", "done")
      PROVE  Call!Save
  <2>1. saved <= step
    BY <1>3 DEF Save, Silent, CallInv, SaveOrder
  <2> QED
    BY <1>3, <2>1 DEF Save, Silent, Goto, Call!Save, NoCheckpoint, Call!NoCheckpoint
<1>4. ASSUME WorkerStep
      PROVE  [Call!Next]_Call!vars
  <2>1. \/ Save("save", "artifact") \/ Save("finalsave", "done")
        \/ UNCHANGED saved
    BY <1>4 DEF WorkerStep, StartFresh, Resume, Raise, TrainStep, LoopExit, EmitProgress,
                EmitMetric, EmitArtifact, EmitDone, EmitError, Exit, EndWarning, EmitAt,
                Silent
  <2> QED
    BY <1>2, <1>3, <1>4, <2>1 DEF Call!Next
<1>5. ASSUME BeginWarning \/ Noise \/ KillWorker
      PROVE  [Call!Next]_Call!vars
  BY <1>1, <1>5 DEF BeginWarning, Noise, KillWorker
<1>6. ASSUME ReadLine \/ ReadBadLine \/ EndOfFile \/ Wait \/ DrainStderr \/ JudgeDone
      PROVE  [Call!Next]_Call!vars
  BY <1>1, <1>6 DEF ReadLine, ReadBadLine, EndOfFile, Wait, DrainStderr, JudgeDone, CallerGoto
<1>7. ASSUME Unwind \/ JudgeFailed
      PROVE  Call!Raise
  BY <1>7 DEF Unwind, JudgeFailed, CallerGoto, Call!Raise, CallInv, CallerOrder
<1>8. ASSUME RecordCheckpoint
      PROVE  Call!Record
  BY <1>8 DEF RecordCheckpoint, CallerGoto, Call!Record, CallInv, CallerOrder, DoneIsTrue
<1>9. ASSUME Report
      PROVE  Call!Return \/ Call!Raise
  BY <1>9 DEF Report, CallerGoto, Call!Return, Call!Raise, CallInv, CallerOrder
<1>10. ASSUME KillCaller
       PROVE  Call!CallerKilled
  BY <1>10 DEF KillCaller, Call!CallerKilled, CallInv, CallerOrder
<1>11. CASE UNCHANGED vars
  BY <1>1, <1>11 DEF vars
<1> QED
  BY <1>4, <1>5, <1>6, <1>7, <1>8, <1>9, <1>10, <1>11 DEF Next, CallerStep, Call!Next

(***************************************************************************)
(* For pipes of any capacity: the parent gives one outcome, after the      *)
(* worker is gone, and returns only with the finished checkpoint recorded. *)
(***************************************************************************)
THEOREM ProtocolIsACall == Spec => ImplementsCall
<1>1. Init => Call!Init
  BY CallInit
<1>2. TypeOK /\ CallInv /\ [Next]_vars => [Call!Next]_Call!vars
  BY CallNext
<1> QED
  BY <1>1, <1>2, CallInvariant, CallTypeCorrect, PTL DEF Spec, ImplementsCall, Call!Spec

-----------------------------------------------------------------------------
(***************************************************************************)
(* How much a call can still do: the worker's steps, each with its lines,  *)
(* the lines to be read, where the parent is, and what the bounds leave.   *)
(***************************************************************************)
StepsToGo == IF step < MaxSteps THEN MaxSteps - step ELSE 0

WorkerPlaces ==
    [resume |-> 7, loop |-> 5, progress |-> 12, metric |-> 10, save |-> 8, artifact |-> 7,
     finalsave |-> 4, done |-> 3, error |-> 3, exit |-> 1, exited |-> 0]
CallerPlaces ==
    [reading |-> 7, waiting |-> 6, draining |-> 5, judging |-> 4, recording |-> 3,
     reporting |-> 2, unwinding |-> 1, over |-> 0]

WorkerPlace == WorkerPlaces[wpc]
CallerPlace == CallerPlaces[ppc]

WorkerWork == 8 * StepsToGo + WorkerPlace + (IF warning THEN 1 ELSE 0)
Allowance  ==
    2 * (MaxWarns - budget["warns"]) + 2 * (MaxNoise - budget["noise"])
    + (MaxKills - budget["kills"])

CallWork == WorkerWork + Len(stdout) + CallerPlace + Allowance

\* The bounds are kept, and a worker that has not looked for the checkpoint has done no step.
WithinBounds ==
    /\ budget["warns"] <= MaxWarns /\ budget["noise"] <= MaxNoise /\ budget["kills"] <= MaxKills
    /\ wpc = "resume" => step = 0

\* All of it is counted in natural numbers.
LEMMA WorkTypes ==
    ASSUME TypeOK
    PROVE  /\ StepsToGo \in Nat /\ WorkerPlace \in 0 .. 12 /\ CallerPlace \in 0 .. 7
           /\ WorkerWork \in Nat /\ Len(stdout) \in Nat
           /\ WithinBounds => Allowance \in Nat
<1>1. StepsToGo \in Nat
  BY ProtocolAssumption DEF StepsToGo, TypeOK
<1>2. WorkerPlace \in 0 .. 12
  BY DEF WorkerPlace, WorkerPlaces, TypeOK, WorkerPCs
<1>3. CallerPlace \in 0 .. 7
  BY DEF CallerPlace, CallerPlaces, TypeOK, CallerPCs
<1>4. Len(stdout) \in Nat
  BY DEF TypeOK
<1>5. WithinBounds => Allowance \in Nat
  BY ProtocolAssumption DEF Allowance, WithinBounds, TypeOK
<1> QED
  BY <1>1, <1>2, <1>3, <1>4, <1>5 DEF WorkerWork

\* Within the bounds they stay.
LEMMA BoundsStep ==
    ASSUME TypeOK, WithinBounds, [Next]_vars PROVE WithinBounds'
<1>1. ASSUME NEW b \in {"warns", "noise", "kills"}, NEW max \in Nat, Spend(b, max)
      PROVE  /\ budget'[b] <= max
             /\ \A c \in {"warns", "noise", "kills"} \ {b} : budget'[c] = budget[c]
  BY <1>1 DEF Spend, TypeOK
<1>2. \/ UNCHANGED budget
      \/ Spend("warns", MaxWarns) \/ Spend("noise", MaxNoise) \/ Spend("kills", MaxKills)
  BY DEF Next, WorkerStep, CallerStep, StartFresh, Resume, Raise, TrainStep, LoopExit,
         EmitProgress, EmitMetric, Save, EmitArtifact, EmitDone, EmitAt, EmitError, Exit,
         EndWarning, Silent, BeginWarning, Noise, KillWorker, KillCaller, ReadLine,
         ReadBadLine, Unwind, EndOfFile, Wait, DrainStderr, JudgeFailed, JudgeDone,
         RecordCheckpoint, Report, CallerGoto, vars
<1>3. /\ budget'["warns"] <= MaxWarns /\ budget'["noise"] <= MaxNoise
      /\ budget'["kills"] <= MaxKills
  <2>1. CASE UNCHANGED budget
    BY <2>1 DEF WithinBounds
  <2>2. CASE Spend("warns", MaxWarns)
    BY <1>1, <2>2, ProtocolAssumption DEF WithinBounds
  <2>3. CASE Spend("noise", MaxNoise)
    BY <1>1, <2>3, ProtocolAssumption DEF WithinBounds
  <2>4. CASE Spend("kills", MaxKills)
    BY <1>1, <2>4, ProtocolAssumption DEF WithinBounds
  <2> QED
    BY <1>2, <2>1, <2>2, <2>3, <2>4
<1>4. wpc' = "resume" => wpc = "resume" /\ step' = step
  BY DEF Next, WorkerStep, CallerStep, StartFresh, Resume, Raise, TrainStep, LoopExit,
         EmitProgress, EmitMetric, Save, EmitArtifact, EmitDone, EmitAt, Emit, EmitError, Exit,
         EndWarning, Silent, Goto, BeginWarning, Noise, KillWorker, KillCaller, ReadLine,
         ReadBadLine, Unwind, EndOfFile, Wait, DrainStderr, JudgeFailed, JudgeDone,
         RecordCheckpoint, Report, CallerGoto, vars, worker
<1> QED
  BY <1>3, <1>4 DEF WithinBounds

\* A step of the worker is worth more than the line that it writes.
LEMMA WorkerWearsDown ==
    ASSUME TypeOK, TypeOK', WithinBounds, WorkerStep
    PROVE  WorkerWork' + Len(stdout)' < WorkerWork + Len(stdout) /\ UNCHANGED <<ppc, budget>>
<1> DEFINE Less == WorkerWork' + Len(stdout)' < WorkerWork + Len(stdout)
<1>0. UNCHANGED <<ppc, budget>>
  BY DEF WorkerStep, StartFresh, Resume, Raise, TrainStep, LoopExit, EmitProgress, EmitMetric,
         Save, EmitArtifact, EmitDone, EmitAt, EmitError, Exit, EndWarning, Silent, caller
<1> SUFFICES Less
  BY <1>0
<1>1. MaxSteps \in Int /\ step \in Nat /\ step' \in Nat /\ warning \in BOOLEAN
  BY ProtocolAssumption DEF TypeOK
<1>2. \A line : stdout' = Append(stdout, line) => Len(stdout)' = Len(stdout) + 1
  BY DEF TypeOK
<1>3. Len(stdout) \in Nat
  BY DEF TypeOK
<1> USE DEF WorkerWork, StepsToGo, WorkerPlace, WorkerPlaces
<1>4. CASE StartFresh \/ Raise \/ LoopExit \/ Exit
  BY <1>1, <1>3, <1>4 DEF StartFresh, Raise, LoopExit, Exit, Silent, Goto, pipes
<1>5. CASE Resume
  <2>1. step = 0 /\ wpc = "resume" /\ ~warning
    BY <1>5 DEF Resume, WithinBounds
  <2>2. \/ wpc' = "loop" /\ warning' = warning /\ Len(stdout)' = Len(stdout) + 1
        \/ wpc' = "exited" /\ warning' = warning /\ Len(stdout)' = Len(stdout)
    BY <1>2, <1>5 DEF Resume, Goto
  <2> QED
    BY <1>1, <1>3, <2>1, <2>2
<1>6. CASE TrainStep
  BY <1>1, <1>3, <1>6 DEF TrainStep, Silent, Goto, pipes
<1>7. ASSUME NEW kind, NEW next, Emit(kind, next)
      PROVE  /\ warning' = warning
             /\ \/ wpc' = next /\ Len(stdout)' = Len(stdout) + 1
                \/ wpc' = "exited" /\ Len(stdout)' = Len(stdout)
  BY <1>2, <1>7 DEF Emit, Goto
<1>8. ASSUME NEW pc, NEW next, NEW kind, EmitAt(pc, kind, next),
             <<pc, next>> \in {<<"progress", "metric">>, <<"metric", "save">>,
                              <<"metric", "loop">>, <<"artifact", "loop">>, <<"done", "exit">>}
      PROVE  Less
  <2>1. wpc = pc /\ step' = step /\ Emit(kind, next)
    BY <1>8 DEF EmitAt
  <2> QED
    BY <1>1, <1>3, <1>7, <1>8, <2>1
<1>9. CASE EmitProgress \/ EmitMetric \/ EmitArtifact \/ EmitDone
  BY <1>8, <1>9 DEF EmitProgress, EmitMetric, EmitArtifact, EmitDone
<1>10. CASE Save("save", "artifact") \/ Save("finalsave", "done")
  BY <1>1, <1>3, <1>10 DEF Save, Silent, Goto, pipes
<1>11. CASE EmitError
  <2>1. \/ wpc' = "exit" /\ warning' = warning /\ Len(stdout)' = Len(stdout) + 1
        \/ wpc' = "exited" /\ warning' = warning /\ Len(stdout)' = Len(stdout)
    BY <1>2, <1>11 DEF EmitError
  <2> QED
    BY <1>1, <1>3, <1>11, <2>1 DEF EmitError
<1>12. CASE EndWarning
  <2> HIDE DEF StepsToGo, WorkerPlace
  <2>1. /\ StepsToGo' = StepsToGo /\ WorkerPlace' = WorkerPlace
        /\ stdout' = stdout /\ warning /\ ~warning'
    BY <1>12 DEF EndWarning, StepsToGo, WorkerPlace
  <2>2. StepsToGo \in Nat /\ WorkerPlace \in 0 .. 12
    BY WorkTypes
  <2> QED
    BY <1>3, <2>1, <2>2
<1> QED
  BY <1>0, <1>4, <1>5, <1>6, <1>9, <1>10, <1>11, <1>12 DEF WorkerStep

\* So is a step of the parent.
LEMMA CallerWearsDown ==
    ASSUME TypeOK, CallerStep
    PROVE  /\ Len(stdout)' + CallerPlace' < Len(stdout) + CallerPlace
           /\ UNCHANGED <<wpc, step, warning, budget>>
<1>0. UNCHANGED <<wpc, step, warning, budget>>
  BY DEF CallerStep, ReadLine, ReadBadLine, Unwind, EndOfFile, Wait, DrainStderr, JudgeFailed,
         JudgeDone, RecordCheckpoint, Report, CallerGoto, worker
<1> SUFFICES Len(stdout)' + CallerPlace' < Len(stdout) + CallerPlace
  BY <1>0
<1>1. Len(stdout) \in Nat
  BY DEF TypeOK
<1> USE DEF CallerPlace, CallerPlaces
<1>2. CASE ReadLine
  <2>1. Len(stdout)' = Len(stdout) - 1 /\ ppc' = ppc
    BY <1>2 DEF ReadLine, CallerGoto, TypeOK
  <2> QED
    BY <1>1, <2>1 DEF TypeOK, CallerPCs
<1>3. CASE ReadBadLine
  <2>1. Len(stdout)' = 0
    BY <1>3 DEF ReadBadLine
  <2> QED
    BY <1>1, <1>3, <2>1 DEF ReadBadLine, CallerGoto
<1>4. CASE \/ Unwind \/ EndOfFile \/ Wait \/ DrainStderr \/ JudgeFailed \/ JudgeDone
           \/ RecordCheckpoint \/ Report
  BY <1>1, <1>4 DEF Unwind, EndOfFile, Wait, DrainStderr, JudgeFailed, JudgeDone,
                    RecordCheckpoint, Report, CallerGoto
<1> QED
  BY <1>0, <1>2, <1>3, <1>4 DEF CallerStep

\* The sums of this section, of any numbers.
LEMMA SumsAreNatural ==
    /\ \A m \in Int, n \in Nat : (IF n < m THEN m - n ELSE 0) \in Nat
    /\ \A b : \A n \in Nat, k \in 0 .. 12 : 8 * n + k + (IF b THEN 1 ELSE 0) \in Nat
OBVIOUS

\* Every step of anybody leaves less to be done.
LEMMA CallWearsDown ==
    ASSUME TypeOK, TypeOK', WithinBounds, Next
    PROVE  CallWork' < CallWork
<1>1. /\ WorkerWork \in Nat /\ Len(stdout) \in Nat /\ CallerPlace \in 0 .. 7
      /\ Allowance \in Nat
  BY WorkTypes
<1>2. /\ {MaxWarns, MaxNoise, MaxKills} \subseteq Nat
      /\ budget \in [{"warns", "noise", "kills"} -> Nat]
  BY ProtocolAssumption DEF TypeOK
<1>3. step' \in Nat /\ wpc' \in WorkerPCs /\ ppc' \in CallerPCs /\ Len(stdout)' \in Nat
  BY DEF TypeOK
<1> DEFINE SameWorker == UNCHANGED <<wpc, step, warning>>
<1>4. UNCHANGED budget => Allowance' = Allowance
  BY DEF Allowance
<1>5. SameWorker => WorkerWork' = WorkerWork
  BY DEF WorkerWork, StepsToGo, WorkerPlace
<1>6. UNCHANGED ppc => CallerPlace' = CallerPlace
  BY DEF CallerPlace
<1>7. /\ Spend("warns", MaxWarns) => Allowance' = Allowance - 2
      /\ Spend("noise", MaxNoise) => Allowance' = Allowance - 2
      /\ Spend("kills", MaxKills) => Allowance' = Allowance - 1
  BY <1>2 DEF Spend, Allowance
<1>8. CASE WorkerStep
  <2>1. WorkerWork' + Len(stdout)' < WorkerWork + Len(stdout) /\ UNCHANGED <<ppc, budget>>
    BY <1>8, WorkerWearsDown
  <2>2. WorkerWork' \in Nat /\ Len(stdout)' \in Nat
    <3>1. StepsToGo' \in Nat
      BY <1>3, SumsAreNatural, ProtocolAssumption DEF StepsToGo
    <3>2. WorkerPlace' \in 0 .. 12
      BY <1>3 DEF WorkerPlace, WorkerPlaces, WorkerPCs
    <3> QED
      BY <1>3, <3>1, <3>2, SumsAreNatural DEF WorkerWork
  <2> QED
    BY <1>1, <1>4, <1>6, <2>1, <2>2 DEF CallWork
<1>9. CASE CallerStep
  <2>1. /\ Len(stdout)' + CallerPlace' < Len(stdout) + CallerPlace
        /\ UNCHANGED <<wpc, step, warning, budget>>
    BY <1>9, CallerWearsDown
  <2>2. Len(stdout)' \in Nat /\ CallerPlace' \in 0 .. 7
    BY <1>3 DEF CallerPlace, CallerPlaces, CallerPCs
  <2> QED
    BY <1>1, <1>4, <1>5, <2>1, <2>2 DEF CallWork
<1>10. CASE BeginWarning
  <2>1. /\ WorkerWork' = WorkerWork + 1 /\ stdout' = stdout /\ ppc' = ppc
        /\ Spend("warns", MaxWarns)
    <3>1. /\ wpc' = wpc /\ step' = step /\ ~warning /\ warning' /\ stdout' = stdout
          /\ ppc' = ppc /\ Spend("warns", MaxWarns)
      BY <1>10 DEF BeginWarning, pipes, caller
    <3>2. StepsToGo' = StepsToGo /\ WorkerPlace' = WorkerPlace
      BY <3>1 DEF StepsToGo, WorkerPlace
    <3>3. StepsToGo \in Nat /\ WorkerPlace \in 0 .. 12
      BY WorkTypes
    <3> QED
      BY <3>1, <3>2, <3>3 DEF WorkerWork
  <2> QED
    BY <1>1, <1>6, <1>7, <2>1 DEF CallWork
<1>11. CASE Noise
  <2>1. SameWorker /\ ppc' = ppc /\ Spend("noise", MaxNoise)
    BY <1>11 DEF Noise, worker, caller
  <2>2. Len(stdout)' = Len(stdout) + 1
    BY <1>11 DEF Noise, TypeOK
  <2> QED
    BY <1>1, <1>5, <1>6, <1>7, <2>1, <2>2 DEF CallWork
<1>12. CASE KillWorker
  <2>1. /\ wpc' = "exited" /\ step' = step /\ warning' = warning
        /\ stdout' = stdout /\ ppc' = ppc /\ Spend("kills", MaxKills)
    BY <1>12 DEF KillWorker, caller, pipes
  <2>2. StepsToGo' = StepsToGo /\ WorkerPlace' = 0
    BY <2>1 DEF StepsToGo, WorkerPlace, WorkerPlaces
  <2>3. StepsToGo \in Nat /\ WorkerPlace \in 0 .. 12
    BY WorkTypes
  <2>4. WorkerWork' <= WorkerWork /\ WorkerWork' \in Nat
    BY <2>1, <2>2, <2>3 DEF WorkerWork
  <2> QED
    BY <1>1, <1>6, <1>7, <2>1, <2>4 DEF CallWork
<1>13. CASE KillCaller
  <2>1. SameWorker /\ stdout' = stdout /\ ppc' = "over" /\ Spend("kills", MaxKills)
    BY <1>13 DEF KillCaller, worker, pipes
  <2>2. CallerPlace' = 0
    BY <2>1 DEF CallerPlace, CallerPlaces
  <2> QED
    BY <1>1, <1>5, <1>7, <2>1, <2>2 DEF CallWork
<1> QED
  BY <1>8, <1>9, <1>10, <1>11, <1>12, <1>13 DEF Next

(***************************************************************************)
(* Why a call ends (TerminatesUnlessStderrFull): for pipes of any capacity *)
(* and any number of training steps, every step of the worker, of the      *)
(* parent, of a library that prints and of whoever kills uses up some of a *)
(* finite amount.  So nobody goes round in circles, writing and reading;   *)
(* a call that does not end is one in which nobody can move, and TLC shows *)
(* that this is the full stderr pipe.                                      *)
(***************************************************************************)
THEOREM CallIsFinite ==
    Spec => [](CallWork \in Nat) /\ [][CallWork' < CallWork]_vars
<1>1. TypeOK /\ WithinBounds => CallWork \in Nat
  BY WorkTypes DEF CallWork
<1>2. Init => WithinBounds
  BY ProtocolAssumption DEF Init, WithinBounds
<1>3. TypeOK /\ WithinBounds /\ [Next]_vars => WithinBounds'
  BY BoundsStep
<1>4. TypeOK /\ TypeOK' /\ WithinBounds /\ [Next]_vars => [CallWork' < CallWork]_vars
  BY CallWearsDown
<1> QED
  BY <1>1, <1>2, <1>3, <1>4, CallTypeCorrect, PTL DEF Spec
=============================================================================
