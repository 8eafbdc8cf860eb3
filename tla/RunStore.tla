------------------------------- MODULE RunStore -------------------------------
(***************************************************************************)
(* The run store at the level of its files (core/pipeline/runs.py), under  *)
(* the calls that Pipeline.run makes.  run.json is truncated and then      *)
(* written, in place; a reader, a second command or a kill may come        *)
(* between the two.  Two commands may draw one run id.  Pipeline and       *)
(* BuildRun take a save as one step: this module says when they may.       *)
(***************************************************************************)
EXTENDS RunRecords, Sequences

CONSTANTS
    Ids,           \* run ids that can be drawn, as numbers: list_runs sorts them
    MaxArtifacts,  \* bound: artifacts recorded by one run
    MaxKills,      \* bound: kills and exceptions that Pipeline.run does not catch
    NoId,          \* the run id of a command that has drawn none
    NoFile,        \* run.json does not exist
    Truncated,     \* run.json is empty, because a save has just opened it
    Mixed          \* run.json has the text of one record and the tail of another

ASSUME IdsAssumption    == Ids \subseteq Nat /\ NoId \notin Ids
ASSUME BoundsAssumption == MaxArtifacts \in Nat /\ MaxKills \in Nat

VARIABLES
    pc,      \* where each command is in Pipeline.run
    id,      \* the run id it has drawn
    memory,  \* RunHandle.record
    at,      \* the stage of the loop body
    saving,  \* it is between the truncation and the write of run.json
    dirs,    \* run directories
    file,    \* contents of run.json in each of them
    events,  \* lines of events.jsonl in each of them
    scan,    \* the reader's call of list_runs or load_run
    kills    \* kills and uncaught exceptions so far

command == <<pc, id, memory, at, saving>>
vars    == <<command, dirs, file, events, scan, kills>>

Dead == {"killed", "crashed"}
PCs  == {"idle", "made", "created", "logged", "loop", "announce", "stage", "report",
         "raising", "failing", "returned"} \cup Dead

Unreadable == {Truncated, Mixed}
ASSUME FilesAssumption ==
    /\ NoFile \notin Records /\ Truncated \notin Records /\ Mixed \notin Records
    /\ NoFile \notin Unreadable

\* stage is 0 for an event that is about the whole run.
Events == [owner : Commands, kind : {"created", "start", "done", "error"}, stage : 0 .. NStages]

TypeOK ==
    /\ pc \in [Commands -> PCs]
    /\ id \in [Commands -> Ids \cup {NoId}]
    /\ memory \in [Commands -> Records]
    /\ at \in [Commands -> 1 .. NStages + 1]
    /\ saving \in [Commands -> BOOLEAN]
    /\ dirs \subseteq Ids
    /\ file \in [Ids -> Records \cup Unreadable \cup {NoFile}]
    /\ events \in [Ids -> Seq(Events)]
    /\ scan \in [outcome : {"none", "reading", "returned", "raised"}, todo : SUBSET Ids]
    /\ kills \in Nat

Init ==
    /\ pc = [c \in Commands |-> "idle"]
    /\ id = [c \in Commands |-> NoId]
    /\ memory = [c \in Commands |-> Fresh(c)]
    /\ at = [c \in Commands |-> 1]
    /\ saving = [c \in Commands |-> FALSE]
    /\ dirs = {}
    /\ file = [i \in Ids |-> NoFile]
    /\ events = [i \in Ids |-> << >>]
    /\ scan = [outcome |-> "none", todo |-> {}]
    /\ kills = 0

-----------------------------------------------------------------------------
(***************************************************************************)
(* RunHandle.                                                              *)
(***************************************************************************)
Goto(c, from, to) == pc[c] = from /\ ~saving[c] /\ pc' = [pc EXCEPT ![c] = to]

\* Variant: the new contents are kept in memory and not saved.
NoSave(c, r) ==
    /\ memory' = [memory EXCEPT ![c] = r]
    /\ UNCHANGED <<saving, file>>

\* save, its first half: the record has changed and open("w") has truncated the file.
BeginSave(c, r) ==
    /\ memory' = [memory EXCEPT ![c] = r]
    /\ saving' = [saving EXCEPT ![c] = TRUE]
    /\ file' = [file EXCEPT ![id[c]] = Truncated]

\* What a write at offset 0 makes of the file.  When another save has written since
\* the truncation, the tail of a longer text stays behind.
Written(c) ==
    IF file[id[c]] = Truncated THEN {memory[c]} ELSE {memory[c], Mixed}

\* save, its second half.
EndSave(c) ==
    /\ saving[c]
    /\ pc[c] \notin Dead
    /\ saving' = [saving EXCEPT ![c] = FALSE]
    /\ \E text \in Written(c) : file' = [file EXCEPT ![id[c]] = text]
    /\ UNCHANGED <<pc, id, memory, at, dirs, events, scan, kills>>

AppendEvent(c, kind, k) ==
    events' = [events EXCEPT ![id[c]] = Append(@, [owner |-> c, kind |-> kind, stage |-> k])]

\* set_status and set_stage_status.
SetStatus(c, s) == BeginSave(c, [memory[c] EXCEPT !.status = s])
SetStageStatus(c, s) == BeginSave(c, [memory[c] EXCEPT !.stages[at[c]] = s])

-----------------------------------------------------------------------------
(***************************************************************************)
(* create_run, and the calls of Pipeline.run in its order.                 *)
(***************************************************************************)
\* A directory that exists already is accepted.
MakeDirectory(c) ==
    /\ Goto(c, "idle", "made")
    /\ \E i \in Ids :
         /\ id' = [id EXCEPT ![c] = i]
         /\ dirs' = dirs \cup {i}
    /\ UNCHANGED <<memory, at, saving, file, events, scan, kills>>

CreateRecord(c) ==
    /\ Goto(c, "made", "created")
    /\ BeginSave(c, Fresh(c))
    /\ UNCHANGED <<id, at, dirs, events, scan, kills>>

LogCreated(c) ==
    /\ Goto(c, "created", "logged")
    /\ AppendEvent(c, "created", 0)
    /\ UNCHANGED <<id, memory, at, saving, dirs, file, scan, kills>>

StartRun(c) ==
    /\ Goto(c, "logged", "loop")
    /\ SetStatus(c, "running")
    /\ UNCHANGED <<id, at, dirs, events, scan, kills>>

StartStage(c) ==
    /\ at[c] <= NStages
    /\ Goto(c, "loop", "announce")
    /\ SetStageStatus(c, "running")
    /\ UNCHANGED <<id, at, dirs, events, scan, kills>>

LogStart(c) ==
    /\ Goto(c, "announce", "stage")
    /\ AppendEvent(c, "start", at[c])
    /\ UNCHANGED <<id, memory, at, saving, dirs, file, scan, kills>>

\* record_artifact, from inside the stage.
RecordArtifact(c) ==
    /\ Goto(c, "stage", "stage")
    /\ memory[c].artifacts < MaxArtifacts
    /\ BeginSave(c, [memory[c] EXCEPT !.artifacts = @ + 1])
    /\ UNCHANGED <<id, at, dirs, events, scan, kills>>

\* stage.run returns, with success or without.
StageReturns(c) ==
    /\ Goto(c, "stage", "report")
    /\ \E s \in Terminal : SetStageStatus(c, s)
    /\ UNCHANGED <<id, at, dirs, events, scan, kills>>

\* Variant: the loop goes on after a stage that has failed.
GoesOn(c) ==
    /\ Goto(c, "report", "loop")
    /\ at' = [at EXCEPT ![c] = @ + 1]
    /\ AppendEvent(c, "done", at[c])
    /\ UNCHANGED <<id, memory, saving, dirs, file, scan, kills>>

LogResult(c) ==
    /\ LET ok == memory[c].stages[at[c]] = "succeeded"
       IN  /\ Goto(c, "report", IF ok THEN "loop" ELSE "failing")
           /\ at' = [at EXCEPT ![c] = IF ok THEN @ + 1 ELSE @]
    /\ AppendEvent(c, "done", at[c])
    /\ UNCHANGED <<id, memory, saving, dirs, file, scan, kills>>

\* Variant: the error is not logged.
RaisesSilently(c) ==
    /\ Goto(c, "stage", "failing")
    /\ UNCHANGED <<id, memory, at, saving, dirs, file, events, scan, kills>>

\* A StageError: the stage's own status stays as it is.
StageRaises(c) ==
    /\ Goto(c, "stage", "raising")
    /\ UNCHANGED <<id, memory, at, saving, dirs, file, events, scan, kills>>

LogError(c) ==
    /\ Goto(c, "raising", "failing")
    /\ AppendEvent(c, "error", 0)
    /\ UNCHANGED <<id, memory, at, saving, dirs, file, scan, kills>>

\* Variant: the command ends without a word in the record.
EndSilently(c) ==
    /\ Goto(c, "failing", "returned")
    /\ UNCHANGED <<id, memory, at, saving, dirs, file, events, scan, kills>>

Fail(c) ==
    /\ Goto(c, "failing", "returned")
    /\ SetStatus(c, "failed")
    /\ UNCHANGED <<id, at, dirs, events, scan, kills>>

Succeed(c) ==
    /\ at[c] > NStages
    /\ Goto(c, "loop", "returned")
    /\ SetStatus(c, "succeeded")
    /\ UNCHANGED <<id, at, dirs, events, scan, kills>>

\* An exception that is no StageError leaves the loop: nothing is saved.
Crash(c) ==
    /\ Goto(c, "stage", "crashed")
    /\ kills < MaxKills
    /\ kills' = kills + 1
    /\ UNCHANGED <<id, memory, at, saving, dirs, file, events, scan>>

\* The process is killed, perhaps in the middle of a save.
Kill(c) ==
    /\ pc[c] \notin {"idle"} \cup Dead
    /\ pc[c] = "returned" => saving[c]
    /\ kills < MaxKills
    /\ pc' = [pc EXCEPT ![c] = "killed"]
    /\ kills' = kills + 1
    /\ UNCHANGED <<id, memory, at, saving, dirs, file, events, scan>>

-----------------------------------------------------------------------------
(***************************************************************************)
(* A reader that lists the runs, or loads one.                             *)
(***************************************************************************)
\* iterdir: a run that is created later is not listed.  No root directory, no runs.
BeginList ==
    /\ scan.outcome # "reading"
    /\ scan' = [outcome |-> "reading", todo |-> dirs]
    /\ UNCHANGED <<command, dirs, file, events, kills>>

\* Variant: the entry is read without asking whether run.json is there.
ReadMissing(i) ==
    [outcome |-> IF file[i] \in Records THEN "reading" ELSE "raised",
     todo |-> IF file[i] \in Records THEN scan.todo \ {i} ELSE {}]

\* One entry.  A record that does not parse raises, and the whole listing with it.
ReadEntry(i) ==
    [outcome |-> IF file[i] \in Unreadable THEN "raised" ELSE "reading",
     todo |-> IF file[i] \in Unreadable THEN {} ELSE scan.todo \ {i}]

ListNext ==
    /\ scan.outcome = "reading"
    /\ \E i \in scan.todo :
         /\ \A j \in scan.todo : i <= j
         /\ scan' = ReadEntry(i)
    /\ UNCHANGED <<command, dirs, file, events, kills>>

EndList ==
    /\ scan.outcome = "reading"
    /\ scan.todo = {}
    /\ scan' = [scan EXCEPT !.outcome = "returned"]
    /\ UNCHANGED <<command, dirs, file, events, kills>>

\* load_run also raises for an id that has no record.
LoadRun ==
    /\ scan.outcome # "reading"
    /\ \E i \in Ids :
         scan' = [outcome |-> IF file[i] \in Records THEN "returned" ELSE "raised",
                  todo |-> {}]
    /\ UNCHANGED <<command, dirs, file, events, kills>>

-----------------------------------------------------------------------------
Step(c) ==
    \/ EndSave(c) \/ MakeDirectory(c) \/ CreateRecord(c) \/ LogCreated(c) \/ StartRun(c)
    \/ StartStage(c) \/ LogStart(c) \/ RecordArtifact(c) \/ StageReturns(c)
    \/ LogResult(c) \/ StageRaises(c) \/ LogError(c) \/ Fail(c) \/ Succeed(c)

Reading == ListNext \/ EndList

Next ==
    \/ \E c \in Commands : Step(c) \/ Crash(c) \/ Kill(c)
    \/ Reading \/ BeginList \/ LoadRun

\* The operating system schedules every command and the reader.
Fairness ==
    /\ \A c \in Commands : WF_vars(Step(c))
    /\ WF_vars(Reading)
    /\ WF_vars(BeginList)

Spec     == Init /\ [][Next]_vars
FairSpec == Spec /\ Fairness

-----------------------------------------------------------------------------
(***************************************************************************)
(* Properties.                                                             *)
(***************************************************************************)
\* Another command has drawn the same id.
Shared(c) == \E d \in Commands \ {c} : id[d] = id[c] /\ id[c] # NoId

Created(c) == pc[c] \notin {"idle", "made"} /\ (pc[c] = "killed" => file[id[c]] # NoFile)

\* What a command has set is on disk before its next call: at any moment, and after any
\* death outside of a save, run.json is the record in memory.  So the only unreadable
\* record is one whose save is not finished, or one of a shared directory.
WriteThrough ==
    \A c \in Commands : Created(c) /\ ~Shared(c) =>
        file[id[c]] = IF saving[c] THEN Truncated ELSE memory[c]

\* The lines of a log that a command has written, without their owner.
LinesBy(c, log) ==
    LET upTo[n \in 0 .. Len(log)] ==
          IF n = 0 THEN << >>
          ELSE IF log[n].owner = c THEN Append(upTo[n - 1], <<log[n].kind, log[n].stage>>)
          ELSE upTo[n - 1]
    IN  upTo[Len(log)]

LogOf(c) == LinesBy(c, events[id[c]])

\* The log of a run in which the first n stages have returned.
LogOfStages(n) ==
    <<<<"created", 0>>>> \o
    [m \in 1 .. 2 * n |-> <<IF m % 2 = 1 THEN "start" ELSE "done", (m + 1) \div 2>>]

\* A run whose record says how it ended has a log that says why, in a directory of its own
\* or a shared one: all stages, started and done in their order, for a success; for a
\* failure, the stages before, and the error or the result of the last one.
EndIsExplained ==
    \A c \in Commands : id[c] # NoId => LET shown == file[id[c]] IN
        shown \in Records /\ shown.owner = c =>
            /\ shown.status = "succeeded" => LogOf(c) = LogOfStages(NStages)
            /\ shown.status = "failed" =>
                 \E n \in 0 .. NStages :
                    /\ \A k \in 1 .. n : shown.stages[k] = "succeeded"
                    /\ \/ LogOf(c) = LogOfStages(n + 1) /\ shown.stages[n + 1] = "failed"
                       \/ /\ LogOf(c) = LogOfStages(n) \o <<<<"start", n + 1>>, <<"error", 0>>>>
                          /\ shown.stages[n + 1] = "running"

\* What a reader who tries again sees of each run.
LedgerState ==
    [c \in Commands |->
        IF Shared(c) THEN "shared"
        ELSE IF id[c] = NoId \/ file[id[c]] = NoFile THEN "none"
        ELSE IF file[id[c]] \in Unreadable /\ pc[c] \in Dead THEN "lost"
        ELSE "current"]

LedgerRecord ==
    [c \in Commands |->
        IF Shared(c) \/ id[c] = NoId THEN Fresh(c)
        ELSE IF file[id[c]] \in Records THEN file[id[c]] ELSE memory[c]]

Ledger == INSTANCE RunLedger WITH state <- LedgerState, record <- LedgerRecord

\* Whatever the commands and the reader do, and whenever they are killed, the records
\* advance as RunLedger says.
ImplementsLedger == Ledger!Spec

\* A reader that lists the runs again and again gets its answer again and again, unless a
\* record stays unreadable for ever: then every listing fails, of all runs.
ListingAnswers ==
    \/ []<>(scan.outcome = "returned")
    \/ <>[](\E i \in Ids : file[i] \in Unreadable)

\* Every command that starts comes to an end that its record shows, unless it dies, or
\* shares its directory: the one way to a record that says "running" for ever is a kill or
\* an exception that is no StageError.
UnendedIsDead ==
    \A c \in Commands : (pc[c] # "idle") ~>
        \/ pc[c] \in Dead \/ Shared(c)
        \/ /\ id[c] # NoId
           /\ file[id[c]] \in Records
           /\ file[id[c]].status \in Terminal
=============================================================================
