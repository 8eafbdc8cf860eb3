---------------------------- MODULE RunStoreProofs ----------------------------
(***************************************************************************)
(* Theorems about the run store, for any number of commands, run ids,      *)
(* stages, artifacts and kills.                                            *)
(***************************************************************************)
EXTENDS RunStore, Counting, SequenceTheorems, TLAPS

-----------------------------------------------------------------------------
(***************************************************************************)
(* Types.                                                                  *)
(***************************************************************************)
\* A new record is a record.
LEMMA FreshType == \A c \in Commands : Fresh(c) \in Records
BY DEF Fresh, Records, Terminal

\* A save keeps the types, when the new contents are a record.
LEMMA BeginSaveType ==
    ASSUME TypeOK, NEW c \in Commands, id[c] \in Ids,
           NEW r \in Records, BeginSave(c, r)
    PROVE  /\ memory' \in [Commands -> Records]
           /\ saving' \in [Commands -> BOOLEAN]
           /\ file' \in [Ids -> Records \cup Unreadable \cup {NoFile}]
BY DEF TypeOK, BeginSave, Unreadable

\* A line of the log keeps the type of the log.
LEMMA AppendEventType ==
    ASSUME TypeOK, NEW c \in Commands, id[c] \in Ids,
           NEW kind \in {"created", "start", "done", "error"}, NEW k \in 0 .. NStages,
           AppendEvent(c, kind, k)
    PROVE  events' \in [Ids -> Seq(Events)]
<1>1. [owner |-> c, kind |-> kind, stage |-> k] \in Events
  BY DEF Events
<1> QED
  BY <1>1 DEF TypeOK, AppendEvent

\* A command has drawn an id exactly when it has started, and only a command that has made
\* its directory saves.
Placed ==
    \A c \in Commands :
        /\ pc[c] = "idle" <=> id[c] = NoId
        /\ pc[c] \in {"idle", "made"} => memory[c] = Fresh(c) /\ at[c] = 1 /\ ~saving[c]

\* What the record in memory says while Pipeline.run is at each of its calls.
Told(c) ==
    LET m == memory[c] IN
    /\ m.owner = c
    /\ pc[c] \in {"created", "logged"} => m = Fresh(c) /\ at[c] = 1
    /\ pc[c] \in {"loop", "announce", "stage", "report", "raising", "failing"} =>
         m.status = "running"
    /\ pc[c] \in {"announce", "stage", "report", "raising", "failing"} => at[c] <= NStages
    /\ \A k \in Stages : k < at[c] => m.stages[k] = "succeeded"
    /\ pc[c] = "loop" => \A k \in Stages : k >= at[c] => m.stages[k] = "absent"
    /\ pc[c] \in {"announce", "stage", "raising"} =>
         m.stages[at[c]] = "running" /\ \A k \in Stages : k > at[c] => m.stages[k] = "absent"
    /\ pc[c] = "report" =>
         m.stages[at[c]] \in Terminal /\ \A k \in Stages : k > at[c] => m.stages[k] = "absent"

\* A directory that nobody has drawn is empty, and so is one that its only owner has just
\* made.
Unwritten ==
    /\ \A i \in Ids : (\A c \in Commands : id[c] # i) => file[i] = NoFile
    /\ \A c \in Commands : pc[c] = "made" /\ ~Shared(c) => file[id[c]] = NoFile

IInv == TypeOK /\ Placed /\ (\A c \in Commands : Told(c)) /\ Unwritten /\ WriteThrough

\* What holds at the start.
LEMMA InitHolds == Init => IInv
<1> SUFFICES ASSUME Init PROVE IInv
  OBVIOUS
<1>1. TypeOK
  BY FreshType, StagesAssumption DEF Init, TypeOK, PCs, Dead, Unreadable
<1>2. Placed /\ Unwritten /\ WriteThrough
  BY DEF Init, Placed, Unwritten, WriteThrough, Created
<1>3. \A c \in Commands : Told(c)
  <2> SUFFICES ASSUME NEW c \in Commands PROVE Told(c)
    OBVIOUS
  <2>1. pc[c] = "idle" /\ memory[c].owner = c /\ at[c] = 1
    BY DEF Init, Fresh
  <2> QED
    BY <2>1 DEF Told, Stages
<1> QED
  BY <1>1, <1>2, <1>3 DEF IInv

-----------------------------------------------------------------------------
(***************************************************************************)
(* The three kinds of steps of a command.                                  *)
(***************************************************************************)
Begun == PCs \ {"idle", "made"}

\* A command saves: Pipeline.run is at a call that changes the record.
Saves(c, to, r) ==
    /\ pc[c] \notin Dead \cup {"idle"}
    /\ ~saving[c]
    /\ to \in Begun \ Dead
    /\ pc' = [pc EXCEPT ![c] = to]
    /\ r \in Records
    /\ BeginSave(c, r)
    /\ UNCHANGED <<id, at, dirs, events, scan, kills>>

\* A command goes on, and leaves the record and its file alone.
Passes(c, to) ==
    /\ pc[c] \in Begun \ Dead
    /\ ~saving[c]
    /\ to \in Begun
    /\ pc' = [pc EXCEPT ![c] = to]
    /\ \A d \in Commands \ {c} : at'[d] = at[d]
    /\ UNCHANGED <<id, memory, saving, dirs, file, scan>>

\* The command of an id that is drawn is not idle.
LEMMA HasId ==
    ASSUME TypeOK, Placed, NEW c \in Commands, pc[c] # "idle"
    PROVE  id[c] \in Ids
BY DEF TypeOK, Placed

\* Whether a directory is shared depends on the ids alone.
LEMMA SharedStays ==
    ASSUME UNCHANGED id, NEW c \in Commands
    PROVE  Shared(c)' <=> Shared(c)
BY DEF Shared

\* Saving keeps the order of directory, file and record.
LEMMA SavesKeeps ==
    ASSUME IInv, NEW c \in Commands, NEW to, NEW r, Saves(c, to, r)
    PROVE  TypeOK' /\ Placed' /\ Unwritten' /\ WriteThrough'
<1> USE DEF IInv
<1>1. id[c] \in Ids
  BY HasId DEF Saves
<1>2. TypeOK'
  <2>1. /\ memory' \in [Commands -> Records]
        /\ saving' \in [Commands -> BOOLEAN]
        /\ file' \in [Ids -> Records \cup Unreadable \cup {NoFile}]
    BY <1>1, BeginSaveType DEF Saves
  <2> QED
    BY <2>1 DEF TypeOK, Saves, Begun
<1>3. Placed'
  BY DEF Placed, Saves, BeginSave, TypeOK, Begun
<1>4. Unwritten'
  <2>1. ASSUME NEW i \in Ids, \A d \in Commands : id[d]' # i
        PROVE  file[i]' = NoFile
    BY <1>1, <2>1 DEF Unwritten, Saves, BeginSave, TypeOK
  <2>2. ASSUME NEW d \in Commands, pc[d]' = "made", ~Shared(d)'
        PROVE  file[id[d]]' = NoFile
    <3>1. d # c /\ pc[d] = "made"
      BY <2>2 DEF Saves, TypeOK, Begun
    <3>2. id[d] # id[c] /\ ~Shared(d)
      BY <1>1, <2>2, <3>1, IdsAssumption DEF Shared, Saves
    <3>3. file[id[d]]' = file[id[d]]
      BY <3>1, <3>2, HasId DEF Saves, BeginSave, TypeOK
    <3> QED
      BY <3>1, <3>2, <3>3 DEF Unwritten
  <2> QED
    BY <2>1, <2>2 DEF Unwritten
<1>5. WriteThrough'
  <2> SUFFICES ASSUME NEW d \in Commands, Created(d)', ~Shared(d)'
               PROVE  file[id[d]]' = IF saving[d]' THEN Truncated ELSE memory[d]'
    BY DEF WriteThrough
  <2>1. CASE d = c
    BY <2>1, <1>1 DEF Saves, BeginSave, TypeOK
  <2>2. CASE d # c
    <3>1. id[d] # id[c] /\ id' = id
      BY <1>1, <2>2, IdsAssumption DEF Shared, Saves
    <3>2. file[id[d]]' = file[id[d]] /\ memory[d]' = memory[d] /\ saving[d]' = saving[d] /\ pc[d]' = pc[d]
      BY <2>2, <3>1 DEF Saves, BeginSave, TypeOK
    <3>3. Created(d) /\ ~Shared(d)
      BY <3>1, <3>2 DEF Created, Shared
    <3> QED
      BY <3>2, <3>3 DEF WriteThrough
  <2> QED
    BY <2>1, <2>2
<1> QED
  BY <1>2, <1>3, <1>4, <1>5

\* So does going on without a save.
LEMMA PassesKeeps ==
    ASSUME IInv, NEW c \in Commands, NEW to, Passes(c, to)
    PROVE  Placed' /\ Unwritten' /\ WriteThrough'
<1> USE DEF IInv
<1>1. Placed'
  BY DEF Placed, Passes, TypeOK, Begun
<1>2. Unwritten'
  BY DEF Unwritten, Passes, TypeOK, Begun, Shared
<1>3. WriteThrough'
  <2> SUFFICES ASSUME NEW d \in Commands, Created(d)', ~Shared(d)'
               PROVE  file[id[d]]' = IF saving[d]' THEN Truncated ELSE memory[d]'
    BY DEF WriteThrough
  <2>1. Created(d) /\ ~Shared(d)
    BY DEF Created, Shared, Passes, TypeOK, Begun, Dead
  <2> QED
    BY <2>1 DEF WriteThrough, Passes
<1> QED
  BY <1>1, <1>2, <1>3

\* What is told of the other commands stays as it is.
LEMMA ToldOfOthers ==
    ASSUME NEW d \in Commands, Told(d),
           pc'[d] = pc[d], memory'[d] = memory[d], at'[d] = at[d]
    PROVE  Told(d)'
BY DEF Told

-----------------------------------------------------------------------------
(***************************************************************************)
(* Every step keeps the invariant.                                         *)
(***************************************************************************)
\* A new directory is empty, or is shared.
LEMMA MakeDirectoryKeeps ==
    ASSUME IInv, NEW c \in Commands, MakeDirectory(c)
    PROVE  IInv'
<1> USE DEF IInv
<1>1. PICK i \in Ids : id' = [id EXCEPT ![c] = i] /\ dirs' = dirs \cup {i}
  BY DEF MakeDirectory
<1>2. /\ pc[c] = "idle" /\ id[c] = NoId /\ ~saving[c] /\ memory[c] = Fresh(c) /\ at[c] = 1
      /\ pc' = [pc EXCEPT ![c] = "made"]
      /\ UNCHANGED <<memory, at, saving, file, events, scan, kills>>
  BY DEF MakeDirectory, Goto, Placed
<1>3. TypeOK'
  BY <1>1, <1>2 DEF TypeOK, PCs
<1>4. Placed'
  BY <1>1, <1>2, IdsAssumption DEF Placed, TypeOK
<1>5. ASSUME NEW d \in Commands
      PROVE  Told(d)'
  <2>1. CASE d = c
    BY <2>1, <1>2 DEF Told, TypeOK
  <2>2. CASE d # c
    BY <2>2, <1>2, ToldOfOthers DEF TypeOK
  <2> QED
    BY <2>1, <2>2
<1>6. ASSUME NEW d \in Commands \ {c}, ~Shared(d)'
      PROVE  ~Shared(d) /\ id'[d] = id[d] /\ pc'[d] = pc[d]
  BY <1>1, <1>2, <1>6, IdsAssumption DEF Shared, TypeOK
<1>7. ASSUME ~Shared(c)'
      PROVE  file[i] = NoFile
  <2>1. ASSUME NEW d \in Commands PROVE id[d] # i
    <3>1. CASE d = c
      BY <3>1, <1>2, IdsAssumption
    <3>2. CASE d # c
      <4>1. id[c]' = i /\ id[d]' = id[d]
        BY <3>2, <1>1, <1>2 DEF TypeOK
      <4> QED
        BY <3>2, <4>1, <1>7, IdsAssumption DEF Shared
    <3> QED
      BY <3>1, <3>2
  <2> QED
    BY <2>1 DEF Unwritten
<1>8. Unwritten'
  <2>1. ASSUME NEW j \in Ids, \A d \in Commands : id[d]' # j
        PROVE  file[j]' = NoFile
    <3>1. ASSUME NEW d \in Commands PROVE id[d] # j
      BY <2>1, <1>1, <1>2, IdsAssumption DEF TypeOK
    <3> QED
      BY <3>1, <1>2 DEF Unwritten
  <2>2. ASSUME NEW d \in Commands, pc[d]' = "made", ~Shared(d)'
        PROVE  file[id[d]]' = NoFile
    BY <2>2, <1>1, <1>2, <1>6, <1>7 DEF Unwritten, TypeOK
  <2> QED
    BY <2>1, <2>2 DEF Unwritten
<1>9. WriteThrough'
  <2> SUFFICES ASSUME NEW d \in Commands, Created(d)', ~Shared(d)'
               PROVE  file[id[d]]' = IF saving[d]' THEN Truncated ELSE memory[d]'
    BY DEF WriteThrough
  <2>1. d # c
    BY <1>2 DEF Created, TypeOK
  <2>2. Created(d)
    BY <2>1, <1>2, <1>6 DEF Created
  <2> QED
    BY <2>1, <2>2, <1>2, <1>6 DEF WriteThrough
<1> QED
  BY <1>3, <1>4, <1>5, <1>8, <1>9

\* The second half of a save writes what is in memory, if the directory is the command's own.
LEMMA EndSaveKeeps ==
    ASSUME IInv, NEW c \in Commands, EndSave(c)
    PROVE  IInv'
<1> USE DEF IInv
<1>1. PICK text \in Written(c) : file' = [file EXCEPT ![id[c]] = text]
  BY DEF EndSave
<1>2. /\ saving[c] /\ pc[c] \notin Dead /\ saving' = [saving EXCEPT ![c] = FALSE]
      /\ UNCHANGED <<pc, id, memory, at, dirs, events, scan, kills>>
  BY DEF EndSave
<1>3. pc[c] \notin {"idle", "made"} /\ id[c] \in Ids
  BY <1>2, HasId DEF Placed
<1>4. text \in Records \cup Unreadable
  BY DEF Written, TypeOK, Unreadable
<1>5. TypeOK'
  BY <1>1, <1>2, <1>3, <1>4 DEF TypeOK
<1>6. Placed'
  BY <1>2 DEF Placed, TypeOK
<1>7. ASSUME NEW d \in Commands
      PROVE  Told(d)'
  BY <1>2, ToldOfOthers
<1>8. ASSUME NEW d \in Commands \ {c}, ~Shared(d)'
      PROVE  ~Shared(d) /\ id[d] # id[c]
  BY <1>2, <1>3, <1>8, IdsAssumption DEF Shared
<1>9. Unwritten'
  <2>1. ASSUME NEW i \in Ids, \A d \in Commands : id[d]' # i
        PROVE  file[i]' = NoFile
    BY <2>1, <1>1, <1>2, <1>3 DEF Unwritten, TypeOK
  <2>2. ASSUME NEW d \in Commands, pc[d]' = "made", ~Shared(d)'
        PROVE  file[id[d]]' = NoFile
    <3>1. d # c /\ id[d] \in Ids
      BY <2>2, <1>2, <1>3, HasId
    <3> QED
      BY <2>2, <3>1, <1>1, <1>2, <1>8 DEF Unwritten, TypeOK
  <2> QED
    BY <2>1, <2>2 DEF Unwritten
<1>10. WriteThrough'
  <2> SUFFICES ASSUME NEW d \in Commands, Created(d)', ~Shared(d)'
               PROVE  file[id[d]]' = IF saving[d]' THEN Truncated ELSE memory[d]'
    BY DEF WriteThrough
  <2>1. CASE d = c
    <3>1. file[id[c]] = Truncated
      BY <2>1, <1>2, <1>3 DEF WriteThrough, Created, Shared, Dead
    <3> QED
      BY <2>1, <3>1, <1>1, <1>2, <1>3 DEF Written, TypeOK
  <2>2. CASE d # c
    <3>1. file[id[d]]' = file[id[d]] /\ id[d] # id[c]
      BY <2>2, <1>1, <1>2, <1>3, <1>8 DEF TypeOK
    <3>2. Created(d) /\ ~Shared(d)
      BY <2>2, <3>1, <1>2, <1>8 DEF Created
    <3> QED
      BY <2>2, <3>1, <3>2, <1>2 DEF WriteThrough, TypeOK
  <2> QED
    BY <2>1, <2>2
<1> QED
  BY <1>5, <1>6, <1>7, <1>9, <1>10

\* A kill leaves the file as it is.
LEMMA KillKeeps ==
    ASSUME IInv, NEW c \in Commands, Kill(c)
    PROVE  IInv'
<1> USE DEF IInv, Kill
<1>1. TypeOK'
  BY DEF TypeOK, PCs, Dead
<1>2. Placed' /\ Unwritten'
  BY DEF Placed, Unwritten, TypeOK, Shared, Dead
<1>3. ASSUME NEW d \in Commands
      PROVE  Told(d)'
  <2>1. CASE d = c
    BY <2>1 DEF Told, TypeOK
  <2>2. CASE d # c
    BY <2>2, ToldOfOthers DEF TypeOK
  <2> QED
    BY <2>1, <2>2
<1>4. WriteThrough'
  <2> SUFFICES ASSUME NEW d \in Commands, Created(d)', ~Shared(d)'
               PROVE  file[id[d]]' = IF saving[d]' THEN Truncated ELSE memory[d]'
    BY DEF WriteThrough
  <2>1. ~Shared(d)
    BY DEF Shared
  <2>2. Created(d)
    <3>1. CASE d # c
      BY <3>1 DEF Created, TypeOK
    <3>2. CASE d = c
      BY <3>2, <2>1 DEF Created, TypeOK, Unwritten
    <3> QED
      BY <3>1, <3>2
  <2> QED
    BY <2>1, <2>2 DEF WriteThrough
<1> QED
  BY <1>1, <1>2, <1>3, <1>4

\* A save whose contents agree with where Pipeline.run then is.
LEMMA SavesHolds ==
    ASSUME IInv, NEW c \in Commands, NEW to, NEW r, Saves(c, to, r), Told(c)'
    PROVE  IInv'
<1>1. ASSUME NEW d \in Commands
      PROVE  Told(d)'
  <2>1. CASE d # c
    BY <2>1, ToldOfOthers DEF IInv, Saves, BeginSave, TypeOK
  <2> QED
    BY <2>1
<1> QED
  BY <1>1, SavesKeeps DEF IInv

\* A step without a save, likewise.
LEMMA PassesHolds ==
    ASSUME IInv, NEW c \in Commands, NEW to, Passes(c, to), Told(c)', TypeOK'
    PROVE  IInv'
<1>1. ASSUME NEW d \in Commands
      PROVE  Told(d)'
  <2>1. CASE d # c
    BY <2>1, ToldOfOthers DEF IInv, Passes, TypeOK
  <2> QED
    BY <2>1
<1> QED
  BY <1>1, PassesKeeps DEF IInv

\* The calls that save are saves, and their contents agree.
LEMMA SavingSteps ==
    ASSUME IInv, NEW c \in Commands,
           \/ CreateRecord(c) \/ StartRun(c) \/ StartStage(c) \/ RecordArtifact(c)
           \/ StageReturns(c) \/ Fail(c) \/ Succeed(c)
    PROVE  /\ Told(c)'
           /\ \E to, r : Saves(c, to, r)
           /\ pc[c] # "made" => Ledger!Advances(memory[c], memory'[c])
<1> USE StagesAssumption DEF IInv, Goto, BeginSave, Saves, Begun, PCs, Dead
<1>0. memory[c] \in Records /\ memory \in [Commands -> Records] /\ pc \in [Commands -> PCs]
      /\ at[c] \in 1 .. NStages + 1 /\ Told(c)
  BY DEF TypeOK
<1>1. CASE CreateRecord(c)
  <2>1. Saves(c, "created", Fresh(c))
    BY <1>1, FreshType DEF CreateRecord
  <2>2. at[c] = 1
    BY <1>1 DEF CreateRecord, Placed
  <2>3. Told(c)'
    BY <2>1, <2>2, <1>0, <1>1 DEF CreateRecord, Told, Fresh, Stages
  <2> QED
    BY <2>1, <2>3, <1>1 DEF CreateRecord
<1>2. CASE StartRun(c)
  <2> DEFINE r == [memory[c] EXCEPT !.status = "running"]
  <2>1. r \in Records
    BY <1>0 DEF Records
  <2>2. Saves(c, "loop", r)
    BY <2>1, <1>2 DEF StartRun, SetStatus
  <2>3. /\ memory[c] = Fresh(c) /\ at[c] = 1 /\ pc[c] = "logged"
        /\ memory'[c] = r /\ pc'[c] = "loop" /\ at' = at
    BY <1>0, <1>2 DEF StartRun, SetStatus, Told
  <2>4. Told(c)'
    BY <2>3 DEF Told, Fresh, Stages
  <2>5. Ledger!Advances(memory[c], memory'[c])
    BY <2>3 DEF Ledger!Advances, Ledger!Forward, Ledger!Terminal, Ledger!Stages, Fresh, Terminal, Stages
  <2> QED
    BY <2>2, <2>4, <2>5
<1>3. CASE StartStage(c)
  <2> DEFINE r == [memory[c] EXCEPT !.stages[at[c]] = "running"]
  <2>1. /\ pc[c] = "loop" /\ at[c] \in Stages
        /\ memory'[c] = r /\ pc'[c] = "announce" /\ at' = at
    BY <1>0, <1>3 DEF StartStage, SetStageStatus, Stages
  <2>2. r \in Records
    BY <1>0, <2>1 DEF Records
  <2>3. Saves(c, "announce", r)
    BY <2>2, <1>3 DEF StartStage, SetStageStatus
  <2>4. Told(c)'
    BY <2>1, <1>0 DEF Told, Records, Stages
  <2>5. Ledger!Advances(memory[c], memory'[c])
    BY <2>1, <1>0 DEF Ledger!Advances, Ledger!Forward, Ledger!Terminal, Ledger!Stages, Terminal, Told, Records, Stages
  <2> QED
    BY <2>3, <2>4, <2>5
<1>4. CASE RecordArtifact(c)
  <2> DEFINE r == [memory[c] EXCEPT !.artifacts = @ + 1]
  <2>1. /\ pc[c] = "stage" /\ memory'[c] = r /\ pc'[c] = "stage" /\ at' = at
    BY <1>0, <1>4 DEF RecordArtifact
  <2>2. r \in Records
    BY <1>0 DEF Records
  <2>3. Saves(c, "stage", r)
    BY <2>2, <1>4 DEF RecordArtifact
  <2>4. Told(c)'
    BY <2>1, <1>0 DEF Told, Records, Stages
  <2>5. Ledger!Advances(memory[c], memory'[c])
    BY <2>1, <1>0 DEF Ledger!Advances, Ledger!Forward, Ledger!Terminal, Ledger!Stages, Terminal, Told, Records, Stages
  <2> QED
    BY <2>3, <2>4, <2>5
<1>5. CASE StageReturns(c)
  <2>1. PICK s \in Terminal : SetStageStatus(c, s)
    BY <1>5 DEF StageReturns
  <2> DEFINE r == [memory[c] EXCEPT !.stages[at[c]] = s]
  <2>2. /\ pc[c] = "stage" /\ at[c] \in Stages
        /\ memory'[c] = r /\ pc'[c] = "report" /\ at' = at
    BY <1>0, <1>5, <2>1 DEF StageReturns, SetStageStatus, Stages, Told
  <2>3. r \in Records
    BY <1>0, <2>2 DEF Records
  <2>4. Saves(c, "report", r)
    BY <2>1, <2>3, <1>5 DEF StageReturns, SetStageStatus
  <2>5. Told(c)'
    BY <2>2, <1>0 DEF Told, Records, Stages
  <2>6. Ledger!Advances(memory[c], memory'[c])
    BY <2>2, <1>0 DEF Ledger!Advances, Ledger!Forward, Ledger!Terminal, Ledger!Stages, Terminal, Told, Records, Stages
  <2> QED
    BY <2>4, <2>5, <2>6
<1>6. CASE Fail(c)
  <2> DEFINE r == [memory[c] EXCEPT !.status = "failed"]
  <2>1. r \in Records
    BY <1>0 DEF Records, Terminal
  <2>2. Saves(c, "returned", r)
    BY <2>1, <1>6 DEF Fail, SetStatus
  <2>3. /\ pc[c] = "failing" /\ memory'[c] = r /\ pc'[c] = "returned" /\ at' = at
    BY <1>0, <1>6 DEF Fail, SetStatus
  <2>4. Told(c)'
    BY <2>3, <1>0 DEF Told, Records
  <2>5. Ledger!Advances(memory[c], memory'[c])
    BY <2>3, <1>0 DEF Ledger!Advances, Ledger!Forward, Ledger!Terminal, Ledger!Stages, Terminal, Told, Records
  <2> QED
    BY <2>2, <2>4, <2>5
<1>7. CASE Succeed(c)
  <2> DEFINE r == [memory[c] EXCEPT !.status = "succeeded"]
  <2>1. r \in Records
    BY <1>0 DEF Records, Terminal
  <2>2. Saves(c, "returned", r)
    BY <2>1, <1>7 DEF Succeed, SetStatus
  <2>3. /\ pc[c] = "loop" /\ at[c] > NStages
        /\ memory'[c] = r /\ pc'[c] = "returned" /\ at' = at
    BY <1>0, <1>7 DEF Succeed, SetStatus
  <2>4. Told(c)'
    BY <2>3, <1>0 DEF Told, Records
  <2>5. Ledger!Advances(memory[c], memory'[c])
    BY <2>3, <1>0 DEF Ledger!Advances, Ledger!Forward, Ledger!Terminal, Ledger!Stages, Terminal, Told, Records, Stages
  <2> QED
    BY <2>2, <2>4, <2>5
<1> QED
  BY <1>1, <1>2, <1>3, <1>4, <1>5, <1>6, <1>7

\* The other calls leave the record alone, and it says what it should where they lead.
LEMMA PassingSteps ==
    ASSUME IInv, NEW c \in Commands,
           \/ LogCreated(c) \/ LogStart(c) \/ LogResult(c) \/ StageRaises(c) \/ LogError(c)
           \/ Crash(c)
    PROVE  TypeOK' /\ Told(c)' /\ \E to : Passes(c, to)
<1> USE StagesAssumption DEF IInv, Goto, Passes, Begun, PCs, Dead
<1>0. memory[c] \in Records /\ pc \in [Commands -> PCs] /\ at \in [Commands -> 1 .. NStages + 1]
      /\ id[c] = id[c]' /\ Told(c)
  BY DEF TypeOK, LogCreated, LogStart, LogResult, StageRaises, LogError, Crash
<1>1. pc[c] # "idle" => id[c] \in Ids
  BY HasId
<1>2. CASE LogCreated(c)
  <2>1. events' \in [Ids -> Seq(Events)]
    BY <1>1, <1>2, AppendEventType DEF LogCreated
  <2>2. TypeOK'
    BY <2>1, <1>0, <1>2 DEF TypeOK, LogCreated
  <2>3. Passes(c, "logged")
    BY <1>2, <1>0 DEF LogCreated
  <2>4. pc[c] = "created" /\ pc'[c] = "logged" /\ at' = at /\ memory' = memory
    BY <1>0, <1>2 DEF LogCreated
  <2>5. Told(c)'
    BY <2>4, <1>0 DEF Told
  <2> QED
    BY <2>5, <2>2, <2>3
<1>3. CASE LogStart(c)
  <2>1. at[c] \in 0 .. NStages /\ at[c] \in Stages
    BY <1>0, <1>3 DEF LogStart, Told, Stages
  <2>2. events' \in [Ids -> Seq(Events)]
    BY <2>1, <1>1, <1>3, AppendEventType DEF LogStart
  <2>3. TypeOK'
    BY <2>2, <1>0, <1>3 DEF TypeOK, LogStart
  <2>4. Passes(c, "stage")
    BY <1>3, <1>0 DEF LogStart
  <2>5. pc[c] = "announce" /\ pc'[c] = "stage" /\ at' = at /\ memory' = memory
    BY <1>0, <1>3 DEF LogStart
  <2>6. Told(c)'
    BY <2>5, <1>0 DEF Told
  <2> QED
    BY <2>6, <2>3, <2>4
<1>4. CASE LogResult(c)
  <2>1. at[c] \in 0 .. NStages /\ at[c] \in Stages
    BY <1>0, <1>4 DEF LogResult, Told, Stages
  <2>2. events' \in [Ids -> Seq(Events)]
    BY <2>1, <1>1, <1>4, AppendEventType DEF LogResult
  <2> DEFINE ok == memory[c].stages[at[c]] = "succeeded"
  <2>3. at' = [at EXCEPT ![c] = IF ok THEN at[c] + 1 ELSE at[c]]
    BY <1>4 DEF LogResult
  <2>4. TypeOK'
    BY <2>1, <2>2, <2>3, <1>0, <1>4 DEF TypeOK, LogResult, Stages
  <2>5. CASE ok
    <3>1. pc' = [pc EXCEPT ![c] = "loop"] /\ at'[c] = at[c] + 1 /\ memory' = memory
      BY <2>5, <2>3, <1>0, <1>4 DEF LogResult
    <3>2. Passes(c, "loop")
      BY <3>1, <2>3, <1>0, <1>4 DEF LogResult
    <3>3. Told(c)'
      BY <2>5, <3>1, <2>1, <1>0, <1>4 DEF Told, LogResult, Stages
    <3> QED
      BY <3>2, <3>3, <2>4
  <2>6. CASE ~ok
    <3>1. pc' = [pc EXCEPT ![c] = "failing"] /\ at'[c] = at[c] /\ memory' = memory
      BY <2>6, <2>3, <1>0, <1>4 DEF LogResult
    <3>2. Passes(c, "failing")
      BY <3>1, <2>3, <1>0, <1>4 DEF LogResult
    <3>3. Told(c)'
      BY <2>6, <3>1, <2>1, <1>0, <1>4 DEF Told, LogResult
    <3> QED
      BY <3>2, <3>3, <2>4
  <2> QED
    BY <2>5, <2>6
<1>5. CASE StageRaises(c)
  <2>1. TypeOK'
    BY <1>5, <1>0 DEF TypeOK, StageRaises
  <2>2. Passes(c, "raising")
    BY <1>5, <1>0 DEF StageRaises
  <2>3. pc[c] = "stage" /\ pc'[c] = "raising" /\ at' = at /\ memory' = memory
    BY <1>0, <1>5 DEF StageRaises
  <2>4. Told(c)'
    BY <2>3, <1>0 DEF Told
  <2> QED
    BY <2>4, <2>1, <2>2
<1>6. CASE LogError(c)
  <2>1. 0 \in 0 .. NStages
    OBVIOUS
  <2>2. events' \in [Ids -> Seq(Events)]
    BY <2>1, <1>1, <1>6, AppendEventType DEF LogError
  <2>3. TypeOK'
    BY <2>2, <1>0, <1>6 DEF TypeOK, LogError
  <2>4. Passes(c, "failing")
    BY <1>6, <1>0 DEF LogError
  <2>5. pc[c] = "raising" /\ pc'[c] = "failing" /\ at' = at /\ memory' = memory
    BY <1>0, <1>6 DEF LogError
  <2>6. Told(c)'
    BY <2>5, <1>0 DEF Told
  <2> QED
    BY <2>6, <2>3, <2>4
<1>7. CASE Crash(c)
  <2>1. TypeOK'
    BY <1>7, <1>0 DEF TypeOK, Crash
  <2>2. Passes(c, "crashed")
    BY <1>7, <1>0 DEF Crash
  <2>3. pc[c] = "stage" /\ pc'[c] = "crashed" /\ at' = at /\ memory' = memory
    BY <1>0, <1>7 DEF Crash
  <2>4. Told(c)'
    BY <2>3, <1>0 DEF Told
  <2> QED
    BY <2>4, <2>1, <2>2
<1> QED
  BY <1>2, <1>3, <1>4, <1>5, <1>6, <1>7

\* The reader changes nothing but its own call.
LEMMA ReaderKeeps ==
    ASSUME IInv, Reading \/ BeginList \/ LoadRun
    PROVE  IInv' /\ UNCHANGED <<command, file>>
<1> USE DEF IInv, Reading, BeginList, ListNext, EndList, ReadEntry, LoadRun, command
<1>1. UNCHANGED <<command, dirs, file, events, kills>>
  OBVIOUS
<1>2. scan' \in [outcome : {"none", "reading", "returned", "raised"}, todo : SUBSET Ids]
  <2>1. scan \in [outcome : {"none", "reading", "returned", "raised"}, todo : SUBSET Ids]
        /\ dirs \subseteq Ids
    BY DEF TypeOK
  <2>2. CASE ListNext
    <3>1. PICK i \in scan.todo : scan' = ReadEntry(i)
      BY <2>2
    <3> QED
      BY <2>1, <3>1
  <2>3. CASE EndList
    BY <2>1, <2>3
  <2>4. CASE BeginList
    BY <2>1, <2>4
  <2>5. CASE LoadRun
    <3>1. PICK i \in Ids :
            scan' = [outcome |-> IF file[i] \in Records THEN "returned" ELSE "raised",
                     todo |-> {}]
      BY <2>5
    <3> QED
      BY <3>1
  <2> QED
    BY <2>2, <2>3, <2>4, <2>5
<1>3. TypeOK'
  BY <1>1, <1>2 DEF TypeOK
<1>4. Placed' /\ Unwritten' /\ WriteThrough'
  BY <1>1 DEF Placed, Unwritten, WriteThrough, Created, Shared
<1>5. ASSUME NEW c \in Commands PROVE Told(c)'
  BY <1>1, ToldOfOthers
<1> QED
  BY <1>1, <1>3, <1>4, <1>5

\* Every step keeps the invariant.
LEMMA StepHolds == IInv /\ [Next]_vars => IInv'
<1> SUFFICES ASSUME IInv, [Next]_vars
             PROVE  IInv'
  OBVIOUS
<1>1. CASE \E c \in Commands : Step(c) \/ Crash(c) \/ Kill(c)
  <2> PICK c \in Commands : Step(c) \/ Crash(c) \/ Kill(c)
    BY <1>1
  <2>1. CASE EndSave(c)
    BY <2>1, EndSaveKeeps
  <2>2. CASE MakeDirectory(c)
    BY <2>2, MakeDirectoryKeeps
  <2>3. CASE \/ CreateRecord(c) \/ StartRun(c) \/ StartStage(c) \/ RecordArtifact(c)
             \/ StageReturns(c) \/ Fail(c) \/ Succeed(c)
    BY <2>3, SavingSteps, SavesHolds
  <2>4. CASE \/ LogCreated(c) \/ LogStart(c) \/ LogResult(c) \/ StageRaises(c) \/ LogError(c)
             \/ Crash(c)
    BY <2>4, PassingSteps, PassesHolds
  <2>5. CASE Kill(c)
    BY <2>5, KillKeeps
  <2> QED
    BY <2>1, <2>2, <2>3, <2>4, <2>5 DEF Step
<1>2. CASE Reading \/ BeginList \/ LoadRun
  BY <1>2, ReaderKeeps
<1>3. CASE UNCHANGED vars
  <2>1. UNCHANGED <<pc, id, memory, at, saving, dirs, file, events, scan, kills>>
    BY <1>3 DEF vars, command
  <2>2. TypeOK' /\ Placed' /\ Unwritten' /\ WriteThrough'
    BY <2>1 DEF IInv, TypeOK, Placed, Unwritten, WriteThrough, Created, Shared
  <2>3. ASSUME NEW c \in Commands PROVE Told(c)'
    BY <2>1, ToldOfOthers DEF IInv
  <2> QED
    BY <2>2, <2>3 DEF IInv
<1> QED
  BY <1>1, <1>2, <1>3 DEF Next

-----------------------------------------------------------------------------
(***************************************************************************)
(* The theorems.                                                           *)
(***************************************************************************)
\* Every variable keeps its type: no run.json holds anything but a record, nothing, or what
\* an unfinished save has left.
THEOREM StoreTypeCorrect == Spec => []TypeOK
<1>1. Spec => []IInv
  BY InitHolds, StepHolds, PTL DEF Spec
<1>2. IInv => TypeOK
  BY DEF IInv
<1> QED
  BY <1>1, <1>2, PTL

\* For any number of commands, with any kills and exceptions: what a command that has its
\* directory to itself has set is on disk before its next call.
THEOREM RecordIsWrittenThrough == Spec => []WriteThrough
<1>1. Spec => []IInv
  BY InitHolds, StepHolds, PTL DEF Spec
<1>2. IInv => WriteThrough
  BY DEF IInv
<1> QED
  BY <1>1, <1>2, PTL

-----------------------------------------------------------------------------
(***************************************************************************)
(* The refinement: a step of the store is a step of the ledger, or none.   *)
(***************************************************************************)
\* What a reader sees of a run that has its directory to itself.
OwnRecord ==
    \A c \in Commands : ~Shared(c) =>
        /\ pc[c] \in {"idle", "made"} => LedgerState[c] = "none" /\ LedgerRecord[c] = Fresh(c)
        /\ pc[c] \in Begun \ Dead => LedgerState[c] = "current" /\ LedgerRecord[c] = memory[c]

\* It is the record in memory, from the first save on until the command dies.
LEMMA OwnRecordSeen == IInv => OwnRecord
<1> SUFFICES ASSUME IInv, NEW c \in Commands, ~Shared(c)
             PROVE  /\ pc[c] \in {"idle", "made"} =>
                         LedgerState[c] = "none" /\ LedgerRecord[c] = Fresh(c)
                    /\ pc[c] \in Begun \ Dead =>
                         LedgerState[c] = "current" /\ LedgerRecord[c] = memory[c]
  BY DEF OwnRecord
<1> USE DEF IInv
<1>1. CASE pc[c] = "idle"
  BY <1>1 DEF Placed, LedgerState, LedgerRecord, Begun
<1>2. CASE pc[c] = "made"
  BY <1>2, FilesAssumption DEF Placed, Unwritten, LedgerState, LedgerRecord, Begun
<1>3. CASE pc[c] \in Begun \ Dead
  <2>1. file[id[c]] = IF saving[c] THEN Truncated ELSE memory[c]
    BY <1>3 DEF WriteThrough, Created, Begun, Dead
  <2>2. id[c] # NoId /\ memory[c] \in Records
    BY <1>3 DEF Placed, Begun, TypeOK
  <2> QED
    BY <2>1, <2>2, <1>3, FilesAssumption DEF LedgerState, LedgerRecord, Begun, Unreadable
<1> QED
  BY <1>1, <1>2, <1>3 DEF TypeOK

\* A run looks the same while its file, its memory and its fate do, and while it is shared.
LEMMA LooksTheSame ==
    ASSUME NEW d \in Commands, id'[d] = id[d], Shared(d)' <=> Shared(d),
           \/ Shared(d)
           \/ /\ file'[id[d]] = file[id[d]] /\ memory'[d] = memory[d]
              /\ pc'[d] \in Dead <=> pc[d] \in Dead
    PROVE  LedgerState'[d] = LedgerState[d] /\ LedgerRecord'[d] = LedgerRecord[d]
BY DEF LedgerState, LedgerRecord

\* The other commands look the same when only one's record and file change.
LEMMA OthersLookTheSame ==
    ASSUME IInv, NEW c \in Commands, id' = id, pc[c] # "idle",
           \A i \in Ids \ {id[c]} : file'[i] = file[i],
           \A d \in Commands \ {c} :
               memory'[d] = memory[d] /\ pc'[d] = pc[d],
           NEW d \in Commands, d # c \/ Shared(d)
    PROVE  LedgerState'[d] = LedgerState[d] /\ LedgerRecord'[d] = LedgerRecord[d]
<1>1. Shared(d)' <=> Shared(d)
  BY SharedStays
<1>2. CASE Shared(d)
  BY <1>1, <1>2, LooksTheSame
<1>3. CASE ~Shared(d)
  <2>1. d # c /\ id[c] # NoId /\ id[d] # id[c]
    BY <1>3 DEF IInv, Placed, Shared
  <2>2. CASE id[d] = NoId
    BY <2>2, <1>1 DEF LedgerState, LedgerRecord
  <2>3. CASE id[d] # NoId
    <3>1. id[d] \in Ids \ {id[c]}
      BY <2>1, <2>3 DEF IInv, TypeOK
    <3> QED
      BY <3>1, <2>1, <1>1, LooksTheSame
  <2> QED
    BY <2>2, <2>3
<1> QED
  BY <1>2, <1>3

\* The ledger stays when every run looks the same.
LEMMA LedgerStays ==
    ASSUME \A d \in Commands :
               LedgerState'[d] = LedgerState[d] /\ LedgerRecord'[d] = LedgerRecord[d]
    PROVE  UNCHANGED <<LedgerState, LedgerRecord>>
BY DEF LedgerState, LedgerRecord

\* It takes a step of its own when one run moves.
LEMMA LedgerMoves ==
    ASSUME NEW c \in Commands,
           \A d \in Commands \ {c} :
               LedgerState'[d] = LedgerState[d] /\ LedgerRecord'[d] = LedgerRecord[d]
    PROVE  /\ LedgerState' = [LedgerState EXCEPT ![c] = LedgerState'[c]]
           /\ LedgerRecord' = [LedgerRecord EXCEPT ![c] = LedgerRecord'[c]]
<1>1. /\ LedgerState = [d \in Commands |-> LedgerState[d]]
      /\ LedgerRecord = [d \in Commands |-> LedgerRecord[d]]
  BY DEF LedgerState, LedgerRecord
<1>2. /\ LedgerState' = [d \in Commands |-> LedgerState'[d]]
      /\ LedgerRecord' = [d \in Commands |-> LedgerRecord'[d]]
  BY DEF LedgerState, LedgerRecord
<1> QED
  BY <1>1, <1>2

\* A save creates a record or advances it.
LEMMA SaveAdvances ==
    ASSUME IInv, OwnRecord, OwnRecord', NEW c \in Commands,
           \/ CreateRecord(c) \/ StartRun(c) \/ StartStage(c) \/ RecordArtifact(c)
           \/ StageReturns(c) \/ Fail(c) \/ Succeed(c)
    PROVE  [Ledger!Next]_(Ledger!vars)
<1>1. PICK to, r : Saves(c, to, r)
  BY SavingSteps
<1>2. /\ id' = id /\ pc[c] # "idle" /\ id[c] \in Ids
      /\ \A i \in Ids \ {id[c]} : file'[i] = file[i]
      /\ \A d \in Commands \ {c} : memory'[d] = memory[d] /\ pc'[d] = pc[d]
      /\ pc[c] \in {"made"} \cup (Begun \ Dead) /\ pc'[c] \in Begun \ Dead
      /\ memory'[c] \in Records
  BY <1>1, HasId DEF IInv, TypeOK, Saves, BeginSave, Begun
<1>3. ASSUME NEW d \in Commands, d # c \/ Shared(d)
      PROVE  LedgerState'[d] = LedgerState[d] /\ LedgerRecord'[d] = LedgerRecord[d]
  BY <1>2, <1>3, OthersLookTheSame
<1>4. CASE Shared(c)
  BY <1>3, <1>4, LedgerStays DEF Ledger!vars
<1>5. CASE ~Shared(c)
  <2>1. LedgerState'[c] = "current" /\ LedgerRecord'[c] = memory'[c]
    BY <1>2, <1>5, SharedStays DEF OwnRecord
  <2>2. /\ LedgerState' = [LedgerState EXCEPT ![c] = "current"]
        /\ LedgerRecord' = [LedgerRecord EXCEPT ![c] = LedgerRecord'[c]]
    BY <2>1, <1>3, LedgerMoves
  <2>3. CASE pc[c] = "made"
    <3>1. LedgerState[c] = "none" /\ LedgerRecord[c] = Fresh(c)
      BY <2>3, <1>5 DEF OwnRecord
    <3>2. memory'[c] = Fresh(c)
      BY <2>3 DEF CreateRecord, StartRun, StartStage, RecordArtifact, StageReturns, Fail,
                  Succeed, Goto, BeginSave, IInv, TypeOK
    <3>3. LedgerRecord' = LedgerRecord
      BY <2>1, <3>1, <3>2, <1>3, LedgerMoves DEF LedgerRecord
    <3>4. Ledger!Appear(c)
      BY <2>2, <3>1, <3>3 DEF Ledger!Appear
    <3> QED
      BY <3>4 DEF Ledger!Next
  <2>4. CASE pc[c] # "made"
    <3>1. LedgerState[c] = "current" /\ LedgerRecord[c] = memory[c]
      BY <2>4, <1>2, <1>5 DEF OwnRecord
    <3>2. Ledger!Advances(LedgerRecord[c], LedgerRecord'[c])
      BY <2>1, <2>4, <3>1, SavingSteps
    <3>3. LedgerState' = LedgerState
      BY <2>2, <3>1 DEF LedgerState
    <3>4. LedgerRecord'[c] \in Ledger!Records
      BY <2>1, <1>2 DEF Records, Terminal, Stages, Ledger!Records, Ledger!Terminal, Ledger!Stages
    <3>5. Ledger!Advance(c)
      BY <2>2, <3>1, <3>2, <3>3, <3>4 DEF Ledger!Advance
    <3> QED
      BY <3>5 DEF Ledger!Next
  <2> QED
    BY <2>3, <2>4
<1> QED
  BY <1>4, <1>5

\* Drawing an id shows nothing, or that its directory is shared.
LEMMA DrawingShares ==
    ASSUME IInv, OwnRecord, OwnRecord', NEW c \in Commands, MakeDirectory(c)
    PROVE  [Ledger!Next]_(Ledger!vars)
<1> DEFINE group == {d \in Commands : Shared(d)'}
<1>1. PICK i \in Ids : id' = [id EXCEPT ![c] = i]
  BY DEF MakeDirectory
<1>2. /\ pc[c] = "idle" /\ id[c] = NoId
      /\ pc' = [pc EXCEPT ![c] = "made"]
      /\ UNCHANGED <<memory, file>>
  BY DEF MakeDirectory, Goto, IInv, Placed
<1>3. ASSUME NEW d \in Commands \ {c}
      PROVE  id'[d] = id[d] /\ pc'[d] = pc[d] /\ (Shared(d) => Shared(d)')
  BY <1>1, <1>2, IdsAssumption DEF IInv, TypeOK, Shared
<1>4. ASSUME NEW d \in group
      PROVE  LedgerState'[d] = "shared" /\ LedgerRecord'[d] = Fresh(d)
  BY <1>4 DEF LedgerState, LedgerRecord
<1>5. ASSUME NEW d \in Commands \ group
      PROVE  LedgerState'[d] = LedgerState[d] /\ LedgerRecord'[d] = LedgerRecord[d]
  <2>1. ~Shared(d)'
    BY <1>5
  <2>2. CASE d = c
    <3>1. ~Shared(c) /\ pc'[c] = "made"
      BY <1>2 DEF Shared, IInv, TypeOK
    <3> QED
      BY <2>1, <2>2, <3>1, <1>2 DEF OwnRecord
  <2>3. CASE d # c
    BY <2>1, <2>3, <1>2, <1>3, LooksTheSame
  <2> QED
    BY <2>2, <2>3
<1>6. /\ LedgerState' = [d \in Commands |-> LedgerState'[d]]
      /\ LedgerRecord' = [d \in Commands |-> LedgerRecord'[d]]
  BY DEF LedgerState, LedgerRecord
<1>7. \A d \in Commands : Ledger!Fresh(d) = Fresh(d)
  BY DEF Fresh, Ledger!Fresh, Stages, Ledger!Stages
<1>8. Ledger!Share(group)
  BY <1>4, <1>5, <1>6, <1>7 DEF Ledger!Share
<1> QED
  BY <1>8 DEF Ledger!Next

\* The second half of a save shows what was in memory before.
LEMMA EndSaveShowsNothing ==
    ASSUME IInv, OwnRecord, OwnRecord', NEW c \in Commands, EndSave(c)
    PROVE  UNCHANGED <<LedgerState, LedgerRecord>>
<1>1. /\ saving[c] /\ pc[c] \notin Dead /\ UNCHANGED <<pc, id, memory>>
      /\ \A i \in Ids \ {id[c]} : file'[i] = file[i]
  BY DEF EndSave, IInv, TypeOK
<1>2. pc[c] \in Begun \ Dead
  BY <1>1 DEF IInv, TypeOK, Placed, Begun
<1>3. ASSUME NEW d \in Commands, d # c \/ Shared(d)
      PROVE  LedgerState'[d] = LedgerState[d] /\ LedgerRecord'[d] = LedgerRecord[d]
  BY <1>1, <1>2, <1>3, OthersLookTheSame DEF Begun
<1>4. ASSUME ~Shared(c)
      PROVE  LedgerState'[c] = LedgerState[c] /\ LedgerRecord'[c] = LedgerRecord[c]
  BY <1>1, <1>2, <1>4, SharedStays DEF OwnRecord
<1> QED
  BY <1>3, <1>4, LedgerStays

\* Going on shows nothing, also when it is the end of the command.
LEMMA PassingShowsNothing ==
    ASSUME IInv, NEW c \in Commands, NEW to, Passes(c, to)
    PROVE  UNCHANGED <<LedgerState, LedgerRecord>>
<1>1. /\ UNCHANGED <<id, memory, file>> /\ pc[c] # "idle" /\ ~saving[c]
      /\ \A d \in Commands \ {c} : pc'[d] = pc[d]
  BY DEF Passes, IInv, TypeOK, Begun
<1>2. ASSUME NEW d \in Commands, d # c \/ Shared(d)
      PROVE  LedgerState'[d] = LedgerState[d] /\ LedgerRecord'[d] = LedgerRecord[d]
  BY <1>1, <1>2, OthersLookTheSame
<1>3. ASSUME ~Shared(c)
      PROVE  LedgerState'[c] = LedgerState[c] /\ LedgerRecord'[c] = LedgerRecord[c]
  <2>1. ~Shared(c)'
    BY <1>1, <1>3, SharedStays
  <2>2. file[id[c]] = memory[c] /\ memory[c] \in Records
    BY <1>1, <1>3 DEF IInv, WriteThrough, Created, Passes, Begun, Dead, TypeOK
  <2> QED
    BY <2>1, <2>2, <1>1, <1>3, FilesAssumption DEF LedgerState, LedgerRecord, Unreadable
<1> QED
  BY <1>2, <1>3, LedgerStays

\* A kill in the middle of a save loses the record, and no other one does.
LEMMA KillLoses ==
    ASSUME IInv, OwnRecord, NEW c \in Commands, Kill(c)
    PROVE  [Ledger!Next]_(Ledger!vars)
<1>1. /\ UNCHANGED <<id, memory, file, saving>> /\ pc[c] \notin {"idle"} \cup Dead
      /\ \A d \in Commands \ {c} : pc'[d] = pc[d]
      /\ pc'[c] = "killed"
  BY DEF Kill, IInv, TypeOK
<1>2. ASSUME NEW d \in Commands, d # c \/ Shared(d)
      PROVE  LedgerState'[d] = LedgerState[d] /\ LedgerRecord'[d] = LedgerRecord[d]
  BY <1>1, <1>2, OthersLookTheSame
<1>3. CASE Shared(c)
  BY <1>2, <1>3, LedgerStays DEF Ledger!vars
<1>4. CASE ~Shared(c)
  <2>1. ~Shared(c)' /\ id[c] # NoId /\ memory[c] \in Records
    BY <1>1, <1>4, SharedStays DEF IInv, Placed, TypeOK
  <2>2. LedgerRecord'[c] = LedgerRecord[c]
    BY <2>1, <1>1, <1>4 DEF LedgerRecord
  <2>3. LedgerRecord' = LedgerRecord
    BY <2>2, <1>2, LedgerMoves DEF LedgerRecord
  <2>4. CASE pc[c] = "made"
    <3>1. file[id[c]] = NoFile
      BY <2>4, <1>4 DEF IInv, Unwritten
    <3>2. LedgerState'[c] = LedgerState[c]
      BY <2>1, <3>1, <1>1, <1>4 DEF LedgerState
    <3> QED
      BY <2>2, <3>2, <1>2, LedgerStays DEF Ledger!vars
  <2>5. CASE pc[c] # "made"
    <3>1. LedgerState[c] = "current"
      BY <2>5, <1>1, <1>4 DEF OwnRecord, Begun, IInv, TypeOK
    <3>2. file[id[c]] = IF saving[c] THEN Truncated ELSE memory[c]
      BY <2>5, <1>1, <1>4 DEF IInv, WriteThrough, Created, Dead
    <3>3. CASE saving[c]
      <4>1. LedgerState'[c] = "lost"
        BY <3>2, <3>3, <2>1, <1>1, FilesAssumption DEF LedgerState, Unreadable, Dead
      <4>2. Ledger!Lose(c)
        BY <3>1, <4>1, <2>3, <1>2, LedgerMoves DEF Ledger!Lose
      <4> QED
        BY <4>2 DEF Ledger!Next
    <3>4. CASE ~saving[c]
      <4>1. LedgerState'[c] = "current"
        BY <3>2, <3>4, <2>1, <1>1, FilesAssumption DEF LedgerState, Unreadable
      <4> QED
        BY <3>1, <4>1, <2>2, <1>2, LedgerStays DEF Ledger!vars
    <3> QED
      BY <3>3, <3>4
  <2> QED
    BY <2>4, <2>5
<1> QED
  BY <1>3, <1>4

\* For any number of commands, runs, stages and kills, and for every choice of ids: the
\* run store implements the ledger.  A record appears once, advances one call at a time
\* and ends for ever, and only a death in the middle of a save makes it unreadable, unless
\* two runs have drawn one id.
THEOREM StoreIsALedger == Spec => ImplementsLedger
<1>1. Init => Ledger!Init
  <2> SUFFICES ASSUME Init PROVE Ledger!Init
    OBVIOUS
  <2>1. \A c \in Commands : id[c] = NoId /\ ~Shared(c)
    BY DEF Init, Shared
  <2> QED
    BY <2>1 DEF Ledger!Init, LedgerState, LedgerRecord, Fresh, Ledger!Fresh, Stages, Ledger!Stages
<1>2. IInv /\ OwnRecord /\ OwnRecord' /\ [Next]_vars => [Ledger!Next]_(Ledger!vars)
  <2> SUFFICES ASSUME IInv, OwnRecord, OwnRecord', [Next]_vars
               PROVE  [Ledger!Next]_(Ledger!vars)
    OBVIOUS
  <2>1. CASE \E c \in Commands : Step(c) \/ Crash(c) \/ Kill(c)
    <3> PICK c \in Commands : Step(c) \/ Crash(c) \/ Kill(c)
      BY <2>1
    <3>1. CASE EndSave(c)
      BY <3>1, EndSaveShowsNothing DEF Ledger!vars
    <3>2. CASE MakeDirectory(c)
      BY <3>2, DrawingShares
    <3>3. CASE \/ CreateRecord(c) \/ StartRun(c) \/ StartStage(c) \/ RecordArtifact(c)
               \/ StageReturns(c) \/ Fail(c) \/ Succeed(c)
      BY <3>3, SaveAdvances
    <3>4. CASE \/ LogCreated(c) \/ LogStart(c) \/ LogResult(c) \/ StageRaises(c) \/ LogError(c)
               \/ Crash(c)
      BY <3>4, PassingSteps, PassingShowsNothing DEF Ledger!vars
    <3>5. CASE Kill(c)
      BY <3>5, KillLoses
    <3> QED
      BY <3>1, <3>2, <3>3, <3>4, <3>5 DEF Step
  <2>2. CASE (Reading \/ BeginList \/ LoadRun) \/ UNCHANGED vars
    <3>1. UNCHANGED <<pc, id, memory, file>>
      BY <2>2, ReaderKeeps DEF command, vars
    <3>2. ASSUME NEW d \in Commands
          PROVE  LedgerState'[d] = LedgerState[d] /\ LedgerRecord'[d] = LedgerRecord[d]
      BY <3>1 DEF LedgerState, LedgerRecord, Shared
    <3> QED
      BY <3>2, LedgerStays DEF Ledger!vars
  <2> QED
    BY <2>1, <2>2 DEF Next
<1> QED
  BY <1>1, <1>2, InitHolds, StepHolds, OwnRecordSeen, PTL DEF Spec, ImplementsLedger, Ledger!Spec

-----------------------------------------------------------------------------
(***************************************************************************)
(* The lines of a log: LinesBy is defined by recursion along the log, and  *)
(* these lemmas say what one more line does to it.                         *)
(***************************************************************************)
\* What f says at line n, when it has told the lines before.
LineAfter(f, c, log, n) ==
    IF n = 0 THEN << >>
    ELSE IF log[n].owner = c THEN Append(f[n - 1], <<log[n].kind, log[n].stage>>)
    ELSE f[n - 1]

\* f tells what c has written in the first m lines of a log.
Tells(f, c, log, m) == f = [n \in 0 .. m |-> LineAfter(f, c, log, n)]

\* The lines of a log are what such a function says at the end of it.
LEMMA LinesByDef ==
    ASSUME NEW c, NEW log
    PROVE  LinesBy(c, log) = (CHOOSE f : Tells(f, c, log, Len(log)))[Len(log)]
BY DEF LinesBy, Tells, LineAfter

\* It says at every line what it should.
LEMMA TellsAt ==
    ASSUME NEW c, NEW log, NEW m, NEW f, Tells(f, c, log, m)
    PROVE  \A n \in 0 .. m : f[n] = LineAfter(f, c, log, n)
BY DEF Tells

\* Two such functions agree as far as both go.
LEMMA OneTells ==
    ASSUME NEW c, NEW log, NEW m \in Nat, NEW k \in 0 .. m, NEW f, NEW g,
           Tells(f, c, log, m), Tells(g, c, log, k)
    PROVE  \A n \in 0 .. k : f[n] = g[n]
<1> DEFINE T == {n \in 0 .. k : f[n] # g[n]}
<1>1. SUFFICES ASSUME T # {} PROVE FALSE
  OBVIOUS
<1>2. PICK n \in T : \A j \in T : n <= j
  <2>1. T \in SUBSET Nat
    OBVIOUS
  <2> HIDE DEF T
  <2> QED
    BY <1>1, <2>1, LeastNatural
<1>0. k \in Nat /\ 0 \in 0 .. m /\ 0 \in 0 .. k /\ n \in 0 .. m /\ n \in 0 .. k
  BY <1>2
<1>3. f[0] = << >>
  <2>1. f[0] = LineAfter(f, c, log, 0)
    BY <1>0, TellsAt
  <2> QED
    BY <2>1 DEF LineAfter
<1>8. g[0] = << >>
  <2>1. g[0] = LineAfter(g, c, log, 0)
    BY <1>0, TellsAt
  <2> QED
    BY <2>1 DEF LineAfter
<1>4. n # 0 /\ n \in 1 .. k
  BY <1>2, <1>3, <1>8
<1>5. f[n - 1] = g[n - 1] /\ n - 1 \in 0 .. k
  BY <1>2, <1>4
<1>6. f[n] = LineAfter(f, c, log, n)
  BY <1>0, <1>4, TellsAt
<1>7. g[n] = LineAfter(g, c, log, n)
  BY <1>0, <1>4, TellsAt
<1> QED
  BY <1>2, <1>4, <1>5, <1>6, <1>7 DEF LineAfter

\* There is such a function, for every length.
LEMMA SomeTells ==
    ASSUME NEW c, NEW log, NEW m \in Nat
    PROVE  \E f : Tells(f, c, log, m)
<1> DEFINE S == {n \in Nat : \E f : Tells(f, c, log, n)}
<1>1. 0 \in S
  <2>1. Tells([n \in 0 .. 0 |-> << >>], c, log, 0)
    BY DEF Tells
  <2> QED
    BY <2>1
<1>2. ASSUME NEW n \in Nat, n \in S
      PROVE  n + 1 \in S
  <2>1. PICK f : Tells(f, c, log, n)
    BY <1>2
  <2> DEFINE g == [j \in 0 .. n + 1 |->
                     IF j <= n THEN f[j]
                     ELSE IF log[n + 1].owner = c
                     THEN Append(f[n], <<log[n + 1].kind, log[n + 1].stage>>)
                     ELSE f[n]]
  <2>2. ASSUME NEW j \in 0 .. n + 1
        PROVE  g[j] = LineAfter(g, c, log, j)
    <3>0. j \in 0 .. n => f[j] = LineAfter(f, c, log, j)
      BY <2>1, TellsAt
    <3>1. CASE j = 0
      BY <3>0, <3>1 DEF LineAfter
    <3>2. CASE j \in 1 .. n
      <4>1. g[j] = f[j] /\ g[j - 1] = f[j - 1]
        BY <3>2
      <4> QED
        BY <3>0, <3>2, <4>1 DEF LineAfter
    <3>3. CASE j = n + 1
      <4>1. g[j - 1] = f[n]
        BY <3>3
      <4> QED
        BY <3>3, <4>1 DEF LineAfter
    <3> QED
      BY <3>1, <3>2, <3>3
  <2>3. Tells(g, c, log, n + 1)
    <3>1. g = [j \in 0 .. n + 1 |-> g[j]]
      OBVIOUS
    <3> HIDE DEF g
    <3>2. g = [j \in 0 .. n + 1 |-> LineAfter(g, c, log, j)]
      BY <2>2, <3>1
    <3> QED
      BY <3>2 DEF Tells
  <2> QED
    BY <2>3
<1>3. Nat \subseteq S
  <2> HIDE DEF S
  <2> QED
    BY <1>1, <1>2, NaturalInduction
<1> QED
  BY <1>3

\* So the lines of a log are what any of them says at the end.
LEMMA LinesByTold ==
    ASSUME NEW c, NEW log, NEW m \in Nat, Len(log) = m, NEW f, Tells(f, c, log, m)
    PROVE  LinesBy(c, log) = f[m]
<1> DEFINE g == CHOOSE h : Tells(h, c, log, Len(log))
<1>1. Tells(g, c, log, m)
  <2>1. \E h : Tells(h, c, log, Len(log))
    OBVIOUS
  <2> QED
    BY <2>1
<1>2. g[m] = f[m]
  <2> HIDE DEF g
  <2>1. m \in 0 .. m
    OBVIOUS
  <2> QED
    BY <1>1, <2>1, OneTells
<1> QED
  BY <1>2, LinesByDef

\* An empty log has no lines.
LEMMA NoLines == \A c : LinesBy(c, << >>) = << >>
<1> TAKE c
<1>1. PICK f : Tells(f, c, << >>, 0)
  BY SomeTells
<1>2. f[0] = LineAfter(f, c, << >>, 0)
  BY <1>1, TellsAt
<1>3. LinesBy(c, << >>) = f[0]
  BY <1>1, LinesByTold
<1> QED
  BY <1>2, <1>3 DEF LineAfter

\* A line that is appended to a log is appended to the lines of its owner.
LEMMA OneMoreLine ==
    ASSUME NEW c, NEW S, NEW log \in Seq(S), NEW e \in S
    PROVE  LinesBy(c, Append(log, e)) =
             IF e.owner = c THEN Append(LinesBy(c, log), <<e.kind, e.stage>>)
             ELSE LinesBy(c, log)
<1> DEFINE m == Len(log)
           more == Append(log, e)
<1>1. m \in Nat /\ Len(more) = m + 1 /\ more[m + 1] = e /\ \A n \in 1 .. m : more[n] = log[n]
  OBVIOUS
<1>2. PICK f : Tells(f, c, more, m + 1)
  <2>1. m + 1 \in Nat
    BY <1>1
  <2> HIDE DEF m, more
  <2> QED
    BY <2>1, SomeTells
<1>3. LinesBy(c, more) = f[m + 1]
  <2>1. m + 1 \in Nat
    BY <1>1
  <2> HIDE DEF m, more
  <2> QED
    BY <2>1, <1>1, <1>2, LinesByTold
<1>4. \A n \in 0 .. m + 1 : f[n] = LineAfter(f, c, more, n)
  BY <1>2, TellsAt
<1> DEFINE g == [n \in 0 .. m |-> f[n]]
<1>5. Tells(g, c, log, m)
  <2>1. ASSUME NEW n \in 0 .. m PROVE g[n] = LineAfter(g, c, log, n)
    <3>1. f[n] = LineAfter(f, c, more, n)
      BY <1>1, <1>4
    <3>2. CASE n = 0
      BY <3>1, <3>2 DEF LineAfter
    <3>3. CASE n # 0
      <4>1. n \in 1 .. m /\ n - 1 \in 0 .. m
        BY <1>1, <3>3
      <4>2. g[n] = f[n] /\ g[n - 1] = f[n - 1] /\ more[n] = log[n]
        BY <1>1, <4>1
      <4> QED
        BY <3>1, <3>3, <4>2 DEF LineAfter
    <3> QED
      BY <3>2, <3>3
  <2>2. g = [n \in 0 .. m |-> g[n]]
    OBVIOUS
  <2> HIDE DEF g
  <2>3. g = [n \in 0 .. m |-> LineAfter(g, c, log, n)]
    BY <2>1, <2>2
  <2> QED
    BY <2>3 DEF Tells
<1>6. LinesBy(c, log) = g[m]
  BY <1>1, <1>5, LinesByTold
<1>7. g[m] = f[m]
  BY <1>1
<1>8. f[m + 1] = IF e.owner = c THEN Append(f[m], <<e.kind, e.stage>>) ELSE f[m]
  <2>1. f[m + 1] = LineAfter(f, c, more, m + 1)
    BY <1>1, <1>4
  <2>2. m + 1 # 0 /\ (m + 1) - 1 = m
    BY <1>1
  <2> QED
    BY <1>1, <2>1, <2>2 DEF LineAfter
<1> QED
  BY <1>3, <1>6, <1>7, <1>8

-----------------------------------------------------------------------------
(***************************************************************************)
(* The log of a run that ends with its record.                             *)
(***************************************************************************)
\* Two lines that are appended to a sequence.
LEMMA TwoAppended ==
    ASSUME NEW T, NEW G \in Seq(T), NEW x \in T, NEW y \in T, NEW z \in T
    PROVE  /\ Append(G, x) = G \o <<x>>
           /\ Append(G \o <<x>>, y) = G \o <<x, y>>
           /\ <<z>> \o Append(Append(G, x), y) = Append(Append(<<z>> \o G, x), y)
           /\ Append(Append(G, x), y) \in Seq(T)
           /\ Len(Append(Append(G, x), y)) = Len(G) + 2
           /\ \A i \in 1 .. Len(G) : Append(Append(G, x), y)[i] = G[i]
           /\ Append(Append(G, x), y)[Len(G) + 1] = x
           /\ Append(Append(G, x), y)[Len(G) + 2] = y
<1>1. Append(G, x) \in Seq(T) /\ Len(Append(G, x)) = Len(G) + 1 /\ Len(G) \in Nat
  OBVIOUS
<1>2. \A i \in 1 .. Len(G) : Append(G, x)[i] = G[i]
  OBVIOUS
<1>3. Append(G, x)[Len(G) + 1] = x
  OBVIOUS
<1>4. Append(G, x) = G \o <<x>>
  OBVIOUS
<1>5. Append(G \o <<x>>, y) = G \o <<x, y>>
  <2>1. /\ Append(G \o <<x>>, y) \in Seq(T) /\ G \o <<x, y>> \in Seq(T)
        /\ Len(Append(G \o <<x>>, y)) = Len(G) + 2 /\ Len(G \o <<x, y>>) = Len(G) + 2
    BY <1>1, <1>4
  <2>2. \A i \in 1 .. Len(G) + 2 : Append(G \o <<x>>, y)[i] = (G \o <<x, y>>)[i]
    <3> TAKE i \in 1 .. Len(G) + 2
    <3>1. CASE i \in 1 .. Len(G)
      BY <3>1
    <3>2. CASE i = Len(G) + 1
      BY <3>2
    <3>3. CASE i = Len(G) + 2
      BY <3>3
    <3> QED
      BY <1>1, <3>1, <3>2, <3>3
  <2> QED
    BY <2>1, <2>2, SeqEqual
<1>6. <<z>> \o Append(Append(G, x), y) = Append(Append(<<z>> \o G, x), y)
  <2>1. \A s \in Seq(T) : \A t \in T : <<z>> \o Append(s, t) = Append(<<z>> \o s, t)
    OBVIOUS
  <2>2. <<z>> \o Append(Append(G, x), y) = Append(<<z>> \o Append(G, x), y)
    BY <1>1, <2>1
  <2> QED
    BY <2>1, <2>2
<1>7. /\ Append(Append(G, x), y) \in Seq(T)
      /\ Len(Append(Append(G, x), y)) = Len(G) + 2
      /\ Append(Append(G, x), y)[Len(G) + 2] = y
  BY <1>1
<1>8. \A i \in 1 .. Len(G) + 1 : Append(Append(G, x), y)[i] = Append(G, x)[i]
  BY <1>1
<1> QED
  BY <1>1, <1>2, <1>3, <1>4, <1>5, <1>6, <1>7, <1>8

\* The log of n stages, one by one.
LEMMA LogOfMoreStages ==
    ASSUME NEW n \in Nat
    PROVE  /\ LogOfStages(0) = <<<<"created", 0>>>>
           /\ Append(LogOfStages(n), <<"start", n + 1>>) = LogOfStages(n) \o <<<<"start", n + 1>>>>
           /\ Append(LogOfStages(n) \o <<<<"start", n + 1>>>>, <<"done", n + 1>>)
                = LogOfStages(n + 1)
           /\ Append(LogOfStages(n) \o <<<<"start", n + 1>>>>, <<"error", 0>>)
                = LogOfStages(n) \o <<<<"start", n + 1>>, <<"error", 0>>>>
<1> DEFINE T == {"created", "start", "done", "error"} \X Nat
           F(k) == [m \in 1 .. 2 * k |->
                      <<IF m % 2 = 1 THEN "start" ELSE "done", (m + 1) \div 2>>]
<1>1. \A k \in Nat : F(k) \in Seq(T) /\ Len(F(k)) = 2 * k
  <2> SUFFICES ASSUME NEW k \in Nat PROVE F(k) \in Seq(T) /\ Len(F(k)) = 2 * k
    OBVIOUS
  <2>1. \A m \in 1 .. 2 * k : (m + 1) \div 2 \in Nat
    OBVIOUS
  <2>2. F(k) \in [1 .. 2 * k -> T]
    BY <2>1
  <2>3. 2 * k \in Nat
    OBVIOUS
  <2> HIDE DEF F, T
  <2> QED
    BY <2>2, <2>3
<1>2. <<"created", 0>> \in T /\ <<"start", n + 1>> \in T /\ <<"done", n + 1>> \in T
      /\ <<"error", 0>> \in T
  OBVIOUS
<1>3. LogOfStages(n) = <<<<"created", 0>>>> \o F(n)
      /\ LogOfStages(n + 1) = <<<<"created", 0>>>> \o F(n + 1)
      /\ LogOfStages(0) = <<<<"created", 0>>>> \o F(0)
  BY DEF LogOfStages
<1>4. F(n + 1) = Append(Append(F(n), <<"start", n + 1>>), <<"done", n + 1>>)
  <2> DEFINE more == Append(Append(F(n), <<"start", n + 1>>), <<"done", n + 1>>)
  <2>1. /\ F(n) \in Seq(T) /\ Len(F(n)) = 2 * n
        /\ F(n + 1) \in Seq(T) /\ Len(F(n + 1)) = 2 * (n + 1)
    BY <1>1
  <2>2. /\ more \in Seq(T) /\ Len(more) = 2 * n + 2
        /\ \A i \in 1 .. 2 * n : more[i] = F(n)[i]
        /\ more[2 * n + 1] = <<"start", n + 1>>
        /\ more[2 * n + 2] = <<"done", n + 1>>
    <3> HIDE DEF F, T
    <3>1. \A z \in T :
            /\ more \in Seq(T) /\ Len(more) = Len(F(n)) + 2
            /\ \A i \in 1 .. Len(F(n)) : more[i] = F(n)[i]
            /\ more[Len(F(n)) + 1] = <<"start", n + 1>>
            /\ more[Len(F(n)) + 2] = <<"done", n + 1>>
      BY <1>2, <2>1, TwoAppended
    <3> QED
      BY <1>2, <2>1, <3>1
  <2>3. ASSUME NEW m \in 1 .. 2 * n + 2
        PROVE  more[m] = F(n + 1)[m]
    <3>1. CASE m \in 1 .. 2 * n
      BY <2>2, <3>1
    <3>0. F(n + 1)[m] = <<IF m % 2 = 1 THEN "start" ELSE "done", (m + 1) \div 2>>
      <4>1. m \in 1 .. 2 * (n + 1)
        OBVIOUS
      <4> QED
        BY <4>1
    <3> HIDE DEF F, T, more
    <3>2. CASE m = 2 * n + 1
      <4>1. m % 2 = 1 /\ (m + 1) \div 2 = n + 1
        BY <3>2
      <4> QED
        BY <2>2, <3>0, <3>2, <4>1
    <3>3. CASE m = 2 * n + 2
      <4>1. m % 2 = 0 /\ (m + 1) \div 2 = n + 1
        BY <3>3
      <4> QED
        BY <2>2, <3>0, <3>3, <4>1
    <3>4. m \in 1 .. 2 * n \/ m = 2 * n + 1 \/ m = 2 * n + 2
      OBVIOUS
    <3> QED
      BY <3>1, <3>2, <3>3, <3>4
  <2> HIDE DEF F, T, more
  <2>4. more = F(n + 1)
    BY <2>1, <2>2, <2>3, SeqEqual
  <2> QED
    BY <2>4 DEF more
<1>5. F(0) = << >>
  OBVIOUS
<1> HIDE DEF F, T
<1>6. F(n) \in Seq(T) /\ F(n + 1) \in Seq(T) /\ <<<<"created", 0>>>> \in Seq(T)
  BY <1>1, <1>2
<1>7. LogOfStages(0) = <<<<"created", 0>>>>
  BY <1>3, <1>5, <1>6
<1>8. LogOfStages(n) \in Seq(T)
  BY <1>3, <1>6
<1> DEFINE x == <<"start", n + 1>>
           y == <<"done", n + 1>>
           e == <<"error", 0>>
           z == <<"created", 0>>
           G == LogOfStages(n)
<1>9. x \in T /\ y \in T /\ e \in T /\ z \in T /\ G \in Seq(T)
  BY <1>2, <1>8
<1>10. G = <<z>> \o F(n) /\ LogOfStages(n + 1) = <<z>> \o F(n + 1)
       /\ F(n + 1) = Append(Append(F(n), x), y)
  BY <1>3, <1>4
<1>11. Append(G, x) = G \o <<x>> /\ Append(G \o <<x>>, e) = G \o <<x, e>>
  <2> HIDE DEF x, y, z, e, G
  <2> QED
    BY <1>9, TwoAppended
<1>12. Append(G \o <<x>>, y) = LogOfStages(n + 1)
  <2> HIDE DEF x, y, z, e, G
  <2>1. <<z>> \o Append(Append(F(n), x), y) = Append(Append(<<z>> \o F(n), x), y)
    BY <1>6, <1>9, TwoAppended
  <2> QED
    BY <1>10, <1>11, <2>1
<1> QED
  BY <1>7, <1>11, <1>12

-----------------------------------------------------------------------------
(***************************************************************************)
(* A run whose record says how it ended has a log that says why.           *)
(***************************************************************************)
\* The log of a command and its record in memory say why it fails.
FailureLogged(c) ==
    \E n \in 0 .. NStages :
       /\ \A k \in 1 .. n : memory[c].stages[k] = "succeeded"
       /\ \/ LogOf(c) = LogOfStages(n + 1) /\ memory[c].stages[n + 1] = "failed"
          \/ /\ LogOf(c) = LogOfStages(n) \o <<<<"start", n + 1>>, <<"error", 0>>>>
             /\ memory[c].stages[n + 1] = "running"

\* What a command has logged at each call of Pipeline.run, and when it has ended.
Logged(c) ==
    id[c] # NoId =>
       /\ pc[c] \in {"made", "created"} => LogOf(c) = << >>
       /\ pc[c] \in {"logged", "loop", "announce"} => LogOf(c) = LogOfStages(at[c] - 1)
       /\ pc[c] \in {"stage", "report", "raising"} =>
            LogOf(c) = LogOfStages(at[c] - 1) \o <<<<"start", at[c]>>>>
       /\ pc[c] = "failing" => FailureLogged(c)
       /\ memory[c].status = "succeeded" => LogOf(c) = LogOfStages(NStages)
       /\ memory[c].status = "failed" => FailureLogged(c)

\* It has logged nothing anywhere else.
Elsewhere(c) == \A i \in Ids : i # id[c] => LinesBy(c, events[i]) = << >>

\* A record of it that can be read is the one in its memory, in its directory.
OwnFile(c) ==
    \A i \in Ids : file[i] \in Records /\ file[i].owner = c => id[c] = i /\ file[i] = memory[c]

EInv == IInv /\ \A c \in Commands : Logged(c) /\ Elsewhere(c) /\ OwnFile(c)

\* A line in a log is a line of its owner in that log, and changes no other lines.
LEMMA LogsGrow ==
    ASSUME TypeOK, NEW c \in Commands, NEW d \in Commands, NEW i \in Ids,
           NEW kind \in {"created", "start", "done", "error"}, NEW k \in 0 .. NStages,
           AppendEvent(c, kind, k)
    PROVE  LinesBy(d, events'[i]) =
             IF d = c /\ i = id[c] THEN Append(LinesBy(c, events[i]), <<kind, k>>)
             ELSE LinesBy(d, events[i])
<1> DEFINE e == [owner |-> c, kind |-> kind, stage |-> k]
<1>1. events[i] \in Seq(Events) /\ e \in Events /\ e.owner = c /\ e.kind = kind /\ e.stage = k
  BY DEF TypeOK, Events
<1>2. events'[i] = IF i = id[c] THEN Append(events[i], e) ELSE events[i]
  BY DEF AppendEvent, TypeOK
<1> HIDE DEF e
<1>3. LinesBy(d, Append(events[i], e)) =
        IF e.owner = d THEN Append(LinesBy(d, events[i]), <<e.kind, e.stage>>)
        ELSE LinesBy(d, events[i])
  BY <1>1, OneMoreLine
<1> QED
  BY <1>1, <1>2, <1>3

\* What is logged stays as it is when the command stands still and its lines stay.
LEMMA LoggedStays ==
    ASSUME NEW d \in Commands, Logged(d), LogOf(d)' = LogOf(d), memory'[d] = memory[d],
           pc'[d] = pc[d], at'[d] = at[d], id'[d] = id[d]
    PROVE  Logged(d)'
<1>1. FailureLogged(d) => FailureLogged(d)'
  BY DEF FailureLogged
<1> QED
  BY <1>1 DEF Logged

\* Nothing is logged at the start.
LEMMA NothingLogged == Init => EInv
<1> SUFFICES ASSUME Init PROVE EInv
  OBVIOUS
<1>1. ASSUME NEW c \in Commands PROVE Logged(c) /\ Elsewhere(c) /\ OwnFile(c)
  BY NoLines, FilesAssumption DEF Init, Logged, Elsewhere, OwnFile
<1> QED
  BY <1>1, InitHolds DEF EInv

\* A save leaves the logs alone, and takes the record out of its file.
LEMMA SavesExplain ==
    ASSUME EInv, NEW c \in Commands, NEW to, NEW r, Saves(c, to, r), Logged(c)'
    PROVE  \A d \in Commands : Logged(d)' /\ Elsewhere(d)' /\ OwnFile(d)'
<1> SUFFICES ASSUME NEW d \in Commands PROVE Logged(d)' /\ Elsewhere(d)' /\ OwnFile(d)'
  OBVIOUS
<1>1. id[c] \in Ids /\ TypeOK
  BY HasId DEF EInv, IInv, Saves
<1>2. /\ id' = id /\ at' = at /\ events' = events
      /\ file' = [file EXCEPT ![id[c]] = Truncated]
      /\ d # c => memory'[d] = memory[d] /\ pc'[d] = pc[d]
  BY <1>1 DEF Saves, BeginSave, TypeOK
<1>3. Logged(d)'
  <2>1. CASE d # c
    BY <2>1, <1>2, LoggedStays DEF EInv, LogOf
  <2> QED
    BY <2>1
<1>4. Elsewhere(d)'
  BY <1>2 DEF EInv, Elsewhere
<1>5. OwnFile(d)'
  <2> SUFFICES ASSUME NEW i \in Ids, file'[i] \in Records, file'[i].owner = d
               PROVE  id[d] = i /\ file'[i] = memory'[d]
    BY <1>2 DEF OwnFile
  <2>1. i # id[c] /\ file'[i] = file[i]
    BY <1>1, <1>2, FilesAssumption DEF TypeOK
  <2>2. id[d] = i /\ file[i] = memory[d]
    BY <2>1 DEF EInv, OwnFile
  <2> QED
    BY <2>1, <2>2, <1>2
<1> QED
  BY <1>3, <1>4, <1>5

\* A step without a save leaves the records alone, and logs at most one line, of its own.
LEMMA PassesExplain ==
    ASSUME EInv, NEW c \in Commands, NEW to, Passes(c, to), Logged(c)',
           \A d \in Commands, i \in Ids :
              ~(d = c /\ i = id[c]) => LinesBy(d, events'[i]) = LinesBy(d, events[i])
    PROVE  \A d \in Commands : Logged(d)' /\ Elsewhere(d)' /\ OwnFile(d)'
<1> SUFFICES ASSUME NEW d \in Commands PROVE Logged(d)' /\ Elsewhere(d)' /\ OwnFile(d)'
  OBVIOUS
<1>1. /\ id' = id /\ file' = file /\ memory' = memory
      /\ d # c => at'[d] = at[d] /\ pc'[d] = pc[d]
  BY DEF Passes, EInv, IInv, TypeOK
<1>2. Logged(d)'
  <2>1. CASE d # c /\ id[d] \in Ids
    <3>1. LogOf(d)' = LogOf(d)
      BY <2>1, <1>1 DEF LogOf
    <3> QED
      BY <2>1, <3>1, <1>1, LoggedStays DEF EInv
  <2>2. CASE id[d] \notin Ids
    BY <2>2, <1>1 DEF Logged, EInv, IInv, TypeOK
  <2> QED
    BY <2>1, <2>2
<1>3. Elsewhere(d)'
  BY <1>1 DEF EInv, Elsewhere
<1>4. OwnFile(d)'
  BY <1>1 DEF EInv, OwnFile
<1> QED
  BY <1>2, <1>3, <1>4

\* The calls that save: what is logged so far explains what they save.
LEMMA SavedIsLogged ==
    ASSUME EInv, NEW c \in Commands,
           \/ CreateRecord(c) \/ StartRun(c) \/ StartStage(c) \/ RecordArtifact(c)
           \/ StageReturns(c) \/ Fail(c) \/ Succeed(c)
    PROVE  Logged(c)'
<1> USE StagesAssumption
<1>0. /\ memory[c] \in Records /\ memory \in [Commands -> Records] /\ pc \in [Commands -> PCs]
      /\ at[c] \in 1 .. NStages + 1 /\ Told(c) /\ Logged(c)
  BY DEF EInv, IInv, TypeOK
<1>1. id' = id /\ at' = at /\ LogOf(c)' = LogOf(c)
  BY DEF CreateRecord, StartRun, StartStage, RecordArtifact, StageReturns, Fail, Succeed, LogOf
<1>2. CASE CreateRecord(c)
  <2>1. pc[c] = "made" /\ pc'[c] = "created" /\ memory'[c] = Fresh(c)
    BY <1>0, <1>2 DEF CreateRecord, Goto, BeginSave
  <2>2. memory'[c].status = "pending"
    BY <2>1 DEF Fresh
  <2> QED
    BY <2>1, <2>2, <1>0, <1>1 DEF Logged
<1>3. CASE StartRun(c)
  <2>1. pc[c] = "logged" /\ pc'[c] = "loop" /\ memory'[c].status = "running"
    BY <1>0, <1>3 DEF StartRun, SetStatus, Goto, BeginSave, Records
  <2> QED
    BY <2>1, <1>0, <1>1 DEF Logged
<1>4. CASE StartStage(c)
  <2>1. pc[c] = "loop" /\ pc'[c] = "announce" /\ memory'[c].status = memory[c].status
    BY <1>0, <1>4 DEF StartStage, SetStageStatus, Goto, BeginSave, Records
  <2>2. memory[c].status = "running"
    BY <2>1, <1>0 DEF Told
  <2> QED
    BY <2>1, <2>2, <1>0, <1>1 DEF Logged
<1>5. CASE RecordArtifact(c)
  <2>1. pc[c] = "stage" /\ pc'[c] = "stage" /\ memory'[c].status = memory[c].status
    BY <1>0, <1>5 DEF RecordArtifact, Goto, BeginSave, Records
  <2>2. memory[c].status = "running"
    BY <2>1, <1>0 DEF Told
  <2> QED
    BY <2>1, <2>2, <1>0, <1>1 DEF Logged
<1>6. CASE StageReturns(c)
  <2>1. pc[c] = "stage" /\ pc'[c] = "report" /\ memory'[c].status = memory[c].status
    BY <1>0, <1>6 DEF StageReturns, SetStageStatus, Goto, BeginSave, Records
  <2>2. memory[c].status = "running"
    BY <2>1, <1>0 DEF Told
  <2> QED
    BY <2>1, <2>2, <1>0, <1>1 DEF Logged
<1>7. CASE Fail(c)
  <2>1. /\ pc[c] = "failing" /\ pc'[c] = "returned"
        /\ memory'[c].status = "failed" /\ memory'[c].stages = memory[c].stages
    BY <1>0, <1>7 DEF Fail, SetStatus, Goto, BeginSave, Records
  <2>2. FailureLogged(c)' \/ id[c] = NoId
    BY <2>1, <1>0, <1>1 DEF Logged, FailureLogged
  <2> QED
    BY <2>1, <2>2, <1>0, <1>1 DEF Logged
<1>8. CASE Succeed(c)
  <2>0. at[c] = NStages + 1
    BY <1>0, <1>8 DEF Succeed
  <2>1. pc[c] = "loop" /\ pc'[c] = "returned" /\ memory'[c].status = "succeeded"
    BY <1>0, <1>8 DEF Succeed, SetStatus, Goto, BeginSave, Records
  <2>2. id[c] # NoId => LogOf(c) = LogOfStages(at[c] - 1)
    BY <2>1, <1>0 DEF Logged
  <2>3. at[c] - 1 = NStages
    BY <2>0
  <2> QED
    BY <2>1, <2>2, <2>3, <1>0, <1>1 DEF Logged
<1> QED
  BY <1>2, <1>3, <1>4, <1>5, <1>6, <1>7, <1>8

\* A line that a command logs.
LEMMA OwnLogGrows ==
    ASSUME TypeOK, NEW c \in Commands, id[c] \in Ids, id'[c] = id[c],
           NEW kind \in {"created", "start", "done", "error"}, NEW k \in 0 .. NStages,
           AppendEvent(c, kind, k)
    PROVE  /\ LogOf(c)' = Append(LogOf(c), <<kind, k>>)
           /\ \A d \in Commands, i \in Ids :
                 ~(d = c /\ i = id[c]) => LinesBy(d, events'[i]) = LinesBy(d, events[i])
<1>1. LinesBy(c, events'[id[c]]) = Append(LinesBy(c, events[id[c]]), <<kind, k>>)
  BY LogsGrow
<1>2. ASSUME NEW d \in Commands, NEW i \in Ids, ~(d = c /\ i = id[c])
      PROVE  LinesBy(d, events'[i]) = LinesBy(d, events[i])
  BY <1>2, LogsGrow
<1> QED
  BY <1>1, <1>2 DEF LogOf

\* The calls that do not save: each line they log is the next one that the log should have.
LEMMA PassedIsLogged ==
    ASSUME EInv, NEW c \in Commands,
           \/ LogCreated(c) \/ LogStart(c) \/ LogResult(c) \/ StageRaises(c) \/ LogError(c)
           \/ Crash(c)
    PROVE  /\ Logged(c)'
           /\ \A d \in Commands, i \in Ids :
                 ~(d = c /\ i = id[c]) => LinesBy(d, events'[i]) = LinesBy(d, events[i])
<1> USE StagesAssumption
<1>0. /\ TypeOK /\ memory[c] \in Records /\ pc \in [Commands -> PCs]
      /\ at \in [Commands -> 1 .. NStages + 1] /\ at[c] \in Nat \ {0} /\ Told(c) /\ Logged(c)
  BY DEF EInv, IInv, TypeOK
<1>1. id' = id /\ memory' = memory /\ id[c] \in Ids
  BY HasId DEF LogCreated, LogStart, LogResult, StageRaises, LogError, Crash, Goto, EInv, IInv
<1>2. id[c] # NoId
  BY <1>1, IdsAssumption
<1>3. CASE LogCreated(c)
  <2>1. AppendEvent(c, "created", 0) /\ pc[c] = "created" /\ pc'[c] = "logged" /\ at' = at
    BY <1>0, <1>3 DEF LogCreated, Goto
  <2>2. /\ LogOf(c)' = Append(LogOf(c), <<"created", 0>>)
        /\ \A d \in Commands, i \in Ids :
              ~(d = c /\ i = id[c]) => LinesBy(d, events'[i]) = LinesBy(d, events[i])
    BY <2>1, <1>0, <1>1, OwnLogGrows
  <2>3. LogOf(c) = << >> /\ memory[c].status = "pending" /\ at[c] = 1
    BY <2>1, <1>0, <1>2 DEF Logged, Told, Fresh
  <2>4. LogOf(c)' = LogOfStages(at[c] - 1)
    <3>1. LogOfStages(0) = <<<<"created", 0>>>>
      <4>1. 0 \in Nat
        OBVIOUS
      <4> QED
        BY <4>1, LogOfMoreStages
    <3>2. Append(<< >>, <<"created", 0>>) = <<<<"created", 0>>>> /\ at[c] - 1 = 0
      BY <2>3
    <3> QED
      BY <2>2, <2>3, <3>1, <3>2
  <2> QED
    BY <2>1, <2>2, <2>3, <2>4, <1>1 DEF Logged
<1>4. CASE LogStart(c)
  <2>1. /\ AppendEvent(c, "start", at[c]) /\ pc[c] = "announce" /\ pc'[c] = "stage"
        /\ at' = at /\ at[c] \in 0 .. NStages
    BY <1>0, <1>4 DEF LogStart, Goto, Told
  <2>2. /\ LogOf(c)' = Append(LogOf(c), <<"start", at[c]>>)
        /\ \A d \in Commands, i \in Ids :
              ~(d = c /\ i = id[c]) => LinesBy(d, events'[i]) = LinesBy(d, events[i])
    BY <2>1, <1>0, <1>1, OwnLogGrows
  <2>3. LogOf(c) = LogOfStages(at[c] - 1) /\ memory[c].status = "running"
    BY <2>1, <1>0, <1>2 DEF Logged, Told
  <2>4. PICK n \in Nat : n = at[c] - 1 /\ n + 1 = at[c]
    BY <1>0
  <2>5. LogOf(c)' = LogOfStages(at[c] - 1) \o <<<<"start", at[c]>>>>
    BY <2>2, <2>3, <2>4, LogOfMoreStages
  <2> QED
    BY <2>1, <2>2, <2>3, <2>5, <1>1 DEF Logged
<1>5. CASE LogResult(c)
  <2> DEFINE ok == memory[c].stages[at[c]] = "succeeded"
  <2>1. /\ AppendEvent(c, "done", at[c]) /\ pc[c] = "report" /\ at[c] \in Stages
        /\ pc'[c] = IF ok THEN "loop" ELSE "failing"
        /\ at'[c] = IF ok THEN at[c] + 1 ELSE at[c]
    BY <1>0, <1>5 DEF LogResult, Goto, Told, Stages
  <2>2. /\ LogOf(c)' = Append(LogOf(c), <<"done", at[c]>>)
        /\ \A d \in Commands, i \in Ids :
              ~(d = c /\ i = id[c]) => LinesBy(d, events'[i]) = LinesBy(d, events[i])
    <3>1. at[c] \in 0 .. NStages
      BY <2>1 DEF Stages
    <3> QED
      BY <2>1, <3>1, <1>0, <1>1, OwnLogGrows
  <2>3. /\ LogOf(c) = LogOfStages(at[c] - 1) \o <<<<"start", at[c]>>>>
        /\ memory[c].status = "running" /\ memory[c].stages[at[c]] \in Terminal
        /\ \A k \in Stages : k < at[c] => memory[c].stages[k] = "succeeded"
    BY <2>1, <1>0, <1>2 DEF Logged, Told
  <2>4. PICK n \in Nat : n = at[c] - 1 /\ n + 1 = at[c] /\ n \in 0 .. NStages
    BY <1>0
  <2>5. LogOf(c)' = LogOfStages(n + 1)
    BY <2>2, <2>3, <2>4, LogOfMoreStages
  <2>6. CASE ok
    <3>1. at'[c] - 1 = n + 1
      BY <2>1, <2>4, <2>6
    <3> QED
      BY <2>1, <2>2, <2>3, <2>5, <2>6, <3>1, <1>1 DEF Logged
  <2>7. CASE ~ok
    <3>1. memory[c].stages[n + 1] = "failed"
      BY <2>3, <2>4, <2>7 DEF Terminal
    <3>2. \A k \in 1 .. n : memory[c].stages[k] = "succeeded"
      <4>1. \A k \in 1 .. n : k \in Stages /\ k < at[c]
        BY <2>4 DEF Stages
      <4> QED
        BY <2>3, <4>1
    <3>3. FailureLogged(c)'
      BY <2>4, <2>5, <3>1, <3>2, <1>1 DEF FailureLogged
    <3> QED
      BY <2>1, <2>2, <2>3, <2>7, <3>3, <1>1 DEF Logged
  <2> QED
    BY <2>6, <2>7
<1>6. CASE StageRaises(c)
  <2>1. pc[c] = "stage" /\ pc'[c] = "raising" /\ at' = at /\ events' = events
    BY <1>0, <1>6 DEF StageRaises, Goto
  <2>2. memory[c].status = "running" /\ LogOf(c)' = LogOf(c)
    BY <2>1, <1>0, <1>1 DEF Told, LogOf
  <2> QED
    BY <2>1, <2>2, <1>0, <1>1 DEF Logged
<1>7. CASE LogError(c)
  <2>1. /\ AppendEvent(c, "error", 0) /\ pc[c] = "raising" /\ pc'[c] = "failing"
        /\ at' = at /\ at[c] \in Stages
    BY <1>0, <1>7 DEF LogError, Goto, Told, Stages
  <2>2. /\ LogOf(c)' = Append(LogOf(c), <<"error", 0>>)
        /\ \A d \in Commands, i \in Ids :
              ~(d = c /\ i = id[c]) => LinesBy(d, events'[i]) = LinesBy(d, events[i])
    BY <2>1, <1>0, <1>1, OwnLogGrows
  <2>3. /\ LogOf(c) = LogOfStages(at[c] - 1) \o <<<<"start", at[c]>>>>
        /\ memory[c].status = "running" /\ memory[c].stages[at[c]] = "running"
        /\ \A k \in Stages : k < at[c] => memory[c].stages[k] = "succeeded"
    BY <2>1, <1>0, <1>2 DEF Logged, Told
  <2>4. PICK n \in Nat : n = at[c] - 1 /\ n + 1 = at[c] /\ n \in 0 .. NStages
    BY <1>0
  <2>5. LogOf(c)' = LogOfStages(n) \o <<<<"start", n + 1>>, <<"error", 0>>>>
    BY <2>2, <2>3, <2>4, LogOfMoreStages
  <2>6. \A k \in 1 .. n : memory[c].stages[k] = "succeeded"
    <3>1. \A k \in 1 .. n : k \in Stages /\ k < at[c]
      BY <2>1, <2>4 DEF Stages
    <3> QED
      BY <2>3, <3>1
  <2>7. FailureLogged(c)'
    BY <2>3, <2>4, <2>5, <2>6, <1>1 DEF FailureLogged
  <2> QED
    BY <2>1, <2>2, <2>3, <2>7, <1>1 DEF Logged
<1>8. CASE Crash(c)
  <2>1. pc[c] = "stage" /\ pc'[c] = "crashed" /\ at' = at /\ events' = events
    BY <1>0, <1>8 DEF Crash, Goto
  <2>2. memory[c].status = "running" /\ LogOf(c)' = LogOf(c)
    BY <2>1, <1>0, <1>1 DEF Told, LogOf
  <2> QED
    BY <2>1, <2>2, <1>0, <1>1 DEF Logged
<1> QED
  BY <1>3, <1>4, <1>5, <1>6, <1>7, <1>8

\* Whatever happens, what is logged explains what is saved.
LEMMA ExplainedStepHolds == EInv /\ [Next]_vars => EInv'
<1> SUFFICES ASSUME EInv, [Next]_vars
             PROVE  EInv'
  OBVIOUS
<1>0. IInv /\ IInv'
  BY StepHolds DEF EInv
<1> SUFFICES \A d \in Commands : Logged(d)' /\ Elsewhere(d)' /\ OwnFile(d)'
  BY <1>0 DEF EInv
<1>1. ASSUME NEW c \in Commands,
             \/ CreateRecord(c) \/ StartRun(c) \/ StartStage(c) \/ RecordArtifact(c)
             \/ StageReturns(c) \/ Fail(c) \/ Succeed(c)
      PROVE  \A d \in Commands : Logged(d)' /\ Elsewhere(d)' /\ OwnFile(d)'
  BY <1>0, <1>1, SavingSteps, SavedIsLogged, SavesExplain
<1>2. ASSUME NEW c \in Commands,
             \/ LogCreated(c) \/ LogStart(c) \/ LogResult(c) \/ StageRaises(c) \/ LogError(c)
             \/ Crash(c)
      PROVE  \A d \in Commands : Logged(d)' /\ Elsewhere(d)' /\ OwnFile(d)'
  BY <1>0, <1>2, PassingSteps, PassedIsLogged, PassesExplain
<1>3. ASSUME NEW c \in Commands, EndSave(c)
      PROVE  \A d \in Commands : Logged(d)' /\ Elsewhere(d)' /\ OwnFile(d)'
  <2> SUFFICES ASSUME NEW d \in Commands PROVE Logged(d)' /\ Elsewhere(d)' /\ OwnFile(d)'
    OBVIOUS
  <2>1. PICK text \in {memory[c], Mixed} : file' = [file EXCEPT ![id[c]] = text]
    BY <1>3 DEF EndSave, Written
  <2>2. UNCHANGED <<pc, id, memory, at, events>> /\ id[c] \in Ids /\ memory[c].owner = c
    BY <1>0, <1>3, HasId DEF EndSave, IInv, Placed, Told
  <2>3. Logged(d)'
    BY <2>2, LoggedStays DEF EInv, LogOf
  <2>4. Elsewhere(d)'
    BY <2>2 DEF EInv, Elsewhere
  <2>5. OwnFile(d)'
    <3> SUFFICES ASSUME NEW i \in Ids, file'[i] \in Records, file'[i].owner = d
                 PROVE  id[d] = i /\ file'[i] = memory[d]
      BY <2>2 DEF OwnFile
    <3>1. CASE i = id[c]
      BY <3>1, <1>0, <2>1, <2>2, FilesAssumption DEF IInv, TypeOK
    <3>2. CASE i # id[c]
      BY <3>2, <1>0, <2>1, <2>2 DEF EInv, OwnFile, IInv, TypeOK
    <3> QED
      BY <3>1, <3>2
  <2> QED
    BY <2>3, <2>4, <2>5
<1>4. ASSUME NEW c \in Commands, MakeDirectory(c)
      PROVE  \A d \in Commands : Logged(d)' /\ Elsewhere(d)' /\ OwnFile(d)'
  <2> SUFFICES ASSUME NEW d \in Commands PROVE Logged(d)' /\ Elsewhere(d)' /\ OwnFile(d)'
    OBVIOUS
  <2>1. PICK i \in Ids : id' = [id EXCEPT ![c] = i]
    BY <1>4 DEF MakeDirectory
  <2>2. /\ UNCHANGED <<memory, at, file, events>> /\ pc[c] = "idle" /\ id[c] = NoId
        /\ pc' = [pc EXCEPT ![c] = "made"] /\ memory[c] = Fresh(c)
        /\ id \in [Commands -> Ids \cup {NoId}] /\ pc \in [Commands -> PCs]
    BY <1>0, <1>4 DEF MakeDirectory, Goto, IInv, Placed, TypeOK
  <2>3. CASE d # c
    <3>1. id'[d] = id[d] /\ pc'[d] = pc[d] /\ LogOf(d)' = LogOf(d)
      BY <2>1, <2>2, <2>3 DEF LogOf
    <3>2. Logged(d)'
      BY <3>1, <2>2, LoggedStays DEF EInv
    <3>3. Elsewhere(d)' /\ OwnFile(d)'
      BY <3>1, <2>2 DEF EInv, Elsewhere, OwnFile
    <3> QED
      BY <3>2, <3>3
  <2>4. CASE d = c
    <3>1. id'[c] = i /\ pc'[c] = "made"
      BY <2>1, <2>2
    <3>2. \A j \in Ids : LinesBy(c, events[j]) = << >>
      BY <2>2, IdsAssumption DEF EInv, Elsewhere
    <3>3. LogOf(c)' = << >>
      BY <3>1, <3>2, <2>2 DEF LogOf
    <3>4. Logged(c)'
      BY <3>1, <3>3, <2>2 DEF Logged, Fresh
    <3>5. Elsewhere(c)'
      BY <3>2, <2>2 DEF Elsewhere
    <3>6. \A j \in Ids : ~(file[j] \in Records /\ file[j].owner = c)
      BY <2>2, IdsAssumption DEF EInv, OwnFile
    <3>7. OwnFile(c)'
      BY <3>6, <2>2 DEF OwnFile
    <3> QED
      BY <2>4, <3>4, <3>5, <3>7
  <2> QED
    BY <2>3, <2>4
<1>5. ASSUME NEW c \in Commands, Kill(c)
      PROVE  \A d \in Commands : Logged(d)' /\ Elsewhere(d)' /\ OwnFile(d)'
  <2> SUFFICES ASSUME NEW d \in Commands PROVE Logged(d)' /\ Elsewhere(d)' /\ OwnFile(d)'
    OBVIOUS
  <2>1. /\ UNCHANGED <<id, memory, at, file, events>> /\ pc' = [pc EXCEPT ![c] = "killed"]
        /\ pc \in [Commands -> PCs] /\ LogOf(d)' = LogOf(d) /\ Logged(d)
    BY <1>0, <1>5 DEF Kill, IInv, TypeOK, LogOf, EInv
  <2>2. FailureLogged(d) => FailureLogged(d)'
    BY <2>1 DEF FailureLogged
  <2>3. Logged(d)'
    <3>1. pc'[d] = pc[d] \/ pc'[d] = "killed"
      BY <2>1
    <3> QED
      BY <2>1, <2>2, <3>1 DEF Logged
  <2>4. Elsewhere(d)' /\ OwnFile(d)'
    BY <2>1 DEF EInv, Elsewhere, OwnFile
  <2> QED
    BY <2>3, <2>4
<1>6. ASSUME Reading \/ BeginList \/ LoadRun \/ UNCHANGED vars
      PROVE  \A d \in Commands : Logged(d)' /\ Elsewhere(d)' /\ OwnFile(d)'
  <2> SUFFICES ASSUME NEW d \in Commands PROVE Logged(d)' /\ Elsewhere(d)' /\ OwnFile(d)'
    OBVIOUS
  <2>1. UNCHANGED <<pc, id, memory, at, file, events>>
    BY <1>6 DEF Reading, BeginList, ListNext, EndList, LoadRun, vars, command
  <2>2. Logged(d)'
    BY <2>1, LoggedStays DEF EInv, LogOf
  <2>3. Elsewhere(d)' /\ OwnFile(d)'
    BY <2>1 DEF EInv, Elsewhere, OwnFile
  <2> QED
    BY <2>2, <2>3
<1> QED
  BY <1>1, <1>2, <1>3, <1>4, <1>5, <1>6 DEF Next, Step

\* For any number of commands, ids, stages, artifacts and kills, also when two commands
\* have drawn one id: a run whose record says how it ended has a log that says why.
THEOREM EndsAreExplained == Spec => []EndIsExplained
<1>1. Spec => []EInv
  BY NothingLogged, ExplainedStepHolds, PTL DEF Spec
<1>2. EInv => EndIsExplained
  <2> SUFFICES ASSUME EInv, NEW c \in Commands, id[c] # NoId,
                      file[id[c]] \in Records, file[id[c]].owner = c
               PROVE  /\ file[id[c]].status = "succeeded" => LogOf(c) = LogOfStages(NStages)
                      /\ file[id[c]].status = "failed" =>
                           \E n \in 0 .. NStages :
                              /\ \A k \in 1 .. n : file[id[c]].stages[k] = "succeeded"
                              /\ \/ /\ LogOf(c) = LogOfStages(n + 1)
                                    /\ file[id[c]].stages[n + 1] = "failed"
                                 \/ /\ LogOf(c) =
                                         LogOfStages(n) \o <<<<"start", n + 1>>, <<"error", 0>>>>
                                    /\ file[id[c]].stages[n + 1] = "running"
    BY DEF EndIsExplained
  <2>1. id[c] \in Ids
    BY DEF EInv, IInv, TypeOK
  <2>2. file[id[c]] = memory[c]
    BY <2>1 DEF EInv, OwnFile
  <2>3. Logged(c)
    BY DEF EInv
  <2> QED
    BY <2>2, <2>3 DEF Logged, FailureLogged
<1> QED
  BY <1>1, <1>2, PTL

-----------------------------------------------------------------------------
(***************************************************************************)
(* How much a command has left to do: the calls of Pipeline.run that are   *)
(* still to come, those of each stage and the artifacts it may record, and *)
(* the second half of a save.                                              *)
(***************************************************************************)
Places ==
    [idle |-> 9, made |-> 8, created |-> 7, logged |-> 6, loop |-> 5, announce |-> 4,
     stage |-> 3, report |-> 2, raising |-> 2, failing |-> 1, returned |-> 0,
     killed |-> 0, crashed |-> 0]

CallsLeft(c) == 6 * (NStages + 1 - at[c]) + Places[pc[c]]
ToRecord(c)  == MaxArtifacts - memory[c].artifacts
WorkLeft(c)  == 2 * (CallsLeft(c) + ToRecord(c)) + (IF saving[c] THEN 1 ELSE 0)

\* A record lists no more artifacts than the bound, and that of a command which has
\* returned says how it ended.
Concluded(c) ==
    /\ memory[c].artifacts <= MaxArtifacts
    /\ pc[c] = "returned" => memory[c].status \in Terminal

WorkIsNatural == \A c \in Commands : WorkLeft(c) \in Nat

\* All of it is counted in natural numbers.
LEMMA WorkType ==
    ASSUME TypeOK, NEW c \in Commands, Concluded(c)
    PROVE  /\ NStages + 1 - at[c] \in Nat /\ ToRecord(c) \in Nat
           /\ Places[pc[c]] \in Nat /\ CallsLeft(c) \in Nat /\ WorkLeft(c) \in Nat
<1>1. at[c] \in 1 .. NStages + 1 /\ NStages \in Nat
  BY StagesAssumption DEF TypeOK
<1>2. ToRecord(c) \in Nat
  BY BoundsAssumption DEF ToRecord, Concluded, TypeOK, Records
<1>3. Places[pc[c]] \in 0 .. 9
  <2>1. pc[c] \in PCs
    BY DEF TypeOK
  <2> QED
    BY <2>1 DEF Places, PCs, Dead
<1>4. PICK s \in Nat, p \in Nat, a \in Nat :
        s = NStages + 1 - at[c] /\ p = Places[pc[c]] /\ a = ToRecord(c)
  <2>1. NStages + 1 - at[c] \in Nat
    BY <1>1
  <2>2. Places[pc[c]] \in Nat
    BY <1>3
  <2> QED
    BY <1>2, <2>1, <2>2, Zenon
<1>5. CallsLeft(c) = 6 * s + p
  BY <1>4 DEF CallsLeft
<1>6. WorkLeft(c) = 2 * (6 * s + p + a) \/ WorkLeft(c) = 2 * (6 * s + p + a) + 1
  BY <1>4, <1>5 DEF WorkLeft
<1> QED
  BY <1>2, <1>4, <1>5, <1>6

\* A step of a command is a save, the end of one, or a call that logs or makes a directory.
\* A call is further on, or records one artifact more.
LEMMA StepOfCommand ==
    ASSUME IInv, NEW c \in Commands, Step(c), Concluded(c)
    PROVE  /\ Concluded(c)'
           /\ \/ /\ saving[c] /\ ~saving'[c]
                 /\ pc'[c] = pc[c] /\ at'[c] = at[c] /\ memory'[c] = memory[c]
              \/ /\ ~saving[c]
                 /\ \/ /\ memory'[c].artifacts = memory[c].artifacts + 1
                       /\ pc'[c] = pc[c] /\ at'[c] = at[c]
                    \/ /\ memory'[c].artifacts = memory[c].artifacts
                       /\ \/ at'[c] = at[c] /\ Places[pc'[c]] < Places[pc[c]]
                          \/ at'[c] = at[c] + 1 /\ pc[c] = "report" /\ pc'[c] = "loop"
<1> USE DEF IInv, Goto, Placed, Concluded, Places
<1>0. /\ memory[c] \in Records /\ pc[c] \in PCs /\ at[c] \in Nat /\ at \in [Commands -> 1 .. NStages + 1]
      /\ pc \in [Commands -> PCs] /\ memory \in [Commands -> Records]
      /\ saving \in [Commands -> BOOLEAN]
      /\ DOMAIN memory = Commands /\ DOMAIN pc = Commands /\ DOMAIN saving = Commands
      /\ DOMAIN at = Commands /\ memory[c].artifacts \in Nat
  BY StagesAssumption DEF TypeOK, Records
<1>1. CASE EndSave(c)
  BY <1>0, <1>1 DEF EndSave
<1>2. CASE MakeDirectory(c)
  BY <1>0, <1>2 DEF MakeDirectory
<1>3. CASE CreateRecord(c)
  <2>1. memory[c] = Fresh(c) /\ memory'[c] = Fresh(c)
    BY <1>0, <1>3 DEF CreateRecord, BeginSave
  <2> QED
    BY <1>0, <1>3, <2>1 DEF CreateRecord
<1>4. CASE LogCreated(c) \/ LogStart(c) \/ StageRaises(c) \/ LogError(c)
  BY <1>0, <1>4 DEF LogCreated, LogStart, StageRaises, LogError
<1>5. CASE LogResult(c)
  BY <1>0, <1>5 DEF LogResult
<1>6. CASE StartRun(c) \/ Fail(c) \/ Succeed(c)
  <2>1. PICK x \in {"running"} \cup Terminal :
          /\ memory'[c] = [memory[c] EXCEPT !.status = x]
          /\ pc'[c] = "returned" => x \in Terminal
    BY <1>0, <1>6 DEF StartRun, Fail, Succeed, SetStatus, BeginSave, Terminal
  <2>2. memory'[c].artifacts = memory[c].artifacts /\ memory'[c].status = x
    BY <1>0, <2>1 DEF Records
  <2> QED
    BY <1>0, <1>6, <2>1, <2>2 DEF StartRun, Fail, Succeed
<1>7. CASE StartStage(c) \/ StageReturns(c)
  <2>1. \E x \in {"running"} \cup Terminal : SetStageStatus(c, x)
    BY <1>7, Zenon DEF StartStage, StageReturns
  <2>3. PICK x \in {"running"} \cup Terminal : SetStageStatus(c, x)
    BY <2>1
  <2>4. memory'[c] = [memory[c] EXCEPT !.stages[at[c]] = x]
    BY <1>0, <2>3 DEF SetStageStatus, BeginSave
  <2>2. memory'[c].artifacts = memory[c].artifacts
    BY <1>0, <2>4 DEF Records
  <2> QED
    BY <1>0, <1>7, <2>2 DEF StartStage, StageReturns
<1>8. CASE RecordArtifact(c)
  <2>1. memory'[c].artifacts = memory[c].artifacts + 1
    BY <1>0, <1>8 DEF RecordArtifact, BeginSave, Records
  <2> QED
    BY <1>0, <1>8, <2>1, BoundsAssumption DEF RecordArtifact
<1> QED
  BY <1>1, <1>2, <1>3, <1>4, <1>5, <1>6, <1>7, <1>8 DEF Step

\* So a step of a command leaves it less to do.
LEMMA StepIsWork ==
    ASSUME IInv, NEW c \in Commands, Step(c), Concluded(c), TypeOK'
    PROVE  WorkLeft(c)' < WorkLeft(c)
<1>0. TypeOK
  BY DEF IInv
<1>1. PICK s \in Int, p \in Nat, a \in Int :
        s = NStages + 1 - at[c] /\ p = Places[pc[c]] /\ a = ToRecord(c)
  <2>1. NStages + 1 - at[c] \in Nat /\ Places[pc[c]] \in Nat /\ ToRecord(c) \in Nat
    BY <1>0, WorkType
  <2>2. NStages + 1 - at[c] \in Int /\ ToRecord(c) \in Int
    BY <2>1
  <2> QED
    BY <2>1, <2>2, Zenon
<1>2. WorkLeft(c) = 2 * (6 * s + p + a) + (IF saving[c] THEN 1 ELSE 0)
  BY <1>1 DEF WorkLeft, CallsLeft
<1>3. pc'[c] \in PCs /\ at'[c] \in Nat /\ memory'[c].artifacts \in Nat /\ memory[c].artifacts \in Nat
  BY <1>0, StagesAssumption DEF TypeOK, Records
<1>4. PICK t \in Int, q \in Nat, b \in Int :
        t = NStages + 1 - at'[c] /\ q = Places[pc'[c]] /\ b = ToRecord(c)'
  <2>1. NStages + 1 - at'[c] \in Int /\ ToRecord(c)' \in Int
    BY <1>3, StagesAssumption, BoundsAssumption DEF ToRecord
  <2>2. Places[pc'[c]] \in Nat
    BY <1>3 DEF Places, PCs, Dead
  <2> QED
    BY <2>1, <2>2, Zenon
<1>5. WorkLeft(c)' = 2 * (6 * t + q + b) + (IF saving'[c] THEN 1 ELSE 0)
  BY <1>4 DEF WorkLeft, CallsLeft
<1>6. \/ saving[c] /\ ~saving'[c] /\ t = s /\ q = p /\ b = a
      \/ /\ ~saving[c]
         /\ \/ t = s /\ q = p /\ b = a - 1
            \/ t = s /\ q < p /\ b = a
            \/ t = s - 1 /\ q = 5 /\ p = 2 /\ b = a
  <2>1. /\ memory'[c].artifacts = memory[c].artifacts => b = a
        /\ memory'[c].artifacts = memory[c].artifacts + 1 => b = a - 1
    BY <1>1, <1>3, <1>4, BoundsAssumption DEF ToRecord
  <2>2. (at'[c] = at[c] => t = s) /\ (at'[c] = at[c] + 1 => t = s - 1)
    BY <1>0, <1>1, <1>4, WorkType, StagesAssumption DEF TypeOK
  <2>3. /\ pc'[c] = pc[c] => q = p
        /\ Places[pc'[c]] < Places[pc[c]] => q < p
        /\ pc[c] = "report" /\ pc'[c] = "loop" => q = 5 /\ p = 2
    BY <1>1, <1>4 DEF Places
  <2> HIDE DEF Places
  <2> QED
    BY <2>1, <2>2, <2>3, StepOfCommand
<1> QED
  BY <1>2, <1>5, <1>6

\* What others do leaves a command where it is, and its death takes nothing up.
LEMMA WorkStays ==
    ASSUME IInv, [Next]_vars, NEW c \in Commands, ~Step(c)
    PROVE  /\ at'[c] = at[c] /\ memory'[c] = memory[c] /\ saving'[c] = saving[c]
           /\ pc'[c] = pc[c] \/ pc'[c] \in Dead
<1> USE DEF IInv
<1>1. CASE UNCHANGED command
  BY <1>1 DEF command
<1>2. ASSUME NEW d \in Commands, Crash(d) \/ Kill(d)
      PROVE  /\ at'[c] = at[c] /\ memory'[c] = memory[c] /\ saving'[c] = saving[c]
             /\ pc'[c] = pc[c] \/ pc'[c] \in Dead
  BY <1>2 DEF Crash, Kill, Goto, TypeOK, Dead
<1>3. ASSUME NEW d \in Commands, d # c, Step(d)
      PROVE  /\ at'[c] = at[c] /\ memory'[c] = memory[c] /\ saving'[c] = saving[c]
             /\ pc'[c] = pc[c]
  <2> USE <1>3 DEF Goto, TypeOK
  <2>1. CASE EndSave(d) \/ MakeDirectory(d)
    BY <2>1 DEF EndSave, MakeDirectory
  <2>2. CASE LogCreated(d) \/ LogStart(d) \/ StageRaises(d) \/ LogError(d) \/ LogResult(d)
    BY <2>2 DEF LogCreated, LogStart, StageRaises, LogError, LogResult
  <2>3. CASE CreateRecord(d) \/ StartRun(d) \/ Fail(d) \/ Succeed(d)
    BY <2>3 DEF CreateRecord, StartRun, Fail, Succeed, SetStatus, BeginSave
  <2>4. CASE StartStage(d) \/ StageReturns(d) \/ RecordArtifact(d)
    BY <2>4 DEF StartStage, StageReturns, RecordArtifact, SetStageStatus, BeginSave
  <2> QED
    BY <2>1, <2>2, <2>3, <2>4 DEF Step
<1> QED
  BY <1>1, <1>2, <1>3 DEF Next, vars, Reading, ListNext, EndList, BeginList, LoadRun

\* Nobody records more than the bound, and nobody returns without an end.
LEMMA ConcludedStep ==
    ASSUME IInv, [Next]_vars, NEW c \in Commands, Concluded(c) PROVE Concluded(c)'
<1>1. CASE Step(c)
  BY <1>1, StepOfCommand
<1>2. CASE ~Step(c)
  BY <1>2, WorkStays DEF Concluded, Dead
<1> QED
  BY <1>1, <1>2

\* A command has its work before a step ...
LEMMA WorkBefore == TypeOK /\ (\A c \in Commands : Concluded(c)) => WorkIsNatural
BY WorkType DEF WorkIsNatural

\* The record and its end, for every reachable state.
LEMMA ConcludedHolds == Spec => [](\A c \in Commands : Concluded(c))
<1> DEFINE All == \A c \in Commands : Concluded(c)
<1>1. Init => All
  <2> SUFFICES ASSUME Init, NEW c \in Commands PROVE Concluded(c)
    OBVIOUS
  <2>1. Fresh(c).artifacts = 0
    BY DEF Fresh
  <2>2. memory[c] = Fresh(c) /\ pc[c] = "idle"
    BY DEF Init
  <2> QED
    BY <2>1, <2>2, BoundsAssumption DEF Concluded
<1>2. IInv /\ All /\ [Next]_vars => All'
  BY ConcludedStep
<1>3. Spec => []IInv
  BY InitHolds, StepHolds, PTL DEF Spec
<1> HIDE DEF All
<1>4. Spec => []All
  BY <1>1, <1>2, <1>3, PTL DEF Spec
<1> QED
  BY <1>4 DEF All

(***************************************************************************)
(* Why a command ends (UnendedIsDead): for any number of stages and        *)
(* artifacts, whoever reads, dies or shares the directory, each step of a  *)
(* command uses up some of a finite amount of work, and nothing that       *)
(* anybody else does gives it more.                                        *)
(***************************************************************************)
THEOREM CommandsWearDown ==
    Spec => /\ []WorkIsNatural
            /\ [][\A c \in Commands : /\ WorkLeft(c)' <= WorkLeft(c)
                                      /\ Step(c) => WorkLeft(c)' < WorkLeft(c)]_vars
<1> DEFINE All  == \A c \in Commands : Concluded(c)
           Less == \A c \in Commands : /\ WorkLeft(c)' <= WorkLeft(c)
                                       /\ Step(c) => WorkLeft(c)' < WorkLeft(c)
<1>1. TypeOK /\ All => WorkIsNatural
  BY WorkBefore
<1>2. IInv /\ TypeOK' /\ All /\ WorkIsNatural /\ WorkIsNatural' /\ [Next]_vars => [Less]_vars
  <2> SUFFICES ASSUME IInv, TypeOK', All, WorkIsNatural, WorkIsNatural', [Next]_vars,
                      NEW c \in Commands
               PROVE  /\ WorkLeft(c)' <= WorkLeft(c)
                      /\ Step(c) => WorkLeft(c)' < WorkLeft(c)
    OBVIOUS
  <2>1. WorkLeft(c) \in Nat /\ WorkLeft(c)' \in Nat
    BY DEF WorkIsNatural
  <2>2. CASE Step(c)
    <3>1. WorkLeft(c)' < WorkLeft(c)
      BY <2>2, StepIsWork
    <3> QED
      BY <2>1, <3>1
  <2>3. CASE ~Step(c)
    <3>1. PICK s \in Nat, a \in Nat, p \in Nat :
            s = NStages + 1 - at[c] /\ a = ToRecord(c) /\ p = Places[pc[c]]
      <4>1. NStages + 1 - at[c] \in Nat /\ Places[pc[c]] \in Nat /\ ToRecord(c) \in Nat
        BY WorkType DEF IInv
      <4> QED
        BY <4>1, Zenon
    <3>2. PICK e \in {0, 1} : e = IF saving[c] THEN 1 ELSE 0
      OBVIOUS
    <3>3. PICK q \in Nat : q = Places[pc'[c]] /\ q <= p
      <4>1. pc'[c] = pc[c] \/ pc'[c] \in Dead
        BY <2>3, WorkStays
      <4>2. pc'[c] \in Dead => Places[pc'[c]] = 0
        BY DEF Places, Dead
      <4> QED
        BY <3>1, <4>1, <4>2
    <3>4. at'[c] = at[c] /\ memory'[c] = memory[c] /\ saving'[c] = saving[c]
      BY <2>3, WorkStays
    <3>5. WorkLeft(c) = 2 * (6 * s + p + a) + e /\ WorkLeft(c)' = 2 * (6 * s + q + a) + e
      BY <3>1, <3>2, <3>3, <3>4 DEF WorkLeft, CallsLeft, ToRecord
    <3> QED
      BY <2>3, <3>3, <3>5
  <2> QED
    BY <2>2, <2>3
<1>3. Spec => []IInv
  BY InitHolds, StepHolds, PTL DEF Spec
<1>4. IInv => TypeOK
  BY DEF IInv
<1>5. Spec => []All
  BY ConcludedHolds
<1> HIDE DEF All, Less
<1>6. Spec => []WorkIsNatural /\ [][Less]_vars
  BY <1>1, <1>2, <1>3, <1>4, <1>5, PTL DEF Spec
<1> QED
  BY <1>6 DEF Less

(***************************************************************************)
(* The safety part of UnendedIsDead: a command that has returned, in a     *)
(* directory of its own, has left a record on disk that says how the run   *)
(* ended; a kill during its last save is the only exception.               *)
(***************************************************************************)
THEOREM ReturnsAreShown ==
    Spec => [](\A c \in Commands : pc[c] = "returned" /\ ~saving[c] /\ ~Shared(c) =>
                 file[id[c]] = memory[c] /\ memory[c].status \in Terminal)
<1> DEFINE All   == \A c \in Commands : Concluded(c)
           Shown == \A c \in Commands : pc[c] = "returned" /\ ~saving[c] /\ ~Shared(c) =>
                      file[id[c]] = memory[c] /\ memory[c].status \in Terminal
<1>1. IInv /\ All => Shown
  BY DEF IInv, WriteThrough, Created, Concluded
<1>2. Spec => []IInv
  BY InitHolds, StepHolds, PTL DEF Spec
<1>3. Spec => []All
  BY ConcludedHolds
<1> HIDE DEF All, Shown
<1>4. Spec => []Shown
  BY <1>1, <1>2, <1>3, PTL
<1> QED
  BY <1>4 DEF Shown
=============================================================================
