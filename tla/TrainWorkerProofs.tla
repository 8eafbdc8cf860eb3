-------------------------- MODULE TrainWorkerProofs --------------------------
(***************************************************************************)
(* Theorems about the training worker, for any number of workers, files,   *)
(* jobs, blocks and faults.                                                *)
(***************************************************************************)
EXTENDS TrainWorker, Counting, SequenceTheorems, TLAPS

-----------------------------------------------------------------------------
\* A remainder is smaller than the divisor.
LEMMA ModRange == \A x \in Nat, k \in Nat \ {0} : x % k \in 0 .. k - 1
OBVIOUS

\* The batch of every step is a sequence of blocks of the dataset.
LEMMA BatchType == \A n \in Nat : Batch(n) \in Batches
<1> SUFFICES ASSUME NEW n \in Nat, NEW i \in 1 .. BatchSize
             PROVE  Order[(n * BatchSize + i - 1) % NBlocks] \in Blocks
  BY DEF Batch, Batches
<1>1. n * BatchSize \in Nat
  BY DataAssumption
<1>2. n * BatchSize + i - 1 \in Nat
  BY <1>1, DataAssumption
<1>3. NBlocks \in Nat \ {0}
  BY DataAssumption
<1>4. (n * BatchSize + i - 1) % NBlocks \in Blocks
  BY <1>2, <1>3, ModRange DEF Blocks
<1> QED
  BY <1>4, DataAssumption

\* The weights of an idle slot are weights.
LEMMA NoWeightsType == NoWeights \in Weights
<1>1. (CHOOSE a \in Archs : TRUE) \in Archs
  BY JobsAssumption
<1> QED
  BY <1>1 DEF NoWeights, Weights

\* Every variable keeps its type: no step of run(), no fault and no interleaving
\* of workers takes the program outside the states that the model describes.
THEOREM TypeCorrect == Spec => []TypeOK
<1>1. Init => TypeOK
  BY NoWeightsType, JobsAssumption DEF Init, TypeOK, PCs
<1>2. TypeOK /\ [Next]_vars => TypeOK'
  <2> SUFFICES ASSUME TypeOK, [Next]_vars
               PROVE  TypeOK'
    OBVIOUS
  <2> USE DEF TypeOK, PCs, Live
  <2>1. ASSUME NEW w \in Workers, Spawn(w)
        PROVE  TypeOK'
    <3>1. PICK j \in Jobs : 
            /\ job' = [job EXCEPT ![w] = j]
            /\ model' = [model EXCEPT ![w] =
                 [arch |-> j.arch, init |-> spawned + 1, hist |-> << >>]]
      BY <2>1 DEF Spawn
    <3>2. [arch |-> j.arch, init |-> spawned + 1, hist |-> << >>] \in Weights
      BY JobsAssumption DEF JobSpecs, Weights
    <3> QED
      BY <2>1, <3>1, <3>2 DEF Spawn, Goto, files
  <2>2. ASSUME NEW w \in Workers, StartFresh(w)
        PROVE  TypeOK'
    BY <2>2 DEF StartFresh, Goto, local, files
  <2>3. ASSUME NEW w \in Workers, Resume(w)
        PROVE  TypeOK'
    <3>1. data[dir["last"]] \in Snapshots
      BY <2>3 DEF Resume, Loadable
    <3> QED
      BY <2>3, <3>1 DEF Resume, EmitGoto, Goto, files, Snapshots
  <2>4. ASSUME NEW w \in Workers, ResumeFails(w)
        PROVE  TypeOK'
    BY <2>4 DEF ResumeFails, Goto, local, files
  <2>5. ASSUME NEW w \in Workers, Tokenize(w)
        PROVE  TypeOK'
    BY <2>5 DEF Tokenize, Goto, local, files
  <2>6. ASSUME NEW w \in Workers, TrainStep(w)
        PROVE  TypeOK'
    <3>1. Append(model[w].hist, Batch(step[w])) \in Seq(Batches)
      BY BatchType DEF Weights
    <3>2. model' \in [Workers -> Weights]
      BY <2>6, <3>1 DEF TrainStep, Weights
    <3> QED
      BY <2>6, <3>2 DEF TrainStep, EmitGoto, Goto, files
  <2>7. ASSUME NEW w \in Workers, LoopExit(w)
        PROVE  TypeOK'
    BY <2>7 DEF LoopExit, Goto, files
  <2>8. ASSUME NEW w \in Workers, OpenTmp(w)
        PROVE  TypeOK'
    <3>1. mixed' \in [Workers -> BOOLEAN]
      BY <2>8 DEF OpenTmp
    <3> QED
      BY <2>8, <3>1 DEF OpenTmp, Goto, local
  <2>9. ASSUME NEW w \in Workers, WriteTmp(w)
        PROVE  TypeOK'
    <3>1. Snapshot(w) \in Snapshots
      BY DEF Snapshot, Snapshots
    <3>2. PICK c \in Snapshots \cup {Torn} :
            data' = [data EXCEPT ![handle[w]] = c]
      BY <2>9, <3>1 DEF WriteTmp
    <3> QED
      BY <2>9, <3>2 DEF WriteTmp, Goto, local
  <2>10. ASSUME NEW w \in Workers, Replace(w)
         PROVE  TypeOK'
    BY <2>10 DEF Replace, Goto, local
  <2>11. ASSUME NEW w \in Workers, ReplaceFails(w)
         PROVE  TypeOK'
    BY <2>11 DEF ReplaceFails, Goto, local, files
  <2>12. ASSUME NEW w \in Workers, ReportSaved(w)
         PROVE  TypeOK'
    BY <2>12 DEF ReportSaved, EmitGoto, Goto, local, files
  <2>13. ASSUME NEW w \in Workers, Fault(w)
         PROVE  TypeOK'
    <3>1. CASE WriteFails(w)
      BY <3>1 DEF WriteFails, Close, Goto, local
    <3>2. CASE Kill(w)
      BY <3>2 DEF Kill, Close, Goto, local
    <3>3. CASE KillParent(w)
      BY <3>3 DEF KillParent, local, files
    <3> QED
      BY <2>13, <3>1, <3>2, <3>3 DEF Fault
  <2>14. CASE UNCHANGED vars
    BY <2>14 DEF vars, local, files
  <2> QED
    BY <2>1, <2>2, <2>3, <2>4, <2>5, <2>6, <2>7, <2>8, <2>9, <2>10, <2>11,
       <2>12, <2>13, <2>14 DEF Next, Step
<1> QED
  BY <1>1, <1>2, PTL DEF Spec

-----------------------------------------------------------------------------
\* One more step of an uninterrupted run appends the batch of that step.
LEMMA UninterruptedStep ==
    ASSUME NEW n \in Nat
    PROVE  Append(Uninterrupted(n), Batch(n)) = Uninterrupted(n + 1)
<1> DEFINE longer == Append(Uninterrupted(n), Batch(n))
           whole  == Uninterrupted(n + 1)
<1>1. /\ Uninterrupted(n) \in Seq(Batches)
      /\ Len(Uninterrupted(n)) = n
  BY BatchType DEF Uninterrupted
<1>2. /\ whole \in Seq(Batches)
      /\ Len(whole) = n + 1
  BY BatchType DEF Uninterrupted
<1>3. /\ longer \in Seq(Batches)
      /\ Len(longer) = n + 1
  BY <1>1, BatchType, AppendProperties
<1>4. \A k \in 1 .. n + 1 : longer[k] = whole[k]
  BY <1>1, BatchType DEF Uninterrupted
<1>5. \A k \in 1 .. Len(longer) : longer[k] = whole[k]
  BY <1>3, <1>4
<1> HIDE DEF longer, whole
<1>6. longer = whole
  BY <1>2, <1>3, <1>5, SeqEqual
<1> QED
  BY <1>6 DEF longer, whole

\* A worker that has not looked for the checkpoint yet has done no step.
FreshBeforeResume ==
    \A w \in Workers : pc[w] = "resume" =>
        model[w].hist = << >> /\ step[w] = 0

HistoryInv == CanonicalHistory /\ FreshBeforeResume

\* The step of the induction for histories.
LEMMA HistoryStep == TypeOK /\ HistoryInv /\ [Next]_vars => HistoryInv'
<1> SUFFICES ASSUME TypeOK, HistoryInv, [Next]_vars
             PROVE  HistoryInv'
  OBVIOUS
<1> USE DEF TypeOK, HistoryInv, CanonicalHistory, FreshBeforeResume, Training,
            Live, PCs
<1>1. ASSUME NEW w \in Workers, Spawn(w)
      PROVE  HistoryInv'
  BY <1>1 DEF Spawn, Goto, files
<1>2. ASSUME NEW w \in Workers, StartFresh(w)
      PROVE  HistoryInv'
  <2>1. Uninterrupted(0) = << >>
    BY DEF Uninterrupted
  <2> QED
    BY <1>2, <2>1 DEF StartFresh, Goto, local, files
<1>3. ASSUME NEW w \in Workers, Resume(w)
      PROVE  HistoryInv'
  <2>1. dir["last"] \in Inodes /\ data[dir["last"]] # Torn
    BY <1>3 DEF Resume, Loadable
  <2> QED
    BY <1>3, <2>1 DEF Resume, EmitGoto, Goto, files
<1>4. ASSUME NEW w \in Workers, ResumeFails(w)
      PROVE  HistoryInv'
  BY <1>4 DEF ResumeFails, Goto, local, files
<1>5. ASSUME NEW w \in Workers, Tokenize(w)
      PROVE  HistoryInv'
  BY <1>5 DEF Tokenize, Goto, local, files
<1>6. ASSUME NEW w \in Workers, TrainStep(w)
      PROVE  HistoryInv'
  <2>1. model[w].hist = Uninterrupted(step[w])
    BY <1>6 DEF TrainStep
  <2>2. /\ step'[w] = step[w] + 1
        /\ model'[w].hist = Append(model[w].hist, Batch(step[w]))
    BY <1>6 DEF TrainStep, Weights
  <2>3. model'[w].hist = Uninterrupted(step'[w])
    BY <2>1, <2>2, UninterruptedStep
  <2> QED
    BY <1>6, <2>3 DEF TrainStep, EmitGoto, Goto, files
<1>7. ASSUME NEW w \in Workers, LoopExit(w)
      PROVE  HistoryInv'
  BY <1>7 DEF LoopExit, Goto, files
<1>8. ASSUME NEW w \in Workers, OpenTmp(w)
      PROVE  HistoryInv'
  BY <1>8 DEF OpenTmp, Goto, local
<1>9. ASSUME NEW w \in Workers, WriteTmp(w)
      PROVE  HistoryInv'
  <2>1. PICK c \in {Snapshot(w), Torn} :
          data' = [data EXCEPT ![handle[w]] = c]
    BY <1>9 DEF WriteTmp
  <2>2. Snapshot(w).model.hist = Uninterrupted(Snapshot(w).step)
    BY <1>9 DEF WriteTmp, Snapshot
  <2> QED
    BY <1>9, <2>1, <2>2 DEF WriteTmp, Goto, local
<1>10. ASSUME NEW w \in Workers, Replace(w)
       PROVE  HistoryInv'
  BY <1>10 DEF Replace, Goto, local
<1>11. ASSUME NEW w \in Workers, ReplaceFails(w)
       PROVE  HistoryInv'
  BY <1>11 DEF ReplaceFails, Goto, local, files
<1>12. ASSUME NEW w \in Workers, ReportSaved(w)
       PROVE  HistoryInv'
  BY <1>12 DEF ReportSaved, EmitGoto, Goto, local, files
<1>13. ASSUME NEW w \in Workers, Fault(w)
       PROVE  HistoryInv'
  <2>1. CASE WriteFails(w)
    BY <2>1 DEF WriteFails, Close, Goto, local
  <2>2. CASE Kill(w)
    BY <2>2 DEF Kill, Close, Goto, local
  <2>3. CASE KillParent(w)
    BY <2>3 DEF KillParent, local, files
  <2> QED
    BY <1>13, <2>1, <2>2, <2>3 DEF Fault
<1>14. CASE UNCHANGED vars
  BY <1>14 DEF vars, local, files
<1> QED
  BY <1>1, <1>2, <1>3, <1>4, <1>5, <1>6, <1>7, <1>8, <1>9, <1>10, <1>11,
     <1>12, <1>13, <1>14 DEF Next, Step

(***************************************************************************)
(* Resuming is exact, for any number of workers that train at once and any *)
(* faults: what is on disk and in memory at step n is what an uninterrupted *)
(* run has computed at step n.                                              *)
(***************************************************************************)
THEOREM ResumeIsExact == Spec => []CanonicalHistory
<1>1. Init => HistoryInv
  BY DEF Init, HistoryInv, CanonicalHistory, FreshBeforeResume, Training, Live
<1>2. HistoryInv => CanonicalHistory
  BY DEF HistoryInv
<1> QED
  BY <1>1, <1>2, HistoryStep, TypeCorrect, PTL DEF Spec

-----------------------------------------------------------------------------
(***************************************************************************)
(* The batches are read along the shuffled blocks, again and again.        *)
(***************************************************************************)
\* A permutation has no block twice.
LEMMA OrderIsInjective == \A i, j \in Blocks : Order[i] = Order[j] => i = j
<1>1. IsFiniteSet(Blocks)
  BY FS_Interval, DataAssumption DEF Blocks
<1>2. Order \in Surjection(Blocks, Blocks)
  BY DataAssumption, Fun_IsSurj
<1>3. Order \in Injection(Blocks, Blocks)
  BY <1>1, <1>2, FS_SurjSameCardinalityImpliesInj
<1> QED
  BY <1>3, Fun_InjectionProperties

\* The uses of a block in n steps are the places, of all that n steps read, where the
\* shuffled blocks have it.
LEMMA UsesAlongOrder ==
    ASSUME NEW n \in Nat, NEW r \in Blocks
    PROVE  Uses(Uninterrupted(n), Order[r]) =
             Cardinality({j \in 0 .. n * BatchSize - 1 : j % NBlocks = r})
<1> DEFINE B == BatchSize
           Read == {j \in 0 .. n * B - 1 : j % NBlocks = r}
           hist == Uninterrupted(n)
           Used == {p \in (1 .. Len(hist)) \X (1 .. B) : hist[p[1]][p[2]] = Order[r]}
           f == [j \in Read |-> <<(j \div B) + 1, (j % B) + 1>>]
<1>1. B \in Nat \ {0} /\ NBlocks \in Nat \ {0} /\ n * B \in Nat
  BY DataAssumption
<1>2. Len(hist) = n
  BY DEF Uninterrupted
<1>3. ASSUME NEW k \in 1 .. n, NEW i \in 1 .. B
      PROVE  hist[k][i] = Order[((k - 1) * B + i - 1) % NBlocks]
  BY <1>3 DEF Uninterrupted, Batch
<1>4. ASSUME NEW k \in 1 .. n, NEW i \in 1 .. B
      PROVE  /\ (k - 1) * B + i - 1 \in 0 .. n * B - 1
             /\ ((k - 1) * B + i - 1) % NBlocks \in Blocks
  <2>1. (k - 1) * B \in Nat /\ (k - 1) * B + B <= n * B
    <3>1. k - 1 \in Nat /\ (k - 1) + 1 <= n
      OBVIOUS
    <3>2. ((k - 1) + 1) * B <= n * B
      BY <1>1, <3>1
    <3> QED
      BY <1>1, <3>1, <3>2
  <2>2. (k - 1) * B + i - 1 \in 0 .. n * B - 1
    BY <1>1, <2>1
  <2> QED
    BY <1>1, <2>2, ModRange DEF Blocks
<1>5. ASSUME NEW j \in Read
      PROVE  /\ (j \div B) + 1 \in 1 .. n /\ (j % B) + 1 \in 1 .. B
             /\ j = (((j \div B) + 1) - 1) * B + ((j % B) + 1) - 1
  <2>1. j \in Nat /\ j < n * B
    BY <1>1
  <2>2. j = B * (j \div B) + (j % B) /\ j \div B \in Int /\ j % B \in 0 .. B - 1
    BY <1>1, <2>1, DivMod
  <2>3. 0 <= j \div B
    BY <1>1, <2>1
  <2>4. j \div B < n
    <3>1. SUFFICES ASSUME n <= j \div B PROVE FALSE
      BY <2>2
    <3>2. n * B <= (j \div B) * B
      BY <1>1, <2>2, <3>1
    <3> QED
      BY <1>1, <2>1, <2>2, <3>2
  <2> QED
    BY <1>1, <2>2, <2>3, <2>4
<1>6. f \in [Read -> Used]
  <2> SUFFICES ASSUME NEW j \in Read
               PROVE  <<(j \div B) + 1, (j % B) + 1>> \in Used
    OBVIOUS
  <2>1. hist[(j \div B) + 1][(j % B) + 1] = Order[j % NBlocks]
    BY <1>3, <1>5
  <2> QED
    BY <1>2, <1>5, <2>1
<1>7. \A j, k \in Read : f[j] = f[k] => j = k
  <2> SUFFICES ASSUME NEW j \in Read, NEW k \in Read, f[j] = f[k]
               PROVE  j = k
    OBVIOUS
  <2>1. (j \div B) + 1 = (k \div B) + 1 /\ (j % B) + 1 = (k % B) + 1
    OBVIOUS
  <2> QED
    BY <1>5, <2>1
<1>8. \A p \in Used : \E j \in Read : f[j] = p
  <2> SUFFICES ASSUME NEW p \in Used
               PROVE  \E j \in Read : f[j] = p
    OBVIOUS
  <2>1. PICK k \in 1 .. n, i \in 1 .. B : p = <<k, i>> /\ hist[k][i] = Order[r]
    BY <1>2
  <2> DEFINE j == (k - 1) * B + i - 1
  <2>2. j \in 0 .. n * B - 1 /\ j % NBlocks \in Blocks
    BY <1>4
  <2>3. j % NBlocks = r
    BY <1>3, <2>1, <2>2, OrderIsInjective
  <2>4. j \in Read
    BY <2>2, <2>3
  <2>5. j \div B = k - 1 /\ j % B = i - 1
    <3>1. k - 1 \in Nat /\ i - 1 \in 0 .. B - 1 /\ j = B * (k - 1) + (i - 1)
      BY <1>1
    <3> HIDE DEF j, B
    <3>2. \A q \in Nat, m \in 0 .. B - 1 : (B * q + m) \div B = q /\ (B * q + m) % B = m
      BY <1>1, QuotientOf
    <3>3. (B * (k - 1) + (i - 1)) \div B = k - 1 /\ (B * (k - 1) + (i - 1)) % B = i - 1
      BY <3>1, <3>2
    <3> QED
      BY <3>1, <3>3
  <2>6. f[j] = <<(k - 1) + 1, (i - 1) + 1>>
    BY <2>4, <2>5
  <2> QED
    BY <2>1, <2>4, <2>6
<1>9. IsFiniteSet(Read)
  <2>1. IsFiniteSet(0 .. n * B - 1) /\ Read \in SUBSET (0 .. n * B - 1)
    BY <1>1, FS_Interval
  <2> HIDE DEF Read
  <2> QED
    BY <2>1, FS_Subset
<1>10. Cardinality(Used) = Cardinality(Read)
  <2> HIDE DEF Read, Used, f
  <2>1. f \in Bijection(Read, Used)
    BY <1>6, <1>7, <1>8, Fun_IsBij
  <2> QED
    BY <1>9, <2>1, FS_Bijection DEF ExistsBijection
<1> QED
  BY <1>10 DEF Uses

(***************************************************************************)
(* No block of the dataset is favoured, in whatever order the workers are  *)
(* killed and resumed: what was trained on is what an uninterrupted run     *)
(* reads, and that goes round the shuffled blocks.                          *)
(***************************************************************************)
THEOREM BlocksAreUsedEvenly == Spec => []BalancedUse
<1>1. TypeOK /\ CanonicalHistory => BalancedUse
  <2> SUFFICES ASSUME TypeOK, CanonicalHistory, NEW w \in Workers, Training(w),
                      NEW a \in Blocks, NEW b \in Blocks
               PROVE  Uses(model[w].hist, a) <= Uses(model[w].hist, b) + 1
    BY DEF BalancedUse
  <2>1. model[w].hist = Uninterrupted(step[w]) /\ step[w] \in Nat
    BY DEF CanonicalHistory, TypeOK
  <2>2. PICK r \in Blocks, s \in Blocks : Order[r] = a /\ Order[s] = b
    BY DataAssumption
  <2>3. PICK M \in Nat : M = step[w] * BatchSize
    BY <2>1, DataAssumption
  <2>4. NBlocks \in Nat \ {0} /\ r \in 0 .. NBlocks - 1 /\ s \in 0 .. NBlocks - 1
    BY DataAssumption DEF Blocks
  <2>5. Cardinality({j \in 0 .. M - 1 : j % NBlocks = r})
          <= Cardinality({j \in 0 .. M - 1 : j % NBlocks = s}) + 1
    BY <2>4, EvenlySpread
  <2> QED
    BY <2>1, <2>2, <2>3, <2>5, UsesAlongOrder
<1> QED
  BY <1>1, TypeCorrect, ResumeIsExact, PTL

-----------------------------------------------------------------------------
(***************************************************************************)
(* With one worker at a time, a save goes through three states: the file   *)
(* open under the temporary name, the file complete under that name, and   *)
(* the file renamed.  At none of them is the temporary file the checkpoint. *)
(***************************************************************************)
OneLive == \A v, w \in Workers : pc[v] \in Live /\ pc[w] \in Live => v = w

SaveInProgress ==
    /\ dir["tmp"] # NoInode => dir["tmp"] # dir["last"]
    /\ \A w \in Workers : 
         /\ handle[w] # NoInode => pc[w] = "write"
         /\ pc[w] = "write" => /\ handle[w] = dir["tmp"] 
                               /\ handle[w] # NoInode
                               /\ ~mixed[w]
         /\ pc[w] = "rename" => /\ dir["tmp"] # NoInode
                                /\ data[dir["tmp"]] = Snapshot(w)

\* A worker past the resume is ahead of the checkpoint it has resumed from.
AheadOfCheckpoint ==
    \A w \in Workers : pc[w] \in Live \ {"resume"} /\ Saved =>
        Ckpt.step <= step[w] /\ Ckpt.model.init = model[w].init

SaveInv == OneLive /\ SaveInProgress /\ AheadOfCheckpoint /\ CheckpointReadable

\* What a step may do to the checkpoint: replace it by a later one.
Advance == Saved => /\ Saved' /\ Ckpt' # Torn
                    /\ Ckpt'.step >= Ckpt.step
                    /\ Ckpt'.model.init = Ckpt.model.init

\* The step of the induction for saves, action by action.
LEMMA SaveStep ==
    ASSUME Overlap = "none", TypeOK, SaveInv, [Next]_vars
    PROVE  SaveInv' /\ Advance
<1> USE DEF TypeOK, SaveInv, OneLive, SaveInProgress, AheadOfCheckpoint,
            CheckpointReadable, Advance, Saved, Ckpt, Live, PCs
<1>0. Torn \notin Snapshots /\ NoInode \notin Inodes
  BY TornAssumption, InodesAssumption
<1>1. ASSUME NEW w \in Workers, Spawn(w)
      PROVE  SaveInv' /\ Advance
  <2>1. \A v \in Workers : pc[v] \notin Live
    BY <1>1 DEF Spawn, MayStart
  <2>2. UNCHANGED <<dir, data, handle, mixed>>
    BY <1>1 DEF Spawn, files
  <2>3. \A v \in Workers \ {w} : pc'[v] = pc[v]
    BY <1>1 DEF Spawn, Goto
  <2>4. pc'[w] = "resume"
    BY <1>1 DEF Spawn, Goto
  <2> QED
    BY <1>0, <2>1, <2>2, <2>3, <2>4 DEF Snapshots
<1>2. ASSUME NEW w \in Workers, StartFresh(w)
      PROVE  SaveInv' /\ Advance
  BY <1>0, <1>2 DEF StartFresh, Goto, local, files, Snapshot, Snapshots
<1>3. ASSUME NEW w \in Workers, Resume(w)
      PROVE  SaveInv' /\ Advance
  BY <1>0, <1>3 DEF Resume, EmitGoto, Goto, files, Snapshot, Loadable, Snapshots
<1>4. ASSUME NEW w \in Workers, ResumeFails(w)
      PROVE  SaveInv' /\ Advance
  BY <1>0, <1>4 DEF ResumeFails, Goto, local, files, Snapshot, Snapshots
<1>5. ASSUME NEW w \in Workers, Tokenize(w)
      PROVE  SaveInv' /\ Advance
  BY <1>0, <1>5 DEF Tokenize, Goto, local, files, Snapshot, Snapshots
<1>6. ASSUME NEW w \in Workers, TrainStep(w)
      PROVE  SaveInv' /\ Advance
  BY <1>0, <1>6 DEF TrainStep, EmitGoto, Goto, files, Snapshot, Snapshots, Weights
<1>7. ASSUME NEW w \in Workers, LoopExit(w)
      PROVE  SaveInv' /\ Advance
  BY <1>0, <1>7 DEF LoopExit, Goto, files, Snapshot, Snapshots
<1>8. ASSUME NEW w \in Workers, OpenTmp(w)
      PROVE  SaveInv' /\ Advance
  <2>1. PICK i \in Inodes :
          /\ IF dir["tmp"] # NoInode THEN i = dir["tmp"] ELSE ~InUse(i)
          /\ dir' = [dir EXCEPT !["tmp"] = i]
          /\ data' = [data EXCEPT ![i] = Torn]
          /\ handle' = [handle EXCEPT ![w] = i]
          /\ mixed' = [v \in Workers |->
                         IF v = w THEN {u \in Workers \ {w} : handle[u] = i} # {}
                         ELSE mixed[v] \/ v \in {u \in Workers \ {w} : handle[u] = i}]
    BY <1>8 DEF OpenTmp
  <2>0. pc[w] = "open"
    BY <1>8 DEF OpenTmp
  <2>2. \A v \in Workers : handle[v] = NoInode
    BY <2>0
  <2>3. ~mixed'[w]
    <3>1. {u \in Workers \ {w} : handle[u] = i} = {}
      BY <1>0, <2>2
    <3> QED
      BY <2>1, <3>1
  <2>4. i # dir["last"]
    BY <2>1 DEF InUse
  <2>5. dir'["last"] = dir["last"] /\ (Saved => Ckpt' = Ckpt)
    BY <2>1, <2>4
  <2>6. UNCHANGED local /\ pc' = [pc EXCEPT ![w] = "write"]
    BY <1>8 DEF OpenTmp, Goto
  <2>7. SaveInProgress'
    BY <1>0, <2>0, <2>1, <2>2, <2>3, <2>4, <2>6
  <2>8. AheadOfCheckpoint' /\ CheckpointReadable'
    BY <1>8, <2>5, <2>6 DEF OpenTmp, local
  <2> QED
    BY <1>8, <2>5, <2>6, <2>7, <2>8 DEF OpenTmp, Snapshots
<1>9. ASSUME NEW w \in Workers, WriteTmp(w)
      PROVE  SaveInv' /\ Advance
  <2>1. /\ data' = [data EXCEPT ![dir["tmp"]] = Snapshot(w)]
        /\ dir["tmp"] \in Inodes /\ dir["tmp"] # dir["last"]
    BY <1>9 DEF WriteTmp
  <2>2. /\ UNCHANGED <<local, dir>>
        /\ pc' = [pc EXCEPT ![w] = "rename"]
        /\ handle' = [handle EXCEPT ![w] = NoInode]
        /\ mixed' = [mixed EXCEPT ![w] = FALSE]
    BY <1>9 DEF WriteTmp, Goto
  <2>3. Saved => Saved' /\ Ckpt' = Ckpt
    BY <2>1, <2>2
  <2>4. OneLive'
    BY <1>9, <2>2 DEF WriteTmp
  <2>5. SaveInProgress'
    BY <1>0, <1>9, <2>1, <2>2 DEF WriteTmp, Snapshot, local
  <2>6. AheadOfCheckpoint' /\ CheckpointReadable'
    BY <1>9, <2>2, <2>3 DEF WriteTmp, local
  <2> QED
    BY <2>3, <2>4, <2>5, <2>6 DEF Snapshots
<1>10. ASSUME NEW w \in Workers, Replace(w)
       PROVE  SaveInv' /\ Advance
  <2>1. /\ dir' = [tmp |-> NoInode, last |-> dir["tmp"]]
        /\ dir["tmp"] \in Inodes
        /\ data[dir["tmp"]] = Snapshot(w)
    BY <1>10 DEF Replace
  <2>2. UNCHANGED <<local, data, handle, mixed>> /\ pc' = [pc EXCEPT ![w] = "saved"]
    BY <1>10 DEF Replace, Goto
  <2>3. Saved' /\ Ckpt' = Snapshot(w)
    BY <1>0, <2>1, <2>2
  <2>4. Snapshot(w) \in Snapshots
    BY DEF Snapshot, Snapshots
  <2>5. Ckpt' # Torn /\ Ckpt'.step = step[w] /\ Ckpt'.model = model[w]
    BY <1>0, <2>3, <2>4 DEF Snapshot
  <2>6. OneLive'
    BY <1>10, <2>2 DEF Replace
  <2>7. SaveInProgress'
    BY <1>10, <2>1, <2>2 DEF Replace
  <2>8. AheadOfCheckpoint' 
    BY <1>10, <2>2, <2>5, <2>6 DEF Replace, local
  <2> QED
    BY <1>10, <2>3, <2>5, <2>6, <2>7, <2>8 DEF Replace
<1>11. ASSUME NEW w \in Workers, ReplaceFails(w)
      PROVE  SaveInv' /\ Advance
  BY <1>0, <1>11 DEF ReplaceFails, Goto, local, files, Snapshot, Snapshots
<1>12. ASSUME NEW w \in Workers, ReportSaved(w)
      PROVE  SaveInv' /\ Advance
  BY <1>0, <1>12 DEF ReportSaved, EmitGoto, Goto, local, files, Snapshot, Snapshots
<1>13. ASSUME NEW w \in Workers, WriteFails(w)
       PROVE  SaveInv' /\ Advance
  BY <1>0, <1>13 DEF WriteFails, Close, Goto, local, Snapshot, Snapshots
<1>14. ASSUME NEW w \in Workers, Kill(w)
       PROVE  SaveInv' /\ Advance
  BY <1>0, <1>14 DEF Kill, Close, Goto, local, Snapshot, Snapshots
<1>15. ASSUME NEW w \in Workers, KillParent(w)
       PROVE  SaveInv' /\ Advance
  BY <1>0, <1>15 DEF KillParent, local, files, Snapshot, Snapshots
<1>16. CASE UNCHANGED vars
  BY <1>0, <1>16 DEF vars, local, files, Snapshot, Snapshots
<1> QED
  BY <1>1, <1>2, <1>3, <1>4, <1>5, <1>6, <1>7, <1>8, <1>9, <1>10, <1>11,
     <1>12, <1>13, <1>14, <1>15, <1>16 DEF Next, Step, Fault

\* With one worker at a time, SaveInv holds in every reachable state.
LEMMA SaveInvariant == ASSUME Overlap = "none" PROVE Spec => []SaveInv
<1>1. Init => SaveInv
  BY DEF Init, SaveInv, OneLive, SaveInProgress, AheadOfCheckpoint,
         CheckpointReadable, Saved, Live
<1>2. TypeOK /\ SaveInv /\ [Next]_vars => SaveInv'
  BY SaveStep
<1> QED
  BY <1>1, <1>2, TypeCorrect, PTL DEF Spec

(***************************************************************************)
(* With one worker at a time, a worker, its parent or both may be killed   *)
(* anywhere, and writes may fail: the checkpoint always loads.             *)
(***************************************************************************)
THEOREM CheckpointSurvives ==
    ASSUME Overlap = "none" PROVE Spec => []CheckpointReadable
<1>1. SaveInv => CheckpointReadable
  BY DEF SaveInv
<1> QED
  BY <1>1, SaveInvariant, PTL

(***************************************************************************)
(* With one worker at a time, no step of any process takes the checkpoint  *)
(* back to an earlier step or to weights of another origin.                *)
(***************************************************************************)
THEOREM ProgressSurvives ==
    ASSUME Overlap = "none" PROVE Spec => NoProgressLost
<1>1. TypeOK /\ SaveInv /\ [Next]_vars =>
        [Saved => /\ Saved' /\ Ckpt' # Torn
                  /\ Ckpt'.step >= Ckpt.step
                  /\ Ckpt'.model.init = Ckpt.model.init]_vars
  BY SaveStep DEF Advance
<1> QED
  BY <1>1, SaveInvariant, TypeCorrect, PTL DEF Spec, NoProgressLost
-----------------------------------------------------------------------------
(***************************************************************************)
(* Between two saves the worker is as far ahead of the checkpoint as its   *)
(* step is past a multiple of checkpoint_every, or less if the checkpoint  *)
(* was the last one of an earlier job.  What it has just saved is on disk. *)
(***************************************************************************)
SinceSave(w) ==
    /\ pc[w] \in {"tokenize", "loop"} => step[w] - SavedStep <= step[w] % Every(w)
    /\ pc[w] \in {"open", "write", "rename"} => step[w] - SavedStep <= Every(w)
    /\ pc[w] = "saved" => Saved /\ Ckpt = Snapshot(w)

\* The flag of the last save is up only once the loop is behind the worker.
EndingAfterLoop(w) ==
    ending[w] => /\ pc[w] \notin {"resume", "tokenize", "loop"}
                 /\ pc[w] \in Live => step[w] >= job[w].max_steps

LossInv == \A w \in Workers : SinceSave(w) /\ EndingAfterLoop(w)

\* The remainder of the next number is the next remainder, unless it is zero.
LEMMA ModNext ==
    \A x \in Nat, k \in Nat \ {0} : (x + 1) % k # 0 => (x + 1) % k = (x % k) + 1
<1> SUFFICES ASSUME NEW x \in Nat, NEW k \in Nat \ {0}, (x + 1) % k # 0
             PROVE  (x + 1) % k = (x % k) + 1
  OBVIOUS
<1> DEFINE q == x \div k
           r == x % k
           p == (x + 1) \div k
           s == (x + 1) % k
<1>1. x = k * q + r /\ q \in Int /\ r \in 0 .. k - 1
  BY DivMod
<1>2. x + 1 = k * p + s /\ p \in Int /\ s \in 0 .. k - 1
  BY DivMod, x + 1 \in Nat
<1>3. s # 0
  OBVIOUS
<1> HIDE DEF q, r, p, s
<1>4. k * (p - q) = r + 1 - s
  BY <1>1, <1>2
<1>5. -k < r + 1 - s /\ r + 1 - s < k
  BY <1>1, <1>2, <1>3
<1>6. p = q
  BY <1>1, <1>2, <1>4, <1>5, p - q \in Int, MultipleIsFar
<1>7. s = r + 1
  BY <1>1, <1>2, <1>4, <1>6
<1> QED
  BY <1>7 DEF r, s

\* checkpoint_every is a positive number, so the remainder is one below it.
LEMMA EveryType ==
    ASSUME TypeOK, NEW w \in Workers
    PROVE  /\ Every(w) \in Nat \ {0}
           /\ \A n \in Nat : n % Every(w) \in 0 .. Every(w) - 1
<1>1. job[w].every \in Int
  BY JobsAssumption DEF TypeOK, JobSpecs
<1>2. Every(w) \in Nat \ {0}
  BY <1>1 DEF Every
<1> QED
  BY <1>2, ModRange

\* A step that renames nothing leaves the checkpoint as it is.
LEMMA CheckpointKept ==
    ASSUME TypeOK, SaveInv, [Next]_vars, \A w \in Workers : ~Replace(w)
    PROVE  /\ Saved' <=> Saved
           /\ Saved => Ckpt' = Ckpt
           /\ SavedStep' = SavedStep
<1> USE DEF TypeOK, Saved, Ckpt
<1>0. NoInode \notin Inodes
  BY InodesAssumption
<1> SUFFICES dir'["last"] = dir["last"] /\ (Saved => Ckpt' = Ckpt)
  BY DEF SavedStep
<1>1. ASSUME NEW w \in Workers, OpenTmp(w)
      PROVE  dir'["last"] = dir["last"] /\ (Saved => Ckpt' = Ckpt)
  <2>1. PICK i \in Inodes :
          /\ IF dir["tmp"] # NoInode THEN i = dir["tmp"] ELSE ~InUse(i)
          /\ dir' = [dir EXCEPT !["tmp"] = i]
          /\ data' = [data EXCEPT ![i] = Torn]
    BY <1>1 DEF OpenTmp
  <2>2. i # dir["last"]
    BY <2>1 DEF InUse, SaveInv, SaveInProgress
  <2> QED
    BY <2>1, <2>2
<1>2. ASSUME NEW w \in Workers, WriteTmp(w)
      PROVE  dir'["last"] = dir["last"] /\ (Saved => Ckpt' = Ckpt)
  <2>1. handle[w] # dir["last"]
    BY <1>2 DEF WriteTmp, SaveInv, SaveInProgress
  <2> QED
    BY <1>2, <2>1 DEF WriteTmp
<1>3. CASE UNCHANGED <<dir, data>>
  BY <1>3
<1>4. ASSUME NEW w \in Workers, Spawn(w) \/ Step(w) \/ Fault(w), ~OpenTmp(w), ~WriteTmp(w)
      PROVE  UNCHANGED <<dir, data>>
  BY <1>4 DEF Step, Fault, Spawn, StartFresh, Resume, ResumeFails, Tokenize, TrainStep,
              LoopExit, ReplaceFails, ReportSaved, WriteFails, Kill, KillParent, Close,
              files
<1> QED
  BY <1>1, <1>2, <1>3, <1>4 DEF Next, vars, files

\* The step of the induction for what has not been saved yet, action by action.
LEMMA LossStep ==
    ASSUME Overlap = "none", TypeOK, FreshBeforeResume, SaveInv, LossInv, [Next]_vars
    PROVE  LossInv'
<1> USE DEF TypeOK, Live, PCs
<1> DEFINE Owed(w) == SinceSave(w) /\ EndingAfterLoop(w)
           Kept == (Saved' <=> Saved) /\ (Saved => Ckpt' = Ckpt) /\ SavedStep' = SavedStep
<1>1. ASSUME NEW w \in Workers, Spawn(w)
      PROVE  LossInv'
  <2>1. \A v \in Workers : pc[v] \notin Live
    BY <1>1 DEF Spawn, MayStart
  <2>2. /\ \A v \in Workers \ {w} : pc'[v] = pc[v]
        /\ pc'[w] = "resume" /\ ~ending'[w]
    BY <1>1 DEF Spawn, Goto
  <2>3. \A v \in Workers \ {w} : ending'[v] = ending[v]
    BY <1>1 DEF Spawn
  <2> QED
    BY <2>1, <2>2, <2>3 DEF LossInv, SinceSave, EndingAfterLoop
\* The other workers are not alive, so only the one that acts has something to lose.
<1>2. ASSUME NEW w \in Workers, Step(w) \/ Fault(w), Owed(w)'
      PROVE  LossInv'
  <2>1. pc[w] \in Live
    BY <1>2 DEF Step, Fault, StartFresh, Resume, ResumeFails, Tokenize, TrainStep, LoopExit,
                OpenTmp, WriteTmp, Replace, ReplaceFails, ReportSaved, WriteFails, Kill,
                KillParent
  <2>2. \A v \in Workers \ {w} : pc'[v] = pc[v] /\ pc[v] \notin Live
    <3>1. \A v \in Workers \ {w} : pc'[v] = pc[v]
      BY <1>2 DEF Step, Fault, StartFresh, Resume, ResumeFails, Tokenize, TrainStep,
                  LoopExit, OpenTmp, WriteTmp, Replace, ReplaceFails, ReportSaved,
                  WriteFails, Kill, KillParent, Goto, EmitGoto
    <3> QED
      BY <2>1, <3>1 DEF SaveInv, OneLive
  <2> QED
    BY <1>2, <2>2 DEF LossInv, SinceSave, EndingAfterLoop
<1>3. ASSUME NEW w \in Workers, ~Replace(w), Step(w) \/ Fault(w), pc[w] \in Live
      PROVE  Kept
  <2>1. \A v \in Workers : ~Replace(v)
    BY <1>3 DEF Replace, SaveInv, OneLive
  <2> QED
    BY <2>1, CheckpointKept
<1>4. \A w \in Workers : /\ Owed(w)
                         /\ Every(w) \in Nat \ {0}
                         /\ \A n \in Nat : n % Every(w) \in 0 .. Every(w) - 1
  BY EveryType DEF LossInv
<1>5. SavedStep \in Nat
  BY DEF SavedStep, Saved, Ckpt, SaveInv, CheckpointReadable, Snapshots
<1>6. \A w \in Workers : job[w].max_steps \in Int
  BY JobsAssumption DEF JobSpecs
<1>7. ASSUME NEW w \in Workers, StartFresh(w)
      PROVE  LossInv'
  <2>1. Kept /\ ~Saved /\ step[w] = 0
    BY <1>3, <1>7 DEF Step, StartFresh, Replace, Saved, FreshBeforeResume
  <2>2. /\ pc'[w] = "tokenize" /\ step'[w] = step[w] /\ job'[w] = job[w]
        /\ ending'[w] = ending[w] /\ pc[w] = "resume"
    BY <1>7 DEF StartFresh, Goto, local
  <2>3. Every(w)' = Every(w) /\ SavedStep' = 0
    BY <2>1, <2>2 DEF Every, SavedStep
  <2>4. Owed(w)'
    BY <1>4, <2>1, <2>2, <2>3 DEF SinceSave, EndingAfterLoop
  <2> QED
    BY <1>2, <1>7, <2>4 DEF Step
<1>8. ASSUME NEW w \in Workers, Resume(w)
      PROVE  LossInv'
  <2>1. Kept /\ Saved
    BY <1>3, <1>8 DEF Step, Resume, Replace, Saved
  <2>2. /\ pc'[w] \in {"tokenize", "failed"} /\ step'[w] = SavedStep /\ job'[w] = job[w]
        /\ ending'[w] = ending[w] /\ pc[w] = "resume"
    BY <1>8, <2>1 DEF Resume, EmitGoto, Goto, Ckpt, SavedStep
  <2>3. Every(w)' = Every(w)
    BY <2>2 DEF Every
  <2>4. Owed(w)'
    BY <1>4, <1>5, <2>1, <2>2, <2>3 DEF SinceSave, EndingAfterLoop
  <2> QED
    BY <1>2, <1>8, <2>4 DEF Step
<1>9. ASSUME NEW w \in Workers, Tokenize(w)
      PROVE  LossInv'
  <2>1. Kept
    BY <1>3, <1>9 DEF Step, Tokenize, Replace
  <2>2. /\ pc'[w] \in {"loop", "failed"} /\ step'[w] = step[w] /\ job'[w] = job[w]
        /\ ending'[w] = ending[w] /\ pc[w] = "tokenize"
    BY <1>9 DEF Tokenize, Goto, local
  <2>3. Every(w)' = Every(w)
    BY <2>2 DEF Every
  <2>4. Owed(w)'
    BY <1>4, <2>1, <2>2, <2>3 DEF SinceSave, EndingAfterLoop
  <2> QED
    BY <1>2, <1>9, <2>4 DEF Step
<1>10. ASSUME NEW w \in Workers, TrainStep(w)
       PROVE  LossInv'
  <2>1. Kept
    BY <1>3, <1>10 DEF Step, TrainStep, Replace
  <2>2. /\ pc'[w] \in {IF SaveDue(w, step[w] + 1) THEN "open" ELSE "loop", "failed"}
        /\ step'[w] = step[w] + 1 /\ job'[w] = job[w]
        /\ ending'[w] = ending[w] /\ pc[w] = "loop"
    BY <1>10 DEF TrainStep, EmitGoto, Goto
  <2>3. Every(w)' = Every(w)
    BY <2>2 DEF Every
  <2>4. step[w] - SavedStep <= step[w] % Every(w) /\ ~ending[w]
    BY <1>4, <2>2 DEF SinceSave, EndingAfterLoop
  <2>5. step'[w] - SavedStep' <= Every(w)'
    BY <1>4, <1>5, <2>1, <2>2, <2>3, <2>4
  <2>6. ASSUME pc'[w] = "loop"
        PROVE  step'[w] - SavedStep' <= step'[w] % Every(w)'
    <3>1. (step[w] + 1) % Every(w) # 0
      BY <2>2, <2>6 DEF SaveDue
    <3>2. (step[w] + 1) % Every(w) = (step[w] % Every(w)) + 1
      BY <1>4, <3>1, ModNext
    <3>3. step[w] % Every(w) \in Nat
      BY <1>4
    <3> QED
      BY <1>5, <2>1, <2>2, <2>3, <2>4, <3>2, <3>3
  <2>7. Owed(w)'
    BY <2>2, <2>4, <2>5, <2>6 DEF SinceSave, EndingAfterLoop
  <2> QED
    BY <1>2, <1>10, <2>7 DEF Step
<1>11. ASSUME NEW w \in Workers, LoopExit(w)
       PROVE  LossInv'
  <2>1. Kept
    BY <1>3, <1>11 DEF Step, LoopExit, Replace
  <2>2. /\ pc'[w] = "open" /\ step'[w] = step[w] /\ job'[w] = job[w]
        /\ pc[w] = "loop" /\ step[w] >= job[w].max_steps
    BY <1>11 DEF LoopExit, Goto
  <2>3. Every(w)' = Every(w)
    BY <2>2 DEF Every
  <2>4. step[w] - SavedStep <= Every(w)
    BY <1>4, <1>5, <2>2 DEF SinceSave
  <2>5. Owed(w)'
    BY <2>1, <2>2, <2>3, <2>4 DEF SinceSave, EndingAfterLoop
  <2> QED
    BY <1>2, <1>11, <2>5 DEF Step
\* Until the rename the save changes nothing of this.
<1>12. ASSUME NEW w \in Workers, OpenTmp(w) \/ WriteTmp(w)
       PROVE  LossInv'
  <2>1. Kept
    BY <1>3, <1>12 DEF Step, OpenTmp, WriteTmp, Replace
  <2>2. /\ pc[w] \in {"open", "write"} /\ pc'[w] \in {"write", "rename"}
        /\ step'[w] = step[w] /\ job'[w] = job[w] /\ ending'[w] = ending[w]
    BY <1>12 DEF OpenTmp, WriteTmp, Goto, local
  <2>3. Every(w)' = Every(w)
    BY <2>2 DEF Every
  <2>4. Owed(w)'
    BY <1>4, <2>1, <2>2, <2>3 DEF SinceSave, EndingAfterLoop
  <2> QED
    BY <1>2, <1>12, <2>4 DEF Step
<1>13. ASSUME NEW w \in Workers, Replace(w)
       PROVE  LossInv'
  <2>1. /\ pc[w] = "rename" /\ pc'[w] = "saved"
        /\ step'[w] = step[w] /\ job'[w] = job[w] /\ ending'[w] = ending[w]
        /\ model'[w] = model[w] /\ data' = data /\ dir'["last"] = dir["tmp"]
        /\ dir["tmp"] # NoInode
    BY <1>13 DEF Replace, Goto, local
  <2>2. Saved' /\ Ckpt' = Snapshot(w)'
    BY <2>1 DEF Saved, Ckpt, Snapshot, SaveInv, SaveInProgress
  <2>3. Owed(w)'
    BY <1>4, <2>1, <2>2 DEF SinceSave, EndingAfterLoop
  <2> QED
    BY <1>2, <1>13, <2>3 DEF Step
\* After the rename nothing is owed, whatever the remainder is.
<1>14. ASSUME NEW w \in Workers, ReportSaved(w)
       PROVE  LossInv'
  <2>1. Kept
    BY <1>3, <1>14 DEF Step, ReportSaved, Replace
  <2>2. /\ pc[w] = "saved"
        /\ pc'[w] \in {IF ending[w] THEN "done" ELSE "loop", "failed"}
        /\ step'[w] = step[w] /\ job'[w] = job[w] /\ ending'[w] = ending[w]
    BY <1>14 DEF ReportSaved, EmitGoto, Goto, local
  <2>3. Every(w)' = Every(w)
    BY <2>2 DEF Every
  <2>4. SavedStep = step[w]
    BY <1>4, <2>2 DEF SinceSave, SavedStep, Snapshot
  <2>5. Owed(w)'
    BY <1>4, <1>5, <2>1, <2>2, <2>3, <2>4 DEF SinceSave, EndingAfterLoop
  <2> QED
    BY <1>2, <1>14, <2>5 DEF Step
<1>15. ASSUME NEW w \in Workers,
              ResumeFails(w) \/ ReplaceFails(w) \/ WriteFails(w) \/ Kill(w)
       PROVE  LossInv'
  <2>1. pc'[w] \in {"failed", "off"}
    BY <1>15 DEF ResumeFails, ReplaceFails, WriteFails, Kill, Goto
  <2>2. Owed(w)'
    BY <2>1 DEF SinceSave, EndingAfterLoop
  <2> QED
    BY <1>2, <1>15, <2>2 DEF Step, Fault
<1>16. ASSUME UNCHANGED <<pc, local, dir, data>>
       PROVE  LossInv'
  BY <1>16 DEF LossInv, SinceSave, EndingAfterLoop, local, Saved, Ckpt, SavedStep, Every,
               Snapshot
<1>17. \A w \in Workers : KillParent(w) => UNCHANGED <<pc, local, dir, data>>
  BY DEF KillParent, files
<1> QED
  BY <1>1, <1>7, <1>8, <1>9, <1>10, <1>11, <1>12, <1>13, <1>14, <1>15, <1>16, <1>17
     DEF Next, Step, Fault, vars, files

\* With one worker at a time, LossInv and what it rests on hold in every reachable state.
LossContext == TypeOK /\ FreshBeforeResume /\ SaveInv /\ LossInv

\* With one worker at a time it holds always.
LEMMA LossInvariant == ASSUME Overlap = "none" PROVE Spec => []LossContext
<1>1. Init => LossInv
  BY DEF Init, LossInv, SinceSave, EndingAfterLoop
<1>2. Init => HistoryInv
  BY DEF Init, HistoryInv, CanonicalHistory, FreshBeforeResume, Training, Live
<1>3. TypeOK /\ FreshBeforeResume /\ SaveInv /\ LossInv /\ [Next]_vars => LossInv'
  BY LossStep
<1>4. HistoryInv => FreshBeforeResume
  BY DEF HistoryInv
<1> QED
  BY <1>1, <1>2, <1>3, <1>4, HistoryStep, TypeCorrect, SaveInvariant, PTL
     DEF Spec, LossContext

(***************************************************************************)
(* With one worker at a time, whenever it is killed, it is at most         *)
(* checkpoint_every steps ahead of the checkpoint that the next one loads, *)
(* also when it has resumed at a step that is no multiple of it.           *)
(***************************************************************************)
THEOREM KillCostsLittle ==
    ASSUME Overlap = "none" PROVE Spec => []LostWorkBounded
<1>1. LossContext => LostWorkBounded
  <2> SUFFICES ASSUME LossContext, NEW w \in Workers, Training(w), pc[w] # "done"
               PROVE  step[w] - SavedStep <= Every(w)
    BY DEF LostWorkBounded
  <2> USE DEF LossContext
  <2>1. /\ step[w] \in Nat
        /\ Every(w) \in Nat \ {0}
        /\ step[w] % Every(w) \in 0 .. Every(w) - 1
    BY EveryType DEF TypeOK
  <2>2. SavedStep \in Nat
    BY DEF TypeOK, SavedStep, Saved, Ckpt, SaveInv, CheckpointReadable, Snapshots
  <2>3. SinceSave(w)
    BY DEF LossInv
  <2>4. CASE pc[w] \in {"tokenize", "loop"}
    BY <2>1, <2>2, <2>3, <2>4 DEF SinceSave
  <2>5. CASE pc[w] \in {"open", "write", "rename"}
    BY <2>3, <2>5 DEF SinceSave
  <2>6. CASE pc[w] = "saved"
    BY <2>1, <2>3, <2>6 DEF SinceSave, SavedStep, Snapshot
  <2> QED
    BY <2>4, <2>5, <2>6 DEF Training, Live
<1> QED
  BY <1>1, LossInvariant, PTL

(***************************************************************************)
(* With one worker at a time, "done" is reported when the checkpoint on    *)
(* disk is the model in memory, at max_steps or beyond.                    *)
(***************************************************************************)
THEOREM DoneMeansSaved ==
    ASSUME Overlap = "none" PROVE Spec => DoneIsDurable
<1>1. LossContext /\ [Next]_vars =>
        [\A w \in Workers : pc[w] # "done" /\ pc'[w] = "done" =>
           /\ Saved /\ Ckpt = Snapshot(w)
           /\ step[w] >= job[w].max_steps]_vars
  <2> SUFFICES ASSUME LossContext, Next, NEW w \in Workers, pc[w] # "done", pc'[w] = "done"
               PROVE  Saved /\ Ckpt = Snapshot(w) /\ step[w] >= job[w].max_steps
    OBVIOUS
  <2>1. pc \in [Workers -> PCs]
    BY DEF LossContext, TypeOK
  <2>2. ReportSaved(w) /\ ending[w]
    BY <2>1 DEF Next, Step, Fault, Spawn, StartFresh, Resume, ResumeFails, Tokenize,
                TrainStep, LoopExit, OpenTmp, WriteTmp, Replace, ReplaceFails,
                ReportSaved, WriteFails, Kill, KillParent, Goto, EmitGoto
  <2> QED
    BY <2>2 DEF ReportSaved, LossContext, LossInv, SinceSave, EndingAfterLoop, Live
<1> QED
  BY <1>1, LossInvariant, PTL DEF Spec, DoneIsDurable

(***************************************************************************)
(* With one worker at a time, a worker fails only for a cause that the     *)
(* user can see; above all never because of a file another save has left.  *)
(***************************************************************************)
THEOREM FailuresAreDeclared ==
    ASSUME Overlap = "none" PROVE Spec => OnlyDeclaredFailures
<1>1. LossContext /\ [Next]_vars =>
        [\A w \in Workers : pc[w] # "failed" /\ pc'[w] = "failed" =>
           \/ job[w].short
           \/ ~parent[w]
           \/ pc[w] = "resume" /\ Ckpt # Torn /\ Ckpt.model.arch # job[w].arch
           \/ faults' = faults + 1]_vars
  <2> SUFFICES ASSUME LossContext, Next, NEW w \in Workers,
                      pc[w] # "failed", pc'[w] = "failed",
                      ~job[w].short, parent[w], faults' # faults + 1
               PROVE  pc[w] = "resume" /\ Ckpt # Torn /\ Ckpt.model.arch # job[w].arch
    OBVIOUS
  <2>1. pc \in [Workers -> PCs]
    BY DEF LossContext, TypeOK
  <2>2. ResumeFails(w) \/ ReplaceFails(w)
    BY <2>1 DEF Next, Step, Fault, Spawn, StartFresh, Resume, ResumeFails, Tokenize,
                TrainStep, LoopExit, OpenTmp, WriteTmp, Replace, ReplaceFails,
                ReportSaved, WriteFails, Kill, KillParent, Goto, EmitGoto
  <2>3. ~ReplaceFails(w)
    BY DEF ReplaceFails, LossContext, SaveInv, SaveInProgress
  <2> QED
    BY <2>2, <2>3 DEF ResumeFails, Loadable, LossContext, SaveInv, CheckpointReadable,
                      Saved, Ckpt
<1> QED
  BY <1>1, LossInvariant, PTL DEF Spec, OnlyDeclaredFailures

-----------------------------------------------------------------------------
(***************************************************************************)
(* How much work a worker has left: its training steps, each with a save,  *)
(* and where it is in run().                                               *)
(***************************************************************************)
StepsLeft(w) == IF step[w] < job[w].max_steps THEN job[w].max_steps - step[w] ELSE 0

Place(w) ==
    CASE pc[w] = "resume"   -> 7
      [] pc[w] = "tokenize" -> 6
      [] pc[w] = "loop"     -> 5
      [] pc[w] = "open"     -> IF ending[w] THEN 4 ELSE 9
      [] pc[w] = "write"    -> IF ending[w] THEN 3 ELSE 8
      [] pc[w] = "rename"   -> IF ending[w] THEN 2 ELSE 7
      [] pc[w] = "saved"    -> IF ending[w] THEN 1 ELSE 6

WorkLeft(w) == IF pc[w] \in Live THEN 5 * StepsLeft(w) + Place(w) ELSE 0

\* It is a natural number, and none at all only of a worker that has ended.
LEMMA WorkLeftType ==
    ASSUME TypeOK, NEW w \in Workers
    PROVE  WorkLeft(w) \in Nat /\ (pc[w] \in Live => WorkLeft(w) > 0)
<1>1. PICK m \in Int : m = job[w].max_steps
  BY JobsAssumption DEF TypeOK, JobSpecs
<1>2. StepsLeft(w) \in Nat
  BY <1>1 DEF StepsLeft, TypeOK
<1>3. pc[w] \in Live => Place(w) \in 1 .. 9
  BY DEF Place, Live
<1> QED
  BY <1>2, <1>3 DEF WorkLeft

\* A step of a worker leaves less of it, whatever it finds on disk.
LEMMA StepIsWork ==
    ASSUME TypeOK, FreshBeforeResume, NEW w \in Workers, Step(w)
    PROVE  WorkLeft(w)' < WorkLeft(w) /\ WorkLeft(w)' \in Nat
<1>1. PICK m \in Int : m = job[w].max_steps
  BY JobsAssumption DEF TypeOK, JobSpecs
<1>2. job'[w] = job[w] /\ step[w] \in Nat /\ step'[w] \in Nat
  <2>1. job' = job
    BY DEF Step, StartFresh, Resume, ResumeFails, Tokenize, TrainStep, LoopExit, OpenTmp,
           WriteTmp, Replace, ReplaceFails, ReportSaved, local
  <2>2. step'[w] \in Nat
    BY DEF Step, StartFresh, Resume, ResumeFails, Tokenize, TrainStep, LoopExit, OpenTmp,
           WriteTmp, Replace, ReplaceFails, ReportSaved, local, TypeOK, Loadable, Snapshots
  <2> QED
    BY <2>1, <2>2 DEF TypeOK
<1>3. pc[w] \in Live /\ WorkLeft(w) > 0 /\ WorkLeft(w) \in Nat
  <2>1. pc[w] \in Live
    BY DEF Step, StartFresh, Resume, ResumeFails, Tokenize, TrainStep, LoopExit, OpenTmp,
           WriteTmp, Replace, ReplaceFails, ReportSaved, Live
  <2> QED
    BY <2>1, WorkLeftType
<1>4. CASE pc'[w] \notin Live
  BY <1>3, <1>4 DEF WorkLeft
<1>5. ASSUME pc'[w] \in Live PROVE WorkLeft(w)' < WorkLeft(w)
  <2> USE DEF WorkLeft, StepsLeft, Place, Live
  <2>1. CASE StartFresh(w) \/ Tokenize(w)
    BY <1>1, <1>2, <1>5, <2>1 DEF StartFresh, Tokenize, Goto, local, TypeOK, PCs
  <2>2. CASE Resume(w)
    <3>1. step[w] = 0 /\ pc[w] = "resume" /\ pc'[w] = "tokenize"
      BY <1>5, <2>2 DEF Resume, EmitGoto, Goto, TypeOK, PCs, FreshBeforeResume
    <3> QED
      BY <1>1, <1>2, <3>1
  <2>3. CASE TrainStep(w)
    <3>1. /\ step[w] < job[w].max_steps /\ step'[w] = step[w] + 1
          /\ pc[w] = "loop" /\ pc'[w] \in {"open", "loop"}
      BY <1>5, <2>3 DEF TrainStep, EmitGoto, Goto, TypeOK, PCs
    <3> QED
      BY <1>1, <1>2, <3>1
  <2>4. CASE LoopExit(w)
    <3>1. /\ step'[w] = step[w] /\ ending'[w]
          /\ pc[w] = "loop" /\ pc'[w] = "open"
      BY <2>4 DEF LoopExit, Goto, TypeOK
    <3> QED
      BY <1>1, <1>2, <3>1
  <2>5. CASE OpenTmp(w) \/ WriteTmp(w) \/ Replace(w)
    <3>1. /\ step'[w] = step[w] /\ ending'[w] = ending[w]
          /\ <<pc[w], pc'[w]>> \in {<<"open", "write">>, <<"write", "rename">>,
                                     <<"rename", "saved">>}
      BY <2>5 DEF OpenTmp, WriteTmp, Replace, Goto, local, TypeOK
    <3> QED
      BY <1>1, <1>2, <3>1
  <2>6. CASE ReportSaved(w)
    <3>1. /\ step'[w] = step[w] /\ ending'[w] = ending[w] /\ ~ending[w]
          /\ pc[w] = "saved" /\ pc'[w] = "loop"
      BY <1>5, <2>6 DEF ReportSaved, EmitGoto, Goto, local, TypeOK, PCs
    <3> QED
      BY <1>1, <1>2, <3>1
  <2>7. CASE ResumeFails(w) \/ ReplaceFails(w)
    BY <1>5, <2>7 DEF ResumeFails, ReplaceFails, Goto, TypeOK
  <2> QED
    BY <2>1, <2>2, <2>3, <2>4, <2>5, <2>6, <2>7 DEF Step
<1>6. WorkLeft(w)' \in Nat
  <2>1. StepsLeft(w)' \in Nat
    BY <1>1, <1>2 DEF StepsLeft
  <2>2. pc'[w] \in Live => Place(w)' \in 1 .. 9
    BY DEF Place, Live
  <2> QED
    BY <2>1, <2>2 DEF WorkLeft
<1> QED
  BY <1>4, <1>5, <1>6

(***************************************************************************)
(* Why a worker ends (EveryWorkerEnds): whatever max_steps and             *)
(* checkpoint_every are, whatever it resumes from and however many others  *)
(* save beside it, each of its steps uses up some of a finite amount of    *)
(* work, and nothing that anybody else does gives it more.  A worker that  *)
(* is alive has some left; that it can then take a step is left to TLC.    *)
(***************************************************************************)
THEOREM WorkersWearDown ==
    Spec => /\ [](\A w \in Workers : /\ WorkLeft(w) \in Nat
                                     /\ pc[w] \in Live => WorkLeft(w) > 0)
            /\ [][\A w \in Workers : pc[w] \in Live =>
                     /\ WorkLeft(w)' <= WorkLeft(w)
                     /\ Step(w) => WorkLeft(w)' < WorkLeft(w)]_vars
<1> DEFINE Some == \A w \in Workers : /\ WorkLeft(w) \in Nat
                                      /\ pc[w] \in Live => WorkLeft(w) > 0
           Less == \A w \in Workers : pc[w] \in Live =>
                     /\ WorkLeft(w)' <= WorkLeft(w)
                     /\ Step(w) => WorkLeft(w)' < WorkLeft(w)
<1>1. TypeOK => Some
  BY WorkLeftType
<1>2. TypeOK /\ FreshBeforeResume /\ [Next]_vars => [Less]_vars
  <2> SUFFICES ASSUME TypeOK, FreshBeforeResume, Next, NEW w \in Workers, pc[w] \in Live
               PROVE  /\ WorkLeft(w)' <= WorkLeft(w)
                      /\ Step(w) => WorkLeft(w)' < WorkLeft(w)
    OBVIOUS
  <2>1. WorkLeft(w) \in Nat
    BY WorkLeftType
  <2>2. Step(w) => WorkLeft(w)' < WorkLeft(w)
    BY StepIsWork
  <2>3. ASSUME WriteFails(w) \/ Kill(w) PROVE WorkLeft(w)' = 0
    <3>1. pc'[w] \in {"failed", "off"}
      BY <2>3 DEF WriteFails, Kill, Goto, TypeOK
    <3> QED
      BY <3>1 DEF WorkLeft, Live
  <2>4. ASSUME UNCHANGED <<pc[w], step[w], job[w], ending[w]>> PROVE WorkLeft(w)' = WorkLeft(w)
    BY <2>4 DEF WorkLeft, StepsLeft, Place
  <2>5. KillParent(w) => UNCHANGED <<pc[w], step[w], job[w], ending[w]>>
    BY DEF KillParent, local
  <2>6. ASSUME NEW v \in Workers \ {w}, Spawn(v) \/ Step(v) \/ Fault(v)
        PROVE  UNCHANGED <<pc[w], step[w], job[w], ending[w]>>
    BY <2>6 DEF Spawn, Step, Fault, StartFresh, Resume, ResumeFails, Tokenize, TrainStep,
                LoopExit, OpenTmp, WriteTmp, Replace, ReplaceFails, ReportSaved, WriteFails,
                Kill, KillParent, Close, Goto, EmitGoto, local, TypeOK
  <2>7. ~Spawn(w)
    BY DEF Spawn
  <2>8. \/ Step(w) \/ WriteFails(w) \/ Kill(w) \/ KillParent(w)
        \/ \E v \in Workers \ {w} : Spawn(v) \/ Step(v) \/ Fault(v)
    BY <2>7 DEF Next, Fault
  <2>9. WorkLeft(w)' <= WorkLeft(w)
    <3>1. CASE Step(w)
      BY <2>1, <3>1, StepIsWork
    <3>2. CASE WriteFails(w) \/ Kill(w)
      BY <2>1, <2>3, <3>2
    <3>3. CASE UNCHANGED <<pc[w], step[w], job[w], ending[w]>>
      BY <2>1, <2>4, <3>3
    <3> QED
      BY <2>5, <2>6, <2>8, <3>1, <3>2, <3>3
  <2> QED
    BY <2>2, <2>9
<1>3. HistoryInv => FreshBeforeResume
  BY DEF HistoryInv
<1>4. Init => HistoryInv
  BY DEF Init, HistoryInv, CanonicalHistory, FreshBeforeResume, Training, Live
<1> HIDE DEF Some, Less
<1>5. Spec => []Some /\ [][Less]_vars
  BY <1>1, <1>2, <1>3, <1>4, HistoryStep, TypeCorrect, PTL DEF Spec
<1> QED
  BY <1>5 DEF Some, Less
=============================================================================
