--------------------------- MODULE DataIngestProofs ---------------------------
(***************************************************************************)
(* Theorems about the text of a build, for any corpus, hash, requests and  *)
(* number of runs.                                                         *)
(***************************************************************************)
EXTENDS DataIngest, Counting, SequenceTheorems, TLAPS

-----------------------------------------------------------------------------
(***************************************************************************)
(* Types.                                                                  *)
(***************************************************************************)
\* A new workspace is one.
LEMMA NothingType == \A request \in RequestSpecs : Nothing(request) \in Workspaces
BY DEF Nothing, Workspaces, Documents

\* The request of a run that has not started is one.
LEMMA NoRequestType == NoRequest \in RequestSpecs
BY SeedsAssumption DEF NoRequest, RequestSpecs

\* Blocks start at natural numbers.
LEMMA BlocksType == \A length : Blocks(length) \subseteq Nat
BY DEF Blocks

\* A line that is neither skipped nor refused is a document.
LEMMA LineIsDocument ==
    ASSUME NEW file \in Files, file.format \in {"text", "jsonl", "parquet"},
           NEW n \in DOMAIN file.lines,
           ~Skipped(file.format, file.lines[n]), ~Refused(file.format, file.lines[n])
    PROVE  file.lines[n] \in Documents
BY DEF Files, LinesOf, Lines, Documents, Skipped, Refused, Formats

\* The split holds out documents of the workspace.
LEMMA SplitType ==
    ASSUME NEW w \in Workspaces
    PROVE  Split(w) \subseteq DOMAIN w.documents
BY DEF Split
-----------------------------------------------------------------------------
(***************************************************************************)
(* The invariant.                                                          *)
(***************************************************************************)
\* A workspace never contradicts the split of its documents, and the tokenizer has learned
\* from its train side.
Sound(w) ==
    /\ w.train \cup w.val \subseteq DOMAIN w.documents
    /\ w.val \subseteq Split(w) /\ w.train \cap Split(w) = {}
    /\ w.learned # {} => w.learned = TextsOf(w, w.train)

\* What the current run has done so far.
Current ==
    LET w == workspace[run] IN
    /\ pc \notin {"idle", "refused"} => run \in Runs
    /\ pc = "reading" => Accepted(w.request) /\ w.train = {} /\ w.val = {} /\ w.learned = {}
    /\ pc = "ingested" => w.roles \in {<<"all">>, <<"train", "val">>} /\ w.learned = {}
    /\ pc \in {"tokenized", "trained", "evaluated"} =>
         w.train # {} /\ w.learned = TextsOf(w, w.train)

IInv == TypeOK /\ (\A r \in Runs : Sound(workspace[r])) /\ Current

\* A new workspace is sound.
LEMMA NothingIsSound == \A request \in RequestSpecs : Sound(Nothing(request))
BY DEF Nothing, Sound

\* What holds at the start.
LEMMA InitHolds == Init => IInv
<1> SUFFICES ASSUME Init PROVE IInv
  OBVIOUS
<1>1. \A r \in Runs : workspace[r] \in Workspaces /\ Sound(workspace[r])
  BY NothingType, NothingIsSound, NoRequestType DEF Init
<1>2. workspace \in [Runs -> Workspaces]
  BY <1>1 DEF Init
<1>3. TypeOK
  BY <1>1, <1>2, CorporaAssumption, BoundsAssumption DEF Init, TypeOK, Idle, Sound
<1>4. Current
  BY DEF Init, Current
<1> QED
  BY <1>1, <1>3, <1>4 DEF IInv

\* One workspace is replaced by a sound one.
LEMMA WorkspaceReplaced ==
    ASSUME IInv, NEW r \in Runs, NEW w \in Workspaces, Sound(w),
           workspace' = [workspace EXCEPT ![r] = w]
    PROVE  /\ workspace' \in [Runs -> Workspaces] /\ workspace'[r] = w
           /\ \A s \in Runs : Sound(workspace'[s])
BY DEF IInv, TypeOK

\* A sound workspace has no numbers of documents that are not there.
LEMMA SoundNumbers ==
    ASSUME NEW w, Sound(w)
    PROVE  w.train \cup w.val \subseteq DOMAIN w.documents
BY DEF Sound

\* The dataset artifact that serves as train is the train side.
LEMMA TrainIsSelected ==
    ASSUME NEW w, w.roles \in {<<"all">>, <<"train", "val">>}
    PROVE  SelectDataset(w, "train") = w.train
<1> DEFINE fits == {n \in DOMAIN w.roles :
                      w.roles[n] = "train" \/ ("train" = "train" /\ w.roles[n] = "all")}
<1>1. fits = {1}
  BY DEF fits
<1>2. Max(fits) = 1
  BY <1>1 DEF Max
<1>3. w.roles[1] # "val"
  OBVIOUS
<1> QED
  BY <1>1, <1>2, <1>3 DEF SelectDataset, FileOf

-----------------------------------------------------------------------------
(***************************************************************************)
(* Every step keeps it.                                                    *)
(***************************************************************************)
\* A source that grows between two runs changes no workspace.
LEMMA AppendLineKeeps == IInv /\ AppendLine => IInv'
<1> SUFFICES ASSUME IInv, AppendLine PROVE IInv'
  OBVIOUS
<1>1. PICK s \in Sources : \E l \in Additions \cap LinesOf(corpus[s].format) :
          /\ corpus[s].format \in {"text", "jsonl"}
          /\ corpus' = [corpus EXCEPT ![s].lines = Append(@, l)]
  BY DEF AppendLine
<1>2. PICK l \in Additions \cap LinesOf(corpus[s].format) :
          /\ corpus[s].format \in {"text", "jsonl"}
          /\ corpus' = [corpus EXCEPT ![s].lines = Append(@, l)]
  BY <1>1
<1>3. corpus[s] \in Files
  BY DEF IInv, TypeOK
<1>4. [corpus[s] EXCEPT !.lines = Append(corpus[s].lines, l)] \in Files
  <2>1. CASE corpus[s].format = "text"
    <3>1. l \in LinesOf("text") /\ corpus[s] \in [format : {"text"}, lines : Seq(LinesOf("text"))]
      BY <2>1, <1>3 DEF Files
    <3> QED
      BY <3>1 DEF Files
  <2>2. CASE corpus[s].format = "jsonl"
    <3>1. l \in Lines
      BY <2>2 DEF LinesOf
    <3>2. corpus[s] \in [format : Formats \ {"text", "parquet"}, lines : Seq(Lines)]
      BY <2>2, <1>3 DEF Files
    <3> QED
      BY <3>1, <3>2 DEF Files
  <2> QED
    BY <1>2, <2>1, <2>2
<1>5. corpus' \in [Sources -> Files]
  BY <1>2, <1>4 DEF IInv, TypeOK
<1>6. UNCHANGED <<run, pc, source, line, workspace>> /\ pc \in Idle
  BY DEF AppendLine
<1> QED
  BY <1>5, <1>6 DEF IInv, TypeOK, Current, Idle

\* A run starts with an empty workspace.
LEMMA StartIngestKeeps == IInv /\ StartIngest => IInv'
<1> SUFFICES ASSUME IInv, StartIngest PROVE IInv'
  OBVIOUS
<1>1. PICK request \in Requests :
          /\ workspace' = [workspace EXCEPT ![run'] = Nothing(request)]
          /\ pc' = IF Accepted(request) THEN "reading" ELSE "refused"
  BY DEF StartIngest
<1>2. run' \in Runs /\ run' = run + 1 /\ source' = 1 /\ line' = 0 /\ corpus' = corpus
  BY BoundsAssumption DEF StartIngest, IInv, TypeOK, Runs
<1>3. request \in RequestSpecs
  BY RequestsAssumption
<1>4. /\ workspace' \in [Runs -> Workspaces] /\ workspace'[run'] = Nothing(request)
      /\ \A r \in Runs : Sound(workspace'[r])
  BY <1>1, <1>2, <1>3, NothingType, NothingIsSound, WorkspaceReplaced
<1>5. TypeOK'
  BY <1>1, <1>2, <1>4, SoundNumbers DEF IInv, TypeOK, Idle, Runs
<1>6. Current'
  BY <1>1, <1>2, <1>4 DEF Current, Nothing, Accepted
<1> QED
  BY <1>4, <1>5, <1>6 DEF IInv

\* A line that is read adds a document, or none.
LEMMA ReadLineKeeps == IInv /\ ReadLine => IInv'
<1> SUFFICES ASSUME IInv, ReadLine PROVE IInv'
  OBVIOUS
<1> DEFINE w == workspace[run]
           l == Reading.lines[line + 1]
<1>1. /\ pc = "reading" /\ run \in Runs /\ w \in Workspaces /\ Sound(w)
      /\ Accepted(w.request) /\ w.train = {} /\ w.val = {} /\ w.learned = {}
  BY DEF ReadLine, IInv, TypeOK, Current
<1>2. /\ UNCHANGED <<corpus, run, source>> /\ line' = line + 1
      /\ pc' \in {"reading", "refused"}
  BY DEF ReadLine
<1>3. /\ workspace' \in [Runs -> Workspaces]
      /\ \A r \in Runs : Sound(workspace'[r])
      /\ LET v == workspace'[run] IN
           v.request = w.request /\ v.train = {} /\ v.val = {} /\ v.learned = {}
  <2>1. CASE workspace' = workspace
    BY <2>1, <1>1 DEF IInv, TypeOK
  <2>2. CASE workspace' = [workspace EXCEPT ![run].duplicates = @ + 1]
    <3> DEFINE v == [w EXCEPT !.duplicates = @ + 1]
    <3>1. v \in Workspaces /\ v.request = w.request /\ v.train = {} /\ v.val = {} /\ v.learned = {}
      BY <1>1 DEF Workspaces
    <3>2. Sound(v)
      BY <3>1 DEF Sound
    <3>3. workspace' = [workspace EXCEPT ![run] = v]
      BY <2>2
    <3> QED
      BY <3>1, <3>2, <3>3, <1>1, WorkspaceReplaced
  <2>3. CASE /\ workspace' = [workspace EXCEPT ![run].documents = Append(@, l)]
             /\ ~Skipped(Reading.format, l) /\ ~Refused(Reading.format, l)
    <3> DEFINE v == [w EXCEPT !.documents = Append(@, l)]
    <3>1. /\ source \in DOMAIN w.request.inputs /\ w.request.inputs[source] \in Sources
          /\ w.request \in RequestSpecs
      BY <1>1 DEF ReadLine, IInv, TypeOK, Workspaces, RequestSpecs
    <3>2. Reading \in Files /\ Reading.format \notin {"none", "other", "columns"}
      BY <3>1, <1>1 DEF Reading, Accepted, ReadLine, IInv, TypeOK
    <3>3. Reading.format \in {"text", "jsonl", "parquet"} /\ line + 1 \in DOMAIN Reading.lines
      BY <3>2 DEF Files, Formats, ReadLine, IInv, TypeOK
    <3>4. l \in Documents
      BY <2>3, <3>2, <3>3, LineIsDocument
    <3>5. w.documents \in Seq(Documents)
      BY <1>1 DEF Workspaces
    <3>6. Append(w.documents, l) \in Seq(Documents)
      BY <3>5, <3>4
    <3>7. v \in Workspaces /\ v.request = w.request /\ v.train = {} /\ v.val = {} /\ v.learned = {}
      BY <3>6, <1>1 DEF Workspaces
    <3>8. Sound(v)
      BY <3>7 DEF Sound
    <3>9. workspace' = [workspace EXCEPT ![run] = v]
      BY <2>3
    <3> QED
      BY <3>7, <3>8, <3>9, <1>1, WorkspaceReplaced
  <2> QED
    BY <2>1, <2>2, <2>3 DEF ReadLine
<1>4. TypeOK'
  BY <1>2, <1>3, SoundNumbers DEF IInv, TypeOK, Idle
<1>5. Current'
  BY <1>1, <1>2, <1>3 DEF Current, Accepted
<1> QED
  BY <1>3, <1>4, <1>5 DEF IInv

\* The next source changes no workspace.
LEMMA NextSourceKeeps == IInv /\ NextSource => IInv'
<1> SUFFICES ASSUME IInv, NextSource PROVE IInv'
  OBVIOUS
<1>1. /\ UNCHANGED <<corpus, run, workspace>> /\ pc = "reading"
      /\ pc' \in {"reading", "refused"} /\ line' = 0 /\ source' = source + 1
  BY DEF NextSource
<1>2. TypeOK'
  BY <1>1 DEF IInv, TypeOK, Idle
<1>3. Current'
  BY <1>1 DEF IInv, Current, Accepted
<1> QED
  BY <1>1, <1>2, <1>3 DEF IInv

\* What val does not get, train gets.
LEMMA WriteSplitKeeps == IInv /\ WriteSplit => IInv'
<1> SUFFICES ASSUME IInv, WriteSplit PROVE IInv'
  OBVIOUS
<1> DEFINE w == workspace[run]
           v == [w EXCEPT !.train = (DOMAIN w.documents) \ Split(w), !.val = Split(w),
                          !.roles = IF Split(w) # {} THEN <<"train", "val">> ELSE <<"all">>]
<1>1. /\ pc = "reading" /\ run \in Runs /\ w \in Workspaces /\ w.learned = {}
      /\ Split(w) \subseteq DOMAIN w.documents
  BY SplitType DEF WriteSplit, IInv, TypeOK, Current
<1>2. UNCHANGED <<corpus, run, source, line>> /\ pc' = "ingested"
  BY DEF WriteSplit
<1>3. workspace' = [workspace EXCEPT ![run] = v]
  BY DEF WriteSplit
<1>4. v.roles \in {<<"all">>, <<"train", "val">>} /\ v.learned = {}
  BY <1>1 DEF Workspaces
<1>5. v \in Workspaces
  <2>1. DOMAIN w.documents \subseteq Nat
    BY <1>1 DEF Workspaces
  <2>2. <<"train", "val">> \in Seq({"train", "all", "val"}) /\ <<"all">> \in Seq({"train", "all", "val"})
    OBVIOUS
  <2> QED
    BY <1>1, <2>1, <2>2 DEF Workspaces
<1>6. Sound(v)
  <2>1. v.documents = w.documents /\ v.request = w.request
        /\ v.train = (DOMAIN w.documents) \ Split(w) /\ v.val = Split(w) /\ v.learned = {}
    BY <1>1 DEF Workspaces
  <2>2. Split(v) = Split(w)
    BY <2>1 DEF Split
  <2> QED
    BY <1>1, <2>1, <2>2 DEF Sound
<1>7. /\ workspace' \in [Runs -> Workspaces] /\ workspace'[run] = v
      /\ \A r \in Runs : Sound(workspace'[r])
  BY <1>1, <1>3, <1>5, <1>6, WorkspaceReplaced
<1>8. TypeOK'
  BY <1>2, <1>7, SoundNumbers DEF IInv, TypeOK, Idle
<1>9. Current'
  BY <1>1, <1>2, <1>4, <1>7 DEF Current
<1> QED
  BY <1>7, <1>8, <1>9 DEF IInv

\* The tokenizer learns from the artifact that serves as train, which is the train side.
LEMMA TrainTokenizerKeeps == IInv /\ TrainTokenizer => IInv'
<1> SUFFICES ASSUME IInv, TrainTokenizer PROVE IInv'
  OBVIOUS
<1> DEFINE w == workspace[run]
           v == [w EXCEPT !.learned = TextsOf(w, w.train)]
<1>1. /\ pc = "ingested" /\ run \in Runs /\ w \in Workspaces /\ Sound(w)
      /\ SelectDataset(w, "train") = w.train
  BY TrainIsSelected DEF TrainTokenizer, IInv, TypeOK, Current
<1>2. UNCHANGED <<corpus, run, source, line>>
  BY DEF TrainTokenizer
<1>3. CASE w.train = {}
  <2>1. pc' = "refused" /\ UNCHANGED workspace
    BY <1>1, <1>3 DEF TrainTokenizer
  <2>2. TypeOK'
    BY <1>2, <2>1 DEF IInv, TypeOK, Idle
  <2> QED
    BY <1>2, <2>1, <2>2 DEF IInv, Current
<1>4. CASE w.train # {}
  <2>1. pc' = "tokenized" /\ workspace' = [workspace EXCEPT ![run] = v]
    BY <1>1, <1>4 DEF TrainTokenizer
  <2>2. TextsOf(w, w.train) \subseteq Texts
    BY DEF TextsOf
  <2>3. v \in Workspaces
    BY <1>1, <2>2 DEF Workspaces
  <2>4. /\ v.documents = w.documents /\ v.request = w.request /\ v.train = w.train
        /\ v.val = w.val /\ v.learned = TextsOf(w, w.train)
    BY <1>1 DEF Workspaces
  <2>5. Split(v) = Split(w) /\ TextsOf(v, v.train) = TextsOf(w, w.train)
    BY <2>4 DEF Split, TextsOf
  <2>6. Sound(v)
    BY <1>1, <2>4, <2>5 DEF Sound
  <2>7. /\ workspace' \in [Runs -> Workspaces] /\ workspace'[run] = v
        /\ \A r \in Runs : Sound(workspace'[r])
    BY <1>1, <2>1, <2>3, <2>6, WorkspaceReplaced
  <2>8. TypeOK'
    BY <1>2, <2>1, <2>7, SoundNumbers DEF IInv, TypeOK, Idle
  <2>9. Current'
    BY <1>1, <1>2, <1>4, <2>1, <2>4, <2>5, <2>7 DEF Current
  <2> QED
    BY <2>7, <2>8, <2>9 DEF IInv
<1> QED
  BY <1>3, <1>4

\* Packing changes no text and no number of a document.
LEMMA BlocksReplaced ==
    ASSUME IInv, pc \in {"tokenized", "trained"}, NEW b,
           b \in [train : SUBSET Nat, val : SUBSET Nat],
           workspace' = [workspace EXCEPT ![run].blocks = b],
           UNCHANGED <<corpus, run, source, line>>,
           pc' \in {"refused", "trained", "evaluated"}
    PROVE  IInv'
<1> DEFINE w == workspace[run]
           v == [w EXCEPT !.blocks = b]
<1>1. /\ run \in Runs /\ w \in Workspaces /\ Sound(w)
      /\ w.train # {} /\ w.learned = TextsOf(w, w.train)
  BY DEF IInv, TypeOK, Current
<1>2. /\ v \in Workspaces /\ v.documents = w.documents /\ v.request = w.request
      /\ v.train = w.train /\ v.val = w.val /\ v.learned = w.learned
  BY <1>1 DEF Workspaces
<1>3. Split(v) = Split(w) /\ TextsOf(v, v.train) = TextsOf(w, w.train)
  BY <1>2 DEF Split, TextsOf
<1>4. Sound(v)
  BY <1>1, <1>2, <1>3 DEF Sound
<1>5. workspace' = [workspace EXCEPT ![run] = v]
  OBVIOUS
<1>6. /\ workspace' \in [Runs -> Workspaces] /\ workspace'[run] = v
      /\ \A r \in Runs : Sound(workspace'[r])
  BY <1>1, <1>2, <1>4, <1>5, WorkspaceReplaced
<1>7. TypeOK'
  BY <1>6, SoundNumbers DEF IInv, TypeOK, Idle
<1>8. Current'
  BY <1>1, <1>2, <1>3, <1>6 DEF Current
<1> QED
  BY <1>6, <1>7, <1>8 DEF IInv

\* Neither side of the split is disturbed when the train side is packed.
LEMMA PackTrainKeeps == IInv /\ PackTrain => IInv'
<1> SUFFICES ASSUME IInv, PackTrain PROVE IInv'
  OBVIOUS
<1> DEFINE starts == Blocks(Length(workspace[run], SelectDataset(workspace[run], "train")))
           b == [workspace[run].blocks EXCEPT !.train = starts]
<1>1. run \in Runs /\ workspace \in [Runs -> Workspaces]
  BY DEF PackTrain, IInv, TypeOK, Current
<1>2. b \in [train : SUBSET Nat, val : SUBSET Nat]
  BY <1>1, BlocksType DEF Workspaces
<1>3. /\ pc = "tokenized" /\ pc' \in {"refused", "trained"}
      /\ UNCHANGED <<corpus, run, source, line>>
      /\ workspace' = [workspace EXCEPT ![run].blocks.train = starts]
  BY DEF PackTrain
<1>4. workspace' = [workspace EXCEPT ![run].blocks = b]
  BY <1>1, <1>3
<1> QED
  BY <1>2, <1>3, <1>4, BlocksReplaced

\* Nor when the val side is.
LEMMA PackValKeeps == IInv /\ PackVal => IInv'
<1> SUFFICES ASSUME IInv, PackVal PROVE IInv'
  OBVIOUS
<1> DEFINE starts == Blocks(Length(workspace[run], SelectDataset(workspace[run], "val")))
           b == [workspace[run].blocks EXCEPT !.val = starts]
<1>1. run \in Runs /\ workspace \in [Runs -> Workspaces]
  BY DEF PackVal, IInv, TypeOK, Current
<1>2. b \in [train : SUBSET Nat, val : SUBSET Nat]
  BY <1>1, BlocksType DEF Workspaces
<1>3. /\ pc = "trained" /\ pc' \in {"refused", "evaluated"}
      /\ UNCHANGED <<corpus, run, source, line>>
      /\ workspace' = [workspace EXCEPT ![run].blocks.val = starts]
  BY DEF PackVal
<1>4. workspace' = [workspace EXCEPT ![run].blocks = b]
  BY <1>1, <1>3
<1> QED
  BY <1>2, <1>3, <1>4, BlocksReplaced

\* Every step, and every step of something else.
LEMMA StepHolds == IInv /\ [Next]_vars => IInv'
<1>1. IInv /\ UNCHANGED vars => IInv'
  <2> SUFFICES ASSUME IInv, UNCHANGED vars PROVE IInv'
    OBVIOUS
  <2>1. TypeOK'
    BY DEF IInv, TypeOK, vars
  <2>2. Current'
    BY DEF IInv, Current, Accepted, vars
  <2> QED
    BY <2>1, <2>2 DEF IInv, vars
<1> QED
  BY <1>1, AppendLineKeeps, StartIngestKeeps, ReadLineKeeps, NextSourceKeeps, WriteSplitKeeps,
     TrainTokenizerKeeps, PackTrainKeeps, PackValKeeps DEF Next

-----------------------------------------------------------------------------
(***************************************************************************)
(* Theorems.                                                               *)
(***************************************************************************)
\* Type correctness: above all, the files of a split name documents of their workspace
\* (data_ingest.py).
THEOREM IngestTypeCorrect == Spec => []TypeOK
<1>1. IInv => TypeOK
  BY DEF IInv
<1> QED
  BY <1>1, InitHolds, StepHolds, PTL DEF Spec

\* Sound workspaces agree on the side of a text, because the split is a function of the
\* text, the seed and the ratio alone, and it grows with the ratio.
LEMMA SplitsAgree == IInv => SplitIsStable
<1> SUFFICES ASSUME IInv, NEW r \in Runs, NEW s \in Runs,
                    workspace[r].request.seed = workspace[s].request.seed,
                    workspace[r].request.ratio <= workspace[s].request.ratio,
                    NEW m \in workspace[r].val, NEW n \in workspace[s].train,
                    workspace[r].documents[m] = workspace[s].documents[n]
             PROVE  FALSE
  BY DEF SplitIsStable
<1> DEFINE v == workspace[r]
           w == workspace[s]
<1>1. v \in Workspaces /\ w \in Workspaces /\ Sound(v) /\ Sound(w)
  BY DEF IInv, TypeOK
<1>2. m \in Split(v) /\ n \in DOMAIN w.documents /\ n \notin Split(w)
  BY <1>1 DEF Sound
<1>3. v.request.ratio > 0 /\ Bucket[v.request.seed][v.documents[m]] < v.request.ratio
  <2>1. v.request.ratio \in Int
    BY <1>1 DEF Workspaces, RequestSpecs
  <2> QED
    BY <1>2, <2>1 DEF Split
<1>4. /\ v.request.ratio \in Int /\ w.request.ratio \in Int
      /\ w.request.seed \in Seeds /\ w.documents[n] \in Documents
  BY <1>1, <1>2 DEF Workspaces, RequestSpecs
<1>5. Bucket[w.request.seed][w.documents[n]] \in Int
  BY <1>4, BucketAssumption, ScaleAssumption
<1>6. w.request.ratio > 0 /\ Bucket[w.request.seed][w.documents[n]] < w.request.ratio
  BY <1>3, <1>4, <1>5
<1>7. n \in Split(w)
  BY <1>2, <1>4, <1>6 DEF Split
<1> QED
  BY <1>2, <1>7

\* A text held out by one run is trained on by none with the same seed and a ratio at
\* least as large, however the corpus grows (_split, data_ingest.py).
THEOREM HeldOutStaysHeldOut == Spec => []SplitIsStable
BY SplitsAgree, InitHolds, StepHolds, PTL DEF Spec

\* The tokenizer learns from all of the train side and from nothing else
\* (select_dataset_artifact, tokenizer_train.py).
THEOREM TokenizerLearnsFromTrain == Spec => []LearnsFromTrain
<1>1. IInv => LearnsFromTrain
  <2> SUFFICES ASSUME IInv, NEW r \in Runs
               PROVE  /\ workspace[r].learned # {} =>
                           workspace[r].learned = TextsOf(workspace[r], workspace[r].train)
                      /\ r = run /\ pc \in {"tokenized", "trained", "evaluated"} =>
                           /\ workspace[r].train # {}
                           /\ workspace[r].learned = TextsOf(workspace[r], workspace[r].train)
    BY DEF LearnsFromTrain
  <2>1. Sound(workspace[r]) /\ Current
    BY DEF IInv
  <2> QED
    BY <2>1 DEF Sound, Current
<1> QED
  BY <1>1, InitHolds, StepHolds, PTL DEF Spec

-----------------------------------------------------------------------------
(***************************************************************************)
(* What is kept of the lines that have been read.                          *)
(***************************************************************************)
\* The documents among the lines that the current run has read.
ReadSoFar(request) ==
    {p \in DocumentLines(request) : p[1] < source \/ (p[1] = source /\ p[2] <= line)}

\* The documents of a workspace and its count of duplicates are what is kept of the lines
\* at some positions of its inputs.
Kept(w, done) ==
    /\ IsFiniteSet(done)
    /\ Len(w.documents) + w.duplicates = Cardinality(done)
    /\ ValuesOf(w.documents) = TextsAt(w.request, done)
    /\ \A t \in TextsAt(w.request, done) :
         Copies(w.documents, t) =
           IF w.request.dedup THEN 1 ELSE Places(w.request, done, t)

EInv ==
    /\ IInv
    /\ pc = "reading" =>
         LET w == workspace[run] IN
         /\ Kept(w, ReadSoFar(w.request))
         /\ source <= Len(w.request.inputs) => line <= Len(Reading.lines)
    /\ IngestIsExact

\* A position of a document is a source and a line of it that is not skipped.
LEMMA DocumentLinesAt ==
    ASSUME NEW request
    PROVE  \A p : p \in DocumentLines(request) <=>
              \E i \in DOMAIN request.inputs :
                 \E j \in DOMAIN corpus[request.inputs[i]].lines :
                    /\ p = <<i, j>>
                    /\ ~Skipped(corpus[request.inputs[i]].format,
                                corpus[request.inputs[i]].lines[j])
BY DEF DocumentLines, TextAt

\* A document that is kept is one more copy of its text.
LEMMA CopiesGrow ==
    ASSUME NEW S, NEW docs \in Seq(S), NEW x \in S
    PROVE  /\ ValuesOf(Append(docs, x)) = ValuesOf(docs) \cup {x}
           /\ \A t : /\ Copies(docs, t) \in Nat
                     /\ t \notin ValuesOf(docs) => Copies(docs, t) = 0
                     /\ Copies(Append(docs, x), t) = Copies(docs, t) + (IF x = t THEN 1 ELSE 0)
<1> DEFINE more == Append(docs, x)
           m == Len(docs)
           At(s, t) == {n \in DOMAIN s : s[n] = t}
<1>1. /\ m \in Nat /\ DOMAIN docs = 1 .. m /\ DOMAIN more = 1 .. m + 1
      /\ more[m + 1] = x /\ \A n \in 1 .. m : more[n] = docs[n]
  OBVIOUS
<1>2. 1 .. m + 1 = (1 .. m) \cup {m + 1} /\ m + 1 \notin 1 .. m
  BY <1>1
<1>3. ValuesOf(more) = ValuesOf(docs) \cup {x}
  <2> HIDE DEF more, m
  <2> QED
    BY <1>1, <1>2 DEF ValuesOf
<1>4. ASSUME NEW t
      PROVE  /\ Copies(docs, t) \in Nat
             /\ t \notin ValuesOf(docs) => Copies(docs, t) = 0
             /\ Copies(more, t) = Copies(docs, t) + (IF x = t THEN 1 ELSE 0)
  <2>0. Copies(docs, t) = Cardinality(At(docs, t)) /\ Copies(more, t) = Cardinality(At(more, t))
    BY DEF Copies
  <2>1. IsFiniteSet(1 .. m)
    BY <1>1, FS_Interval
  <2>2. IsFiniteSet(At(docs, t)) /\ At(docs, t) \subseteq 1 .. m
    BY <2>1, <1>1, FS_Subset
  <2>3. Cardinality(At(docs, t)) \in Nat
    BY <2>2, FS_CardinalityType
  <2>4. t \notin ValuesOf(docs) => Cardinality(At(docs, t)) = 0
    BY FS_EmptySet DEF ValuesOf
  <2>5. CASE x = t
    <3>1. At(more, t) = At(docs, t) \cup {m + 1}
      <4> HIDE DEF more, m
      <4> QED
        BY <2>5, <1>1, <1>2
    <3>2. m + 1 \notin At(docs, t)
      BY <1>2, <2>2
    <3> HIDE DEF At, more, m
    <3>3. Cardinality(At(more, t)) = Cardinality(At(docs, t)) + 1
      BY <3>1, <3>2, <2>2, FS_AddElement
    <3> QED
      BY <2>0, <2>3, <2>4, <3>3, <2>5
  <2>6. CASE x # t
    <3>1. At(more, t) = At(docs, t)
      <4> HIDE DEF more, m
      <4> QED
        BY <2>6, <1>1, <1>2
    <3> HIDE DEF At, more, m
    <3> QED
      BY <2>0, <2>3, <2>4, <2>6, <3>1
  <2> QED
    BY <2>5, <2>6
<1> QED
  BY <1>3, <1>4

\* The texts at one more position.
LEMMA TextsGrow ==
    ASSUME NEW request, NEW done, NEW q
    PROVE  TextsAt(request, done \cup {q}) = TextsAt(request, done) \cup {TextAt(request, q)}
BY DEF TextsAt

\* The positions of a text can be counted, and a text that is nowhere has none.
LEMMA PlacesCount ==
    ASSUME NEW request, NEW done, IsFiniteSet(done), NEW t
    PROVE  /\ Places(request, done, t) \in Nat
           /\ t \notin TextsAt(request, done) => Places(request, done, t) = 0
<1> DEFINE At == {p \in done : TextAt(request, p) = t}
<1>1. Places(request, done, t) = Cardinality(At)
  BY DEF Places
<1>2. IsFiniteSet(At)
  BY FS_Subset
<1>3. t \notin TextsAt(request, done) => Cardinality(At) = 0
  BY FS_EmptySet DEF TextsAt
<1> QED
  BY <1>1, <1>2, <1>3, FS_CardinalityType

\* A line that is read is one more position of its text, and of no other text.
LEMMA PlacesGrow ==
    ASSUME NEW request, NEW done, IsFiniteSet(done), NEW q, q \notin done,
           NEW l, l = TextAt(request, q), NEW more, more = done \cup {q}, NEW t
    PROVE  Places(request, more, t) = Places(request, done, t) + (IF l = t THEN 1 ELSE 0)
<1> DEFINE At(D) == {p \in D : TextAt(request, p) = t}
<1>1. /\ Places(request, done, t) = Cardinality(At(done))
      /\ Places(request, more, t) = Cardinality(At(more))
  BY DEF Places
<1>2. IsFiniteSet(At(done)) /\ q \notin At(done)
  BY FS_Subset
<1>3. Cardinality(At(done)) \in Nat
  BY <1>2, FS_CardinalityType
<1>4. CASE l = t
  <2>1. At(more) = At(done) \cup {q}
    BY <1>4
  <2> HIDE DEF At
  <2>2. Cardinality(At(more)) = Cardinality(At(done)) + 1
    BY <1>2, <2>1, FS_AddElement
  <2> QED
    BY <1>1, <1>3, <1>4, <2>2
<1>5. CASE l # t
  <2>1. At(more) = At(done)
    BY <1>5
  <2> HIDE DEF At
  <2> QED
    BY <1>1, <1>3, <1>5, <2>1
<1> QED
  BY <1>4, <1>5

\* One more line: kept as a document, or counted as a duplicate of one that is kept.
LEMMA KeptGrows ==
    ASSUME NEW w \in Workspaces, NEW done, Kept(w, done), NEW q, q \notin done,
           NEW l \in Documents, l = TextAt(w.request, q), NEW v, v.request = w.request,
           w.request.dedup /\ Seen(w, l) =>
              v.documents = w.documents /\ v.duplicates = w.duplicates + 1,
           ~(w.request.dedup /\ Seen(w, l)) =>
              v.documents = Append(w.documents, l) /\ v.duplicates = w.duplicates
    PROVE  Kept(v, done \cup {q})
<1> DEFINE seen == TextsAt(w.request, done)
           more == Append(w.documents, l)
           R    == w.request
<1>1. /\ w.documents \in Seq(Documents) /\ Len(w.documents) \in Nat /\ w.duplicates \in Nat
      /\ IsFiniteSet(done) /\ Cardinality(done) \in Nat
  BY FS_CardinalityType DEF Workspaces, RequestSpecs, Kept
<1>2. /\ Len(w.documents) + w.duplicates = Cardinality(done)
      /\ ValuesOf(w.documents) = seen
      /\ \A t \in seen : Copies(w.documents, t) = IF R.dedup THEN 1 ELSE Places(R, done, t)
  BY DEF Kept
<1>3. /\ IsFiniteSet(done \cup {q}) /\ Cardinality(done \cup {q}) = Cardinality(done) + 1
      /\ TextsAt(R, done \cup {q}) = seen \cup {l}
      /\ \A t : /\ Places(R, done, t) \in Nat /\ (t \notin seen => Places(R, done, t) = 0)
                /\ Places(R, done \cup {q}, t) = Places(R, done, t) + (IF l = t THEN 1 ELSE 0)
  <2>1. IsFiniteSet(done \cup {q}) /\ Cardinality(done \cup {q}) = Cardinality(done) + 1
    BY <1>1, FS_AddElement
  <2>2. TextsAt(R, done \cup {q}) = seen \cup {l}
    BY TextsGrow
  <2>3. ASSUME NEW t
        PROVE  /\ Places(R, done, t) \in Nat /\ (t \notin seen => Places(R, done, t) = 0)
               /\ Places(R, done \cup {q}, t) = Places(R, done, t) + (IF l = t THEN 1 ELSE 0)
    <3>1. l = TextAt(R, q) /\ IsFiniteSet(done) /\ q \notin done
      BY <1>1
    <3>2. PICK D : D = done \cup {q}
      OBVIOUS
    <3> HIDE DEF R
    <3>3. Places(R, done, t) \in Nat /\ (t \notin TextsAt(R, done) => Places(R, done, t) = 0)
      BY <3>1, PlacesCount
    <3>4. Places(R, D, t) = Places(R, done, t) + (IF l = t THEN 1 ELSE 0)
      BY <3>1, <3>2, PlacesGrow
    <3> QED
      BY <3>2, <3>3, <3>4 DEF R
  <2> HIDE DEF seen, R
  <2> QED
    BY <2>1, <2>2, <2>3
<1>4. /\ ValuesOf(more) = seen \cup {l}
      /\ \A t : /\ Copies(w.documents, t) \in Nat
                /\ (t \notin seen => Copies(w.documents, t) = 0)
                /\ Copies(more, t) = Copies(w.documents, t) + (IF l = t THEN 1 ELSE 0)
  BY <1>1, <1>2, CopiesGrow
<1>5. Seen(w, l) <=> l \in seen
  BY <1>2 DEF Seen, ValuesOf
<1>6. CASE R.dedup /\ Seen(w, l)
  <2>1. /\ v.documents = w.documents /\ v.request = R /\ v.duplicates = w.duplicates + 1
    BY <1>6
  <2> HIDE DEF seen, more, R
  <2>2. TextsAt(R, done \cup {q}) = seen
    BY <1>3, <1>5, <1>6
  <2>3. Len(v.documents) + v.duplicates = Cardinality(done \cup {q})
    BY <1>1, <1>2, <1>3, <2>1
  <2>4. \A t \in seen : Copies(v.documents, t) = 1
    BY <1>2, <1>6, <2>1
  <2> QED
    BY <1>2, <1>3, <1>6, <2>1, <2>2, <2>3, <2>4 DEF Kept
<1>7. CASE ~(R.dedup /\ Seen(w, l))
  <2>1. v.documents = more /\ v.request = R /\ v.duplicates = w.duplicates
    BY <1>7
  <2>2. Len(more) = Len(w.documents) + 1
    BY <1>1
  <2> HIDE DEF seen, more, R
  <2>3. Len(v.documents) + v.duplicates = Cardinality(done \cup {q})
    BY <1>1, <1>2, <1>3, <2>1, <2>2
  <2>4. \A t \in seen \cup {l} :
          Copies(more, t) = IF R.dedup THEN 1 ELSE Places(R, done \cup {q}, t)
    <3>1. CASE R.dedup
      <4>1. l \notin seen
        BY <3>1, <1>5, <1>7
      <4>2. ASSUME NEW t \in seen \cup {l} PROVE Copies(more, t) = 1
        <5>1. CASE t = l
          BY <4>1, <5>1, <1>4
        <5>2. CASE t # l
          BY <5>2, <3>1, <1>2, <1>4
        <5> QED
          BY <5>1, <5>2
      <4> QED
        BY <3>1, <4>2
    <3>2. CASE ~R.dedup
      <4>1. \A t : Copies(w.documents, t) = Places(R, done, t)
        BY <3>2, <1>2, <1>3, <1>4
      <4> QED
        BY <3>2, <4>1, <1>3, <1>4
    <3> QED
      BY <3>1, <3>2
  <2>5. ValuesOf(v.documents) = TextsAt(R, done \cup {q})
    BY <1>3, <1>4, <2>1
  <2>6. \A t \in TextsAt(R, done \cup {q}) :
          Copies(v.documents, t) = IF R.dedup THEN 1 ELSE Places(R, done \cup {q}, t)
    BY <1>3, <2>1, <2>4
  <2> QED
    BY <1>3, <2>1, <2>3, <2>5, <2>6 DEF Kept
<1> QED
  BY <1>6, <1>7

\* What is kept depends on the corpus alone.
LEMMA KeptStays ==
    ASSUME NEW w, NEW done, Kept(w, done), corpus' = corpus
    PROVE  Kept(w, done)'
BY DEF Kept, TextsAt, Places, TextAt

\* While the sources are read, the current one is a file, and its lines are numbered.
LEMMA ReadingType ==
    ASSUME IInv, pc = "reading", source <= Len(workspace[run].request.inputs)
    PROVE  /\ run \in Runs /\ workspace[run] \in Workspaces
           /\ source \in DOMAIN workspace[run].request.inputs
           /\ Reading = corpus[workspace[run].request.inputs[source]]
           /\ Reading \in Files /\ Len(Reading.lines) \in Nat
           /\ DOMAIN Reading.lines = 1 .. Len(Reading.lines)
           /\ Reading.format \in Formats \ {"none", "other"}
<1>1. run \in Runs /\ workspace[run] \in Workspaces /\ Accepted(workspace[run].request)
  BY DEF IInv, TypeOK, Current
<1>2. source \in DOMAIN workspace[run].request.inputs
      /\ workspace[run].request.inputs[source] \in Sources
  BY <1>1 DEF IInv, TypeOK, Workspaces, RequestSpecs
<1>3. Reading = corpus[workspace[run].request.inputs[source]] /\ Reading \in Files
  BY <1>2 DEF Reading, IInv, TypeOK
<1>4. Reading.format \in Formats \ {"none", "other"}
  BY <1>1, <1>2, <1>3 DEF Accepted, Files, Formats
<1>5. Len(Reading.lines) \in Nat /\ DOMAIN Reading.lines = 1 .. Len(Reading.lines)
  <2>1. \E S : Reading.lines \in Seq(S)
    BY <1>3 DEF Files
  <2> QED
    BY <2>1
<1> QED
  BY <1>1, <1>2, <1>3, <1>4, <1>5

\* One more line is one more position, if it is a document.
LEMMA OneMoreRead ==
    ASSUME IInv, pc = "reading", source <= Len(workspace[run].request.inputs),
           line < Len(Reading.lines), corpus' = corpus, source' = source, line' = line + 1,
           NEW R, R = workspace[run].request, NEW q, q = <<source, line + 1>>
    PROVE  /\ q \notin ReadSoFar(R)
           /\ TextAt(R, q) = Reading.lines[line + 1]
           /\ Skipped(Reading.format, TextAt(R, q)) => ReadSoFar(R)' = ReadSoFar(R)
           /\ ~Skipped(Reading.format, TextAt(R, q)) => ReadSoFar(R)' = ReadSoFar(R) \cup {q}
<1>1. /\ source \in Nat /\ line \in Nat /\ source \in DOMAIN R.inputs
      /\ Reading = corpus[R.inputs[source]] /\ line + 1 \in DOMAIN Reading.lines
      /\ DOMAIN Reading.lines \subseteq Nat
  BY ReadingType DEF IInv, TypeOK
<1>2. TextAt(R, q) = Reading.lines[line + 1]
  BY <1>1 DEF TextAt
<1>3. q \notin ReadSoFar(R)
  BY <1>1 DEF ReadSoFar
<1>4. q \in DocumentLines(R) <=> ~Skipped(Reading.format, TextAt(R, q))
  BY <1>1, <1>2, DocumentLinesAt
<1>5. DocumentLines(R)' = DocumentLines(R)
  BY DEF DocumentLines, TextAt
<1>6. ASSUME NEW p \in DocumentLines(R)
      PROVE  (p[1] < source \/ (p[1] = source /\ p[2] <= line + 1))
               <=> (p[1] < source \/ (p[1] = source /\ p[2] <= line)) \/ p = q
  <2>0. PICK i \in DOMAIN R.inputs : \E j \in DOMAIN corpus[R.inputs[i]].lines : p = <<i, j>>
    BY DocumentLinesAt
  <2>1. PICK j \in DOMAIN corpus[R.inputs[i]].lines : p = <<i, j>>
    BY <2>0
  <2>2. i \in Nat
    BY ReadingType DEF Workspaces, RequestSpecs
  <2>3. CASE i # source
    BY <2>1, <2>3, <1>1
  <2>4. CASE i = source
    <3>1. j \in Nat
      BY <2>1, <2>4, <1>1
    <3> QED
      BY <2>1, <2>4, <3>1, <1>1
  <2> QED
    BY <2>3, <2>4
<1>7. ReadSoFar(R)' = {p \in DocumentLines(R) : p[1] < source \/ (p[1] = source /\ p[2] <= line + 1)}
  BY <1>5 DEF ReadSoFar
<1>8. ReadSoFar(R) = {p \in DocumentLines(R) : p[1] < source \/ (p[1] = source /\ p[2] <= line)}
  BY DEF ReadSoFar
<1> QED
  BY <1>2, <1>3, <1>4, <1>6, <1>7, <1>8

\* A line of the current source is kept, or counted, or skipped, or ends the run.
LEMMA ReadLineIsExact == EInv /\ ReadLine => EInv'
<1> SUFFICES ASSUME EInv, ReadLine PROVE EInv'
  OBVIOUS
<1>R. PICK R : R = workspace[run].request
  OBVIOUS
<1> DEFINE w == workspace[run]
           l == Reading.lines[line + 1]
           q == <<source, line + 1>>
<1>0. IInv /\ IInv'
  BY ReadLineKeeps DEF EInv
<1>1. /\ pc = "reading" /\ source <= Len(R.inputs) /\ line < Len(Reading.lines)
      /\ UNCHANGED <<corpus, run, source>> /\ line' = line + 1
      /\ pc' = IF Refused(Reading.format, l) THEN "refused" ELSE "reading"
  BY <1>R DEF ReadLine
<1>2. /\ run \in Runs /\ w \in Workspaces /\ workspace \in [Runs -> Workspaces]
      /\ Reading \in Files /\ Len(Reading.lines) \in Nat
      /\ line \in Nat /\ source \in Nat
  BY <1>0, <1>1, <1>R, ReadingType DEF IInv, TypeOK
<1>3. IngestIsExact'
  BY <1>1 DEF IngestIsExact
<1>4. /\ q \notin ReadSoFar(R) /\ TextAt(R, q) = l
      /\ Skipped(Reading.format, l) => ReadSoFar(R)' = ReadSoFar(R)
      /\ ~Skipped(Reading.format, l) => ReadSoFar(R)' = ReadSoFar(R) \cup {q}
  BY <1>0, <1>1, <1>R, OneMoreRead
<1>5. CASE Refused(Reading.format, l)
  BY <1>0, <1>1, <1>3, <1>5 DEF EInv
<1>6. CASE ~Refused(Reading.format, l)
  <2>1. PICK v : v = workspace'[run]
    OBVIOUS
  <2>2. SUFFICES v.request = R /\ \E D : D = ReadSoFar(R)' /\ Kept(v, D)
    <3>1. PICK D : D = ReadSoFar(R)' /\ Kept(v, D)'
      BY <2>2, <1>1, KeptStays
    <3>2. (workspace[run])' = v /\ v.request = R
      BY <2>1, <2>2, <1>1
    <3>3. Kept(workspace[run], ReadSoFar(workspace[run].request))'
      BY <3>1, <3>2
    <3>4. Reading' = Reading
      BY <3>2, <1>1, <1>R DEF Reading
    <3> QED
      BY <3>3, <3>4, <1>0, <1>1, <1>2, <1>3 DEF EInv
  <2>4. Kept(w, ReadSoFar(R))
    BY <1>1, <1>R DEF EInv
  <2>5. CASE Skipped(Reading.format, l)
    <3>1. workspace' = workspace
      BY <2>5 DEF ReadLine
    <3> QED
      BY <1>R, <3>1, <2>1, <1>4, <2>4, <2>5
  <2>6. CASE ~Skipped(Reading.format, l)
    <3>1. l \in Documents
      <4>1. Reading.format \notin {"none", "other", "columns"} /\ line + 1 \in DOMAIN Reading.lines
        BY <1>0, <1>1, <1>2, <1>R, ReadingType DEF ReadLine
      <4>2. Reading.format \in {"text", "jsonl", "parquet"}
        BY <4>1, <1>0, <1>1, <1>R, ReadingType DEF Formats
      <4> QED
        BY <4>1, <4>2, <1>2, <1>6, <2>6, LineIsDocument
    <3>2. workspace' = IF R.dedup /\ Seen(w, l)
                       THEN [workspace EXCEPT ![run].duplicates = @ + 1]
                       ELSE [workspace EXCEPT ![run].documents = Append(@, l)]
      BY <1>6, <1>R, <2>6 DEF ReadLine
    <3>3. /\ v.request = R
          /\ R.dedup /\ Seen(w, l) =>
               v.documents = w.documents /\ v.duplicates = w.duplicates + 1
          /\ ~(R.dedup /\ Seen(w, l)) =>
               v.documents = Append(w.documents, l) /\ v.duplicates = w.duplicates
      BY <3>2, <2>1, <1>2, <1>R DEF Workspaces
    <3>4. PICK D : D = ReadSoFar(R)
      OBVIOUS
    <3>5. Kept(v, D \cup {q})
      <4> HIDE DEF l, q
      <4> QED
        BY <3>4, <3>1, <3>3, <1>4, <2>4, <1>2, <1>R, KeptGrows
    <3> QED
      BY <3>3, <3>4, <3>5, <1>4, <2>6
  <2> QED
    BY <2>5, <2>6
<1> QED
  BY <1>5, <1>6

\* At the start of a run nothing has been read.
LEMMA StartIngestIsExact == EInv /\ StartIngest => EInv'
<1> SUFFICES ASSUME EInv, StartIngest PROVE EInv'
  OBVIOUS
<1>0. IInv /\ IInv'
  BY StartIngestKeeps DEF EInv
<1>1. PICK request \in Requests :
          /\ workspace' = [workspace EXCEPT ![run'] = Nothing(request)]
          /\ pc' = IF Accepted(request) THEN "reading" ELSE "refused"
  BY DEF StartIngest
<1>2. source' = 1 /\ line' = 0 /\ corpus' = corpus /\ pc' \in {"reading", "refused"}
  BY <1>1 DEF StartIngest
<1>3. IngestIsExact'
  BY <1>2 DEF IngestIsExact
<1>4. CASE pc' # "reading"
  BY <1>0, <1>3, <1>4 DEF EInv
<1>5. CASE pc' = "reading"
  <2>1. run' \in Runs
    BY <1>0, <1>5 DEF IInv, Current
  <2>2. workspace'[run'] = Nothing(request) /\ workspace'[run'].request = request
    BY <2>1, <1>0, <1>1 DEF IInv, TypeOK, Nothing
  <2>3. ReadSoFar(request)' = {}
    <3>1. ASSUME NEW p \in DocumentLines(request)
          PROVE  ~(p[1] < 1 \/ (p[1] = 1 /\ p[2] <= 0))
      <4>0. PICK i \in DOMAIN request.inputs :
              \E j \in DOMAIN corpus[request.inputs[i]].lines : p = <<i, j>>
        BY DocumentLinesAt
      <4>1. PICK j \in DOMAIN corpus[request.inputs[i]].lines : p = <<i, j>>
        BY <4>0
      <4>2. request.inputs \in Seq(Sources)
        BY RequestsAssumption DEF RequestSpecs
      <4>3. i \in Nat \ {0} /\ corpus[request.inputs[i]] \in Files
        BY <4>2, <1>0 DEF IInv, TypeOK
      <4>4. j \in Nat \ {0}
        <5>1. \E S : corpus[request.inputs[i]].lines \in Seq(S)
          BY <4>3 DEF Files
        <5> QED
          BY <5>1
      <4> QED
        BY <4>1, <4>3, <4>4
    <3>2. DocumentLines(request)' = DocumentLines(request)
      BY <1>2 DEF DocumentLines, TextAt
    <3> QED
      BY <3>1, <3>2, <1>2 DEF ReadSoFar
  <2>4. PICK v : v = Nothing(request)
    OBVIOUS
  <2>5. Kept(v, {})'
    <3>1. v.documents = << >> /\ v.duplicates = 0
      BY <2>4 DEF Nothing
    <3>2. ValuesOf(v.documents) = {} /\ TextsAt(v.request, {}) = {}
      BY <3>1 DEF ValuesOf, TextsAt
    <3>3. IsFiniteSet({}) /\ Cardinality({}) = 0
      BY FS_EmptySet
    <3>4. Len(v.documents) + v.duplicates = 0
      BY <3>1
    <3>5. Kept(v, {})
      BY <3>2, <3>3, <3>4 DEF Kept
    <3> QED
      BY <3>5, <1>2, KeptStays
  <2>6. Kept(workspace[run], ReadSoFar(workspace[run].request))'
    BY <2>2, <2>3, <2>4, <2>5
  <2>7. source' <= Len(workspace'[run'].request.inputs) => line' <= Len(Reading.lines)'
    <3>1. SUFFICES ASSUME source' <= Len(workspace'[run'].request.inputs)
                   PROVE  Len(Reading.lines)' \in Nat
      BY <1>2
    <3>2. workspace'[run'].request.inputs \in Seq(Sources)
      BY <2>1, <1>0 DEF IInv, TypeOK, Workspaces, RequestSpecs
    <3>3. Reading' \in Files
      BY <3>1, <3>2, <1>0, <1>2 DEF Reading, IInv, TypeOK
    <3>4. \E S : Reading'.lines \in Seq(S)
      BY <3>3 DEF Files
    <3> QED
      BY <3>4
  <2> QED
    BY <1>0, <1>3, <2>6, <2>7 DEF EInv
<1> QED
  BY <1>4, <1>5

\* At the end of a source all of it has been read, and nothing of the next one.
LEMMA NextSourceIsExact == EInv /\ NextSource => EInv'
<1> SUFFICES ASSUME EInv, NextSource PROVE EInv'
  OBVIOUS
<1>R. PICK R : R = workspace[run].request
  OBVIOUS
<1>0. IInv /\ IInv'
  BY NextSourceKeeps DEF EInv
<1>1. /\ pc = "reading" /\ source <= Len(R.inputs)
      /\ Reading.format = "columns" \/ line = Len(Reading.lines)
      /\ pc' = IF Reading.format = "columns" THEN "refused" ELSE "reading"
      /\ source' = source + 1 /\ line' = 0 /\ UNCHANGED <<corpus, run, workspace>>
  BY <1>R DEF NextSource
<1>2. IngestIsExact'
  BY <1>1 DEF IngestIsExact
<1>3. CASE Reading.format = "columns"
  BY <1>0, <1>1, <1>2, <1>3 DEF EInv
<1>4. CASE Reading.format # "columns"
  <2>1. /\ source \in Nat /\ source \in DOMAIN R.inputs /\ R \in RequestSpecs
        /\ Reading = corpus[R.inputs[source]]
        /\ DOMAIN Reading.lines = 1 .. line
    <3>1. /\ source \in DOMAIN R.inputs /\ workspace[run] \in Workspaces
          /\ Reading = corpus[R.inputs[source]]
          /\ DOMAIN Reading.lines = 1 .. Len(Reading.lines)
      BY <1>0, <1>1, <1>R, ReadingType
    <3> QED
      BY <3>1, <1>0, <1>1, <1>4, <1>R DEF IInv, TypeOK, Workspaces
  <2>2. ASSUME NEW p \in DocumentLines(R)
        PROVE  (p[1] < source + 1 \/ (p[1] = source + 1 /\ p[2] <= 0))
                 <=> (p[1] < source \/ (p[1] = source /\ p[2] <= line))
    <3>0. PICK i \in DOMAIN R.inputs :
            \E j \in DOMAIN corpus[R.inputs[i]].lines : p = <<i, j>>
      BY DocumentLinesAt
    <3>1. PICK j \in DOMAIN corpus[R.inputs[i]].lines : p = <<i, j>>
      BY <3>0
    <3>2. R.inputs \in Seq(Sources)
      BY <2>1 DEF RequestSpecs
    <3>3. i \in Nat \ {0} /\ corpus[R.inputs[i]] \in Files
      BY <3>2, <1>0 DEF IInv, TypeOK
    <3>4. j \in Nat \ {0}
      <4>1. \E S : corpus[R.inputs[i]].lines \in Seq(S)
        BY <3>3 DEF Files
      <4> QED
        BY <4>1
    <3>5. CASE i = source
      <4>1. j <= line
        BY <3>1, <3>5, <2>1
      <4> QED
        BY <3>1, <3>3, <3>4, <3>5, <4>1, <2>1
    <3>6. CASE i # source
      BY <3>1, <3>3, <3>4, <3>6, <2>1
    <3> QED
      BY <3>5, <3>6
  <2>3. DocumentLines(R)' = DocumentLines(R)
    BY <1>1 DEF DocumentLines, TextAt
  <2>4. ReadSoFar(R)' = ReadSoFar(R)
    BY <2>2, <2>3, <1>1 DEF ReadSoFar
  <2>5. PICK v : v = workspace[run]
    OBVIOUS
  <2>6. PICK D : D = ReadSoFar(R)
    OBVIOUS
  <2>7. Kept(v, D)'
    BY <2>5, <2>6, <1>1, <1>R, KeptStays DEF EInv
  <2>8. Kept(workspace[run], ReadSoFar(workspace[run].request))'
    BY <2>4, <2>5, <2>6, <2>7, <1>1, <1>R
  <2>9. source' <= Len(workspace'[run'].request.inputs) => line' <= Len(Reading.lines)'
    <3>1. SUFFICES ASSUME source' <= Len(workspace'[run'].request.inputs)
                   PROVE  Len(Reading.lines)' \in Nat
      BY <1>1
    <3>2. R.inputs \in Seq(Sources)
      BY <2>1 DEF RequestSpecs
    <3>3. Reading' \in Files
      BY <3>1, <3>2, <2>1, <1>0, <1>1, <1>R DEF Reading, IInv, TypeOK
    <3>4. \E S : Reading'.lines \in Seq(S)
      BY <3>3 DEF Files
    <3> QED
      BY <3>4
  <2> QED
    BY <1>0, <1>2, <2>8, <2>9 DEF EInv
<1> QED
  BY <1>3, <1>4

\* After the last source everything has been read, and the split parts what was kept.
LEMMA WriteSplitIsExact == EInv /\ WriteSplit => EInv'
<1> SUFFICES ASSUME EInv, WriteSplit PROVE EInv'
  OBVIOUS
<1>w. PICK w : w = workspace[run]
  OBVIOUS
<1>0. IInv /\ IInv'
  BY WriteSplitKeeps DEF EInv
<1>1. /\ pc = "reading" /\ source > Len(w.request.inputs) /\ pc' = "ingested"
      /\ UNCHANGED <<corpus, run, source, line>>
      /\ workspace' = [workspace EXCEPT ![run] =
              [w EXCEPT !.train = (DOMAIN w.documents) \ Split(w), !.val = Split(w),
                        !.roles = IF Split(w) # {} THEN <<"train", "val">> ELSE <<"all">>]]
  BY <1>w DEF WriteSplit
<1>2. /\ run \in Runs /\ workspace \in [Runs -> Workspaces] /\ w \in Workspaces
      /\ source \in Nat /\ w.request \in RequestSpecs /\ w.documents \in Seq(Documents)
  BY <1>0, <1>1, <1>w DEF IInv, TypeOK, Current, Workspaces
<1>v. PICK v : v = workspace'[run]
  OBVIOUS
<1>3. /\ v.documents = w.documents /\ v.duplicates = w.duplicates /\ v.request = w.request
      /\ v.train = (DOMAIN w.documents) \ Split(w) /\ v.val = Split(w)
  BY <1>1, <1>2, <1>v DEF Workspaces
<1>D. PICK D : D = DocumentLines(w.request)
  OBVIOUS
<1>4. ReadSoFar(w.request) = D
  <2>1. ASSUME NEW p \in DocumentLines(w.request)
        PROVE  p[1] < source
    <3>0. PICK i \in DOMAIN w.request.inputs :
            \E j \in DOMAIN corpus[w.request.inputs[i]].lines : p = <<i, j>>
      BY DocumentLinesAt
    <3>1. p[1] = i
      BY <3>0
    <3>2. i <= Len(w.request.inputs) /\ i \in Nat /\ Len(w.request.inputs) \in Nat
      BY <1>2 DEF RequestSpecs
    <3> QED
      BY <3>1, <3>2, <1>1, <1>2
  <2> QED
    BY <2>1, <1>D DEF ReadSoFar
<1>5. /\ Kept(w, D) /\ DocumentLines(v.request)' = D
  <2>1. Kept(w, D)
    BY <1>1, <1>4, <1>w DEF EInv
  <2>2. DocumentLines(v.request)' = DocumentLines(v.request)
    BY <1>1 DEF DocumentLines, TextAt
  <2> QED
    BY <2>1, <2>2, <1>3, <1>D
<1>6. ValuesOf(w.documents) \subseteq Documents
  BY <1>2 DEF ValuesOf
<1>7. {w.documents[n] : n \in Split(w)} =
        {t \in TextsAt(w.request, D) : Bucket[w.request.seed][t] < w.request.ratio}
  <2>1. TextsAt(w.request, D) = ValuesOf(w.documents)
    BY <1>5 DEF Kept
  <2>2. CASE w.request.ratio <= 0
    <3>1. ASSUME NEW t \in ValuesOf(w.documents)
          PROVE  ~(Bucket[w.request.seed][t] < w.request.ratio)
      <4>1. Bucket[w.request.seed][t] \in 0 .. Scale - 1 /\ w.request.ratio \in Int
        BY <1>2, <1>6, BucketAssumption DEF RequestSpecs
      <4> QED
        BY <4>1, <2>2, ScaleAssumption
    <3>2. Split(w) = {}
      BY <2>2 DEF Split
    <3> QED
      BY <3>1, <3>2, <2>1
  <2>3. CASE ~(w.request.ratio <= 0)
    <3>1. Split(w) = {n \in DOMAIN w.documents :
                        Bucket[w.request.seed][w.documents[n]] < w.request.ratio}
      BY <2>3 DEF Split
    <3> QED
      BY <3>1, <2>1 DEF ValuesOf
  <2> QED
    BY <2>2, <2>3
<1>8. /\ v.train \cup v.val = DOMAIN v.documents /\ v.train \cap v.val = {}
      /\ Len(v.documents) + v.duplicates = Cardinality(D)
      /\ \A t \in TextsAt(v.request, D) :
           Copies(v.documents, t) = IF v.request.dedup THEN 1 ELSE Places(v.request, D, t)
      /\ {v.documents[n] : n \in v.val} =
           {t \in TextsAt(v.request, D) : Bucket[v.request.seed][t] < v.request.ratio}
  <2>1. Split(w) \subseteq DOMAIN w.documents
    BY DEF Split
  <2> QED
    BY <2>1, <1>3, <1>5, <1>7 DEF Kept
<1>9. IngestIsExact'
  <2>1. /\ TextsAt(v.request, D)' = TextsAt(v.request, D)
        /\ \A t : Places(v.request, D, t)' = Places(v.request, D, t)
    BY <1>1 DEF TextsAt, Places, TextAt
  <2>2. workspace'[run'] = v /\ DocumentLines(v.request)' = D
    BY <1>1, <1>v, <1>5
  <2> QED
    BY <2>1, <2>2, <1>8 DEF IngestIsExact
<1> QED
  BY <1>0, <1>1, <1>9 DEF EInv

\* At the start no run has ingested anything.
LEMMA ExactAtFirst == Init => EInv
<1>1. Init => pc = "idle"
  BY DEF Init
<1> QED
  BY <1>1, InitHolds DEF EInv, IngestIsExact

\* Every step keeps the count.
LEMMA ExactStepHolds == EInv /\ [Next]_vars => EInv'
<1> SUFFICES ASSUME EInv, [Next]_vars PROVE EInv'
  OBVIOUS
<1>1. IInv'
  BY StepHolds DEF EInv
<1>2. CASE AppendLine \/ TrainTokenizer \/ PackTrain \/ PackVal
  <2>1. pc' \notin {"reading", "ingested"}
    BY <1>2 DEF AppendLine, TrainTokenizer, PackTrain, PackVal, Idle
  <2> QED
    BY <1>1, <2>1 DEF EInv, IngestIsExact
<1>3. CASE UNCHANGED vars
  <2>1. UNCHANGED <<corpus, run, pc, source, line, workspace>>
    BY <1>3 DEF vars
  <2>w. PICK w : w = workspace[run]
    OBVIOUS
  <2>D. PICK D : D = DocumentLines(w.request)
    OBVIOUS
  <2>S. PICK S : S = ReadSoFar(w.request)
    OBVIOUS
  <2>2. IngestIsExact'
    <3>1. /\ TextsAt(w.request, D)' = TextsAt(w.request, D) /\ DocumentLines(w.request)' = D
          /\ \A t : Places(w.request, D, t)' = Places(w.request, D, t)
      BY <2>1, <2>D DEF DocumentLines, TextsAt, Places, TextAt
    <3> QED
      BY <3>1, <2>1, <2>w, <2>D DEF EInv, IngestIsExact
  <2>3. pc' = "reading" =>
          /\ Kept(workspace[run], ReadSoFar(workspace[run].request))'
          /\ source' <= Len(workspace'[run'].request.inputs) => line' <= Len(Reading.lines)'
    <3>1. ReadSoFar(w.request)' = S /\ Reading' = Reading
      BY <2>1, <2>S DEF ReadSoFar, DocumentLines, TextAt, Reading
    <3>2. Kept(w, S) => Kept(w, S)'
      BY <2>1, KeptStays
    <3> QED
      BY <3>1, <3>2, <2>1, <2>w, <2>S DEF EInv
  <2> QED
    BY <1>1, <2>2, <2>3 DEF EInv
<1> QED
  BY <1>2, <1>3, StartIngestIsExact, ReadLineIsExact, NextSourceIsExact, WriteSplitIsExact
     DEF Next

\* For any sources, requests and runs: what ingest keeps is what the sources define, each
\* text in exactly one file, once with dedup and as often as it occurs without
\* (data_ingest.py).
THEOREM IngestKeepsEveryText == Spec => []IngestIsExact
<1>1. EInv => IngestIsExact
  BY DEF EInv
<1> QED
  BY <1>1, ExactAtFirst, ExactStepHolds, PTL DEF Spec

-----------------------------------------------------------------------------
(***************************************************************************)
(* The number of tokens of a file: Length sums over a set, by recursion    *)
(* along its subsets.                                                      *)
(***************************************************************************)
\* The element that the sum takes first, and what g then says of a set of documents.
Picked(S) == CHOOSE n \in S : TRUE

SumAfter(w, g, S) ==
    IF S = {} THEN 0 ELSE (Tokens[w.documents[Picked(S)]] + 1) + g[S \ {Picked(S)}]

\* g sums the tokens of every subset of some documents.
Sums(w, g, S) == g = [T \in SUBSET S |-> SumAfter(w, g, T)]

\* The documents of a file that are not empty.
Told(w, numbers) == {n \in numbers : w.documents[n] # EmptyText}

\* The number of tokens is what such a g says of all of them.
LEMMA LengthDef ==
    ASSUME NEW w, NEW numbers
    PROVE  Length(w, numbers) =
             (CHOOSE g : Sums(w, g, Told(w, numbers)))[Told(w, numbers)]
BY DEF Length, MapThenSumSet, MapThenFoldSet, Sums, SumAfter, Picked, Told

\* There is a g for any finite set of documents.
LEMMA SomeSums ==
    ASSUME NEW w, NEW S, IsFiniteSet(S)
    PROVE  \E g : Sums(w, g, S)
<1> DEFINE Small(n)  == {T \in SUBSET S : Cardinality(T) <= n}
           Good(g, n) == g = [T \in Small(n) |-> SumAfter(w, g, T)]
           P == {n \in Nat : \E g : Good(g, n)}
<1>1. \A T \in SUBSET S : IsFiniteSet(T) /\ Cardinality(T) \in Nat
  BY FS_Subset, FS_CardinalityType
<1>2. \A T \in SUBSET S : T # {} =>
        T \ {Picked(T)} \in SUBSET S /\ Cardinality(T \ {Picked(T)}) = Cardinality(T) - 1
  <2> SUFFICES ASSUME NEW T \in SUBSET S, T # {}
               PROVE  Cardinality(T \ {Picked(T)}) = Cardinality(T) - 1
    OBVIOUS
  <2>1. Picked(T) \in T
    BY DEF Picked
  <2> QED
    BY <2>1, <1>1, FS_RemoveElement
<1>3. 0 \in P
  <2> DEFINE g == [T \in Small(0) |-> 0]
  <2>1. \A T \in Small(0) : T = {}
    BY <1>1, FS_EmptySet
  <2>2. g = [T \in Small(0) |-> SumAfter(w, g, T)]
    BY <2>1 DEF SumAfter
  <2> HIDE DEF g
  <2> QED
    BY <2>2
<1>4. ASSUME NEW n \in Nat, n \in P
      PROVE  n + 1 \in P
  <2>1. PICK g : Good(g, n)
    BY <1>4
  <2>2. \A T \in Small(n) : g[T] = SumAfter(w, g, T)
    BY <2>1
  <2> DEFINE h == [T \in Small(n + 1) |-> SumAfter(w, g, T)]
  <2>3. ASSUME NEW T \in Small(n + 1)
        PROVE  SumAfter(w, g, T) = SumAfter(w, h, T)
    <3>1. CASE T = {}
      BY <3>1 DEF SumAfter
    <3>2. CASE T # {}
      <4> DEFINE R == T \ {Picked(T)}
      <4>1. R \in SUBSET S /\ Cardinality(R) \in Nat /\ Cardinality(R) <= n
        BY <3>2, <1>1, <1>2
      <4>2. R \in Small(n) /\ R \in Small(n + 1)
        BY <4>1
      <4>3. h[R] = SumAfter(w, g, R) /\ g[R] = SumAfter(w, g, R)
        BY <4>2, <2>2
      <4> HIDE DEF h
      <4> QED
        BY <3>2, <4>3 DEF SumAfter
    <3> QED
      BY <3>1, <3>2
  <2>4. h = [T \in Small(n + 1) |-> SumAfter(w, h, T)]
    <3>1. \A T \in Small(n + 1) : h[T] = SumAfter(w, h, T)
      BY <2>3
    <3>2. h = [T \in Small(n + 1) |-> h[T]]
      OBVIOUS
    <3> HIDE DEF h
    <3> QED
      BY <3>1, <3>2
  <2> HIDE DEF h
  <2> QED
    BY <2>4
<1>5. Nat \subseteq P
  <2> HIDE DEF P
  <2> QED
    BY <1>3, <1>4, NaturalInduction
<1>6. PICK g : Good(g, Cardinality(S))
  BY <1>1, <1>5
<1>7. Small(Cardinality(S)) = SUBSET S
  BY <1>1, FS_Subset
<1> QED
  BY <1>6, <1>7 DEF Sums

\* A file of texts has a number of tokens.
LEMMA LengthType ==
    ASSUME NEW w \in Workspaces, NEW numbers, numbers \subseteq DOMAIN w.documents
    PROVE  Length(w, numbers) \in Nat
<1> DEFINE S == Told(w, numbers)
<1>1. IsFiniteSet(S)
  <2>1. DOMAIN w.documents = 1 .. Len(w.documents) /\ Len(w.documents) \in Nat
    BY DEF Workspaces
  <2>2. IsFiniteSet(DOMAIN w.documents)
    BY <2>1, FS_Interval
  <2>3. S \in SUBSET DOMAIN w.documents
    BY DEF Told
  <2> HIDE DEF S
  <2> QED
    BY <2>2, <2>3, FS_Subset
<1>2. \A n \in S : Tokens[w.documents[n]] + 1 \in Nat
  BY TokensAssumption DEF Told, Workspaces, Documents
<1>3. PICK g : g = (CHOOSE h : Sums(w, h, S)) /\ Sums(w, g, S)
  <2>1. \E h : Sums(w, h, S)
    BY <1>1, SomeSums
  <2> HIDE DEF S
  <2> QED
    BY <2>1
<1>4. \A T \in SUBSET S : g[T] = SumAfter(w, g, T)
  BY <1>3 DEF Sums
<1> DEFINE P == {n \in Nat : \A T \in SUBSET S : Cardinality(T) = n => g[T] \in Nat}
<1>5. \A T \in SUBSET S : IsFiniteSet(T) /\ Cardinality(T) \in Nat
  BY <1>1, FS_Subset, FS_CardinalityType
<1>6. 0 \in P
  <2>1. ASSUME NEW T \in SUBSET S, Cardinality(T) = 0
        PROVE  g[T] \in Nat
    <3>1. T = {}
      BY <2>1, <1>5, FS_EmptySet
    <3>2. g[{}] = SumAfter(w, g, {})
      BY <1>4
    <3> QED
      BY <3>1, <3>2 DEF SumAfter
  <2> QED
    BY <2>1
<1>7. ASSUME NEW n \in Nat, n \in P
      PROVE  n + 1 \in P
  <2>1. ASSUME NEW T \in SUBSET S, Cardinality(T) = n + 1
        PROVE  g[T] \in Nat
    <3>1. T # {}
      BY <2>1, FS_EmptySet
    <3>2. Picked(T) \in T
      BY <3>1 DEF Picked
    <3>3. Cardinality(T \ {Picked(T)}) = n
      BY <3>2, <2>1, <1>5, FS_RemoveElement
    <3>4. T \ {Picked(T)} \in SUBSET S
      OBVIOUS
    <3>5. g[T \ {Picked(T)}] \in Nat
      BY <3>3, <3>4, <1>7
    <3>6. Tokens[w.documents[Picked(T)]] + 1 \in Nat
      BY <3>2, <1>2
    <3>7. g[T] = (Tokens[w.documents[Picked(T)]] + 1) + g[T \ {Picked(T)}]
      BY <3>1, <1>4 DEF SumAfter
    <3> QED
      BY <3>5, <3>6, <3>7
  <2> QED
    BY <2>1
<1>8. Nat \subseteq P
  <2> HIDE DEF P
  <2> QED
    BY <1>6, <1>7, NaturalInduction
<1>9. g[S] \in Nat
  <2>1. S \in SUBSET S /\ Cardinality(S) \in Nat
    BY <1>5
  <2> QED
    BY <2>1, <1>8
<1> QED
  BY <1>3, <1>9, LengthDef

\* The number of tokens depends on the documents alone.
LEMMA LengthOfSame ==
    ASSUME NEW w, NEW v, v.documents = w.documents, NEW numbers
    PROVE  Length(v, numbers) = Length(w, numbers)
<1>1. Told(v, numbers) = Told(w, numbers)
  BY DEF Told
<1>2. \A g : Sums(v, g, Told(w, numbers)) <=> Sums(w, g, Told(w, numbers))
  BY DEF Sums, SumAfter
<1>3. (CHOOSE g : Sums(v, g, Told(w, numbers))) = (CHOOSE g : Sums(w, g, Told(w, numbers)))
  BY <1>2
<1> QED
  BY <1>1, <1>3, LengthDef

\* Blocks do not overlap, and what they leave out is shorter than one.
LEMMA BlocksKeepTokens ==
    ASSUME NEW length \in Nat
    PROVE  /\ \A i, j \in Blocks(length) : i < j => i + BlockSize + 1 <= j
           /\ length - Cardinality(Blocks(length)) * (BlockSize + 1) \in 0 .. BlockSize
<1>1. PICK b \in Nat \ {0} : b = BlockSize + 1
  BY ScaleAssumption
<1>2. ASSUME NEW i \in Blocks(length), NEW j \in Blocks(length), i < j
      PROVE  i + BlockSize + 1 <= j
  <2>1. i \in Nat /\ j \in Nat /\ i % b = 0 /\ j % b = 0
    BY <1>1 DEF Blocks
  <2>2. PICK p \in Int : p = i \div b
    BY <2>1, DivMod
  <2>3. PICK q \in Int : q = j \div b
    BY <2>1, DivMod
  <2>0. i = b * p + (i % b) /\ j = b * q + (j % b)
    BY <2>1, <2>2, <2>3, DivMod
  <2>4. b * (q - p) = j - i /\ j - i > 0 /\ q - p \in Int
    BY <2>0, <2>1, <1>2
  <2>5. q - p > 0
    BY <2>4, MultipleIsFar
  <2>6. b * (q - p) >= b
    BY <2>4, <2>5, MultipleIsFar
  <2> QED
    BY <1>1, <2>1, <2>4, <2>6, ScaleAssumption
<1>3. Cardinality(Blocks(length)) = length \div b
  <2>1. Blocks(length) = {i \in 0 .. length : i % b = 0 /\ i + b <= length}
    BY <1>1, ScaleAssumption DEF Blocks
  <2> QED
    BY <2>1, MultiplesWithRoom
<1>4. length - (length \div b) * b \in 0 .. b - 1
  <2>1. PICK q \in Int : q = length \div b
    BY DivMod
  <2>2. length = b * q + (length % b) /\ length % b \in 0 .. b - 1
    BY <2>1, DivMod
  <2>3. b * q = q * b
    BY <2>1
  <2> QED
    BY <2>1, <2>2, <2>3
<1> QED
  BY <1>1, <1>2, <1>3, <1>4, ScaleAssumption

\* The dataset artifact of the val side is the val side, which is empty when there is none.
LEMMA ValIsSelected ==
    ASSUME NEW w, w.roles = IF w.val # {} THEN <<"train", "val">> ELSE <<"all">>
    PROVE  SelectDataset(w, "val") = w.val
<1> DEFINE fits == {n \in DOMAIN w.roles :
                      w.roles[n] = "val" \/ ("val" = "train" /\ w.roles[n] = "all")}
<1>1. CASE w.val = {}
  <2>1. fits = {}
    BY <1>1
  <2> QED
    BY <1>1, <2>1 DEF SelectDataset
<1>2. CASE w.val # {}
  <2>1. fits = {2} /\ w.roles[2] = "val"
    BY <1>2
  <2>2. Max(fits) = 2
    BY <2>1 DEF Max
  <2> HIDE DEF fits
  <2>3. SelectDataset(w, "val") = IF fits = {} THEN {} ELSE FileOf(w, w.roles[Max(fits)])
    BY DEF SelectDataset, fits
  <2> QED
    BY <2>1, <2>2, <2>3 DEF FileOf
<1> QED
  BY <1>1, <1>2

\* What is held out shares no text with what the tokenizer has learned.
LEMMA ValIsNotLearned ==
    ASSUME NEW w \in Workspaces, Sound(w), w.learned = TextsOf(w, w.train)
    PROVE  TextsOf(w, w.val) \cap w.learned = {}
<1> SUFFICES ASSUME NEW m \in w.val, NEW n \in w.train, w.documents[m] = w.documents[n]
             PROVE  FALSE
  BY DEF TextsOf
<1>1. m \in Split(w) /\ n \notin Split(w) /\ n \in DOMAIN w.documents
  BY DEF Sound
<1>2. w.request.ratio > 0 /\ Bucket[w.request.seed][w.documents[m]] < w.request.ratio
  BY <1>1 DEF Split, Workspaces, RequestSpecs
<1> QED
  BY <1>1, <1>2 DEF Split

-----------------------------------------------------------------------------
(***************************************************************************)
(* Packing.                                                                *)
(***************************************************************************)
\* What the current run has packed, of the sides that its split has made.
Ready == {"ingested", "tokenized", "trained", "evaluated"}

PackedSoFar ==
    LET w == workspace[run] IN
    /\ pc \in Ready => w.roles = IF w.val # {} THEN <<"train", "val">> ELSE <<"all">>
    /\ pc \in {"trained", "evaluated"} => w.blocks.train = Blocks(Length(w, w.train))
    /\ pc = "evaluated" => w.blocks.val = Blocks(Length(w, w.val))

PInv == IInv /\ PackedSoFar

\* A run whose artifacts are complete keeps its sides, and the roles say which there are.
LEMMA WriteSplitPacks == PInv /\ WriteSplit => PackedSoFar'
<1> SUFFICES ASSUME PInv, WriteSplit PROVE PackedSoFar'
  OBVIOUS
<1>1. PICK w : w = workspace[run]
  OBVIOUS
<1>2. /\ run \in Runs /\ w \in Workspaces /\ workspace \in [Runs -> Workspaces]
      /\ run' = run /\ pc' = "ingested"
  BY <1>1 DEF PInv, IInv, TypeOK, Current, WriteSplit
<1>3. PICK v : v = [w EXCEPT !.train = (DOMAIN w.documents) \ Split(w), !.val = Split(w),
                       !.roles = IF Split(w) # {} THEN <<"train", "val">> ELSE <<"all">>]
  OBVIOUS
<1>4. workspace'[run'] = v
  BY <1>1, <1>2, <1>3 DEF WriteSplit
<1>5. v.roles = IF v.val # {} THEN <<"train", "val">> ELSE <<"all">>
  BY <1>2, <1>3 DEF Workspaces
<1> QED
  BY <1>2, <1>4, <1>5 DEF PackedSoFar

\* The tokenizer changes neither the sides nor their artifacts.
LEMMA TrainTokenizerPacks == PInv /\ TrainTokenizer => PackedSoFar'
<1> SUFFICES ASSUME PInv, TrainTokenizer PROVE PackedSoFar'
  OBVIOUS
<1>1. PICK w : w = workspace[run]
  OBVIOUS
<1>2. /\ run \in Runs /\ w \in Workspaces /\ workspace \in [Runs -> Workspaces]
      /\ run' = run /\ pc' \in {"refused", "tokenized"} /\ pc = "ingested"
      /\ w.roles = IF w.val # {} THEN <<"train", "val">> ELSE <<"all">>
  BY <1>1 DEF PInv, IInv, TypeOK, Current, TrainTokenizer, PackedSoFar, Ready
<1>3. workspace'[run'].roles = w.roles /\ workspace'[run'].val = w.val
  <2>1. CASE UNCHANGED workspace
    BY <1>1, <1>2, <2>1
  <2>2. CASE workspace' = [workspace EXCEPT ![run].learned =
                              TextsOf(w, SelectDataset(w, "train"))]
    BY <1>1, <1>2, <2>2 DEF Workspaces
  <2> QED
    BY <1>1, <2>1, <2>2 DEF TrainTokenizer
<1> QED
  BY <1>2, <1>3 DEF PackedSoFar

\* The train side is packed as it is.
LEMMA PackTrainPacks == PInv /\ PackTrain => PackedSoFar'
<1> SUFFICES ASSUME PInv, PackTrain PROVE PackedSoFar'
  OBVIOUS
<1>1. PICK w : w = workspace[run]
  OBVIOUS
<1>2. /\ run \in Runs /\ w \in Workspaces /\ workspace \in [Runs -> Workspaces]
      /\ run' = run /\ pc' \in {"refused", "trained"} /\ pc = "tokenized"
      /\ w.roles = IF w.val # {} THEN <<"train", "val">> ELSE <<"all">>
  BY <1>1 DEF PInv, IInv, TypeOK, Current, PackTrain, PackedSoFar, Ready
<1>3. SelectDataset(w, "train") = w.train
  BY <1>2, TrainIsSelected
<1>4. PICK starts : starts = Blocks(Length(w, w.train))
  OBVIOUS
<1>5. PICK v : v = [w EXCEPT !.blocks.train = starts]
  OBVIOUS
<1>6. workspace'[run'] = v
  BY <1>1, <1>2, <1>3, <1>4, <1>5 DEF PackTrain
<1>7. /\ v.roles = w.roles /\ v.val = w.val /\ v.train = w.train
      /\ v.documents = w.documents /\ v.blocks.train = starts
  BY <1>2, <1>5 DEF Workspaces
<1>8. v.blocks.train = Blocks(Length(v, v.train))
  BY <1>4, <1>7, LengthOfSame
<1> QED
  BY <1>2, <1>6, <1>7, <1>8 DEF PackedSoFar

\* So is the val side, and the blocks of the train side stay.
LEMMA PackValPacks == PInv /\ PackVal => PackedSoFar'
<1> SUFFICES ASSUME PInv, PackVal PROVE PackedSoFar'
  OBVIOUS
<1>1. PICK w : w = workspace[run]
  OBVIOUS
<1>2. /\ run \in Runs /\ w \in Workspaces /\ workspace \in [Runs -> Workspaces]
      /\ run' = run /\ pc' \in {"refused", "evaluated"} /\ pc = "trained"
      /\ w.roles = IF w.val # {} THEN <<"train", "val">> ELSE <<"all">>
      /\ w.blocks.train = Blocks(Length(w, w.train))
  BY <1>1 DEF PInv, IInv, TypeOK, Current, PackVal, PackedSoFar, Ready
<1>3. SelectDataset(w, "val") = w.val
  BY <1>2, ValIsSelected
<1>4. PICK starts : starts = Blocks(Length(w, w.val))
  OBVIOUS
<1>5. PICK v : v = [w EXCEPT !.blocks.val = starts]
  OBVIOUS
<1>6. workspace'[run'] = v
  BY <1>1, <1>2, <1>3, <1>4, <1>5 DEF PackVal
<1>7. /\ v.roles = w.roles /\ v.val = w.val /\ v.train = w.train
      /\ v.documents = w.documents /\ v.blocks.val = starts /\ v.blocks.train = w.blocks.train
  BY <1>2, <1>5 DEF Workspaces
<1>8. /\ v.blocks.val = Blocks(Length(v, v.val))
      /\ v.blocks.train = Blocks(Length(v, v.train))
  BY <1>2, <1>4, <1>7, LengthOfSame
<1> QED
  BY <1>2, <1>6, <1>7, <1>8 DEF PackedSoFar

\* Nothing is packed at first.
LEMMA PackedAtFirst == Init => PInv
BY InitHolds DEF Init, PInv, PackedSoFar, Ready

\* Every step, and every step of something else.
LEMMA PackedStepHolds == PInv /\ [Next]_vars => PInv'
<1> SUFFICES ASSUME PInv, [Next]_vars PROVE PInv'
  OBVIOUS
<1>1. IInv'
  BY StepHolds DEF PInv
<1>2. CASE StartIngest \/ ReadLine \/ NextSource
  <2>1. pc' \notin Ready
    BY <1>2 DEF StartIngest, ReadLine, NextSource, Ready
  <2> QED
    BY <1>1, <2>1 DEF PInv, PackedSoFar, Ready
<1>3. CASE AppendLine \/ UNCHANGED vars
  <2>1. UNCHANGED <<run, pc, workspace>>
    BY <1>3 DEF AppendLine, vars
  <2>2. PackedSoFar'
    BY <2>1 DEF PInv, PackedSoFar
  <2> QED
    BY <1>1, <2>2 DEF PInv
<1> QED
  BY <1>1, <1>2, <1>3, WriteSplitPacks, TrainTokenizerPacks, PackTrainPacks, PackValPacks
     DEF Next, PInv

\* It gives the property.
LEMMA PackedIsEnough == PInv => PackingKeepsTokens
<1> SUFFICES ASSUME PInv, pc \in {"trained", "evaluated"} PROVE PackingKeepsTokens
  BY DEF PackingKeepsTokens
<1>1. PICK w : w = workspace[run]
  OBVIOUS
<1>2. /\ w \in Workspaces /\ Sound(w) /\ w.learned = TextsOf(w, w.train)
      /\ w.train \cup w.val \subseteq DOMAIN w.documents
  BY <1>1 DEF PInv, IInv, TypeOK, Current
<1>3. Length(w, w.train) \in Nat /\ Length(w, w.val) \in Nat
  BY <1>2, LengthType
<1>4. PICK m \in Nat : m = Length(w, w.train)
  BY <1>3
<1>5. PICK n \in Nat : n = Length(w, w.val)
  BY <1>3
<1>6. w.blocks.train = Blocks(m) /\ (pc = "evaluated" => w.blocks.val = Blocks(n))
  BY <1>1, <1>4, <1>5 DEF PInv, PackedSoFar
<1>7. TextsOf(w, w.val) \cap w.learned = {}
  BY <1>2, ValIsNotLearned
<1> QED
  BY <1>1, <1>4, <1>5, <1>6, <1>7, BlocksKeepTokens DEF PackingKeepsTokens

\* For any hash, tokens and block size: packing loses no token of either side but a tail
\* that is shorter than a block, no two blocks share one, and nothing of what is evaluated
\* has been trained on (core/training/data.py, select_dataset_artifact).
THEOREM PackingLosesOnlyATail == Spec => []PackingKeepsTokens
BY PackedIsEnough, PackedAtFirst, PackedStepHolds, PTL DEF Spec

=============================================================================
