------------------------------ MODULE DataIngest ------------------------------
(***************************************************************************)
(* The text of a build: data-ingest reads the source files of a run into   *)
(* documents, drops duplicates and splits them by a hash of their text     *)
(* (core/pipeline/stages/data_ingest.py), tokenizer-train learns from the  *)
(* train side (tokenizer_train.py), and both sides are packed into blocks  *)
(* (core/training/data.py).  Runs follow each other over a corpus that     *)
(* grows.                                                                  *)
(***************************************************************************)
EXTENDS Integers, Sequences, FiniteSets, FiniteSetsExt

CONSTANTS
    Sources,     \* paths that may be given as --input
    Texts,       \* texts that are not empty
    EmptyText,   \* the text of the JSON string ""
    Blank,       \* a line of white space
    BadJson,     \* a line that is not JSON
    NoText,      \* JSON that has no text: a number, an object without the field
    TooLong,     \* a line over _MAX_LINE_BYTES
    Corpora,     \* contents of the sources before the first run
    Additions,   \* lines that a user may append to a source
    Requests,    \* parameters of a run: see RequestSpecs
    Scale,       \* a hash is a fraction with this denominator, and so is a ratio
    Seeds,       \* values of split_seed
    Bucket,      \* the hash of a text, per seed
    Tokens,      \* number of tokens of a text
    BlockSize,   \* block_size
    MaxRuns,     \* bound: runs one after the other
    MaxLines     \* bound: lines of a source that grows

Documents == Texts \cup {EmptyText}
Lines     == Documents \cup {Blank, BadJson, NoText, TooLong}

\* "none" is a path that is no file, "other" a suffix that is not supported, and
\* "columns" a Parquet file without a text column.
Formats   == {"text", "jsonl", "parquet", "none", "other", "columns"}

\* A text file has no empty texts, and any line of it that is not blank is a text.
LinesOf(format) ==
    CASE format = "text"    -> Texts \cup {Blank, TooLong}
      [] format = "parquet" -> Documents \cup {Blank, NoText}
      [] OTHER              -> Lines

Files == [format : {"text"}, lines : Seq(LinesOf("text"))]
         \cup [format : {"parquet"}, lines : Seq(LinesOf("parquet"))]
         \cup [format : Formats \ {"text", "parquet"}, lines : Seq(Lines)]

\* A ratio that is not a number is 0 in the code.
RequestSpecs == [inputs : Seq(Sources), dedup : BOOLEAN, ratio : Int, seed : Seeds]

ASSUME ScaleAssumption    == Scale \in Nat \ {0} /\ BlockSize \in Nat \ {0}
ASSUME BoundsAssumption   == MaxRuns \in Nat /\ MaxLines \in Nat
ASSUME SeedsAssumption    == Seeds # {}
ASSUME BucketAssumption   == Bucket \in [Seeds -> [Documents -> 0 .. Scale - 1]]
ASSUME TokensAssumption   == Tokens \in [Texts -> Nat]
ASSUME CorporaAssumption  == Corpora \subseteq [Sources -> Files] /\ Additions \subseteq Lines
ASSUME RequestsAssumption == Requests \subseteq RequestSpecs
ASSUME LinesAssumption    ==
    {EmptyText, Blank, BadJson, NoText, TooLong} \cap Texts = {}

Runs == 1 .. MaxRuns

\* What one run leaves in its workspace and its record.  The documents are numbered in
\* the order they are kept in; a file of the split is a set of these numbers.  learned is
\* what the tokenizer has been trained on, blocks where the blocks of each side start.
Workspaces ==
    [request : RequestSpecs, documents : Seq(Documents), duplicates : Nat,
     train : SUBSET Nat, val : SUBSET Nat, roles : Seq({"train", "all", "val"}),
     learned : SUBSET Texts, blocks : [train : SUBSET Nat, val : SUBSET Nat]]

VARIABLES
    corpus,     \* contents of the sources
    run,        \* the number of the last run that has started
    pc,         \* where it is
    source,     \* position of the source it reads, in its inputs
    line,       \* lines of that source already read
    workspace   \* what each run has left

vars == <<corpus, run, pc, source, line, workspace>>

Idle == {"idle", "refused", "evaluated"}

TypeOK ==
    /\ corpus \in [Sources -> Files]
    /\ run \in 0 .. MaxRuns
    /\ pc \in Idle \cup {"reading", "ingested", "tokenized", "trained"}
    /\ source \in Nat \ {0}
    /\ line \in Nat
    /\ workspace \in [Runs -> Workspaces]
    /\ \A r \in Runs :
         workspace[r].train \cup workspace[r].val \subseteq DOMAIN workspace[r].documents

Nothing(request) ==
    [request |-> request, documents |-> << >>, duplicates |-> 0, train |-> {}, val |-> {},
     roles |-> << >>, learned |-> {}, blocks |-> [train |-> {}, val |-> {}]]

NoRequest == [inputs |-> << >>, dedup |-> TRUE, ratio |-> 0, seed |-> CHOOSE s \in Seeds : TRUE]

Init ==
    /\ corpus \in Corpora
    /\ run = 0
    /\ pc = "idle"
    /\ source = 1
    /\ line = 0
    /\ workspace = [r \in Runs |-> Nothing(NoRequest)]

-----------------------------------------------------------------------------
(***************************************************************************)
(* data-ingest.                                                            *)
(***************************************************************************)
\* A user adds a line to a source between two runs.
AppendLine ==
    /\ pc \in Idle
    /\ run < MaxRuns
    /\ \E s \in Sources : \E l \in Additions \cap LinesOf(corpus[s].format) :
         /\ corpus[s].format \in {"text", "jsonl"}
         /\ Len(corpus[s].lines) < MaxLines
         /\ corpus' = [corpus EXCEPT ![s].lines = Append(@, l)]
    /\ UNCHANGED <<run, pc, source, line, workspace>>

\* _requested_sources and the checks at the head of run.
Accepted(request) ==
    /\ request.inputs # << >>
    /\ \A i \in DOMAIN request.inputs :
         corpus[request.inputs[i]].format \notin {"none", "other"}
    /\ 0 <= request.ratio /\ request.ratio < Scale

\* The stage of the next run starts, or raises.
StartIngest ==
    /\ pc \in Idle
    /\ run < MaxRuns
    /\ run' = run + 1
    /\ \E request \in Requests :
         /\ workspace' = [workspace EXCEPT ![run'] = Nothing(request)]
         /\ pc' = IF Accepted(request) THEN "reading" ELSE "refused"
    /\ source' = 1
    /\ line' = 0
    /\ UNCHANGED corpus

\* The file of the source that is being read.
Reading == corpus[workspace[run].request.inputs[source]]

\* Which lines are no documents, and which ones raise (_normalize_line, _ingest_parquet,
\* _ingest_text_or_jsonl).
Skipped(format, l) ==
    l = Blank \/ (format = "parquet" /\ l \in {EmptyText, NoText})

Refused(format, l) ==
    \/ format \in {"text", "jsonl"} /\ l = TooLong
    \/ format = "jsonl" /\ l \in {BadJson, NoText}

\* Variant: only the last document of the list is compared.
SeenLast(w, l) ==
    w.documents # << >> /\ w.documents[Len(w.documents)] = l

\* The text has been seen, in this source or in an earlier one.
Seen(w, l) == \E n \in DOMAIN w.documents : w.documents[n] = l

\* One line of a source: parsed, compared and kept.
ReadLine ==
    /\ pc = "reading"
    /\ source <= Len(workspace[run].request.inputs)
    /\ Reading.format # "columns"
    /\ line < Len(Reading.lines)
    /\ LET l == Reading.lines[line + 1]
           w == workspace[run]
       IN  /\ pc' = IF Refused(Reading.format, l) THEN "refused" ELSE "reading"
           /\ workspace' =
                CASE Skipped(Reading.format, l) \/ Refused(Reading.format, l) -> workspace
                  [] OTHER ->
                       IF w.request.dedup /\ Seen(w, l)
                       THEN [workspace EXCEPT ![run].duplicates = @ + 1]
                       ELSE [workspace EXCEPT ![run].documents = Append(@, l)]
    /\ line' = line + 1
    /\ UNCHANGED <<corpus, run, source>>

\* The end of a source, or a Parquet file that cannot be read at all.
NextSource ==
    /\ pc = "reading"
    /\ source <= Len(workspace[run].request.inputs)
    /\ Reading.format = "columns" \/ line = Len(Reading.lines)
    /\ pc' = IF Reading.format = "columns" THEN "refused" ELSE "reading"
    /\ source' = source + 1
    /\ line' = 0
    /\ UNCHANGED <<corpus, run, workspace>>

\* Variant: the split is by position, the first documents go to val.
SplitByPosition(w) ==
    {n \in DOMAIN w.documents : n * Scale <= w.request.ratio * Len(w.documents)}

\* Variant: documents are numbered from 0.
SplitZeroBased(w) ==
    IF w.request.ratio <= 0 THEN {}
    ELSE {n - 1 : n \in {m \in DOMAIN w.documents :
                            Bucket[w.request.seed][w.documents[m]] < w.request.ratio}}

\* _split: the numbers of the documents that go to val.
Split(w) ==
    IF w.request.ratio <= 0 THEN {}
    ELSE {n \in DOMAIN w.documents : Bucket[w.request.seed][w.documents[n]] < w.request.ratio}

\* Both files of the split and their artifacts; there is no val file without documents.
WriteSplit ==
    /\ pc = "reading"
    /\ source > Len(workspace[run].request.inputs)
    /\ LET w   == workspace[run]
           val == Split(w)
       IN  workspace' = [workspace EXCEPT ![run] =
                [w EXCEPT !.train = (DOMAIN w.documents) \ val, !.val = val,
                          !.roles = IF val # {} THEN <<"train", "val">> ELSE <<"all">>]]
    /\ pc' = "ingested"
    /\ UNCHANGED <<corpus, run, source, line>>

-----------------------------------------------------------------------------
(***************************************************************************)
(* tokenizer-train, pretrain and evaluate, as far as they read the text.   *)
(***************************************************************************)
FileOf(w, role) == IF role = "val" THEN w.val ELSE w.train

\* iter_texts and _iter_documents: lines of empty text are passed over.
TextsOf(w, numbers) == {w.documents[n] : n \in numbers} \cap Texts

\* Variant: the artifact recorded last, whatever its role.
LastDataset(w, role) == FileOf(w, w.roles[Len(w.roles)])

\* select_dataset_artifact: the most recent one of the role; "all" serves as train.
SelectDataset(w, role) ==
    LET fits == {n \in DOMAIN w.roles :
                    w.roles[n] = role \/ (role = "train" /\ w.roles[n] = "all")}
    IN  IF fits = {} THEN {} ELSE FileOf(w, w.roles[Max(fits)])

\* _count_documents counts lines, also those of empty text.
TrainTokenizer ==
    /\ pc = "ingested"
    /\ LET w    == workspace[run]
           file == SelectDataset(w, "train")
       IN  IF file = {}
           THEN pc' = "refused" /\ UNCHANGED workspace
           ELSE /\ pc' = "tokenized"
                /\ workspace' = [workspace EXCEPT ![run].learned = TextsOf(w, file)]
    /\ UNCHANGED <<corpus, run, source, line>>

\* tokenize_to_blocks: the tokens of the file, with an <eos> after every text ...
Length(w, numbers) ==
    MapThenSumSet(LAMBDA n : Tokens[w.documents[n]] + 1,
                  {n \in numbers : w.documents[n] # EmptyText})

\* Variant: range(0, len(ids) - stride, stride).
ShortRange(length) ==
    {i \in 0 .. length : i % (BlockSize + 1) = 0 /\ i + BlockSize + 1 < length}

\* ... and where the blocks of block_size + 1 tokens start in them.
Blocks(length) ==
    {i \in 0 .. length : i % (BlockSize + 1) = 0 /\ i + BlockSize + 1 <= length}

\* The train worker packs the train side and raises when there is no block.
PackTrain ==
    /\ pc = "tokenized"
    /\ LET w == workspace[run]
           starts == Blocks(Length(w, SelectDataset(w, "train")))
       IN  /\ pc' = IF starts = {} THEN "refused" ELSE "trained"
           /\ workspace' = [workspace EXCEPT ![run].blocks.train = starts]
    /\ UNCHANGED <<corpus, run, source, line>>

\* evaluate asks for the val side, and for a block of it.
PackVal ==
    /\ pc = "trained"
    /\ LET w == workspace[run]
           starts == Blocks(Length(w, SelectDataset(w, "val")))
       IN  /\ pc' = IF starts = {} THEN "refused" ELSE "evaluated"
           /\ workspace' = [workspace EXCEPT ![run].blocks.val = starts]
    /\ UNCHANGED <<corpus, run, source, line>>

-----------------------------------------------------------------------------
Next ==
    \/ AppendLine \/ StartIngest \/ ReadLine \/ NextSource \/ WriteSplit
    \/ TrainTokenizer \/ PackTrain \/ PackVal

Spec == Init /\ [][Next]_vars

-----------------------------------------------------------------------------
(***************************************************************************)
(* Properties.                                                             *)
(***************************************************************************)
TextAt(request, p) == corpus[request.inputs[p[1]]].lines[p[2]]

\* Every position of a document in the inputs of a request.
DocumentLines(request) ==
    {p \in UNION {{i} \X DOMAIN corpus[request.inputs[i]].lines : i \in DOMAIN request.inputs} :
        ~Skipped(corpus[request.inputs[p[1]]].format, TextAt(request, p))}

\* The texts among documents, and how many of the documents have one text.
ValuesOf(docs)  == {docs[n] : n \in DOMAIN docs}
Copies(docs, t) == Cardinality({n \in DOMAIN docs : docs[n] = t})

\* The texts at some positions of the inputs, and at how many of them one text is.
TextsAt(request, positions)   == {TextAt(request, p) : p \in positions}
Places(request, positions, t) == Cardinality({p \in positions : TextAt(request, p) = t})

\* What ingest keeps is what the sources define, whatever their order and however the
\* documents are spread over them: every text that a source has is in exactly one file,
\* once with dedup, as often as it occurs without, and the counts say so.
IngestIsExact ==
    pc = "ingested" =>
        LET w     == workspace[run]
            all   == DocumentLines(w.request)
            texts == TextsAt(w.request, all)
        IN  /\ w.train \cup w.val = DOMAIN w.documents /\ w.train \cap w.val = {}
            /\ Len(w.documents) + w.duplicates = Cardinality(all)
            /\ \A t \in texts :
                 Copies(w.documents, t) =
                   IF w.request.dedup THEN 1 ELSE Places(w.request, all, t)
            /\ {w.documents[n] : n \in w.val} =
                 {t \in texts : Bucket[w.request.seed][t] < w.request.ratio}

\* A text that one run holds out for validation is not trained on by any run with the
\* same seed and a ratio at least as large, whatever was added to the corpus in between
\* and in whatever order the sources are given; nor is it by the same run.
SplitIsStable ==
    \A r, s \in Runs :
        LET v == workspace[r]
            w == workspace[s]
        IN  v.request.seed = w.request.seed /\ v.request.ratio <= w.request.ratio =>
                \A m \in v.val, n \in w.train : v.documents[m] # w.documents[n]

\* The tokenizer has learned from the train side alone and from all of it, and there is
\* no tokenizer of a run whose split has left nothing to train on.
LearnsFromTrain ==
    \A r \in Runs : LET w == workspace[r] IN
        /\ w.learned # {} => w.learned = TextsOf(w, w.train)
        /\ r = run /\ pc \in {"tokenized", "trained", "evaluated"} =>
             w.train # {} /\ w.learned = TextsOf(w, w.train)

\* Packing loses no token but a tail that is shorter than a block, no two blocks share a
\* token, and what is evaluated is the side that was not trained on.
PackingKeepsTokens ==
    LET w == workspace[run]
        Packed(starts, file) ==
            /\ \A i, j \in starts : i < j => i + BlockSize + 1 <= j
            /\ Length(w, file) - Cardinality(starts) * (BlockSize + 1) \in 0 .. BlockSize
    IN  /\ pc \in {"trained", "evaluated"} => Packed(w.blocks.train, w.train)
        /\ pc = "evaluated" => Packed(w.blocks.val, w.val) /\ TextsOf(w, w.val) \cap w.learned = {}
=============================================================================
