------------------------------ MODULE MCDataIngest ------------------------------
(***************************************************************************)
(* Instance of DataIngest for TLC.                                         *)
(***************************************************************************)
EXTENDS DataIngest, TLC

CONSTANTS a, b, c, s1, s2, s3, seed

File(format, lines) == [format |-> format, lines |-> lines]

\* Duplicates inside a source and across sources, blank lines, empty texts, a line that
\* raises, a path that is no file and a Parquet file without a text column.
MCCorpora ==
    {s1 :> File("jsonl", first) @@ s2 :> second @@ s3 :> third :
        first  \in {<<a, b, a>>, <<EmptyText, Blank>>, <<a, BadJson>>},
        second \in {File("text", <<b, Blank>>), File("text", << >>), File("text", <<TooLong>>)},
        third  \in {File("parquet", <<c, NoText, EmptyText>>), File("columns", << >>),
                    File("none", << >>), File("other", <<a>>)}}

MCBucket == (seed :> (a :> 0 @@ b :> 2 @@ c :> 3 @@ EmptyText :> 1))
MCTokens == (a :> 1 @@ b :> 2 @@ c :> 3)

\* No split, two proper ones, and ratios of 1 and of less than 0.
MCRequests ==
    {[inputs |-> inputs, dedup |-> dedup, ratio |-> ratio, seed |-> seed] :
        inputs \in {<<s1, s2>>, <<s2, s1>>, <<s3, s1>>},
        dedup \in BOOLEAN, ratio \in {1, 3}}
    \cup {[inputs |-> inputs, dedup |-> TRUE, ratio |-> ratio, seed |-> seed] :
            inputs \in {<<s2>>, << >>}, ratio \in {-1, 0, Scale}}
=============================================================================
