------------------------------- MODULE RunLedger -------------------------------
(***************************************************************************)
(* What the run store promises about the record of a run, as a reader who  *)
(* reads again after a failed attempt sees it: the record appears once, it *)
(* only advances, its end is for ever, and only the death of the command   *)
(* that owns it can make it unreadable.  Nothing is promised for a run     *)
(* whose directory another run has drawn as well.                          *)
(***************************************************************************)
EXTENDS RunRecords

\* A status goes forward, and an end is for ever.
Forward(s, t) ==
    \/ s = t
    \/ s \in {"absent", "pending"} /\ t = "running"
    \/ s = "running" /\ t \in Terminal

\* What a run may have become between two reads with one save between them.
Advances(r, s) ==
    /\ r.status \notin Terminal
    /\ s.owner = r.owner
    /\ Forward(r.status, s.status)
    /\ \A k \in Stages : Forward(r.stages[k], s.stages[k])
    /\ r.artifacts <= s.artifacts
    /\ s.status = "succeeded" => \A k \in Stages : s.stages[k] = "succeeded"

VARIABLES
    state,   \* of the record of each command's run
    record   \* its contents, while they are current

vars == <<state, record>>

Init ==
    /\ state = [c \in Commands |-> "none"]
    /\ record = [c \in Commands |-> Fresh(c)]

Appear(c) ==
    /\ state[c] = "none"
    /\ state' = [state EXCEPT ![c] = "current"]
    /\ UNCHANGED record

Advance(c) ==
    /\ state[c] = "current"
    /\ record'[c] \in Records
    /\ Advances(record[c], record'[c])
    /\ record' = [record EXCEPT ![c] = record'[c]]
    /\ UNCHANGED state

Lose(c) ==
    /\ state[c] = "current"
    /\ state' = [state EXCEPT ![c] = "lost"]
    /\ UNCHANGED record

\* The runs of these commands turn out to have one directory.
Share(group) ==
    /\ state' = [c \in Commands |-> IF c \in group THEN "shared" ELSE state[c]]
    /\ record' = [c \in Commands |-> IF c \in group THEN Fresh(c) ELSE record[c]]

Next ==
    \/ \E c \in Commands : Appear(c) \/ Advance(c) \/ Lose(c)
    \/ \E group \in SUBSET Commands : Share(group)

Spec == Init /\ [][Next]_vars
=============================================================================
