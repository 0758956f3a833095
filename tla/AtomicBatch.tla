------------------------------ MODULE AtomicBatch -------------------------------
(****************************************************************************)
(* What batch-trial-balance promises, in single steps and without workers,  *)
(* readings or stages: a company is reported from one of the contents its   *)
(* file has had, once; and the output appears all at once, with the reports *)
(* of all companies in manifest order, under a name that nobody had.        *)
(****************************************************************************)
EXTENDS Naturals, Sequences

CONSTANT InputCount

VARIABLES
    history,    \* of each company: the contents its file has had
    made,       \* of each company: its report, as a sequence of at most one
    output      \* what the output name stands for, and whose it is

vars == <<history, made, output>>
Inputs == 0..(InputCount - 1)
Nobody == [owner |-> "nobody"]
Other == [owner |-> "other"]

Init ==
    /\ made = [i \in Inputs |-> <<>>]
    /\ output \in {Nobody, Other}

\* Other programs write files, and may take the name before the output does.
WriteFiles ==
    /\ \A i \in Inputs : history[i] \subseteq history'[i]
    /\ UNCHANGED <<made, output>>

TakeName ==
    /\ output = Nobody
    /\ output' = Other
    /\ UNCHANGED <<history, made>>

Report(i) ==
    /\ made[i] = <<>>
    /\ \E content \in history[i] : made' = [made EXCEPT ![i] = <<content>>]
    /\ UNCHANGED <<history, output>>

Publish ==
    /\ output = Nobody
    /\ \A i \in Inputs : made[i] # <<>>
    /\ output' = [owner |-> "us",
                  rows |-> [k \in 1..InputCount |->
                               [index |-> k - 1, bytes |-> made[k - 1][1]]]]
    /\ UNCHANGED <<history, made>>

Next == WriteFiles \/ TakeName \/ (\E i \in Inputs : Report(i)) \/ Publish
Spec == Init /\ [][Next]_vars
================================================================================
