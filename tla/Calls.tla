---------------------------------- MODULE Calls ----------------------------------
(****************************************************************************)
(* The parts of the program that keep no state between calls.  From the      *)
(* start, one of them is called once, on one of the inputs given for it, and *)
(* answers: input is what it was given, output what it says.                 *)
(****************************************************************************)
\* Texts are sequences of words; Numerals are the words of digits alone.
CONSTANTS Null, Bad, MaxCents, Numerals

VARIABLES task, input, output
vars == <<task, input, output>>

Init == task = "none" /\ input = Null /\ output = Null

Call(t, inputs, decode(_)) ==
    /\ task = "none"
    /\ \E x \in inputs : task' = t /\ input' = x /\ output' = decode(x)
================================================================================
