------------------------------- MODULE Conversions -------------------------------
(****************************************************************************)
(* All the parts of the program that keep no state between calls.            *)
(****************************************************************************)
EXTENDS Decoders, Recovery, Reporting

\* Pages are read as they were, and so are the rows of the catalogs on them and
\* what these say of each other.
PagesReadBack == TruePageKept /\ CatalogsRelate

Next == DecodersNext \/ RecoveryNext \/ ReportingNext

Spec == Init /\ [][Next]_vars
================================================================================
