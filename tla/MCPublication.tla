----------------------------- MODULE MCPublication -----------------------------
(****************************************************************************)
(* Publication with three kinds of publisher: a batch run (unguarded, never *)
(* forced), file reports and a directory export, and one foreign file and   *)
(* one foreign non-empty directory.                                         *)
(****************************************************************************)
EXTENDS Publication, TLC

CONSTANTS p1, p2, p3, oldFile, oldDir

MCPublishers == {p1, p2, p3}
MCGuarded == {p2, p3}
MCTwo == {p2, p3}
MCDirectory == {p3}
MCNone == {}
MCOthers == {oldFile, oldDir}
MCOtherDirs == {oldDir}
================================================================================
