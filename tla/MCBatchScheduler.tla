--------------------------- MODULE MCBatchScheduler ---------------------------
(****************************************************************************)
(* Three inputs and two or three workers: enough for results to overtake    *)
(* each other and for a panic with siblings at work.                        *)
(****************************************************************************)
EXTENDS BatchScheduler, TLC
================================================================================
