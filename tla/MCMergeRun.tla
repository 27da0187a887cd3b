----------------------------- MODULE MCMergeRun -----------------------------
(* A small instance of MergeRun.                                           *)
EXTENDS MergeRun

=============================================================================
