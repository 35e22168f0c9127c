------------------------------ MODULE MCControl ------------------------------
(***************************************************************************)
(* Control for TLC: all threads are alike.                                 *)
(***************************************************************************)
EXTENDS Control, TLC

\* No definition and no property of Control tells one thread from another.
AlikeThreads == Permutations(Threads)

=============================================================================
