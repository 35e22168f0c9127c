------------------------------ MODULE MCSeqFifo ------------------------------
(***************************************************************************)
(* SeqFifo for TLC: the pool that is not large enough for every event, and *)
(* threads that are all alike.                                             *)
(***************************************************************************)
EXTENDS SeqFifo, TLC

CONSTANTS big, small

MCPools == {big, small}

\* Three cells hold one event of each size, one cell no long event at all.
MCSize == (big :> 3) @@ (small :> 1)

AlikeThreads == Permutations(Senders) \cup Permutations(Readers)

=============================================================================
