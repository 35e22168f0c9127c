----------------------------- MODULE EventQueue -----------------------------
(***************************************************************************)
(* What the FIFO of a sequencer client promises, src/sound/core/seq/       *)
(* seq_fifo.c: events come out in the order in which they went in, each of *)
(* them once, and one that a reader had no room for is the next to come.   *)
(* Module SeqFifo implements it with cells and pools.                      *)
(***************************************************************************)
EXTENDS Sequences

CONSTANTS
    Readers,   \* those who take events
    Events,    \* what may be sent
    Nothing    \* no event

VARIABLES
    queue,     \* the events that wait, the oldest first
    hand       \* the event that each reader is looking at

vars == <<queue, hand>>

Init == queue = <<>> /\ hand = [r \in Readers |-> Nothing]

Put(e) == queue' = Append(queue, e) /\ UNCHANGED hand

Take(r) ==
    /\ hand[r] = Nothing /\ queue # <<>>
    /\ hand' = [hand EXCEPT ![r] = Head(queue)]
    /\ queue' = Tail(queue)

Keep(r) == hand' = [hand EXCEPT ![r] = Nothing] /\ UNCHANGED queue

PutBack(r) ==
    /\ hand[r] # Nothing
    /\ queue' = <<hand[r]>> \o queue
    /\ hand' = [hand EXCEPT ![r] = Nothing]

Clear == queue' = <<>> /\ UNCHANGED hand

Next ==
    \/ \E e \in Events : Put(e)
    \/ \E r \in Readers : Take(r) \/ Keep(r) \/ PutBack(r)
    \/ Clear

Spec == Init /\ [][Next]_vars

=============================================================================
