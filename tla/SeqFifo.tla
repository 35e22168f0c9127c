------------------------------- MODULE SeqFifo -------------------------------
(***************************************************************************)
(* The input FIFO of a sequencer client, src/sound/core/seq/seq_fifo.c,    *)
(* with the pool its cells come from (seq_memory.c) and the calls that use *)
(* it (seq_clientmgr.c).  f->lock guards the list and pool->lock the free  *)
(* cells; each is held for one step.  use_lock only counts who is inside.  *)
(***************************************************************************)
EXTENDS Integers, Sequences, FiniteSets, SequencesExt

CONSTANTS
    Senders,    \* whoever delivers events, threads and interrupts
    Readers,    \* threads of the client
    Events,     \* what is sent
    Long,       \* the events that need a second cell
    Pools,      \* names for pools
    Size,       \* the number of cells of each
    PutsBack,   \* when an event may fail to fit: "never", "before others", "any time"
    Resizes,    \* when the size is changed: "never", "before a call", "any time"
    GivesUp,    \* whether a wait of five seconds may be too short
    None

Threads == Senders \cup Readers
Cells == UNION {{p} \X (1..Size[p]) : p \in Pools}

ASSUME SeqFifoAssumption ==
    /\ IsFiniteSet(Pools) /\ Long \subseteq Events /\ Size \in [Pools -> Nat \ {0}]
    /\ None \notin Events \cup Pools \cup Cells

VARIABLES
    pool,       \* f->pool
    head, tail, \* the list
    cells,      \* its length
    overflow,   \* f->overflow > 0
    use,        \* who is counted by use_lock
    next,       \* the list pointer of each cell
    holds,      \* the event of each cell and the cells chained to it
    free,       \* the free cells of each pool
    life,       \* of each pool: "unused", "open", "closing"
    pc          \* where each thread is, its event, pool and cells

list == <<pool, head, tail, cells, next, holds>>
pools == <<free, life>>
vars == <<list, pools, overflow, use, pc>>

-----------------------------------------------------------------------------
(* Cells *)

Idle == [at |-> "idle", event |-> None, pool |-> None, got |-> <<>>]

Blank == [event |-> None, more |-> {}]

More(e) == IF e \in Long THEN 1 ELSE 0

\* The cells that are reached from c, cut off should they run in a circle.
Chain(c) ==
    LET nth[n \in 0..Cardinality(Cells)] ==
            IF n = 0 THEN c ELSE IF nth[n - 1] = None THEN None ELSE next[nth[n - 1]]
    IN [i \in 1..Cardinality({n \in 0..Cardinality(Cells) - 1 : nth[n] # None}) |-> nth[i - 1]]

\* An event is freed with the cells chained to it.
WithMore(cs) == cs \cup UNION {holds[c].more : c \in cs}

\* snd_seq_cell_free.  What a free cell holds does not matter.
Frees(cs) ==
    /\ free' = [p \in Pools |-> free[p] \cup {c \in WithMore(cs) : c[1] = p}]
    /\ holds' = [c \in Cells |-> IF c \in WithMore(cs) THEN Blank ELSE holds[c]]

Goes(t, place) == pc' = [pc EXCEPT ![t].at = place]

\* The thread returns and gives up use_lock.
Leaves(t) ==
    /\ pc' = [pc EXCEPT ![t] = Idle]
    /\ use' = use \ {t}

-----------------------------------------------------------------------------
(* Sending: snd_seq_fifo_event_in *)

\* An event that needs more cells than there are is refused with -ENOMEM.
Send(s, e) ==
    /\ pc[s].at = "idle"
    /\ use' = use \cup {s}
    /\ pc' = [pc EXCEPT ![s] = [at |-> IF More(e) >= Size[pool] THEN "refused" ELSE "dup",
                                event |-> e, pool |-> pool, got |-> <<>>]]
    /\ UNCHANGED <<list, pools, overflow>>

\* snd_seq_cell_alloc, once for each cell.  A pool without a free cell gives -EAGAIN,
\* one that is closing -ENOMEM.
Alloc(s) ==
    /\ pc[s].at = "dup" /\ life[pc[s].pool] # "closing"
    /\ \E c \in free[pc[s].pool] :
          /\ \A d \in free[pc[s].pool] : c[2] <= d[2]
          /\ free' = [free EXCEPT ![pc[s].pool] = @ \ {c}]
          /\ next' = [next EXCEPT ![c] = None]
          /\ IF pc[s].got = <<>>
             THEN /\ holds' = [holds EXCEPT ![c] = [event |-> pc[s].event, more |-> {}]]
                  /\ pc' = [pc EXCEPT ![s].got = <<c>>, ![s].at = IF More(pc[s].event) = 0 THEN "append" ELSE "dup"]
             ELSE /\ holds' = [holds EXCEPT ![pc[s].got[1]].more = @ \cup {c}]
                  /\ Goes(s, "append")
    /\ UNCHANGED <<pool, head, tail, cells, life, overflow, use>>

AllocFails(s) ==
    /\ pc[s].at = "dup"
    /\ \/ life[pc[s].pool] = "closing" /\ Goes(s, "refused")
       \/ life[pc[s].pool] # "closing" /\ free[pc[s].pool] = {} /\ Goes(s, "full")
    /\ UNCHANGED <<list, pools, overflow, use>>

\* A faulty variant: the first cell of the event is kept.
LostKeepsCell(s) ==
    /\ pc[s].at \in {"refused", "full"}
    /\ overflow' = (overflow \/ pc[s].at = "refused")
    /\ Leaves(s)
    /\ UNCHANGED <<list, free, life>>

\* The event is lost.  Only -ENOMEM counts as an overflow.
Lost(s) ==
    /\ pc[s].at \in {"refused", "full"}
    /\ Frees(ToSet(pc[s].got))
    /\ overflow' = (overflow \/ pc[s].at = "refused")
    /\ Leaves(s)
    /\ UNCHANGED <<pool, head, tail, cells, next, life>>

\* A faulty variant: the new cell takes the place of the head.
EnqueueAtHead(s) ==
    /\ pc[s].at = "append"
    /\ LET c == pc[s].got[1] IN
       /\ next' = [next EXCEPT ![c] = head]
       /\ head' = c
       /\ tail' = IF tail = None THEN c ELSE tail
    /\ cells' = cells + 1
    /\ pc' = [pc EXCEPT ![s].at = "wake", ![s].got = <<>>]
    /\ UNCHANGED <<pool, holds, pools, overflow, use>>

Enqueue(s) ==
    /\ pc[s].at = "append"
    /\ LET c == pc[s].got[1] IN
       /\ next' = IF tail # None THEN [next EXCEPT ![tail] = c] ELSE next
       /\ tail' = c
       /\ head' = IF head = None THEN c ELSE head
    /\ cells' = cells + 1
    /\ pc' = [pc EXCEPT ![s].at = "wake", ![s].got = <<>>]
    /\ UNCHANGED <<pool, holds, pools, overflow, use>>

\* A faulty variant: whoever sleeps is woken only for an event that is alone.
WakeForFirst(s) ==
    /\ pc[s].at = "wake"
    /\ pc' = [t \in Threads |->
                IF t = s THEN Idle
                ELSE IF pc[t].at = "asleep" /\ cells = 1 THEN [pc[t] EXCEPT !.at = "take"] ELSE pc[t]]
    /\ use' = use \ {s}
    /\ UNCHANGED <<list, pools, overflow>>

\* All who sleep on input_sleep look at the list again.
Wake(s) ==
    /\ pc[s].at = "wake"
    /\ pc' = [t \in Threads |->
                IF t = s THEN Idle
                ELSE IF pc[t].at = "asleep" THEN [pc[t] EXCEPT !.at = "take"] ELSE pc[t]]
    /\ use' = use \ {s}
    /\ UNCHANGED <<list, pools, overflow>>

-----------------------------------------------------------------------------
(* Reading: snd_seq_read *)

\* A reader that finds an overflow clears the FIFO and returns -ENOSPC.
Read(r) ==
    /\ pc[r].at = "idle"
    /\ Goes(r, IF overflow THEN "clear" ELSE "take")
    /\ overflow' = FALSE
    /\ use' = IF overflow THEN use ELSE use \cup {r}
    /\ UNCHANGED <<list, pools>>

\* fifo_cell_out
CellOut(r) ==
    /\ head # None
    /\ head' = next[head]
    /\ tail' = IF tail = head THEN None ELSE tail
    /\ next' = [next EXCEPT ![head] = None]
    /\ cells' = cells - 1
    /\ pc' = [pc EXCEPT ![r].at = "copy", ![r].got = <<head>>]

\* snd_seq_fifo_cell_out.  One that has something to return does not wait for more.
Take(r) ==
    /\ pc[r].at \in {"take", "again"}
    /\ CellOut(r)
    /\ UNCHANGED <<pool, holds, pools, overflow, use>>

Empty(r) ==
    /\ pc[r].at \in {"take", "again"} /\ head = None
    /\ IF pc[r].at = "take" THEN Goes(r, "asleep") /\ UNCHANGED use ELSE Leaves(r)
    /\ UNCHANGED <<list, pools, overflow>>

\* A signal, or O_NONBLOCK.
Interrupted(r) ==
    /\ pc[r].at = "asleep"
    /\ Leaves(r)
    /\ UNCHANGED <<list, pools, overflow>>

Copied(r, again) ==
    /\ pc[r].at = "copy"
    /\ Frees(ToSet(pc[r].got))
    /\ IF again THEN pc' = [pc EXCEPT ![r].at = "again", ![r].got = <<>>] /\ UNCHANGED use
                ELSE Leaves(r)
    /\ UNCHANGED <<pool, head, tail, cells, next, life, overflow>>

\* The buffer of the reader has no room for the event: snd_seq_fifo_cell_putback.
PutBack(r) ==
    /\ pc[r].at = "copy"
    /\ PutsBack = "any time" \/ (PutsBack = "before others" /\ head # None)
    /\ LET c == pc[r].got[1] IN
       next' = [next EXCEPT ![c] = head] /\ head' = c
    /\ cells' = cells + 1
    /\ Leaves(r)
    /\ UNCHANGED <<pool, tail, holds, pools, overflow>>

-----------------------------------------------------------------------------
(* Clearing and resizing *)

\* The ioctl that removes all input.
Clear(r) ==
    /\ pc[r].at = "idle"
    /\ overflow' = FALSE
    /\ Goes(r, "clear")
    /\ UNCHANGED <<list, pools, use>>

\* snd_seq_fifo_clear waits for those who are inside, but not for more than five
\* seconds, and others may have entered when it takes the lock.
Drain(r) ==
    /\ pc[r].at = "clear"
    /\ LET all == ToSet(Chain(head)) IN
       /\ Frees(all)
       /\ next' = [c \in Cells |-> IF c \in all THEN None ELSE next[c]]
       /\ tail' = IF tail \in all THEN None ELSE tail
       /\ cells' = cells - Cardinality(all)
    /\ head' = None
    /\ Goes(r, "idle")
    /\ UNCHANGED <<pool, life, overflow, use>>

\* Nobody has looked at f->pool and not yet got a cell of it.
NobodyChooses == \A t \in Threads : pc[t].at = "dup" => pc[t].got # <<>>

\* snd_seq_fifo_resize: the FIFO goes on with the new pool ...
Resize(r, p) ==
    /\ pc[r].at = "idle" /\ life[p] = "unused"
    /\ Resizes = "any time" \/ (Resizes = "before a call" /\ NobodyChooses)
    /\ pool' = p
    /\ life' = [life EXCEPT ![p] = "open"]
    /\ free' = [free EXCEPT ![p] = {c \in Cells : c[1] = p}]
    /\ head' = None /\ tail' = None /\ cells' = 0
    /\ pc' = [pc EXCEPT ![r] = [at |-> "release", event |-> None, pool |-> pool,
                                got |-> Chain(head)]]
    /\ UNCHANGED <<next, holds, overflow, use>>

\* ... the old events are freed, and no cell of the old pool can be had any more ...
ReleaseCells(r) ==
    /\ pc[r].at = "release"
    /\ Frees(ToSet(pc[r].got))
    /\ life' = [life EXCEPT ![pc[r].pool] = "closing"]
    /\ pc' = [pc EXCEPT ![r].at = "done", ![r].got = <<>>]
    /\ UNCHANGED <<pool, head, tail, cells, next, overflow, use>>

\* ... until it is freed.  snd_seq_pool_done waits for its cells, but again not for
\* more than five seconds.
PoolDone(r) ==
    /\ pc[r].at = "done"
    /\ Cardinality(free[pc[r].pool]) = Size[pc[r].pool] \/ GivesUp
    /\ life' = [life EXCEPT ![pc[r].pool] = "unused"]
    /\ free' = [free EXCEPT ![pc[r].pool] = {}]
    /\ pc' = [pc EXCEPT ![r] = Idle]
    /\ UNCHANGED <<list, overflow, use>>

-----------------------------------------------------------------------------
Init ==
    /\ \E p \in Pools :
          /\ pool = p
          /\ life = [q \in Pools |-> IF q = p THEN "open" ELSE "unused"]
          /\ free = [q \in Pools |-> IF q = p THEN {c \in Cells : c[1] = p} ELSE {}]
    /\ head = None /\ tail = None /\ cells = 0 /\ overflow = FALSE /\ use = {}
    /\ next = [c \in Cells |-> None]
    /\ holds = [c \in Cells |-> Blank]
    /\ pc = [t \in Threads |-> Idle]

Sends(s) ==
    \/ \E e \in Events : Send(s, e)
    \/ Alloc(s) \/ AllocFails(s) \/ Lost(s) \/ Enqueue(s) \/ Wake(s)

Reads(r) ==
    \/ Read(r) \/ Take(r) \/ Empty(r) \/ Interrupted(r) \/ PutBack(r)
    \/ \E again \in BOOLEAN : Copied(r, again)

Manages(r) ==
    \/ Clear(r) \/ Drain(r) \/ ReleaseCells(r) \/ PoolDone(r)
    \/ \E p \in Pools : Resize(r, p)

Next == (\E s \in Senders : Sends(s)) \/ (\E r \in Readers : Reads(r) \/ Manages(r))

Spec == Init /\ [][Next]_vars

-----------------------------------------------------------------------------
(* Properties *)

Places == {"idle", "dup", "refused", "full", "append", "wake", "take", "again", "asleep",
           "copy", "clear", "release", "done"}

TypeOK ==
    /\ pool \in Pools /\ {head, tail} \subseteq Cells \cup {None}
    /\ cells \in 0..Cardinality(Cells) /\ overflow \in BOOLEAN /\ use \subseteq Threads
    /\ next \in [Cells -> Cells \cup {None}]
    /\ holds \in [Cells -> [event : Events \cup {None}, more : SUBSET Cells]]
    /\ \A p \in Pools : free[p] \subseteq {c \in Cells : c[1] = p}
    /\ life \in [Pools -> {"unused", "open", "closing"}]
    /\ pc \in [Threads -> [at : Places, event : Events \cup {None},
                           pool : Pools \cup {None}, got : Seq(Cells)]]

\* The list is whole: its last cell is the tail, and it has as many as are counted
\* (fifo_cell_out, snd_seq_fifo_event_in and _putback agree on the ends).
Linked ==
    LET chain == Chain(head) IN
    /\ cells = Len(chain)
    /\ tail = IF chain = <<>> THEN None ELSE Last(chain)

InHands(p) ==
    {c \in WithMore(UNION {ToSet(pc[t].got) : t \in Threads}) : c[1] = p}

Listed(p) == {c \in WithMore(ToSet(Chain(head))) : c[1] = p}

\* Every cell of a pool is free, in the list or in somebody's hands, and in one of
\* these places only: whatever fails or is cleared, none is lost and none freed twice.
\* None is in use when its pool is freed.
CellsAccounted ==
    \A p \in Pools :
        /\ life[p] # "unused" => {c \in Cells : c[1] = p} = free[p] \cup Listed(p) \cup InHands(p)
        /\ life[p] = "unused" => Listed(p) \cup InHands(p) = {}
        /\ free[p] \cap (Listed(p) \cup InHands(p)) = {} /\ Listed(p) \cap InHands(p) = {}

\* A reader does not sleep over an event, unless it is just going to be woken
\* (waitqueue_active is looked at without the lock).
NoReaderMissed ==
    (\E r \in Readers : pc[r].at = "asleep") /\ head # None => \E s \in Senders : pc[s].at = "wake"

\* What is in the list, in the order in which it will be read.
Waiting == LET chain == Chain(head) IN [i \in 1..Len(chain) |-> holds[chain[i]].event]

Queue == INSTANCE EventQueue WITH
    queue <- Waiting,
    hand <- [r \in Readers |-> IF pc[r].at = "copy" THEN holds[pc[r].got[1]].event ELSE None],
    Nothing <- None

\* The FIFO is one: snd_seq_read returns the events in the order in which they were
\* delivered, each of them once, with two readers, clearing and resizing.
EventsInOrder == Queue!Spec

\* "-ENOSPC FIFO overflow", says snd_seq_read of what is returned after an event
\* has been lost: for want of a cell as well.
OverflowIsReported == [][\A s \in Senders : pc[s].at = "full" /\ pc'[s].at = "idle" => overflow']_vars

\* Nobody holds a cell of a pool that has been freed, nor waits for one.
NoFreedCell ==
    /\ \A t \in Threads : \A c \in ToSet(pc[t].got) : life[c[1]] # "unused"
    /\ \A t \in Threads : pc[t].at = "dup" => life[pc[t].pool] # "unused"

=============================================================================
