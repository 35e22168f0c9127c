----------------------------- MODULE PcmRing -----------------------------
(***************************************************************************)
(* The ring buffer of one playback substream: the arithmetic of hw_ptr and *)
(* appl_ptr modulo the boundary (sound/core/pcm_lib.c and pcm.h), the      *)
(* threads that write into the ring and sleep when it is full, and the     *)
(* period interrupts that move hw_ptr and wake them.                       *)
(*                                                                         *)
(* What states exist and how substreams change them together is module    *)
(* PcmStream; here a state matters for what it lets the pointers do.  The  *)
(* samples themselves, the alignment of the position (min_align), silence  *)
(* filling and the time stamps are left out, stop_threshold has its        *)
(* default, buffer_size, and no_period_wakeup is off.                      *)
(***************************************************************************)
EXTENDS Integers, FiniteSets

CONSTANTS
    Threads,         \* application threads that have the substream open
    Writers,         \* those of them that write
    Callers,         \* those of them that issue the other calls
    BufferSize,      \* runtime->buffer_size, in frames
    PeriodSize,      \* runtime->period_size
    Boundary,        \* runtime->boundary, where both pointers wrap to 0
    AvailMin,        \* control->avail_min
    StartThreshold,  \* runtime->start_threshold
    MaxLate,         \* frames a period interrupt may wait for its handler
    MaxWrite,        \* frames of the largest write, rewind or forward
    Calls            \* which of the optional calls the application makes

AllCalls == {"pause", "reset", "rewind", "forward", "drain", "drop", "nonblock"}

ASSUME ThreadsAssumption  == Writers \subseteq Threads /\ Callers \subseteq Threads
ASSUME PeriodAssumption   == PeriodSize \in Nat \ {0} /\ BufferSize \in Nat /\ PeriodSize <= BufferSize
\* snd_pcm_hw_params doubles the buffer size as long as it fits in a long.
ASSUME BoundaryAssumption == /\ Boundary \in Nat
                             /\ \E k \in 4..Boundary : Boundary = k * BufferSize
ASSUME ParamsAssumption   == /\ AvailMin \in Nat \ {0} /\ StartThreshold \in Nat \ {0}
                             /\ MaxLate \in Nat /\ MaxWrite \in Nat
                             /\ Calls \subseteq AllCalls

VARIABLES
    state,             \* status->state
    hw_ptr,            \* status->hw_ptr, the position as of the last update
    appl_ptr,          \* control->appl_ptr, where the next frame is written
    hw_ptr_base,       \* runtime->hw_ptr_base, hw_ptr at the start of the ring
    hw_ptr_interrupt,  \* runtime->hw_ptr_interrupt, hw_ptr in whole periods
    twake,             \* runtime->twake, what a sleeping writer waits for
    hw,                \* the hardware and the clock
    thr                \* thr[t]: where thread t is, and its local variables

vars == <<state, hw_ptr, appl_ptr, hw_ptr_base, hw_ptr_interrupt, twake, hw, thr>>
pointers == <<hw_ptr, hw_ptr_base, hw_ptr_interrupt>>

States == {"SETUP", "PREPARED", "RUNNING", "DRAINING", "PAUSED", "XRUN"}

Less(a, b) == IF a < b THEN a ELSE b

\* at: the frames played, modulo the boundary; a driver only sees it modulo
\* the buffer size.  irq: 0, or 1 plus the frames played since an interrupt
\* was raised that is not handled yet.  age: frame times since hw_ptr_jiffies,
\* up to the AgeLimit that is as good as any longer time.
AgeLimit == BufferSize
Hardware == [at : 0..Boundary - 1, irq : 0..MaxLate + 1, age : 0..AgeLimit]

\* The locals of snd_pcm_lib_write1: size is what is left to write, avail and
\* appl its copies of avail and appl_ptr, frames the chunk being copied.  At
\* "base" and "appl" the thread is in the middle of a reset (again is FALSE)
\* or a prepare (again is TRUE).
Places == {"idle", "asleep", "woken", "copy", "einval", "base", "appl"}
Thread == [at : Places, size : Nat, avail : Nat, frames : Nat, appl : Nat,
           again : BOOLEAN]
Idle   == [at |-> "idle", size |-> 0, avail |-> 0, frames |-> 0, appl |-> 0,
           again |-> FALSE]

Init ==
    /\ state = "SETUP"
    /\ hw_ptr = 0 /\ appl_ptr = 0 /\ hw_ptr_base = 0 /\ hw_ptr_interrupt = 0
    /\ twake = 0
    /\ hw = [at |-> 0, irq |-> 0, age |-> 0]
    /\ thr = [t \in Threads |-> Idle]

(***************************************************************************)
(* Pointer arithmetic.                                                     *)
(***************************************************************************)
Wrap(p) == IF p >= Boundary THEN p - Boundary ELSE p

\* The way from q up to p, both in 0..Boundary - 1.
Ahead(p, q) == IF p >= q THEN p - q ELSE p - q + Boundary

PlaybackAvail(h, a) ==
    LET n == h + BufferSize - a
    IN IF n < 0 THEN n + Boundary ELSE IF n >= Boundary THEN n - Boundary ELSE n

HwAvail(h, a) == BufferSize - PlaybackAvail(h, a)

Running(s) == s \in {"RUNNING", "DRAINING"}

(***************************************************************************)
(* snd_pcm_update_hw_ptr0: what the driver's pointer callback, a position  *)
(* in the ring, says about hw_ptr.                                         *)
(***************************************************************************)
Position == hw.at % BufferSize

NextBase(b) == IF b + BufferSize >= Boundary THEN 0 ELSE b + BufferSize

LappedAtOnce(irq) ==                                         \* a faulty variant
    irq /\ hw_ptr_interrupt + PeriodSize > hw_ptr_base + Position

\* A period interrupt that finds the pointer before the end of the period it
\* announces, half a buffer of time after the last update: the pointer has
\* gone once around the ring.
Lapped(irq) == /\ irq
               /\ hw_ptr_interrupt + PeriodSize > hw_ptr_base + Position
               /\ hw.age > BufferSize \div 2

NewBase(irq) == IF Lapped(irq) \/ hw_ptr_base + Position < hw_ptr
                THEN NextBase(hw_ptr_base) ELSE hw_ptr_base

NewPtr(irq) == NewBase(irq) + Position

Plausible(irq) == Ahead(NewPtr(irq), hw_ptr) < BufferSize + PeriodSize

NewInterrupt(irq) ==
    IF irq
    THEN LET d == Ahead(NewPtr(irq), hw_ptr_interrupt)
         IN Wrap(hw_ptr_interrupt + (d - (d % PeriodSize)))
    ELSE hw_ptr_interrupt

\* snd_pcm_update_state: an empty ring ends a drain and is an xrun otherwise.
StateWith(s, avail) ==
    IF avail < BufferSize THEN s ELSE IF s = "DRAINING" THEN "SETUP" ELSE "XRUN"

\* The hardware once an interrupt is handled, if one is, and hw_ptr_jiffies set.
Ticked(handled, age) == [at |-> hw.at, irq |-> IF handled THEN 0 ELSE hw.irq, age |-> age]

Update(irq) ==
    IF Plausible(irq) /\ NewPtr(irq) # hw_ptr
    THEN /\ hw_ptr' = NewPtr(irq)
         /\ hw_ptr_base' = NewBase(irq)
         /\ hw_ptr_interrupt' = NewInterrupt(irq)
         /\ hw' = Ticked(irq, 0)
         /\ state' = StateWith(state, PlaybackAvail(hw_ptr', appl_ptr))
    ELSE /\ UNCHANGED <<state, pointers>>
         /\ hw' = Ticked(irq, hw.age)

\* The update that a call makes when the substream moves.
Sync == IF Running(state) THEN Update(FALSE) ELSE UNCHANGED <<state, pointers, hw>>

\* The threads once those that sleep on runtime->tsleep are woken: all of them
\* when the substream stops, those that may write when hw_ptr has moved.
Roused == [t \in Threads |-> IF thr[t].at = "asleep" THEN [thr[t] EXCEPT !.at = "woken"]
                                                     ELSE thr[t]]

\* a faulty variant
RousedByRoom(tw) ==
    IF hw_ptr' # hw_ptr /\ tw > 0 /\ PlaybackAvail(hw_ptr', appl_ptr) >= tw
          /\ PlaybackAvail(hw_ptr', appl_ptr) < BufferSize
    THEN Roused ELSE thr

RousedBy(tw) ==
    IF \/ state' # state
       \/ hw_ptr' # hw_ptr /\ tw > 0 /\ PlaybackAvail(hw_ptr', appl_ptr) >= tw
    THEN Roused ELSE thr

(***************************************************************************)
(* The hardware plays a frame; it raises an interrupt at the end of each   *)
(* period, and its handler runs at most MaxLate frames later.              *)
(***************************************************************************)
Play ==
    /\ Running(state)
    /\ hw.irq <= MaxLate
    /\ LET at == Wrap(hw.at + 1)
       IN hw' = [at  |-> at,
                 irq |-> IF hw.irq > 0 THEN hw.irq + 1
                         ELSE IF at % PeriodSize = 0 THEN 1 ELSE 0,
                 age |-> Less(hw.age + 1, AgeLimit)]
    /\ UNCHANGED <<state, appl_ptr, pointers, twake, thr>>

PeriodElapsed ==
    /\ hw.irq > 0
    /\ IF Running(state) THEN Update(TRUE)
       ELSE hw' = Ticked(TRUE, hw.age) /\ UNCHANGED <<state, pointers>>
    /\ thr' = RousedBy(twake)
    /\ UNCHANGED <<appl_ptr, twake>>

(***************************************************************************)
(* snd_pcm_lib_write1.  The thread holds the stream lock from one of these *)
(* steps to the next except while it sleeps and while it copies.           *)
(***************************************************************************)
RoundToTheEnd(n, room, a) ==                            \* a faulty variant
    LET chunk == Less(n, BufferSize - (a % BufferSize))
    IN [at |-> "copy", size |-> n, avail |-> room, frames |-> chunk, appl |-> a,
        again |-> FALSE]

\* With n frames to go, room as the thread knows it and appl_ptr = a, begin to
\* copy a chunk that does not pass the end of the ring.
Round(n, room, a) ==
    LET chunk == Less(Less(n, room), BufferSize - (a % BufferSize))
    IN [at |-> IF chunk = 0 THEN "einval" ELSE "copy", size |-> n, avail |-> room,
        frames |-> chunk, appl |-> a, again |-> FALSE]

Sleeping(n) == [at |-> "asleep", size |-> n, avail |-> 0, frames |-> 0,
                      appl |-> 0, again |-> FALSE]

WaitOffByOne(n, h, a) ==                               \* a faulty variant
    IF PlaybackAvail(h, a) + 1 >= Less(n, AvailMin)
    THEN Round(n, PlaybackAvail(h, a), a)
    ELSE Sleeping(n)

SleepUnchecked(n, h, a) == Sleeping(n)           \* a faulty variant

\* wait_for_avail, up to schedule_timeout: the thread is on the wait queue
\* when it looks once more for room.
WaitForAvail(n, h, a) ==
    IF PlaybackAvail(h, a) >= Less(n, AvailMin)
    THEN Round(n, PlaybackAvail(h, a), a)
    ELSE Sleeping(n)

\* The head of the write loop: h and a are hw_ptr and appl_ptr.
Loop(n, room, h, a) ==
    IF room = 0 THEN WaitForAvail(n, h, a) ELSE Round(n, room, a)

TwakeFor(n, room, tw) == IF room = 0 THEN Less(n, AvailMin) ELSE tw

AtRest(t) == thr[t].at \in {"idle", "einval"}

Write(t, n) ==
    /\ AtRest(t)
    /\ state \in {"PREPARED", "RUNNING", "PAUSED"}
    /\ Sync
    /\ LET room == PlaybackAvail(hw_ptr', appl_ptr)
       IN /\ twake' = TwakeFor(n, room, AvailMin)
          /\ thr' = [RousedBy(AvailMin) EXCEPT ![t] = Loop(n, room, hw_ptr', appl_ptr)]
    /\ UNCHANGED appl_ptr

\* With O_NONBLOCK, a write that finds no room returns -EAGAIN.
WriteAgain(t) ==
    /\ "nonblock" \in Calls
    /\ AtRest(t)
    /\ state \in {"PREPARED", "RUNNING", "PAUSED"}
    /\ Sync
    /\ PlaybackAvail(hw_ptr', appl_ptr) = 0
    /\ twake' = 0
    /\ thr' = [RousedBy(AvailMin) EXCEPT ![t] = Idle]
    /\ UNCHANGED appl_ptr

\* The copy has ended and the lock is taken again.
Copied(t) == thr[t].at = "copy" /\ state # "XRUN"

\* The thread commits its chunk at the place it remembers, starts a prepared
\* substream at the threshold, and goes on or returns: when all is written, or
\* when it may not wait for room.
Commit(t) ==
    /\ Copied(t)
    /\ appl_ptr' = Wrap(thr[t].appl + thr[t].frames)
    /\ LET left    == thr[t].size - thr[t].frames
           room    == thr[t].avail - thr[t].frames
           starts  == state = "PREPARED" /\ HwAvail(hw_ptr, appl_ptr') >= StartThreshold
           started == IF starts THEN "RUNNING" ELSE state
       IN /\ hw' = IF starts THEN Ticked(FALSE, 0) ELSE hw
          /\ IF left = 0
             THEN /\ state' = StateWith(started, PlaybackAvail(hw_ptr, appl_ptr'))
                  /\ twake' = 0
                  /\ thr' = [(IF state' # started THEN Roused ELSE thr) EXCEPT ![t] = Idle]
             ELSE /\ state' = started
                  /\ \/ /\ twake' = TwakeFor(left, room, twake)
                        /\ thr' = [thr EXCEPT ![t] = Loop(left, room, hw_ptr, appl_ptr')]
                     \/ /\ "nonblock" \in Calls /\ room = 0
                        /\ twake' = 0
                        /\ thr' = [thr EXCEPT ![t] = Idle]
    /\ UNCHANGED pointers

\* The copy found an underrun, or the user buffer was not there (-EFAULT).
WriteFails(t) ==
    /\ thr[t].at = "copy"
    /\ twake' = 0
    /\ thr' = [thr EXCEPT ![t] = Idle]
    /\ UNCHANGED <<state, appl_ptr, pointers, hw>>

\* wait_for_avail after schedule_timeout: room, another round of sleep, or a
\* state in which there is nothing to wait for.
WakeToWrite(t) ==
    /\ thr[t].at = "woken"
    /\ state \in {"PREPARED", "RUNNING", "PAUSED"}
    /\ LET room == PlaybackAvail(hw_ptr, appl_ptr)
       IN IF room >= twake
          THEN /\ thr' = [thr EXCEPT ![t] = Round(thr[t].size, room, appl_ptr)]
               /\ twake' = IF thr'[t].at = "einval" THEN 0 ELSE twake
          ELSE /\ thr' = [thr EXCEPT ![t].at = "asleep"]
               /\ UNCHANGED twake
    /\ UNCHANGED <<state, appl_ptr, pointers, hw>>

WakeToFail(t) ==
    /\ thr[t].at = "woken"
    /\ state \notin {"PREPARED", "RUNNING", "PAUSED"}
    /\ twake' = 0
    /\ thr' = [thr EXCEPT ![t] = Idle]
    /\ UNCHANGED <<state, appl_ptr, pointers, hw>>

SignalKeepsTwake(t) ==                                       \* a faulty variant
    /\ thr[t].at = "asleep"
    /\ thr' = [thr EXCEPT ![t] = Idle]
    /\ UNCHANGED <<state, appl_ptr, pointers, twake, hw>>

\* A signal ends the wait.
WaitSignal(t) ==
    /\ thr[t].at = "asleep"
    /\ twake' = 0
    /\ thr' = [thr EXCEPT ![t] = Idle]
    /\ UNCHANGED <<state, appl_ptr, pointers, hw>>

\* The timeout of ten seconds or more, far beyond a buffer's time: it only
\* runs out when the substream does not move.
WaitTimeout(t) ==
    /\ thr[t].at = "asleep"
    /\ ~ Running(state)
    /\ twake' = 0
    /\ thr' = [thr EXCEPT ![t] = Idle]
    /\ UNCHANGED <<state, appl_ptr, pointers, hw>>

(***************************************************************************)
(* The other calls on the substream.                                       *)
(***************************************************************************)
Start(t) ==
    /\ AtRest(t)
    /\ state = "PREPARED" /\ PlaybackAvail(hw_ptr, appl_ptr) < BufferSize
    /\ state' = "RUNNING"
    /\ hw' = Ticked(FALSE, 0)
    /\ UNCHANGED <<appl_ptr, pointers, twake, thr>>

\* snd_pcm_hwsync, snd_pcm_delay and snd_pcm_status: an update between
\* interrupts.
HwSync(t) ==
    /\ AtRest(t)
    /\ Running(state)
    /\ Update(FALSE)
    /\ thr' = RousedBy(twake)
    /\ UNCHANGED <<appl_ptr, twake>>

Push(t) ==
    /\ "pause" \in Calls /\ AtRest(t)
    /\ state = "RUNNING"
    /\ IF Plausible(FALSE) /\ NewPtr(FALSE) # hw_ptr
       THEN hw_ptr' = NewPtr(FALSE) /\ hw_ptr_base' = NewBase(FALSE)
       ELSE UNCHANGED <<hw_ptr, hw_ptr_base>>
    /\ hw' = Ticked(FALSE, AgeLimit)
    /\ state' = "PAUSED"
    /\ thr' = Roused
    /\ UNCHANGED <<appl_ptr, hw_ptr_interrupt, twake>>

Release(t) ==
    /\ "pause" \in Calls /\ AtRest(t)
    /\ state = "PAUSED"
    /\ state' = "RUNNING"
    /\ hw' = Ticked(FALSE, AgeLimit)
    /\ UNCHANGED <<appl_ptr, pointers, twake, thr>>

Drop(t) ==
    /\ "drop" \in Calls /\ AtRest(t)
    /\ state' = "SETUP"
    /\ hw' = IF state = "PAUSED" THEN Ticked(FALSE, AgeLimit) ELSE hw
    /\ thr' = Roused
    /\ UNCHANGED <<appl_ptr, pointers, twake>>

\* The first half of snd_pcm_drain; the wait for the end is in PcmStream.
Drain(t) ==
    /\ "drain" \in Calls /\ AtRest(t)
    /\ \/ state \in {"RUNNING", "PAUSED", "XRUN"}
       \/ state = "PREPARED" /\ PlaybackAvail(hw_ptr, appl_ptr) < BufferSize
    /\ state' = IF state = "XRUN" THEN "SETUP" ELSE "DRAINING"
    /\ hw' = Ticked(FALSE, CASE state = "PREPARED" -> 0
                              [] state = "PAUSED"   -> AgeLimit
                              [] OTHER              -> hw.age)
    /\ UNCHANGED <<appl_ptr, pointers, twake, thr>>

Rewind(t, n) ==
    /\ "rewind" \in Calls /\ AtRest(t)
    /\ state = "PREPARED" \/ Running(state)
    /\ Sync
    /\ LET back == Less(n, HwAvail(hw_ptr', appl_ptr))
       IN appl_ptr' = IF state' # state \/ back <= 0 THEN appl_ptr
                      ELSE IF appl_ptr < back THEN appl_ptr - back + Boundary
                      ELSE appl_ptr - back
    /\ thr' = RousedBy(twake)
    /\ UNCHANGED twake

ForwardFreely(t, n) ==                                        \* a faulty variant
    /\ "forward" \in Calls /\ AtRest(t)
    /\ state \in {"PREPARED", "PAUSED"} \/ Running(state)
    /\ Sync
    /\ appl_ptr' = IF state' # state THEN appl_ptr ELSE Wrap(appl_ptr + n)
    /\ thr' = RousedBy(twake)
    /\ UNCHANGED twake

Forward(t, n) ==
    /\ "forward" \in Calls /\ AtRest(t)
    /\ state \in {"PREPARED", "PAUSED"} \/ Running(state)
    /\ Sync
    /\ LET ahead == Less(n, PlaybackAvail(hw_ptr', appl_ptr))
       IN appl_ptr' = IF state' # state THEN appl_ptr ELSE Wrap(appl_ptr + ahead)
    /\ thr' = RousedBy(twake)
    /\ UNCHANGED twake

\* snd_pcm_do_reset and post_reset run without the stream lock, which only the
\* driver's reset ioctl takes: three steps.  A prepare makes the same steps
\* after the driver has rewound the hardware, and sets the state in the last.
Placed(at, age) == [at |-> at, irq |-> hw.irq, age |-> age]

Resets(again) == [at |-> "base", size |-> 0, avail |-> 0, frames |-> 0, appl |-> 0,
                  again |-> again]

ResetPtr(t) ==
    /\ "reset" \in Calls /\ AtRest(t)
    /\ state \in {"RUNNING", "PREPARED", "PAUSED"}
    /\ IF state = "RUNNING"
       THEN \E h \in {IF Plausible(FALSE) THEN NewPtr(FALSE) ELSE hw_ptr} :
              LET s == IF h = hw_ptr THEN state ELSE StateWith(state, PlaybackAvail(h, appl_ptr))
              IN /\ state' = s
                 /\ hw_ptr' = IF s = "XRUN" THEN 0 ELSE h % BufferSize
                 /\ hw_ptr_base' = IF h = hw_ptr THEN hw_ptr_base ELSE NewBase(FALSE)
                 /\ hw' = Placed(Position, IF h = hw_ptr THEN hw.age ELSE 0)
                 /\ thr' = [(IF s # state THEN Roused ELSE thr) EXCEPT ![t] = Resets(FALSE)]
       ELSE /\ hw_ptr' = 0
            /\ hw' = Placed(Position, hw.age)
            /\ thr' = [thr EXCEPT ![t] = Resets(FALSE)]
            /\ UNCHANGED <<state, hw_ptr_base>>
    /\ UNCHANGED <<appl_ptr, hw_ptr_interrupt, twake>>

Prepare(t) ==
    /\ AtRest(t)
    /\ ~ Running(state)
    /\ hw_ptr' = 0
    /\ hw' = Placed(0, hw.age)
    /\ thr' = [thr EXCEPT ![t] = Resets(TRUE)]
    /\ UNCHANGED <<state, appl_ptr, hw_ptr_base, hw_ptr_interrupt, twake>>

ResetBase(t) ==
    /\ thr[t].at = "base"
    /\ hw_ptr_base' = 0
    /\ hw_ptr_interrupt' = hw_ptr - (hw_ptr % PeriodSize)
    /\ thr' = [thr EXCEPT ![t].at = "appl"]
    /\ UNCHANGED <<state, hw_ptr, appl_ptr, twake, hw>>

ResetAppl(t) ==
    /\ thr[t].at = "appl"
    /\ appl_ptr' = hw_ptr
    /\ state' = IF thr[t].again THEN "PREPARED" ELSE state
    /\ thr' = [thr EXCEPT ![t] = Idle]
    /\ UNCHANGED <<pointers, twake, hw>>

(***************************************************************************)
(* The next-state relation.                                                *)
(***************************************************************************)
Sizes == 1..MaxWrite

WriterStep(t) ==
    \/ \E n \in Sizes : Write(t, n)
    \/ WriteAgain(t)
    \/ Commit(t)
    \/ WriteFails(t)
    \/ WakeToWrite(t)
    \/ WakeToFail(t)
    \/ WaitSignal(t)
    \/ WaitTimeout(t)

CallerStep(t) ==
    \/ Start(t) \/ HwSync(t) \/ Push(t) \/ Release(t) \/ Drop(t) \/ Drain(t)
    \/ \E n \in Sizes : Rewind(t, n) \/ Forward(t, n)
    \/ ResetPtr(t) \/ Prepare(t) \/ ResetBase(t) \/ ResetAppl(t)

Next ==
    \/ Play
    \/ PeriodElapsed
    \/ \E t \in Writers : WriterStep(t)
    \/ \E t \in Callers : CallerStep(t)

Spec == Init /\ [][Next]_vars

\* What the scheduler, the clock and the interrupt controller guarantee: a
\* thread that can run runs, a running substream plays on, and a raised
\* interrupt is handled.  No timeout and no signal is assumed.
Resume(t) == Commit(t) \/ WriteFails(t) \/ WakeToWrite(t) \/ WakeToFail(t)
                \/ ResetBase(t) \/ ResetAppl(t)

Fairness == /\ \A t \in Threads : WF_vars(Resume(t))
            /\ SF_vars(Play)
            /\ WF_vars(PeriodElapsed)

FairSpec == Spec /\ Fairness

(***************************************************************************)
(* Properties.                                                             *)
(***************************************************************************)
\* Every variable keeps its type; both pointers stay below the boundary.
TypeOK ==
    /\ state \in States
    /\ hw_ptr \in 0..Boundary - 1 /\ appl_ptr \in 0..Boundary - 1
    /\ hw_ptr_base \in 0..Boundary - 1 /\ hw_ptr_interrupt \in 0..Boundary - 1
    /\ twake \in Nat
    /\ hw \in Hardware
    /\ thr \in [Threads -> Thread]

Resetting == \E t \in Threads : thr[t].at \in {"base", "appl"}

\* snd_pcm_playback_avail never reports more than the buffer (pcm.h:627), so
\* appl_ptr is between hw_ptr and one buffer beyond it: nothing overwrites
\* frames that are not played, also when a pointer has wrapped.
RingNotOverrun ==
    state \in {"PREPARED", "RUNNING", "DRAINING"} /\ ~ Resetting
        => PlaybackAvail(hw_ptr, appl_ptr) <= BufferSize

\* The chunk that is being copied lies in the free part of the ring, although
\* the lock is not held and interrupts move hw_ptr (pcm_lib.c:2038-2040).
ChunkIsFree ==
    \A t \in Writers : thr[t].at = "copy" /\ state \in {"PREPARED", "RUNNING", "DRAINING"}
        => thr[t].frames <= PlaybackAvail(hw_ptr, thr[t].appl)

\* After each handled interrupt and every call the position is no more than a
\* period and a late interrupt old: no update mistakes the place in the ring
\* for one a buffer earlier or later (pcm_lib.c:361-386).
PointerFollows ==
    Running(state) /\ ~ Resetting => Ahead(hw.at, hw_ptr) <= PeriodSize + MaxLate

\* The comment "something must be really wrong" (pcm_lib.c:433): with hardware
\* that behaves and interrupts that are not too late, no update gets there.
NothingReallyWrong == [][PeriodElapsed /\ Running(state) => Plausible(TRUE)]_vars

\* No thread sleeps on a substream that has room for it: the step that made
\* room has woken it, or came before its last look (pcm_lib.c:301-303 and
\* 1905-1912).  None is left asleep on a substream that has stopped, whoever
\* stopped it and however (snd_pcm_post_stop, pcm_native.c:930-942).
NoLostWakeup ==
    \A t \in Writers : thr[t].at = "asleep"
        => /\ twake > 0 /\ PlaybackAvail(hw_ptr, appl_ptr) < twake
           /\ state \notin {"SETUP", "XRUN"}

\* snd_BUG_ON(!frames) in snd_pcm_lib_write1 (pcm_lib.c:2032): a writer past
\* its wait has room to write.
NoEmptyChunk == \A t \in Threads : thr[t].at # "einval"

\* twake is set exactly while a write is under way: it turns the wake-ups of
\* pollers off (pcm_lib.c:301-305), so a write that left it set would starve
\* them, and one that lost it would never be woken itself.
TwakeWhileWriting ==
    twake > 0 <=> \E t \in Writers : thr[t].at \in {"copy", "asleep", "woken"}

\* A write returns, and neither its timeout nor a signal is what ends it: the
\* interrupts of a running substream do, or the underrun that stops it.  Only when
\* a forward has filled the ring of hardware that is not started it has to wait.
WriteReturns ==
    \A t \in Writers : thr[t].at \in {"copy", "asleep", "woken"}
        ~> AtRest(t) \/ (state = "PREPARED" /\ thr[t].at = "asleep")

=============================================================================
