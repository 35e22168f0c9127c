-------------------------- MODULE PcmRing_proofs --------------------------
(***************************************************************************)
(* Proofs about module PcmRing: its type invariant for every size of       *)
(* period, buffer and boundary; for an application with one thread, that   *)
(* the ring is never overrun, that no wake-up is lost, and, if interrupts  *)
(* are handled in time, that hw_ptr follows the hardware; with one thread  *)
(* that writes, the meaning of twake and that no chunk is empty.           *)
(***************************************************************************)
EXTENDS PcmRing, TLAPS

(***************************************************************************)
(* Arithmetic.                                                             *)
(***************************************************************************)
\* What the assumptions on the sizes amount to.
LEMMA SizeFacts ==
    /\ BufferSize \in Nat /\ BufferSize > 0
    /\ PeriodSize \in Nat /\ PeriodSize > 0 /\ PeriodSize <= BufferSize
    /\ Boundary \in Nat /\ 4 * BufferSize <= Boundary
  <1>1. PICK k \in 4..Boundary : Boundary = k * BufferSize
    BY BoundaryAssumption
  <1>2. BufferSize \in Nat /\ PeriodSize \in Nat /\ PeriodSize > 0 /\ PeriodSize <= BufferSize
    BY PeriodAssumption
  <1>3. 4 * BufferSize <= k * BufferSize
    BY <1>2, BoundaryAssumption
  <1> QED
    BY <1>1, <1>2, <1>3, BoundaryAssumption

\* The remainder of a division is below the divisor and not above the dividend.
LEMMA Remainder ==
    ASSUME NEW a \in Nat, NEW b \in Nat, b > 0
    PROVE  a % b \in 0..b - 1 /\ a - (a % b) \in 0..a
  OBVIOUS

\* One below a multiple is room for one more.
LEMMA NextMultiple ==
    ASSUME NEW j \in Nat, NEW k \in Nat, NEW b \in Nat, b > 0, j * b < k * b
    PROVE  j * b + b <= k * b
  <1>1. j < k
    OBVIOUS
  <1> QED
    BY <1>1

\* hw_ptr_base is where some turn of the ring starts, below the boundary.
Aligned(b) == /\ b \in Nat /\ b + BufferSize <= Boundary
              /\ \E k \in Nat : b = k * BufferSize

LEMMA NextBaseAligned ==
    ASSUME NEW b, Aligned(b)
    PROVE  Aligned(NextBase(b))
  <1>1. PICK k \in Nat : b = k * BufferSize
    BY DEF Aligned
  <1>2. PICK m \in 4..Boundary : Boundary = m * BufferSize
    BY BoundaryAssumption
  <1>3. CASE b + BufferSize >= Boundary
    BY <1>3, SizeFacts DEF Aligned, NextBase
  <1>4. CASE b + BufferSize < Boundary
    <2>1. b + BufferSize = (k + 1) * BufferSize
      BY <1>1, SizeFacts
    <2>0. k + 1 \in Nat /\ m \in Nat /\ (k + 1) * BufferSize < m * BufferSize
      BY <2>1, <1>2, <1>4, SizeFacts
    <2>2. (k + 1) * BufferSize + BufferSize <= m * BufferSize
      BY <2>0, SizeFacts, NextMultiple
    <2>3. NextBase(b) = (k + 1) * BufferSize
      BY <2>1, <1>4, SizeFacts DEF NextBase, Aligned
    <2>4. NextBase(b) \in Nat /\ NextBase(b) + BufferSize <= Boundary
      BY <2>0, <2>1, <2>2, <2>3, <1>1, <1>2, SizeFacts
    <2> QED
      BY <2>0, <2>3, <2>4 DEF Aligned
  <1> QED
    BY <1>3, <1>4, SizeFacts DEF Aligned

\* Types of the helpers on pointers.
LEMMA WrapType ==
    ASSUME NEW p \in Nat, p < 2 * Boundary
    PROVE  Wrap(p) \in 0..Boundary - 1
  BY SizeFacts DEF Wrap

LEMMA AheadType ==
    ASSUME NEW p \in 0..Boundary - 1, NEW q \in 0..Boundary - 1
    PROVE  Ahead(p, q) \in 0..Boundary - 1
  BY SizeFacts DEF Ahead

LEMMA AvailType ==
    ASSUME NEW h \in 0..Boundary - 1, NEW a \in 0..Boundary - 1
    PROVE  PlaybackAvail(h, a) \in 0..Boundary - 1
  BY SizeFacts DEF PlaybackAvail

(***************************************************************************)
(* Type correctness.                                                       *)
(***************************************************************************)
\* A chunk in copy lies in the ring, and in what the thread knows and wants.
Good(r) == /\ r \in Thread
           /\ r.at = "copy" => /\ r.frames <= r.size /\ r.frames <= r.avail
                               /\ r.frames <= BufferSize /\ r.appl < Boundary

TypeInv == /\ TypeOK
           /\ Aligned(hw_ptr_base)
           /\ \A t \in Threads : Good(thr[t])

LEMMA IdleGood == Good(Idle)
  BY DEF Good, Idle, Thread, Places

LEMMA RoundGood ==
    ASSUME NEW n \in Nat, NEW room \in Nat, NEW a \in 0..Boundary - 1
    PROVE  Good(Round(n, room, a))
  <1>1. BufferSize - (a % BufferSize) \in 1..BufferSize
    BY Remainder, SizeFacts
  <1> DEFINE chunk == Less(Less(n, room), BufferSize - (a % BufferSize))
  <1>2. chunk \in Nat /\ chunk <= n /\ chunk <= room /\ chunk <= BufferSize
    BY <1>1, SizeFacts DEF Less
  <1> HIDE DEF chunk
  <1>3. Round(n, room, a) =
          [at |-> IF chunk = 0 THEN "einval" ELSE "copy", size |-> n, avail |-> room,
           frames |-> chunk, appl |-> a, again |-> FALSE]
    BY DEF Round, chunk
  <1> QED
    BY <1>2, <1>3, SizeFacts DEF Good, Thread, Places

LEMMA LoopGood ==
    ASSUME NEW n \in Nat, NEW room \in Nat, NEW h \in 0..Boundary - 1,
           NEW a \in 0..Boundary - 1
    PROVE  Good(Loop(n, room, h, a))
  <1>1. Good(Sleeping(n))
    BY DEF Good, Sleeping, Thread, Places
  <1>2. PlaybackAvail(h, a) \in Nat
    BY AvailType, SizeFacts
  <1>3. Good(Round(n, room, a)) /\ Good(Round(n, PlaybackAvail(h, a), a))
    BY <1>2, RoundGood
  <1> QED
    BY <1>1, <1>3 DEF Loop, WaitForAvail

LEMMA RousedGood ==
    ASSUME thr \in [Threads -> Thread], \A t \in Threads : Good(thr[t])
    PROVE  Roused \in [Threads -> Thread] /\ \A t \in Threads : Good(Roused[t])
  <1>1. ASSUME NEW t \in Threads
        PROVE  Good([thr[t] EXCEPT !.at = "woken"])
    BY DEF Good, Thread, Places
  <1> QED
    BY <1>1 DEF Roused, Good

LEMMA TickedType ==
    ASSUME hw \in Hardware, NEW handled \in BOOLEAN, NEW age \in 0..AgeLimit
    PROVE  Ticked(handled, age) \in Hardware
  BY SizeFacts, ParamsAssumption DEF Hardware, Ticked

\* What an update leaves: valid pointers, and a state of the machine.
LEMMA PositionType ==
    ASSUME TypeOK
    PROVE  Position \in 0..BufferSize - 1
  BY Remainder, SizeFacts DEF TypeOK, Hardware, Position

LEMMA NewPtrType ==
    ASSUME TypeInv, NEW irq \in BOOLEAN
    PROVE  /\ Aligned(NewBase(irq))
           /\ NewBase(irq) \in 0..Boundary - 1
           /\ NewPtr(irq) \in 0..Boundary - 1
           /\ NewInterrupt(irq) \in 0..Boundary - 1
  <1>1. Aligned(NewBase(irq))
    BY NextBaseAligned DEF TypeInv, NewBase
  <1>2. NewBase(irq) \in 0..Boundary - 1 /\ NewPtr(irq) \in 0..Boundary - 1
    BY <1>1, PositionType, SizeFacts DEF TypeInv, NewPtr, Aligned
  <1>3. hw_ptr_interrupt \in 0..Boundary - 1
    BY DEF TypeInv, TypeOK
  <1> DEFINE d == Ahead(NewPtr(irq), hw_ptr_interrupt)
  <1>4. d \in 0..Boundary - 1
    BY <1>2, <1>3, AheadType
  <1> HIDE DEF d
  <1>5. d - (d % PeriodSize) \in 0..d
    BY <1>4, Remainder, SizeFacts
  <1>6. Wrap(hw_ptr_interrupt + (d - (d % PeriodSize))) \in 0..Boundary - 1
    BY <1>3, <1>4, <1>5, SizeFacts, WrapType
  <1> QED
    BY <1>1, <1>2, <1>3, <1>6 DEF NewInterrupt, d

LEMMA UpdateType ==
    ASSUME TypeInv, NEW irq \in BOOLEAN, Update(irq)
    PROVE  /\ state' \in States
           /\ hw_ptr' \in 0..Boundary - 1
           /\ hw_ptr_base' \in 0..Boundary - 1 /\ Aligned(hw_ptr_base')
           /\ hw_ptr_interrupt' \in 0..Boundary - 1
           /\ hw' \in Hardware
  <1>1. hw' \in Hardware
    <2>1. hw \in Hardware /\ hw.age \in 0..AgeLimit /\ 0 \in 0..AgeLimit
      BY SizeFacts DEF TypeInv, TypeOK, Hardware, AgeLimit
    <2> QED
      BY <2>1, TickedType DEF Update
  <1>2. CASE Plausible(irq) /\ NewPtr(irq) # hw_ptr
    BY <1>1, <1>2, NewPtrType DEF TypeInv, TypeOK, Update, StateWith, States
  <1>3. CASE ~ (Plausible(irq) /\ NewPtr(irq) # hw_ptr)
    BY <1>1, <1>3 DEF TypeInv, TypeOK, Update, pointers
  <1> QED
    BY <1>2, <1>3

LEMMA SyncType ==
    ASSUME TypeInv, Sync
    PROVE  /\ state' \in States
           /\ hw_ptr' \in 0..Boundary - 1
           /\ hw_ptr_base' \in 0..Boundary - 1 /\ Aligned(hw_ptr_base')
           /\ hw_ptr_interrupt' \in 0..Boundary - 1
           /\ hw' \in Hardware
  BY UpdateType DEF Sync, TypeInv, TypeOK, pointers

\* Whoever an action rouses, and whatever good it makes of thread t, the
\* threads stay good.
LEMMA ThreadsGood ==
    ASSUME NEW f \in [Threads -> Thread], \A t \in Threads : Good(f[t]),
           NEW u \in Threads, NEW r, Good(r), thr' = [f EXCEPT ![u] = r]
    PROVE  thr' \in [Threads -> Thread] /\ \A t \in Threads : Good(thr'[t])
  BY DEF Good

LEMMA RousedByGood ==
    ASSUME TypeInv, NEW tw
    PROVE  RousedBy(tw) \in [Threads -> Thread] /\ \A t \in Threads : Good(RousedBy(tw)[t])
  BY RousedGood DEF RousedBy, TypeInv, TypeOK

\* A thread that only moves to another place where it copies nothing.
LEMMA MovedGood ==
    ASSUME TypeInv, NEW u \in Threads, NEW place \in Places \ {"copy"},
           thr' = [thr EXCEPT ![u].at = place]
    PROVE  thr' \in [Threads -> Thread] /\ \A t \in Threads : Good(thr'[t])
  <1>1. thr \in [Threads -> Thread] /\ \A t \in Threads : Good(thr[t])
    BY DEF TypeInv, TypeOK
  <1>2. thr[u] \in Thread
    BY <1>1
  <1>3. Good([thr[u] EXCEPT !.at = place])
    BY <1>2 DEF Good, Thread
  <1>4. thr' = [thr EXCEPT ![u] = [thr[u] EXCEPT !.at = place]]
    OBVIOUS
  <1> QED
    BY <1>1, <1>3, <1>4, ThreadsGood

LEMMA IdledGood ==
    ASSUME TypeInv, NEW u \in Threads, thr' = [thr EXCEPT ![u] = Idle]
    PROVE  thr' \in [Threads -> Thread] /\ \A t \in Threads : Good(thr'[t])
  BY IdleGood, ThreadsGood DEF TypeInv, TypeOK

LEMMA LessType ==
    ASSUME NEW a \in Int, NEW b \in Int
    PROVE  /\ Less(a, b) \in Int /\ Less(a, b) <= a /\ Less(a, b) <= b
           /\ a >= 0 /\ b >= 0 => Less(a, b) \in Nat
  BY DEF Less

LEMMA TypeInvInit == Init => TypeInv
  <1> SUFFICES ASSUME Init PROVE TypeInv
    OBVIOUS
  <1>1. Aligned(0)
    <2>1. 0 = 0 * BufferSize
      BY SizeFacts
    <2> QED
      BY <2>1, SizeFacts DEF Aligned
  <1>2. TypeOK
    BY SizeFacts, ParamsAssumption, IdleGood DEF Init, TypeOK, Good, Hardware, AgeLimit, States
  <1> QED
    BY <1>1, <1>2, IdleGood DEF Init, TypeInv

\* The sum of a pointer and at most a buffer's worth of frames wraps at most
\* once.
LEMMA MovedPtrType ==
    ASSUME NEW a \in 0..Boundary - 1, NEW n \in Nat, n <= Boundary
    PROVE  Wrap(a + n) \in 0..Boundary - 1
  BY SizeFacts, WrapType

LEMMA PlayType == TypeInv /\ Play => TypeInv'
  <1> SUFFICES ASSUME TypeInv, Play PROVE TypeInv'
    OBVIOUS
  <1>1. hw \in Hardware /\ hw.at \in 0..Boundary - 1 /\ hw.irq \in 0..MaxLate + 1
          /\ hw.age \in 0..AgeLimit
    BY DEF TypeInv, TypeOK, Hardware
  <1>2. Wrap(hw.at + 1) \in 0..Boundary - 1
    BY <1>1, SizeFacts, MovedPtrType
  <1>3. Less(hw.age + 1, AgeLimit) \in 0..AgeLimit
    BY <1>1, SizeFacts DEF Less, AgeLimit
  <1>4. hw' \in Hardware
    BY <1>1, <1>2, <1>3, ParamsAssumption DEF Play, Hardware
  <1> QED
    BY <1>4 DEF Play, TypeInv, TypeOK, pointers

LEMMA PeriodElapsedType == TypeInv /\ PeriodElapsed => TypeInv'
  <1> SUFFICES ASSUME TypeInv, PeriodElapsed PROVE TypeInv'
    OBVIOUS
  <1>1. thr' \in [Threads -> Thread] /\ \A t \in Threads : Good(thr'[t])
    BY RousedByGood DEF PeriodElapsed
  <1>2. CASE Running(state)
    BY <1>1, <1>2, UpdateType DEF PeriodElapsed, TypeInv, TypeOK
  <1>3. CASE ~ Running(state)
    <2>1. hw' \in Hardware
      BY <1>3, TickedType DEF PeriodElapsed, TypeInv, TypeOK, Hardware
    <2> QED
      BY <1>1, <1>3, <2>1 DEF PeriodElapsed, TypeInv, TypeOK, pointers
  <1> QED
    BY <1>2, <1>3

LEMMA WriterStepType ==
    ASSUME TypeInv, NEW t \in Writers, WriterStep(t)
    PROVE  TypeInv'
  <1>t. t \in Threads
    BY ThreadsAssumption
  <1>f. /\ thr \in [Threads -> Thread] /\ \A u \in Threads : Good(thr[u])
        /\ thr[t] \in Thread /\ Good(thr[t])
        /\ appl_ptr \in 0..Boundary - 1 /\ hw_ptr \in 0..Boundary - 1 /\ twake \in Nat
        /\ AvailMin \in Nat /\ Sizes \subseteq Nat
    BY <1>t, ParamsAssumption DEF TypeInv, TypeOK, Sizes
  <1>1. ASSUME NEW n \in Sizes, Write(t, n) PROVE TypeInv'
    <2> DEFINE room == PlaybackAvail(hw_ptr', appl_ptr)
    <2>1. /\ state' \in States /\ hw_ptr' \in 0..Boundary - 1
          /\ hw_ptr_base' \in 0..Boundary - 1 /\ Aligned(hw_ptr_base')
          /\ hw_ptr_interrupt' \in 0..Boundary - 1 /\ hw' \in Hardware
      BY <1>1, SyncType DEF Write
    <2>2. room \in Nat /\ n \in Nat
      <3>1. room \in 0..Boundary - 1
        BY <1>f, <2>1, AvailType
      <3>2. n \in Nat
        BY <1>f
      <3> QED
        BY <3>1, <3>2, SizeFacts
    <2>3. Good(Loop(n, room, hw_ptr', appl_ptr))
      BY <1>f, <2>1, <2>2, LoopGood
    <2>4. thr' = [RousedBy(AvailMin) EXCEPT ![t] = Loop(n, room, hw_ptr', appl_ptr)]
      BY <1>1 DEF Write
    <2>5. thr' \in [Threads -> Thread] /\ \A u \in Threads : Good(thr'[u])
      BY <1>t, <2>3, <2>4, RousedByGood, ThreadsGood
    <2>6. twake' \in Nat
      BY <1>1, <1>f, <2>2, LessType DEF Write, TwakeFor
    <2>7. appl_ptr' = appl_ptr
      BY <1>1 DEF Write
    <2> QED
      BY <1>f, <2>1, <2>5, <2>6, <2>7 DEF TypeInv, TypeOK
  <1>2. ASSUME WriteAgain(t) PROVE TypeInv'
    <2>1. /\ state' \in States /\ hw_ptr' \in 0..Boundary - 1
          /\ hw_ptr_base' \in 0..Boundary - 1 /\ Aligned(hw_ptr_base')
          /\ hw_ptr_interrupt' \in 0..Boundary - 1 /\ hw' \in Hardware
      BY <1>2, SyncType DEF WriteAgain
    <2>2. thr' = [RousedBy(AvailMin) EXCEPT ![t] = Idle]
      BY <1>2 DEF WriteAgain
    <2>3. thr' \in [Threads -> Thread] /\ \A u \in Threads : Good(thr'[u])
      BY <1>t, <2>2, IdleGood, RousedByGood, ThreadsGood
    <2> QED
      BY <1>2, <1>f, <2>1, <2>3 DEF WriteAgain, TypeInv, TypeOK
  <1>3. ASSUME Commit(t) PROVE TypeInv'
    <2> DEFINE left == thr[t].size - thr[t].frames
               room == thr[t].avail - thr[t].frames
               starts == state = "PREPARED" /\ HwAvail(hw_ptr, appl_ptr') >= StartThreshold
               started == IF starts THEN "RUNNING" ELSE state
    <2>1. /\ left \in Nat /\ room \in Nat /\ thr[t].frames \in Nat
          /\ thr[t].frames <= BufferSize /\ thr[t].appl \in 0..Boundary - 1
      BY <1>3, <1>f, SizeFacts DEF Commit, Copied, Good, Thread
    <2>2. appl_ptr' \in 0..Boundary - 1
      BY <1>3, <2>1, MovedPtrType, SizeFacts DEF Commit
    <2>3. started \in States
      BY DEF TypeInv, TypeOK, States
    <2>4. hw' \in Hardware
      <3>1. hw \in Hardware /\ 0 \in 0..AgeLimit
        BY SizeFacts DEF TypeInv, TypeOK, AgeLimit
      <3> QED
        BY <1>3, <3>1, TickedType DEF Commit
    <2>5. state' \in States /\ twake' \in Nat
      <3>1. state' \in {started, StateWith(started, PlaybackAvail(hw_ptr, appl_ptr'))}
        BY <1>3 DEF Commit
      <3>2. twake' \in {0, TwakeFor(left, room, twake)}
        BY <1>3 DEF Commit
      <3>3. TwakeFor(left, room, twake) \in Nat
        <4>1. Less(left, AvailMin) \in {left, AvailMin}
          BY DEF Less
        <4> QED
          BY <1>f, <2>1, <4>1 DEF TwakeFor
      <3> QED
        BY <2>3, <3>1, <3>2, <3>3 DEF StateWith, States
    <2>6. thr' \in [Threads -> Thread] /\ \A u \in Threads : Good(thr'[u])
      <3>1. Good(Loop(left, room, hw_ptr, appl_ptr'))
        BY <1>f, <2>1, <2>2, LoopGood
      <3>2. \/ thr' = [thr EXCEPT ![t] = Loop(left, room, hw_ptr, appl_ptr')]
            \/ thr' = [thr EXCEPT ![t] = Idle]
            \/ thr' = [Roused EXCEPT ![t] = Idle]
        BY <1>3 DEF Commit
      <3>3. Roused \in [Threads -> Thread] /\ \A u \in Threads : Good(Roused[u])
        BY <1>f, RousedGood
      <3> QED
        BY <1>t, <1>f, <3>1, <3>2, <3>3, IdleGood, ThreadsGood
    <2> QED
      BY <1>3, <2>2, <2>4, <2>5, <2>6 DEF Commit, TypeInv, TypeOK, pointers
  <1>4. ASSUME WriteFails(t) \/ WakeToFail(t) \/ WaitSignal(t) \/ WaitTimeout(t)
        PROVE  TypeInv'
    <2>1. /\ thr' = [thr EXCEPT ![t] = Idle] /\ twake' = 0
          /\ UNCHANGED <<state, appl_ptr, pointers, hw>>
      BY <1>4 DEF WriteFails, WakeToFail, WaitSignal, WaitTimeout
    <2> QED
      BY <1>t, <2>1, IdledGood DEF TypeInv, TypeOK, pointers
  <1>5. ASSUME WakeToWrite(t) PROVE TypeInv'
    <2> DEFINE room == PlaybackAvail(hw_ptr, appl_ptr)
    <2>1. room \in Nat /\ thr[t].size \in Nat
      <3>1. room \in 0..Boundary - 1
        BY <1>f, AvailType
      <3>2. thr[t].size \in Nat
        BY <1>f DEF Thread
      <3> QED
        BY <3>1, <3>2, SizeFacts
    <2>2. Good(Round(thr[t].size, room, appl_ptr))
      BY <1>f, <2>1, RoundGood
    <2>3. \/ thr' = [thr EXCEPT ![t] = Round(thr[t].size, room, appl_ptr)]
          \/ thr' = [thr EXCEPT ![t].at = "asleep"]
      BY <1>5 DEF WakeToWrite
    <2>4. thr' \in [Threads -> Thread] /\ \A u \in Threads : Good(thr'[u])
      <3>1. "asleep" \in Places \ {"copy"}
        BY DEF Places
      <3> QED
        BY <1>t, <1>f, <2>2, <2>3, <3>1, ThreadsGood, MovedGood
    <2>5. twake' \in Nat
      BY <1>5, <1>f DEF WakeToWrite
    <2> QED
      BY <1>5, <2>4, <2>5 DEF WakeToWrite, TypeInv, TypeOK, pointers
  <1> QED
    BY <1>1, <1>2, <1>3, <1>4, <1>5 DEF WriterStep

LEMMA CallerStepType ==
    ASSUME TypeInv, NEW t \in Callers, CallerStep(t)
    PROVE  TypeInv'
  <1>t. t \in Threads
    BY ThreadsAssumption
  <1>f. /\ state \in States /\ twake \in Nat
        /\ thr \in [Threads -> Thread] /\ (\A u \in Threads : Good(thr[u]))
        /\ appl_ptr \in 0..Boundary - 1 /\ hw_ptr \in 0..Boundary - 1
        /\ hw_ptr_base \in 0..Boundary - 1 /\ hw_ptr_interrupt \in 0..Boundary - 1
        /\ hw \in Hardware /\ hw.age \in 0..AgeLimit /\ Aligned(hw_ptr_base)
        /\ 0 \in 0..AgeLimit /\ AgeLimit \in 0..AgeLimit /\ Sizes \subseteq Nat
    BY SizeFacts, ParamsAssumption DEF TypeInv, TypeOK, Hardware, AgeLimit, Sizes
  <1>r. Roused \in [Threads -> Thread] /\ \A u \in Threads : Good(Roused[u])
    BY <1>f, RousedGood
  <1>1. ASSUME Start(t) PROVE TypeInv'
    <2>1. hw' \in Hardware
      BY <1>1, <1>f, TickedType DEF Start
    <2> QED
      BY <1>1, <1>f, <2>1 DEF Start, TypeInv, TypeOK, States, pointers
  <1>2. ASSUME HwSync(t) PROVE TypeInv'
    BY <1>2, <1>f, UpdateType, RousedByGood DEF HwSync, TypeInv, TypeOK
  <1>3. ASSUME Push(t) PROVE TypeInv'
    <2>1. hw' \in Hardware
      BY <1>3, <1>f, TickedType DEF Push
    <2>2. /\ hw_ptr' \in 0..Boundary - 1
          /\ hw_ptr_base' \in 0..Boundary - 1 /\ Aligned(hw_ptr_base')
      BY <1>3, <1>f, NewPtrType DEF Push
    <2> QED
      BY <1>3, <1>f, <1>r, <2>1, <2>2 DEF Push, TypeInv, TypeOK, States
  <1>4. ASSUME Release(t) PROVE TypeInv'
    <2>1. hw' \in Hardware
      BY <1>4, <1>f, TickedType DEF Release
    <2> QED
      BY <1>4, <1>f, <2>1 DEF Release, TypeInv, TypeOK, States, pointers
  <1>5. ASSUME Drop(t) PROVE TypeInv'
    <2>1. hw' \in Hardware
      BY <1>5, <1>f, TickedType DEF Drop
    <2> QED
      BY <1>5, <1>f, <1>r, <2>1 DEF Drop, TypeInv, TypeOK, States, pointers
  <1>6. ASSUME Drain(t) PROVE TypeInv'
    <2>1. hw' \in Hardware
      BY <1>6, <1>f, TickedType DEF Drain
    <2> QED
      BY <1>6, <1>f, <2>1 DEF Drain, TypeInv, TypeOK, States, pointers
  <1>7. ASSUME NEW n \in Sizes, Rewind(t, n) PROVE TypeInv'
    <2>1. /\ state' \in States /\ hw_ptr' \in 0..Boundary - 1
          /\ hw_ptr_base' \in 0..Boundary - 1 /\ Aligned(hw_ptr_base')
          /\ hw_ptr_interrupt' \in 0..Boundary - 1 /\ hw' \in Hardware
      BY <1>7, SyncType DEF Rewind
    <2> DEFINE room == PlaybackAvail(hw_ptr', appl_ptr)
               back == Less(n, HwAvail(hw_ptr', appl_ptr))
    <2>2. room \in 0..Boundary - 1
      BY <1>f, <2>1, AvailType
    <2>3. back \in Int /\ back <= BufferSize
      <3>1. HwAvail(hw_ptr', appl_ptr) \in Int /\ HwAvail(hw_ptr', appl_ptr) <= BufferSize
        BY <2>2, SizeFacts DEF HwAvail
      <3>2. n \in Int
        BY <1>f
      <3> QED
        BY <3>1, <3>2, LessType, SizeFacts
    <2>4. appl_ptr' = IF state' # state \/ back <= 0 THEN appl_ptr
                      ELSE IF appl_ptr < back THEN appl_ptr - back + Boundary
                      ELSE appl_ptr - back
      BY <1>7 DEF Rewind
    <2> HIDE DEF back
    <2>5. appl_ptr' \in 0..Boundary - 1
      BY <1>f, <2>3, <2>4, SizeFacts
    <2> QED
      BY <1>7, <1>f, <2>1, <2>5, RousedByGood DEF Rewind, TypeInv, TypeOK
  <1>8. ASSUME NEW n \in Sizes, Forward(t, n) PROVE TypeInv'
    <2>1. /\ state' \in States /\ hw_ptr' \in 0..Boundary - 1
          /\ hw_ptr_base' \in 0..Boundary - 1 /\ Aligned(hw_ptr_base')
          /\ hw_ptr_interrupt' \in 0..Boundary - 1 /\ hw' \in Hardware
      BY <1>8, SyncType DEF Forward
    <2> DEFINE room  == PlaybackAvail(hw_ptr', appl_ptr)
               ahead == Less(n, room)
    <2>2. room \in 0..Boundary - 1
      BY <1>f, <2>1, AvailType
    <2>3. ahead \in Nat /\ ahead <= Boundary
      BY <1>f, <2>2, SizeFacts, n \in Nat DEF Less
    <2>4. Wrap(appl_ptr + ahead) \in 0..Boundary - 1
      BY <1>f, <2>3, MovedPtrType
    <2>5. appl_ptr' \in 0..Boundary - 1
      BY <1>8, <1>f, <2>4 DEF Forward
    <2> QED
      BY <1>8, <1>f, <2>1, <2>5, RousedByGood DEF Forward, TypeInv, TypeOK
  <1>p. Position \in 0..BufferSize - 1 /\ Position \in 0..Boundary - 1
    BY PositionType, SizeFacts DEF TypeInv
  <1>b. Good(Resets(TRUE)) /\ Good(Resets(FALSE))
    BY DEF Good, Resets, Thread, Places
  <1>h. ASSUME NEW at \in 0..Boundary - 1, NEW age \in 0..AgeLimit
        PROVE  Placed(at, age) \in Hardware
    BY <1>f DEF Placed, Hardware
  <1>9. ASSUME ResetPtr(t) PROVE TypeInv'
    <2>1. CASE state = "RUNNING"
      <3> DEFINE h == IF Plausible(FALSE) THEN NewPtr(FALSE) ELSE hw_ptr
                 s == IF h = hw_ptr THEN state ELSE StateWith(state, PlaybackAvail(h, appl_ptr))
      <3>1. /\ state' = s
            /\ hw_ptr' = IF s = "XRUN" THEN 0 ELSE h % BufferSize
            /\ hw_ptr_base' = IF h = hw_ptr THEN hw_ptr_base ELSE NewBase(FALSE)
            /\ hw' = Placed(Position, IF h = hw_ptr THEN hw.age ELSE 0)
            /\ thr' = [(IF s # state THEN Roused ELSE thr) EXCEPT ![t] = Resets(FALSE)]
        BY <1>9, <2>1 DEF ResetPtr
      <3>2. h \in 0..Boundary - 1
        BY <1>f, NewPtrType
      <3>3. s \in States
        BY <1>f DEF StateWith, States
      <3> HIDE DEF h, s
      <3>4. h % BufferSize \in 0..BufferSize - 1
        BY <3>2, Remainder, SizeFacts
      <3>5. hw_ptr' \in 0..Boundary - 1
        BY <3>1, <3>4, SizeFacts
      <3>6. hw_ptr_base' \in 0..Boundary - 1 /\ Aligned(hw_ptr_base')
        BY <1>f, <3>1, NewPtrType
      <3>7. hw' \in Hardware
        BY <1>f, <1>p, <1>h, <3>1
      <3>8. thr' \in [Threads -> Thread] /\ \A u \in Threads : Good(thr'[u])
        BY <1>t, <1>f, <1>r, <1>b, <3>1, ThreadsGood
      <3> QED
        BY <1>9, <1>f, <3>1, <3>3, <3>5, <3>6, <3>7, <3>8 DEF ResetPtr, TypeInv, TypeOK
    <2>2. CASE state # "RUNNING"
      <3>1. hw' \in Hardware
        BY <1>9, <2>2, <1>f, <1>p, <1>h DEF ResetPtr
      <3>2. thr' \in [Threads -> Thread] /\ \A u \in Threads : Good(thr'[u])
        BY <1>9, <2>2, <1>t, <1>f, <1>b, ThreadsGood DEF ResetPtr
      <3> QED
        BY <1>9, <2>2, <1>f, <3>1, <3>2, SizeFacts DEF ResetPtr, TypeInv, TypeOK
    <2> QED
      BY <2>1, <2>2
  <1>10. ASSUME Prepare(t) PROVE TypeInv'
    <2>1. hw' \in Hardware /\ 0 \in 0..Boundary - 1
      BY <1>10, <1>f, <1>h, SizeFacts DEF Prepare
    <2>2. thr' \in [Threads -> Thread] /\ \A u \in Threads : Good(thr'[u])
      BY <1>10, <1>t, <1>f, <1>b, ThreadsGood DEF Prepare
    <2> QED
      BY <1>10, <1>f, <2>1, <2>2 DEF Prepare, TypeInv, TypeOK
  <1>11. ASSUME ResetBase(t) PROVE TypeInv'
    <2>1. hw_ptr - (hw_ptr % PeriodSize) \in 0..Boundary - 1
      <3>1. hw_ptr - (hw_ptr % PeriodSize) \in 0..hw_ptr
        BY <1>f, Remainder, SizeFacts
      <3> QED
        BY <1>f, <3>1, SizeFacts
    <2>2. Aligned(0) /\ 0 \in 0..Boundary - 1
      <3>1. 0 = 0 * BufferSize
        BY SizeFacts
      <3> QED
        BY <3>1, SizeFacts DEF Aligned
    <2>3. thr' \in [Threads -> Thread] /\ \A u \in Threads : Good(thr'[u])
      BY <1>11, <1>t, "appl" \in Places \ {"copy"}, MovedGood DEF ResetBase, Places
    <2> QED
      BY <1>11, <1>f, <2>1, <2>2, <2>3 DEF ResetBase, TypeInv, TypeOK
  <1>12. ASSUME ResetAppl(t) PROVE TypeInv'
    <2>1. thr' \in [Threads -> Thread] /\ \A u \in Threads : Good(thr'[u])
      BY <1>12, <1>t, IdledGood DEF ResetAppl
    <2> QED
      BY <1>12, <1>f, <2>1 DEF ResetAppl, TypeInv, TypeOK, States, pointers
  <1> QED
    BY <1>1, <1>2, <1>3, <1>4, <1>5, <1>6, <1>7, <1>8, <1>9, <1>10, <1>11, <1>12
    DEF CallerStep

LEMMA TypeInvNext == TypeInv /\ [Next]_vars => TypeInv'
  <1> SUFFICES ASSUME TypeInv, [Next]_vars PROVE TypeInv'
    OBVIOUS
  <1>1. CASE Next
    BY <1>1, PlayType, PeriodElapsedType, WriterStepType, CallerStepType DEF Next
  <1>2. CASE UNCHANGED vars
    BY <1>2 DEF vars, TypeInv, TypeOK
  <1> QED
    BY <1>1, <1>2

\* Every pointer stays below the boundary and every variable in its type, for
\* any number of threads and any sizes: what snd_pcm_update_hw_ptr0, write1,
\* rewind and forward wrap at the boundary wraps in time.
THEOREM TypeCorrect == Spec => []TypeOK
  <1>1. TypeInv => TypeOK
    BY DEF TypeInv
  <1> QED
    BY <1>1, TypeInvInit, TypeInvNext, PTL DEF Spec

(***************************************************************************)
(* The ring is not overrun.  The argument is for an application with one   *)
(* thread that neither pauses nor resets a running substream (the runs     *)
(* show what two threads, a pause and a reset can do).  What the thread    *)
(* remembers of appl_ptr is then still so when it has copied, and what it  *)
(* remembers of the room is a lower bound, since hw_ptr only goes forward. *)
(***************************************************************************)
Sequential == /\ \A t, u \in Threads : t = u
              /\ Calls \cap {"pause", "reset"} = {}

Armed(s) == s \in {"PREPARED", "RUNNING", "DRAINING"}

Room == PlaybackAvail(hw_ptr, appl_ptr)

\* A thread between two rounds knows the end of the data, and has room for
\* its chunk; one that prepares the substream does so while it is stopped.
Current(r) == /\ r.at = "copy" => r.appl = appl_ptr /\ (Armed(state) => r.avail <= Room)
              /\ r.at \in {"base", "appl"} => ~ Running(state)

RingInv == /\ TypeInv
           /\ state # "PAUSED"
           /\ RingNotOverrun
           /\ \A t \in Threads : Current(thr[t])

\* The room grows by what hw_ptr advances, unless the sum reaches the boundary.
LEMMA RoomAfterAdvance ==
    ASSUME NEW h \in 0..Boundary - 1, NEW g \in 0..Boundary - 1, NEW a \in 0..Boundary - 1,
           PlaybackAvail(h, a) + Ahead(g, h) < Boundary
    PROVE  PlaybackAvail(g, a) = PlaybackAvail(h, a) + Ahead(g, h)
  BY SizeFacts DEF PlaybackAvail, Ahead

\* A write into the room takes its frames from the room, also at the boundary.
LEMMA RoomAfterWrite ==
    ASSUME NEW h \in 0..Boundary - 1, NEW a \in 0..Boundary - 1, NEW n \in Nat,
           n <= PlaybackAvail(h, a)
    PROVE  PlaybackAvail(h, Wrap(a + n)) = PlaybackAvail(h, a) - n
  BY SizeFacts DEF PlaybackAvail, Wrap

\* A rewind over queued frames gives their room back.
LEMMA RoomAfterRewind ==
    ASSUME NEW h \in 0..Boundary - 1, NEW a \in 0..Boundary - 1, NEW n \in Nat,
           PlaybackAvail(h, a) + n <= BufferSize
    PROVE  PlaybackAvail(h, IF a < n THEN a - n + Boundary ELSE a - n)
             = PlaybackAvail(h, a) + n
  BY SizeFacts DEF PlaybackAvail

LEMMA RoomWhenEmpty ==
    ASSUME NEW h \in 0..Boundary - 1
    PROVE  PlaybackAvail(h, h) = BufferSize
  BY SizeFacts DEF PlaybackAvail

\* The room after an update, before appl_ptr has moved.
RoomAfter == PlaybackAvail(hw_ptr', appl_ptr)

\* An update that leaves the substream armed has kept its state, and the room
\* has not shrunk and is at most the buffer.
LEMMA UpdateRoom ==
    ASSUME TypeInv, Armed(state), Room <= BufferSize, NEW irq \in BOOLEAN, Update(irq)
    PROVE  /\ state' # "PAUSED"
           /\ Armed(state') => state' = state /\ Room <= RoomAfter /\ RoomAfter <= BufferSize
  <1>1. CASE Plausible(irq) /\ NewPtr(irq) # hw_ptr
    <2>1. hw_ptr' = NewPtr(irq) /\ hw_ptr' \in 0..Boundary - 1
      BY <1>1, NewPtrType DEF Update
    <2>2. hw_ptr \in 0..Boundary - 1 /\ appl_ptr \in 0..Boundary - 1
      BY DEF TypeInv, TypeOK
    <2>3. Ahead(hw_ptr', hw_ptr) \in Nat /\ Ahead(hw_ptr', hw_ptr) < BufferSize + PeriodSize
      BY <1>1, <2>1, <2>2, AheadType, SizeFacts DEF Plausible
    <2>4. Room \in 0..Boundary - 1
      BY <2>2, AvailType DEF Room
    <2>5. Room + Ahead(hw_ptr', hw_ptr) < Boundary
      BY <2>3, <2>4, SizeFacts
    <2>6. RoomAfter = Room + Ahead(hw_ptr', hw_ptr)
      BY <2>1, <2>2, <2>5, RoomAfterAdvance DEF Room, RoomAfter
    <2>7. state' = StateWith(state, RoomAfter)
      BY <1>1 DEF Update, RoomAfter
    <2> HIDE DEF Room, RoomAfter
    <2>8. Room <= RoomAfter
      BY <2>3, <2>4, <2>6
    <2>9. CASE RoomAfter < BufferSize
      BY <2>3, <2>4, <2>6, <2>7, <2>8, <2>9, SizeFacts DEF StateWith, Armed
    <2>10. CASE ~ (RoomAfter < BufferSize)
      BY <2>7, <2>10 DEF StateWith, Armed
    <2> QED
      BY <2>9, <2>10
  <1>2. CASE ~ (Plausible(irq) /\ NewPtr(irq) # hw_ptr)
    <2>1. RoomAfter = Room /\ state' = state
      BY <1>2 DEF Update, pointers, Room, RoomAfter
    <2>2. Room \in 0..Boundary - 1
      BY AvailType DEF Room, TypeInv, TypeOK
    <2> QED
      BY <2>1, <2>2, SizeFacts DEF Armed
  <1> QED
    BY <1>1, <1>2

\* The same of the update inside a call.
LEMMA SyncRoom ==
    ASSUME TypeInv, Armed(state), Room <= BufferSize, Sync
    PROVE  /\ state' # "PAUSED"
           /\ Armed(state') => state' = state /\ Room <= RoomAfter /\ RoomAfter <= BufferSize
  <1>1. CASE Running(state)
    BY <1>1, UpdateRoom DEF Sync
  <1>2. CASE ~ Running(state)
    <2>1. RoomAfter = Room /\ state' = state
      BY <1>2 DEF Sync, pointers, Room, RoomAfter
    <2>2. Room \in 0..Boundary - 1
      BY AvailType DEF Room, TypeInv, TypeOK
    <2> QED
      BY <2>1, <2>2, SizeFacts DEF Armed
  <1> QED
    BY <1>1, <1>2

LEMMA RingInvInit == Init => RingInv
  BY TypeInvInit, IdleGood, RoomWhenEmpty, SizeFacts
  DEF Init, RingInv, RingNotOverrun, Current, Idle

\* What the sequential application has to show of a step.
LEMMA Armedness ==
    ASSUME RingInv
    PROVE  /\ TypeInv /\ state # "PAUSED" /\ state \in States
           /\ hw_ptr \in 0..Boundary - 1 /\ appl_ptr \in 0..Boundary - 1
           /\ Room \in 0..Boundary - 1
           /\ Running(state) => Armed(state)
           /\ Armed(state) /\ ~ Resetting => Room <= BufferSize
  BY AvailType DEF RingInv, RingNotOverrun, TypeInv, TypeOK, Room, Running, Armed

LEMMA PlayRing == RingInv /\ Play => RingInv'
  <1> SUFFICES ASSUME RingInv, Play PROVE RingInv'
    OBVIOUS
  <1>1. TypeInv'
    BY PlayType DEF RingInv
  <1> QED
    BY <1>1 DEF RingInv, Play, RingNotOverrun, Resetting, Current, Room, pointers

\* Rousing a thread changes neither what it copies nor what it resets.
LEMMA RousedSame ==
    ASSUME NEW tw, NEW t \in Threads, thr \in [Threads -> Thread]
    PROVE  \/ RousedBy(tw)[t] = thr[t]
           \/ RousedBy(tw)[t].at = "woken" /\ thr[t].at = "asleep"
  BY DEF RousedBy, Roused, Thread

LEMMA PeriodElapsedRing == RingInv /\ PeriodElapsed => RingInv'
  <1> SUFFICES ASSUME RingInv, PeriodElapsed PROVE RingInv'
    OBVIOUS
  <1>1. TypeInv'
    BY PeriodElapsedType DEF RingInv
  <1>2. thr \in [Threads -> Thread] /\ thr' = RousedBy(twake) /\ appl_ptr' = appl_ptr
    BY DEF RingInv, TypeInv, TypeOK, PeriodElapsed
  <1>3. \A t \in Threads : thr'[t] = thr[t] \/ (thr'[t].at = "woken" /\ thr[t].at = "asleep")
    BY <1>2, RousedSame
  <1>4. CASE Running(state)
    <2>1. ~ Resetting
      BY <1>4 DEF RingInv, Current, Resetting
    <2>2. Room <= BufferSize /\ Armed(state)
      BY <1>4, <2>1, Armedness
    <2>3. /\ state' # "PAUSED"
          /\ Armed(state') => state' = state /\ Room <= RoomAfter /\ RoomAfter <= BufferSize
      BY <1>4, <2>2, Armedness, UpdateRoom DEF PeriodElapsed
    <2>4. RoomAfter = Room'
      BY <1>2 DEF Room, RoomAfter
    <2>5. RingNotOverrun'
      BY <2>3, <2>4 DEF RingNotOverrun, Room, Armed
    <2>6. Room' \in Int /\ Room \in Int
      BY <1>1, AvailType, Armedness DEF TypeInv, TypeOK, Room
    <2>7. ASSUME NEW t \in Threads PROVE Current(thr[t])'
      <3>1. thr'[t].at \notin {"base", "appl"}
        BY <1>3, <2>1 DEF Resetting
      <3>2. ASSUME thr'[t].at = "copy", Armed(state')
            PROVE  thr'[t].avail <= Room'
        <4>1. thr'[t] = thr[t] /\ thr[t].avail <= Room /\ thr[t].avail \in Int
          BY <1>2, <1>3, <2>2, <3>2 DEF RingInv, Current, Thread
        <4> QED
          BY <2>3, <2>4, <2>6, <3>2, <4>1
      <3>3. thr'[t].at = "copy" => thr'[t].appl = appl_ptr'
        BY <1>2, <1>3 DEF RingInv, Current
      <3> QED
        BY <3>1, <3>2, <3>3 DEF Current
    <2> QED
      BY <1>1, <2>3, <2>5, <2>7 DEF RingInv
  <1>5. CASE ~ Running(state)
    <2>1. UNCHANGED <<state, hw_ptr, appl_ptr>>
      BY <1>2, <1>5 DEF PeriodElapsed, pointers
    <2>2. Resetting' = Resetting
      BY <1>3 DEF Resetting
    <2>3. RingNotOverrun'
      BY <2>1, <2>2 DEF RingInv, RingNotOverrun
    <2>4. ASSUME NEW t \in Threads PROVE Current(thr[t])'
      BY <1>3, <2>1 DEF RingInv, Current, Room
    <2> QED
      BY <1>1, <2>1, <2>3, <2>4 DEF RingInv
  <1> QED
    BY <1>4, <1>5

LEMMA RoundCurrent ==
    ASSUME NEW n, NEW room, NEW a
    PROVE  /\ Round(n, room, a).at \in {"copy", "einval"}
           /\ Round(n, room, a).appl = a /\ Round(n, room, a).avail = room
  BY DEF Round

LEMMA LoopCurrent ==
    ASSUME NEW n, NEW room, NEW h, NEW a
    PROVE  LET r == Loop(n, room, h, a)
           IN /\ r.at \in {"copy", "einval", "asleep"}
              /\ r.at = "copy" => r.appl = a /\ r.avail \in {room, PlaybackAvail(h, a)}
  BY RoundCurrent DEF Loop, WaitForAvail, Sleeping

\* With one thread, what that thread does is all that has to be shown.
LEMMA OnlyThread ==
    ASSUME Sequential, NEW t \in Threads, TypeInv', state' # "PAUSED",
           thr'[t].at \notin {"base", "appl"} /\ Armed(state') => Room' <= BufferSize,
           Current(thr[t])'
    PROVE  RingInv'
  BY DEF Sequential, RingInv, RingNotOverrun, Resetting, Armed, Room

LEMMA WriterStepRing ==
    ASSUME RingInv, Sequential, NEW t \in Writers, WriterStep(t)
    PROVE  RingInv'
  <1>t. t \in Threads /\ TypeInv' /\ thr \in [Threads -> Thread]
    BY ThreadsAssumption, WriterStepType DEF RingInv, TypeInv, TypeOK
  <1>r. thr[t].at \notin {"base", "appl"} => ~ Resetting
    BY <1>t DEF Sequential, Resetting
  <1>1. ASSUME NEW n \in Sizes, Write(t, n) PROVE RingInv'
    <2>1. Armed(state) /\ Room <= BufferSize
      BY <1>1, <1>r, Armedness DEF Write, AtRest, Armed
    <2>2. /\ state' # "PAUSED"
          /\ Armed(state') => RoomAfter <= BufferSize
      BY <1>1, <2>1, Armedness, SyncRoom DEF Write
    <2>3. Room' = RoomAfter
      BY <1>1 DEF Write, Room, RoomAfter
    <2> DEFINE r == Loop(n, RoomAfter, hw_ptr', appl_ptr)
    <2>4. thr'[t] = r
      BY <1>1, <1>t, RousedByGood DEF Write, RoomAfter, RingInv
    <2>5. /\ r.at \in {"copy", "einval", "asleep"}
          /\ r.at = "copy" => r.appl = appl_ptr /\ r.avail = RoomAfter
      BY LoopCurrent DEF RoomAfter
    <2>6. RoomAfter \in Int
      BY <1>t, <2>3, AvailType DEF TypeInv, TypeOK, Room
    <2> HIDE DEF r
    <2>7. Current(thr[t])'
      <3>1. appl_ptr' = appl_ptr
        BY <1>1 DEF Write
      <3> QED
        BY <2>3, <2>4, <2>5, <2>6, <3>1 DEF Current
    <2> QED
      BY <1>t, <2>2, <2>3, <2>7, OnlyThread
  <1>2. ASSUME WriteAgain(t) PROVE RingInv'
    <2>1. Armed(state) /\ Room <= BufferSize
      BY <1>2, <1>r, Armedness DEF WriteAgain, AtRest, Armed
    <2>2. /\ state' # "PAUSED"
          /\ Armed(state') => RoomAfter <= BufferSize
      BY <1>2, <2>1, Armedness, SyncRoom DEF WriteAgain
    <2>3. Room' = RoomAfter
      BY <1>2 DEF WriteAgain, Room, RoomAfter
    <2>4. thr'[t] = Idle
      BY <1>2, <1>t, RousedByGood DEF WriteAgain, RingInv
    <2>5. Current(thr[t])'
      BY <2>4 DEF Current, Idle
    <2> QED
      BY <1>t, <2>2, <2>3, <2>5, OnlyThread
  <1>3. ASSUME Commit(t) PROVE RingInv'
    <2> DEFINE left == thr[t].size - thr[t].frames
               room == thr[t].avail - thr[t].frames
               starts == state = "PREPARED" /\ HwAvail(hw_ptr, appl_ptr') >= StartThreshold
               started == IF starts THEN "RUNNING" ELSE state
    <2>1. /\ thr[t].at = "copy" /\ thr[t].appl = appl_ptr /\ ~ Resetting
          /\ thr[t].frames \in Nat /\ thr[t].avail \in Nat
          /\ thr[t].frames <= thr[t].avail
      BY <1>3, <1>t, <1>r DEF Commit, Copied, RingInv, Current, TypeInv, Good, Thread
    <2>2. appl_ptr' = Wrap(appl_ptr + thr[t].frames) /\ hw_ptr' = hw_ptr
      BY <1>3, <2>1 DEF Commit, pointers
    <2>3. /\ started # "PAUSED" /\ (Armed(started) <=> Armed(state))
          /\ state' \in {started, StateWith(started, Room')}
          /\ state' # "PAUSED" /\ (Armed(state') => Armed(state))
      <3>1. started # "PAUSED" /\ (Armed(started) <=> Armed(state))
        BY DEF RingInv, Armed
      <3>2. state' \in {started, StateWith(started, Room')}
        BY <1>3, <2>2 DEF Commit, Room
      <3> HIDE DEF started
      <3> QED
        BY <3>1, <3>2 DEF StateWith, Armed
    <2>4. Room \in Int /\ (Armed(state) => Room <= BufferSize /\ thr[t].avail <= Room)
      BY <2>1, <1>t, Armedness, SizeFacts DEF RingInv, Current
    <2>5. Armed(state) => Room' = Room - thr[t].frames
      <3> SUFFICES ASSUME Armed(state) PROVE Room' = Room - thr[t].frames
        OBVIOUS
      <3>1. thr[t].frames <= Room
        BY <2>1, <2>4
      <3>2. PlaybackAvail(hw_ptr, Wrap(appl_ptr + thr[t].frames)) = Room - thr[t].frames
        BY <2>1, <3>1, Armedness, RoomAfterWrite DEF Room
      <3> QED
        BY <2>2, <3>2 DEF Room
    <2>6. Armed(state') => Room' <= BufferSize
      BY <2>1, <2>3, <2>4, <2>5, SizeFacts
    <2> DEFINE r == Loop(left, room, hw_ptr, appl_ptr')
    <2>7. thr'[t] \in {Idle, r}
      <3>1. Roused \in [Threads -> Thread]
        BY RousedGood DEF RingInv, TypeInv, TypeOK
      <3> QED
        BY <1>3, <1>t, <3>1 DEF Commit
    <2>8. /\ r.at \in {"copy", "einval", "asleep"}
          /\ r.at = "copy" => r.appl = appl_ptr' /\ r.avail \in {room, Room'}
      BY <2>2, LoopCurrent DEF Room
    <2>9. Armed(state') => room <= Room' /\ Room' <= Room'
      BY <2>1, <2>3, <2>4, <2>5
    <2> HIDE DEF r, room
    <2>10. Current(thr[t])'
      BY <2>7, <2>8, <2>9 DEF Current, Idle
    <2> QED
      BY <1>t, <2>3, <2>6, <2>10, OnlyThread
  <1>4. ASSUME WriteFails(t) \/ WakeToFail(t) \/ WaitSignal(t) \/ WaitTimeout(t)
        PROVE  RingInv'
    <2>1. /\ thr'[t] = Idle /\ thr[t].at \notin {"base", "appl"}
          /\ UNCHANGED <<state, appl_ptr, pointers, hw>>
      BY <1>4, <1>t DEF WriteFails, WakeToFail, WaitSignal, WaitTimeout
    <2>2. Room' = Room
      BY <2>1 DEF Room, pointers
    <2>3. Current(thr[t])'
      BY <2>1 DEF Current, Idle
    <2> QED
      BY <1>t, <1>r, <2>1, <2>2, <2>3, Armedness, OnlyThread
  <1>5. ASSUME WakeToWrite(t) PROVE RingInv'
    <2>1. UNCHANGED <<state, hw_ptr, appl_ptr>> /\ thr[t].at = "woken"
      BY <1>5 DEF WakeToWrite, pointers
    <2>2. Room' = Room /\ Room \in Int
      BY <2>1, Armedness DEF Room
    <2> DEFINE r == Round(thr[t].size, Room, appl_ptr)
    <2>3. thr'[t] = r \/ thr'[t].at = "asleep"
      BY <1>5, <1>t DEF WakeToWrite, Room, Thread
    <2>4. r.at \in {"copy", "einval"} /\ r.appl = appl_ptr /\ r.avail = Room
      BY RoundCurrent
    <2> HIDE DEF r
    <2>5. Current(thr[t])'
      BY <2>1, <2>2, <2>3, <2>4 DEF Current
    <2> QED
      BY <1>t, <1>r, <2>1, <2>2, <2>5, Armedness, OnlyThread
  <1> QED
    BY <1>1, <1>2, <1>3, <1>4, <1>5 DEF WriterStep

LEMMA CallerStepRing ==
    ASSUME RingInv, Sequential, NEW t \in Callers, CallerStep(t)
    PROVE  RingInv'
  <1>t. t \in Threads /\ TypeInv' /\ thr \in [Threads -> Thread]
    BY ThreadsAssumption, CallerStepType DEF RingInv, TypeInv, TypeOK
  <1>r. thr[t].at \notin {"base", "appl"} => ~ Resetting
    BY <1>t DEF Sequential, Resetting
  <1>c. "pause" \notin Calls /\ "reset" \notin Calls
    BY DEF Sequential
  <1>a. ASSUME AtRest(t), thr'[t] = thr[t] PROVE Current(thr[t])'
    BY <1>a DEF AtRest, Current
  <1>s. ASSUME AtRest(t), NEW tw PROVE RousedBy(tw)[t] = thr[t] /\ Roused[t] = thr[t]
    BY <1>s, <1>t DEF AtRest, RousedBy, Roused
  <1>1. ASSUME Start(t) \/ Drain(t) PROVE RingInv'
    <2>1. /\ AtRest(t) /\ UNCHANGED <<hw_ptr, appl_ptr, thr>>
          /\ state' # "PAUSED" /\ (Armed(state') => Armed(state))
      BY <1>1 DEF Start, Drain, pointers, Armed, RingInv
    <2>2. Room' = Room
      BY <2>1 DEF Room
    <2> QED
      BY <1>t, <1>r, <1>a, <2>1, <2>2, Armedness, OnlyThread DEF AtRest
  <1>2. ASSUME HwSync(t) PROVE RingInv'
    <2>1. /\ AtRest(t) /\ Running(state) /\ Update(FALSE)
          /\ thr' = RousedBy(twake) /\ appl_ptr' = appl_ptr
      BY <1>2 DEF HwSync
    <2>2. Armed(state) /\ Room <= BufferSize
      BY <1>r, <2>1, Armedness DEF AtRest
    <2>3. state' # "PAUSED" /\ (Armed(state') => RoomAfter <= BufferSize)
      BY <2>1, <2>2, Armedness, UpdateRoom
    <2>4. Room' = RoomAfter /\ thr'[t] = thr[t]
      BY <1>s, <2>1 DEF Room, RoomAfter
    <2> QED
      BY <1>t, <1>a, <2>1, <2>3, <2>4, OnlyThread DEF AtRest
  <1>3. ASSUME Drop(t) PROVE RingInv'
    <2>1. AtRest(t) /\ state' = "SETUP" /\ thr'[t] = thr[t]
      BY <1>3, <1>s DEF Drop
    <2> QED
      BY <1>t, <1>a, <2>1, OnlyThread DEF AtRest, Armed
  <1>4. ASSUME NEW n \in Sizes, Rewind(t, n) PROVE RingInv'
    <2> DEFINE back == Less(n, HwAvail(hw_ptr', appl_ptr))
    <2>1. /\ AtRest(t) /\ Armed(state) /\ Sync /\ thr' = RousedBy(twake)
          /\ appl_ptr' = IF state' # state \/ back <= 0 THEN appl_ptr
                         ELSE IF appl_ptr < back THEN appl_ptr - back + Boundary
                         ELSE appl_ptr - back
      BY <1>4 DEF Rewind, Armed, Running
    <2>2. Room <= BufferSize
      BY <1>r, <2>1, Armedness DEF AtRest
    <2>3. state' # "PAUSED" /\ (Armed(state') => state' = state /\ RoomAfter <= BufferSize)
      BY <2>1, <2>2, Armedness, SyncRoom
    <2>4. hw_ptr' \in 0..Boundary - 1 /\ RoomAfter \in 0..Boundary - 1
      BY <1>t, Armedness, AvailType DEF TypeInv, TypeOK, RoomAfter
    <2>5. back \in Int /\ RoomAfter + back <= BufferSize
      <3>1. n \in Int /\ HwAvail(hw_ptr', appl_ptr) = BufferSize - RoomAfter
        BY ParamsAssumption DEF Sizes, HwAvail, RoomAfter
      <3>2. BufferSize - RoomAfter \in Int
        BY <2>4, SizeFacts
      <3>3. back \in Int /\ back <= BufferSize - RoomAfter
        BY <3>1, <3>2, LessType
      <3> QED
        BY <2>4, <3>3, SizeFacts
    <2> HIDE DEF back
    <2>6. Armed(state') => Room' <= BufferSize
      <3>1. CASE state' # state \/ back <= 0
        BY <2>1, <2>3, <3>1 DEF Room, RoomAfter
      <3>2. CASE ~ (state' # state \/ back <= 0)
        <4>1. back \in Nat
          BY <2>5, <3>2
        <4>2. PlaybackAvail(hw_ptr', appl_ptr') = RoomAfter + back
          BY <2>1, <2>4, <2>5, <3>2, <4>1, Armedness, RoomAfterRewind DEF RoomAfter
        <4> QED
          BY <2>5, <4>2 DEF Room
      <3> QED
        BY <3>1, <3>2
    <2>7. thr'[t] = thr[t]
      BY <1>s, <2>1
    <2> QED
      BY <1>t, <1>a, <2>1, <2>3, <2>6, <2>7, OnlyThread DEF AtRest
  <1>5. ASSUME NEW n \in Sizes, Forward(t, n) PROVE RingInv'
    <2> DEFINE ahead == Less(n, RoomAfter)
    <2>1. /\ AtRest(t) /\ Armed(state) /\ Sync /\ thr' = RousedBy(twake)
          /\ appl_ptr' = IF state' # state THEN appl_ptr ELSE Wrap(appl_ptr + ahead)
      BY <1>5 DEF Forward, Armed, Running, RingInv, RoomAfter
    <2>2. Room <= BufferSize
      BY <1>r, <2>1, Armedness DEF AtRest
    <2>3. state' # "PAUSED" /\ (Armed(state') => state' = state /\ RoomAfter <= BufferSize)
      BY <2>1, <2>2, Armedness, SyncRoom
    <2>4. hw_ptr' \in 0..Boundary - 1 /\ RoomAfter \in 0..Boundary - 1
      BY <1>t, Armedness, AvailType DEF TypeInv, TypeOK, RoomAfter
    <2>5. ahead \in Nat /\ ahead <= RoomAfter
      <3>1. n \in Nat
        BY ParamsAssumption DEF Sizes
      <3> QED
        BY <2>4, <3>1, SizeFacts DEF Less
    <2> HIDE DEF ahead
    <2>6. Armed(state') => Room' <= BufferSize
      <3>1. CASE state' # state
        BY <2>1, <2>3, <3>1 DEF Room, RoomAfter
      <3>2. CASE state' = state
        <4>1. PlaybackAvail(hw_ptr', appl_ptr') = RoomAfter - ahead
          BY <2>1, <2>4, <2>5, <3>2, Armedness, RoomAfterWrite DEF RoomAfter
        <4> QED
          BY <2>3, <2>4, <2>5, <4>1, SizeFacts DEF Room
      <3> QED
        BY <3>1, <3>2
    <2>7. thr'[t] = thr[t]
      BY <1>s, <2>1
    <2> QED
      BY <1>t, <1>a, <2>1, <2>3, <2>6, <2>7, OnlyThread DEF AtRest
  <1>6. ASSUME Prepare(t) \/ ResetBase(t) PROVE RingInv'
    <2>1. /\ thr'[t].at \in {"base", "appl"} /\ state' = state /\ ~ Running(state)
      BY <1>6, <1>t DEF Prepare, ResetBase, Resets, RingInv, Current, Thread
    <2>2. Current(thr[t])'
      BY <2>1 DEF Current, Running
    <2> QED
      BY <1>t, <2>1, <2>2, OnlyThread DEF RingInv
  <1>7. ASSUME ResetAppl(t) PROVE RingInv'
    <2>1. /\ appl_ptr' = hw_ptr /\ hw_ptr' = hw_ptr /\ thr'[t] = Idle /\ state' # "PAUSED"
      BY <1>7, <1>t DEF ResetAppl, pointers, RingInv
    <2>2. Room' = BufferSize
      BY <2>1, Armedness, RoomWhenEmpty DEF Room
    <2>3. Current(thr[t])'
      BY <2>1 DEF Current, Idle
    <2> QED
      BY <1>t, <2>1, <2>2, <2>3, SizeFacts, OnlyThread
  <1>8. ~ Push(t) /\ ~ Release(t) /\ ~ ResetPtr(t)
    BY <1>c DEF Push, Release, ResetPtr
  <1> QED
    BY <1>1, <1>2, <1>3, <1>4, <1>5, <1>6, <1>7, <1>8 DEF CallerStep

LEMMA RingInvNext == Sequential /\ RingInv /\ [Next]_vars => RingInv'
  <1> SUFFICES ASSUME Sequential, RingInv, [Next]_vars PROVE RingInv'
    OBVIOUS
  <1>1. CASE Next
    BY <1>1, PlayRing, PeriodElapsedRing, WriterStepRing, CallerStepRing DEF Next
  <1>2. CASE UNCHANGED vars
    BY <1>2, TypeInvNext DEF vars, RingInv, RingNotOverrun, Resetting, Current, Room
  <1> QED
    BY <1>1, <1>2

\* Frames that are not played are never overwritten: for every buffer, period
\* and boundary size, write, rewind and forward of a sequential application
\* leave appl_ptr at most a buffer ahead of hw_ptr, across the wrap of either.
THEOREM NoOverrun == ASSUME Sequential PROVE Spec => []RingNotOverrun
  <1>1. RingInv => RingNotOverrun
    BY DEF RingInv
  <1>2. Init => RingInv
    BY RingInvInit
  <1>3. RingInv /\ [Next]_vars => RingInv'
    BY RingInvNext
  <1> QED
    BY <1>1, <1>2, <1>3, PTL DEF Spec

\* A chunk that is copied without the lock stays in the free part of the ring.
THEOREM CopiesIntoRoom == ASSUME Sequential PROVE Spec => []ChunkIsFree
  <1>1. RingInv => ChunkIsFree
    <2> SUFFICES ASSUME RingInv, NEW t \in Writers, thr[t].at = "copy", Armed(state)
                 PROVE  thr[t].frames <= PlaybackAvail(hw_ptr, thr[t].appl)
      BY DEF ChunkIsFree, Armed
    <2>1. t \in Threads /\ thr[t] \in Thread
      BY ThreadsAssumption DEF RingInv, TypeInv, TypeOK
    <2>2. thr[t].frames <= thr[t].avail /\ thr[t].avail <= Room /\ thr[t].appl = appl_ptr
      BY <2>1 DEF RingInv, TypeInv, Good, Current
    <2> QED
      BY <2>1, <2>2, Armedness, SizeFacts DEF Room, Thread
  <1>2. Init => RingInv
    BY RingInvInit
  <1>3. RingInv /\ [Next]_vars => RingInv'
    BY RingInvNext
  <1> QED
    BY <1>1, <1>2, <1>3, PTL DEF Spec

(***************************************************************************)
(* The wait queue, with one thread that writes: what the other threads do  *)
(* is not restricted.                                                      *)
(***************************************************************************)
OneWriter == \A t, u \in Writers : t = u

\* A write is under way.
Busy(r) == r.at \in {"copy", "asleep", "woken"}

Writing == /\ NoEmptyChunk /\ TwakeWhileWriting
           /\ \A t \in Threads : Busy(thr[t]) => t \in Writers /\ thr[t].size > 0

\* A step does nothing to a thread but to rouse it.
Kept(u) == \/ thr'[u] = thr[u]
           \/ thr[u].at = "asleep" /\ thr'[u].at = "woken" /\ thr'[u].size = thr[u].size

OthersKept(t) == \A u \in Threads : u # t => Kept(u)

LEMMA RousedKeeps ==
    ASSUME TypeInv, NEW f, f \in {thr, Roused}, NEW u \in Threads, thr'[u] = f[u]
    PROVE  Kept(u)
  BY DEF Kept, Roused, TypeInv, TypeOK, Thread

\* The writer has something to write and somewhere to write it.
LEMMA RoundWrites ==
    ASSUME NEW n \in Nat, n > 0, NEW room \in Nat, room > 0, NEW a \in 0..Boundary - 1
    PROVE  Round(n, room, a).at = "copy" /\ Round(n, room, a).size = n
  <1>1. BufferSize - (a % BufferSize) \in 1..BufferSize
    BY Remainder, SizeFacts
  <1> DEFINE chunk == Less(Less(n, room), BufferSize - (a % BufferSize))
  <1>2. chunk # 0
    BY <1>1, SizeFacts DEF Less
  <1> HIDE DEF chunk
  <1>3. Round(n, room, a) =
          [at |-> IF chunk = 0 THEN "einval" ELSE "copy", size |-> n, avail |-> room,
           frames |-> chunk, appl |-> a, again |-> FALSE]
    BY DEF Round, chunk
  <1> QED
    BY <1>2, <1>3

\* It sleeps only with too little room, which the caller has found to be none.
LEMMA LoopWrites ==
    ASSUME NEW n \in Nat, n > 0, NEW room \in Nat, NEW h \in 0..Boundary - 1,
           NEW a \in 0..Boundary - 1
    PROVE  LET r == Loop(n, room, h, a)
           IN /\ r.at \in {"copy", "asleep"} /\ r.size = n
              /\ r.at = "asleep" => room = 0 /\ PlaybackAvail(h, a) < Less(n, AvailMin)
  <1>1. Less(n, AvailMin) \in Nat /\ Less(n, AvailMin) > 0
    BY ParamsAssumption DEF Less
  <1>2. PlaybackAvail(h, a) \in Nat
    BY AvailType, SizeFacts
  <1>3. CASE room # 0
    <2>1. Round(n, room, a).at = "copy" /\ Round(n, room, a).size = n
      BY <1>3, RoundWrites
    <2> QED
      BY <1>3, <2>1 DEF Loop
  <1>4. CASE room = 0 /\ PlaybackAvail(h, a) >= Less(n, AvailMin)
    <2>1. PlaybackAvail(h, a) > 0
      BY <1>1, <1>2, <1>4
    <2>2. /\ Round(n, PlaybackAvail(h, a), a).at = "copy"
          /\ Round(n, PlaybackAvail(h, a), a).size = n
      BY <1>2, <2>1, RoundWrites
    <2> QED
      BY <1>4, <2>2 DEF Loop, WaitForAvail
  <1>5. CASE room = 0 /\ ~ (PlaybackAvail(h, a) >= Less(n, AvailMin))
    <2>1. PlaybackAvail(h, a) < Less(n, AvailMin)
      BY <1>1, <1>2, <1>5
    <2>2. Loop(n, room, h, a) = Sleeping(n)
      BY <1>5 DEF Loop, WaitForAvail
    <2> QED
      BY <1>5, <2>1, <2>2 DEF Sleeping
  <1> QED
    BY <1>3, <1>4, <1>5

LEMMA TwakeForPositive ==
    ASSUME NEW n \in Nat, n > 0, NEW room \in Nat, NEW tw \in Nat, tw > 0
    PROVE  TwakeFor(n, room, tw) > 0
  BY ParamsAssumption DEF TwakeFor, Less

\* The three things a step can do: the write goes on, it ends, or it is not touched.
LEMMA WriteGoesOn ==
    ASSUME OneWriter, Writing, NEW t \in Writers, OthersKept(t),
           thr'[t].at \in {"copy", "asleep", "woken"}, thr'[t].size > 0, twake' > 0
    PROVE  Writing'
  <1>1. t \in Threads
    BY ThreadsAssumption
  <1>2. \A u \in Threads : u # t => thr'[u] = thr[u] /\ ~ Busy(thr[u])
    BY DEF Writing, OneWriter, OthersKept, Kept, Busy
  <1> QED
    BY <1>1, <1>2, ThreadsAssumption DEF Writing, NoEmptyChunk, TwakeWhileWriting, Busy

LEMMA WriteEnds ==
    ASSUME OneWriter, Writing, NEW t \in Writers, OthersKept(t), thr'[t] = Idle, twake' = 0
    PROVE  Writing'
  <1>1. t \in Threads /\ Idle.at = "idle"
    BY ThreadsAssumption DEF Idle
  <1>2. \A u \in Threads : u # t => thr'[u] = thr[u] /\ ~ Busy(thr[u])
    BY DEF Writing, OneWriter, OthersKept, Kept, Busy
  <1> QED
    BY <1>1, <1>2, ThreadsAssumption DEF Writing, NoEmptyChunk, TwakeWhileWriting, Busy

LEMMA WriteStays ==
    ASSUME Writing, twake' = twake,
           \A u \in Threads : \/ Kept(u)
                              \/ ~ Busy(thr[u]) /\ ~ Busy(thr'[u]) /\ thr'[u].at # "einval"
    PROVE  Writing'
  <1>1. \A u \in Threads : /\ Busy(thr'[u]) <=> Busy(thr[u])
                           /\ thr'[u].at # "einval"
                           /\ Busy(thr'[u]) => thr'[u].size = thr[u].size
    BY DEF Writing, Kept, Busy, NoEmptyChunk
  <1> QED
    BY <1>1, ThreadsAssumption DEF Writing, NoEmptyChunk, TwakeWhileWriting, Busy

LEMMA AvailNat ==
    ASSUME NEW h \in 0..Boundary - 1, NEW a \in 0..Boundary - 1
    PROVE  PlaybackAvail(h, a) \in Nat
  <1>1. PlaybackAvail(h, a) \in 0..Boundary - 1
    BY AvailType
  <1>2. \A n \in 0..Boundary - 1 : n \in Nat
    BY SizeFacts
  <1> QED
    BY <1>1, <1>2

LEMMA WriterStepWriting ==
    ASSUME TypeInv, OneWriter, Writing, NEW t \in Writers, WriterStep(t)
    PROVE  Writing'
  <1>t. t \in Threads /\ thr \in [Threads -> Thread] /\ twake \in Nat
    BY ThreadsAssumption DEF TypeInv, TypeOK
  <1>p. /\ hw_ptr \in 0..Boundary - 1 /\ appl_ptr \in 0..Boundary - 1
        /\ hw_ptr' \in 0..Boundary - 1 /\ appl_ptr' \in 0..Boundary - 1
    BY WriterStepType DEF TypeInv, TypeOK
  <1>k. ASSUME NEW f, f \in {thr, Roused}, NEW r, thr' = [f EXCEPT ![t] = r]
        PROVE  OthersKept(t) /\ thr'[t] = r
    <2>1. f \in [Threads -> Thread]
      BY <1>t, <1>k, RousedGood DEF TypeInv
    <2>2. ASSUME NEW u \in Threads, u # t PROVE Kept(u)
      BY <1>k, <2>1, <2>2, RousedKeeps
    <2> QED
      BY <1>t, <1>k, <2>1, <2>2 DEF OthersKept
  <1>1. ASSUME NEW n \in Sizes, Write(t, n) PROVE Writing'
    <2>1. n \in Nat /\ n > 0
      BY ParamsAssumption DEF Sizes
    <2>2. RoomAfter \in Nat
      BY <1>p, AvailNat DEF RoomAfter
    <2> DEFINE r == Loop(n, RoomAfter, hw_ptr', appl_ptr)
    <2>3. r.at \in {"copy", "asleep"} /\ r.size = n
      BY <1>p, <2>1, <2>2, LoopWrites
    <2>4. twake' > 0
      BY <1>1, <2>1, <2>2, ParamsAssumption, TwakeForPositive DEF Write, RoomAfter
    <2>5. thr' = [RousedBy(AvailMin) EXCEPT ![t] = r]
      BY <1>1 DEF Write, RoomAfter
    <2> HIDE DEF r
    <2>6. OthersKept(t) /\ thr'[t] = r
      BY <1>k, <2>5 DEF RousedBy
    <2> QED
      BY <2>1, <2>3, <2>4, <2>6, WriteGoesOn
  <1>2. ASSUME WriteAgain(t) PROVE Writing'
    <2>1. twake' = 0 /\ thr' = [RousedBy(AvailMin) EXCEPT ![t] = Idle]
      BY <1>2 DEF WriteAgain
    <2>2. OthersKept(t) /\ thr'[t] = Idle
      BY <1>k, <2>1 DEF RousedBy
    <2> QED
      BY <2>1, <2>2, WriteEnds
  <1>3. ASSUME Commit(t) PROVE Writing'
    <2> DEFINE left == thr[t].size - thr[t].frames
               room == thr[t].avail - thr[t].frames
    <2>1. thr[t].at = "copy" /\ left \in Nat /\ room \in Nat
      BY <1>3, <1>t DEF Commit, Copied, TypeInv, Good, Thread
    <2>2. twake > 0
      BY <2>1, <1>t DEF Writing, TwakeWhileWriting
    <2>3. CASE left = 0 \/ (thr'[t] = Idle /\ twake' = 0)
      <3>1. \E f \in {thr, Roused} : thr' = [f EXCEPT ![t] = Idle]
        BY <1>3, <1>t, <2>3 DEF Commit
      <3>2. twake' = 0
        BY <1>3, <2>3 DEF Commit
      <3>3. OthersKept(t) /\ thr'[t] = Idle
        BY <1>k, <3>1
      <3> QED
        BY <3>2, <3>3, WriteEnds
    <2>4. CASE left # 0 /\ ~ (thr'[t] = Idle /\ twake' = 0)
      <3> DEFINE r == Loop(left, room, hw_ptr, appl_ptr')
      <3>1. left > 0
        BY <2>1, <2>4
      <3>2. /\ twake' = TwakeFor(left, room, twake)
            /\ thr' = [thr EXCEPT ![t] = r]
        BY <1>3, <1>t, <2>4 DEF Commit
      <3> HIDE DEF left, room
      <3>3. r.at \in {"copy", "asleep"} /\ r.size = left
        BY <1>p, <2>1, <3>1, LoopWrites
      <3>4. twake' > 0
        BY <1>t, <2>1, <2>2, <3>1, <3>2, TwakeForPositive
      <3> HIDE DEF r
      <3>5. OthersKept(t) /\ thr'[t] = r
        BY <1>k, <3>2
      <3> QED
        BY <3>1, <3>3, <3>4, <3>5, WriteGoesOn
    <2> QED
      BY <2>3, <2>4
  <1>4. ASSUME WriteFails(t) \/ WakeToFail(t) \/ WaitSignal(t) \/ WaitTimeout(t)
        PROVE  Writing'
    <2>1. twake' = 0 /\ thr' = [thr EXCEPT ![t] = Idle]
      BY <1>4 DEF WriteFails, WakeToFail, WaitSignal, WaitTimeout
    <2>2. OthersKept(t) /\ thr'[t] = Idle
      BY <1>k, <2>1
    <2> QED
      BY <2>1, <2>2, WriteEnds
  <1>5. ASSUME WakeToWrite(t) PROVE Writing'
    <2>1. thr[t].at = "woken" /\ thr[t].size \in Nat
      BY <1>5, <1>t DEF WakeToWrite, Thread
    <2>2. thr[t].size > 0 /\ twake > 0
      BY <1>t, <2>1 DEF Writing, TwakeWhileWriting, Busy
    <2>3. Room \in Nat
      BY <1>p, AvailNat DEF Room
    <2>4. CASE Room >= twake
      <3> DEFINE r == Round(thr[t].size, Room, appl_ptr)
      <3>1. Room > 0
        BY <1>t, <2>2, <2>3, <2>4
      <3>2. r.at = "copy" /\ r.size = thr[t].size
        BY <1>p, <2>1, <2>2, <2>3, <3>1, RoundWrites
      <3>3. /\ thr' = [thr EXCEPT ![t] = r]
            /\ twake' = IF thr'[t].at = "einval" THEN 0 ELSE twake
        BY <1>5, <2>4 DEF WakeToWrite, Room
      <3> HIDE DEF r
      <3>4. OthersKept(t) /\ thr'[t] = r
        BY <1>k, <3>3
      <3>5. twake' > 0
        BY <2>2, <3>2, <3>3, <3>4
      <3> QED
        BY <2>2, <3>2, <3>4, <3>5, WriteGoesOn
    <2>5. CASE ~ (Room >= twake)
      <3>1. thr' = [thr EXCEPT ![t].at = "asleep"] /\ twake' = twake
        BY <1>5, <2>5 DEF WakeToWrite, Room
      <3>2. OthersKept(t) /\ thr'[t].at = "asleep" /\ thr'[t].size = thr[t].size
        BY <1>t, <3>1 DEF OthersKept, Kept, Thread
      <3> QED
        BY <2>2, <3>1, <3>2, WriteGoesOn
    <2> QED
      BY <2>4, <2>5
  <1> QED
    BY <1>1, <1>2, <1>3, <1>4, <1>5 DEF WriterStep

LEMMA CallerStepWriting ==
    ASSUME TypeInv, Writing, NEW t \in Callers, CallerStep(t)
    PROVE  Writing'
  <1>t. t \in Threads /\ thr \in [Threads -> Thread] /\ thr[t] \in Thread
    BY ThreadsAssumption DEF TypeInv, TypeOK
  <1>1. twake' = twake
    BY DEF CallerStep, Start, HwSync, Push, Release, Drop, Drain, Rewind, Forward, ResetPtr,
           Prepare, ResetBase, ResetAppl
  <1>2. CASE \E f \in {thr, Roused} : thr' = f
    <2>1. \A u \in Threads : Kept(u)
      BY <1>2, RousedKeeps
    <2> QED
      BY <1>1, <2>1, WriteStays
  <1>3. ASSUME NEW f \in {thr, Roused}, NEW r, thr' = [f EXCEPT ![t] = r],
               ~ Busy(thr[t]), ~ Busy(r), r.at # "einval"
        PROVE  Writing'
    <2>1. f \in [Threads -> Thread]
      BY <1>t, RousedGood DEF TypeInv
    <2>2. ASSUME NEW u \in Threads, u # t PROVE Kept(u)
      BY <1>3, <2>1, <2>2, RousedKeeps
    <2>3. thr'[t] = r
      BY <1>3, <1>t, <2>1
    <2> QED
      BY <1>1, <1>3, <2>2, <2>3, WriteStays
  <1>4. CASE ResetPtr(t) \/ Prepare(t)
    <2>1. ~ Busy(thr[t])
      BY <1>4 DEF ResetPtr, Prepare, AtRest, Busy
    <2>2. PICK r \in {Resets(TRUE), Resets(FALSE)}, f \in {thr, Roused} : thr' = [f EXCEPT ![t] = r]
      BY <1>4 DEF ResetPtr, Prepare
    <2>3. ~ Busy(r) /\ r.at # "einval"
      BY <2>2 DEF Resets, Busy
    <2> QED
      BY <1>3, <2>1, <2>2, <2>3
  <1>5. CASE ResetAppl(t)
    <2>1. ~ Busy(thr[t]) /\ ~ Busy(Idle) /\ Idle.at # "einval" /\ thr' = [thr EXCEPT ![t] = Idle]
      BY <1>5 DEF ResetAppl, Busy, Idle
    <2> QED
      BY <1>3, <2>1
  <1>6. CASE ResetBase(t)
    <2>1. ~ Busy(thr[t]) /\ thr' = [thr EXCEPT ![t].at = "appl"]
      BY <1>6 DEF ResetBase, Busy
    <2>2. \A u \in Threads : u # t => Kept(u)
      BY <1>t, <2>1 DEF Kept
    <2>3. thr'[t].at = "appl"
      BY <1>t, <2>1 DEF Thread
    <2> QED
      BY <1>1, <2>1, <2>2, <2>3, WriteStays DEF Busy
  <1>7. ~ (ResetPtr(t) \/ Prepare(t) \/ ResetAppl(t) \/ ResetBase(t)) =>
          \E f \in {thr, Roused} : thr' = f
    BY DEF CallerStep, Start, HwSync, Push, Release, Drop, Drain, Rewind, Forward, RousedBy
  <1> QED
    BY <1>2, <1>4, <1>5, <1>6, <1>7

LEMMA WritingNext == TypeInv /\ OneWriter /\ Writing /\ [Next]_vars => Writing'
  <1> SUFFICES ASSUME TypeInv, OneWriter, Writing, [Next]_vars PROVE Writing'
    OBVIOUS
  <1>1. CASE Play \/ PeriodElapsed \/ UNCHANGED vars
    <2>1. twake' = twake /\ \E f \in {thr, Roused} : thr' = f
      BY <1>1 DEF Play, PeriodElapsed, RousedBy, vars
    <2>2. \A u \in Threads : Kept(u)
      BY <2>1, RousedKeeps
    <2> QED
      BY <2>1, <2>2, WriteStays
  <1>2. ASSUME NEW t \in Writers, WriterStep(t) PROVE Writing'
    BY <1>2, WriterStepWriting
  <1>3. ASSUME NEW t \in Callers, CallerStep(t) PROVE Writing'
    BY <1>3, CallerStepWriting
  <1> QED
    BY <1>1, <1>2, <1>3 DEF Next

LEMMA WritingInit == Init => Writing
  <1> SUFFICES ASSUME Init PROVE Writing
    OBVIOUS
  <1>1. Idle.at = "idle"
    BY DEF Idle
  <1>2. twake = 0 /\ \A t \in Threads : thr[t].at = "idle"
    BY <1>1 DEF Init
  <1>3. ~ (twake > 0) /\ \A t \in Writers : thr[t].at = "idle"
    BY <1>2, ThreadsAssumption
  <1> QED
    BY <1>2, <1>3 DEF Writing, NoEmptyChunk, TwakeWhileWriting, Busy

LEMMA WritingAlways == ASSUME OneWriter PROVE Spec => [](TypeInv /\ Writing)
  <1>1. Init => TypeInv /\ Writing
    BY TypeInvInit, WritingInit
  <1>2. TypeInv /\ Writing /\ [Next]_vars => (TypeInv /\ Writing)'
    BY TypeInvNext, WritingNext
  <1> QED
    BY <1>1, <1>2, PTL DEF Spec

\* The bug that snd_BUG_ON(!frames) of write1 looks for cannot be reached while one
\* thread writes, whatever others do to the substream.
THEOREM ChunksAreNotEmpty == ASSUME OneWriter PROVE Spec => []NoEmptyChunk
  <1>1. TypeInv /\ Writing => NoEmptyChunk
    BY DEF Writing
  <1> QED
    BY <1>1, WritingAlways, PTL

\* runtime->twake is set as long as the write is under way, and no longer.
THEOREM TwakeMarksWrite == ASSUME OneWriter PROVE Spec => []TwakeWhileWriting
  <1>1. TypeInv /\ Writing => TwakeWhileWriting
    BY DEF Writing
  <1> QED
    BY <1>1, WritingAlways, PTL

(***************************************************************************)
(* No wake-up is lost by an application with one thread, whatever calls it *)
(* makes: while it sleeps only interrupts move the substream.  That a      *)
(* second thread loses none as long as it only drops is left to TLC.       *)
(***************************************************************************)
OneThread == \A t, u \in Threads : t = u

WaitInv == /\ TypeInv /\ Writing /\ NoLostWakeup
           /\ \A t \in Threads : Busy(thr[t]) => state \in {"PREPARED", "RUNNING", "PAUSED", "XRUN"}

\* Nobody sleeps after a step that ends the write, or that only the writer makes.
LEMMA NobodyWaits ==
    ASSUME OneThread, NEW t \in Threads, TypeInv', Writing', ~ Busy(thr'[t])
    PROVE  WaitInv'
  <1>1. \A u \in Threads : ~ Busy(thr'[u])
    BY DEF OneThread
  <1>2. \A u \in Writers : ~ Busy(thr'[u])
    BY <1>1, ThreadsAssumption
  <1> QED
    BY <1>1, <1>2 DEF WaitInv, NoLostWakeup, Busy

LEMMA WaitsRightly ==
    ASSUME OneThread, NEW t \in Threads, TypeInv', Writing',
           state' \in {"PREPARED", "RUNNING", "PAUSED", "XRUN"},
           thr'[t].at = "asleep" => /\ twake' > 0 /\ PlaybackAvail(hw_ptr', appl_ptr') < twake'
                                    /\ state' # "XRUN"
    PROVE  WaitInv'
  <1>1. \A u \in Writers : thr'[u] = thr'[t]
    BY ThreadsAssumption DEF OneThread
  <1>2. NoLostWakeup'
    BY <1>1 DEF NoLostWakeup
  <1> QED
    BY <1>2 DEF WaitInv

\* An update does not stop a substream whose ring is full.
LEMMA StateAfterSync ==
    ASSUME TypeInv, Sync, state \in {"PREPARED", "RUNNING", "PAUSED"}
    PROVE  /\ state' \in {"PREPARED", "RUNNING", "PAUSED", "XRUN"}
           /\ RoomAfter = 0 => state' = state
  <1>1. CASE state' = state
    BY <1>1
  <1>2. CASE state' # state
    <2>1. state' = StateWith(state, RoomAfter)
      BY <1>2 DEF Sync, Update, RoomAfter, pointers
    <2>2. CASE RoomAfter < BufferSize
      BY <1>2, <2>1, <2>2 DEF StateWith
    <2>3. CASE ~ (RoomAfter < BufferSize)
      BY <2>1, <2>3, SizeFacts DEF StateWith
    <2> QED
      BY <2>2, <2>3
  <1> QED
    BY <1>1, <1>2

LEMMA WriterStepWaits ==
    ASSUME OneThread, OneWriter, WaitInv, NEW t \in Writers, WriterStep(t)
    PROVE  WaitInv'
  <1>t. /\ t \in Threads /\ thr \in [Threads -> Thread] /\ twake \in Nat
        /\ TypeInv /\ Writing /\ TypeInv' /\ Writing'
    BY ThreadsAssumption, WriterStepType, WriterStepWriting DEF WaitInv, TypeInv, TypeOK
  <1>p. /\ hw_ptr \in 0..Boundary - 1 /\ appl_ptr \in 0..Boundary - 1
        /\ hw_ptr' \in 0..Boundary - 1 /\ appl_ptr' \in 0..Boundary - 1
    BY <1>t DEF TypeInv, TypeOK
  <1>i. ASSUME thr'[t] = Idle PROVE WaitInv'
    <2>1. ~ Busy(thr'[t])
      BY <1>i DEF Idle, Busy
    <2> QED
      BY <1>t, <2>1, NobodyWaits
  <1>r. Roused \in [Threads -> Thread]
    BY <1>t, RousedGood DEF TypeInv, TypeOK
  <1>m. ASSUME NEW n \in Nat, n > 0
        PROVE  Less(n, AvailMin) > 0
    BY <1>m, ParamsAssumption DEF Less
  <1>1. ASSUME NEW n \in Sizes, Write(t, n) PROVE WaitInv'
    <2>1. n \in Nat /\ n > 0
      BY ParamsAssumption DEF Sizes
    <2>2. RoomAfter \in Nat
      BY <1>p, AvailNat DEF RoomAfter
    <2> DEFINE r == Loop(n, RoomAfter, hw_ptr', appl_ptr)
    <2>3. r.at = "asleep" => RoomAfter = 0 /\ PlaybackAvail(hw_ptr', appl_ptr) < Less(n, AvailMin)
      BY <1>p, <2>1, <2>2, LoopWrites
    <2>4. thr'[t] = r
      BY <1>1, <1>t, <1>r DEF Write, RoomAfter, RousedBy
    <2>5. /\ state \in {"PREPARED", "RUNNING", "PAUSED"} /\ Sync /\ appl_ptr' = appl_ptr
          /\ twake' = TwakeFor(n, RoomAfter, AvailMin)
      BY <1>1 DEF Write, RoomAfter
    <2> HIDE DEF r
    <2>6. state' \in {"PREPARED", "RUNNING", "PAUSED", "XRUN"} /\ (RoomAfter = 0 => state' = state)
      BY <1>t, <2>5, StateAfterSync
    <2>7. RoomAfter = 0 => twake' = Less(n, AvailMin)
      BY <2>5 DEF TwakeFor
    <2> QED
      BY <1>t, <1>m, <2>1, <2>3, <2>4, <2>5, <2>6, <2>7, WaitsRightly
  <1>2. ASSUME WriteAgain(t) PROVE WaitInv'
    <2>1. thr'[t] = Idle
      BY <1>2, <1>t, <1>r DEF WriteAgain, RousedBy
    <2> QED
      BY <1>i, <2>1
  <1>3. ASSUME Commit(t) PROVE WaitInv'
    <2> DEFINE left == thr[t].size - thr[t].frames
               room == thr[t].avail - thr[t].frames
               r == Loop(left, room, hw_ptr, appl_ptr')
    <2>1. thr[t].at = "copy" /\ left \in Nat /\ room \in Nat
      BY <1>3, <1>t DEF Commit, Copied, TypeInv, Good, Thread
    <2>2. CASE thr'[t] = Idle
      BY <1>i, <2>2
    <2>3. CASE thr'[t] # Idle
      <3>1. /\ left # 0 /\ twake' = TwakeFor(left, room, twake) /\ thr'[t] = r
            /\ state' \in {state, "RUNNING"} /\ hw_ptr' = hw_ptr
        BY <1>3, <1>t, <1>r, <2>3 DEF Commit, pointers
      <3>2. state \in {"PREPARED", "RUNNING", "PAUSED"}
        BY <1>3, <1>t, <2>1 DEF WaitInv, Busy, Commit, Copied
      <3> HIDE DEF left, room
      <3>3. left > 0
        BY <2>1, <3>1
      <3>4. r.at = "asleep" => room = 0 /\ PlaybackAvail(hw_ptr, appl_ptr') < Less(left, AvailMin)
        BY <1>p, <2>1, <3>3, LoopWrites
      <3> HIDE DEF r
      <3>5. room = 0 => twake' = Less(left, AvailMin)
        BY <3>1 DEF TwakeFor
      <3>6. Less(left, AvailMin) > 0
        BY <1>m, <2>1, <3>3
      <3> QED
        BY <1>t, <3>1, <3>2, <3>4, <3>5, <3>6, WaitsRightly
    <2> QED
      BY <2>2, <2>3
  <1>4. ASSUME WriteFails(t) \/ WakeToFail(t) \/ WaitSignal(t) \/ WaitTimeout(t)
        PROVE  WaitInv'
    <2>1. thr'[t] = Idle
      BY <1>4, <1>t DEF WriteFails, WakeToFail, WaitSignal, WaitTimeout
    <2> QED
      BY <1>i, <2>1
  <1>5. ASSUME WakeToWrite(t) PROVE WaitInv'
    <2>1. /\ state' = state /\ state \in {"PREPARED", "RUNNING", "PAUSED"}
          /\ hw_ptr' = hw_ptr /\ appl_ptr' = appl_ptr /\ thr[t].at = "woken"
      BY <1>5 DEF WakeToWrite, pointers
    <2>2. twake > 0
      BY <1>t, <2>1 DEF Writing, TwakeWhileWriting
    <2>3. Room \in Nat
      BY <1>p, AvailNat DEF Room
    <2>4. thr'[t].at = "asleep" => ~ (Room >= twake) /\ twake' = twake
      <3>1. CASE Room >= twake
        <4>1. thr'[t] = Round(thr[t].size, Room, appl_ptr)
          BY <1>5, <1>t, <3>1 DEF WakeToWrite, Room
        <4>2. Round(thr[t].size, Room, appl_ptr).at \in {"copy", "einval"}
          BY RoundCurrent
        <4> QED
          BY <4>1, <4>2
      <3>2. CASE ~ (Room >= twake)
        BY <1>5, <3>2 DEF WakeToWrite, Room
      <3> QED
        BY <3>1, <3>2
    <2>5. thr'[t].at = "asleep" => Room < twake /\ twake' = twake
      BY <1>t, <2>3, <2>4
    <2> QED
      BY <1>t, <2>1, <2>2, <2>5, WaitsRightly DEF Room
  <1> QED
    BY <1>1, <1>2, <1>3, <1>4, <1>5 DEF WriterStep

LEMMA CallerStepWaits ==
    ASSUME OneThread, WaitInv, NEW t \in Callers, CallerStep(t)
    PROVE  WaitInv'
  <1>1. /\ t \in Threads /\ thr \in [Threads -> Thread] /\ TypeInv /\ TypeInv' /\ Writing'
    BY ThreadsAssumption, CallerStepType, CallerStepWriting DEF WaitInv, TypeInv, TypeOK
  <1>2. Roused \in [Threads -> Thread]
    BY <1>1, RousedGood DEF TypeInv, TypeOK
  <1>3. AtRest(t) => Roused[t] = thr[t]
    BY <1>1 DEF Roused, AtRest
  <1>4. AtRest(t) \/ thr[t].at \in {"base", "appl"}
    BY DEF CallerStep, Start, HwSync, Push, Release, Drop, Drain, Rewind, Forward, ResetPtr,
           Prepare, ResetBase, ResetAppl
  <1>5. CASE ResetPtr(t) \/ Prepare(t)
    <2>1. thr'[t] = Resets(TRUE) \/ thr'[t] = Resets(FALSE)
      BY <1>1, <1>2, <1>5 DEF ResetPtr, Prepare
    <2>2. ~ Busy(thr'[t])
      BY <2>1 DEF Resets, Busy
    <2> QED
      BY <1>1, <2>2, NobodyWaits
  <1>6. CASE ResetAppl(t) \/ ResetBase(t)
    <2>1. thr'[t].at = "idle" \/ thr'[t].at = "appl"
      BY <1>1, <1>6 DEF ResetAppl, ResetBase, Idle, Thread
    <2>2. ~ Busy(thr'[t])
      BY <2>1 DEF Busy
    <2> QED
      BY <1>1, <2>2, NobodyWaits
  <1>7. CASE ~ (ResetPtr(t) \/ Prepare(t) \/ ResetAppl(t) \/ ResetBase(t))
    <2>1. AtRest(t) /\ \E f \in {thr, Roused} : thr' = f
      BY <1>7 DEF CallerStep, Start, HwSync, Push, Release, Drop, Drain, Rewind, Forward, RousedBy
    <2>2. ~ Busy(thr'[t])
      BY <1>3, <2>1 DEF AtRest, Busy
    <2> QED
      BY <1>1, <2>2, NobodyWaits
  <1> QED
    BY <1>5, <1>6, <1>7

LEMMA WaitInvNext == OneThread /\ WaitInv /\ [Next]_vars => WaitInv'
  <1> SUFFICES ASSUME OneThread, WaitInv, [Next]_vars PROVE WaitInv'
    OBVIOUS
  <1>1. OneWriter
    BY ThreadsAssumption DEF OneThread, OneWriter
  <1>2. TypeInv /\ Writing /\ TypeInv' /\ Writing'
    BY <1>1, TypeInvNext, WritingNext DEF WaitInv
  <1>3. CASE Play \/ UNCHANGED vars
    <2>1. UNCHANGED <<state, hw_ptr, appl_ptr, twake, thr>>
      BY <1>3 DEF Play, pointers, vars
    <2> QED
      BY <1>2, <2>1 DEF WaitInv, NoLostWakeup
  <1>4. CASE PeriodElapsed
    <2>1. appl_ptr' = appl_ptr /\ twake' = twake /\ thr' = RousedBy(twake)
      BY <1>4 DEF PeriodElapsed
    <2>2. state' = state \/ state' = StateWith(state, RoomAfter)
      BY <1>4 DEF PeriodElapsed, Update, RoomAfter, pointers
    <2>3. \A u \in Threads : Busy(thr'[u]) <=> Busy(thr[u])
      BY <1>2, <2>1 DEF RousedBy, Roused, Busy, TypeInv, TypeOK, Thread
    <2>4. ASSUME NEW u \in Threads, Busy(thr'[u])
          PROVE  state' \in {"PREPARED", "RUNNING", "PAUSED", "XRUN"}
      BY <2>2, <2>3, <2>4 DEF WaitInv, StateWith
    <2>5. ASSUME NEW u \in Writers, thr'[u].at = "asleep"
          PROVE  /\ twake' > 0 /\ PlaybackAvail(hw_ptr', appl_ptr') < twake'
                 /\ state' \notin {"SETUP", "XRUN"}
      <3>1. u \in Threads /\ twake \in Nat
        BY <1>2, ThreadsAssumption DEF TypeInv, TypeOK
      <3>2. thr' # Roused
        BY <1>2, <2>5, <3>1 DEF Roused, TypeInv, TypeOK, Thread
      <3>3. /\ thr' = thr /\ state' = state
            /\ ~ (hw_ptr' # hw_ptr /\ twake > 0 /\ PlaybackAvail(hw_ptr', appl_ptr) >= twake)
        BY <2>1, <3>2 DEF RousedBy
      <3>4. twake > 0 /\ PlaybackAvail(hw_ptr, appl_ptr) < twake /\ state \notin {"SETUP", "XRUN"}
        BY <2>5, <3>3 DEF WaitInv, NoLostWakeup
      <3>5. hw_ptr' \in 0..Boundary - 1 /\ appl_ptr \in 0..Boundary - 1
        BY <1>2 DEF TypeInv, TypeOK
      <3>6. PlaybackAvail(hw_ptr', appl_ptr) \in Nat
        BY <3>5, AvailNat
      <3>7. CASE hw_ptr' = hw_ptr
        BY <2>1, <3>3, <3>4, <3>7
      <3>8. CASE hw_ptr' # hw_ptr
        <4>1. ~ (PlaybackAvail(hw_ptr', appl_ptr) >= twake)
          BY <3>3, <3>4, <3>8
        <4> QED
          BY <2>1, <3>1, <3>3, <3>4, <3>6, <4>1
      <3> QED
        BY <3>7, <3>8
    <2>6. NoLostWakeup'
      BY <2>5 DEF NoLostWakeup
    <2> QED
      BY <1>2, <2>4, <2>6 DEF WaitInv
  <1>5. ASSUME NEW t \in Writers, WriterStep(t) PROVE WaitInv'
    BY <1>1, <1>5, WriterStepWaits
  <1>6. ASSUME NEW t \in Callers, CallerStep(t) PROVE WaitInv'
    BY <1>6, CallerStepWaits
  <1> QED
    BY <1>3, <1>4, <1>5, <1>6 DEF Next

\* A writer that sleeps sleeps for want of room, on a substream that still runs or
\* will: the interrupt that made room has woken it, or came before its last look.
THEOREM WritersAreWoken == ASSUME OneThread PROVE Spec => []NoLostWakeup
  <1>1. Init => WaitInv
    <2> SUFFICES ASSUME Init PROVE WaitInv
      OBVIOUS
    <2>1. TypeInv /\ Writing
      BY TypeInvInit, WritingInit
    <2>2. twake = 0
      BY DEF Init
    <2>3. ~ (twake > 0)
      BY <2>2
    <2>4. \A t \in Threads : Idle.at = "idle" /\ thr[t] = Idle
      BY DEF Init, Idle
    <2>5. \A t \in Threads : ~ Busy(thr[t])
      BY <2>4 DEF Busy
    <2> QED
      BY <2>1, <2>5, ThreadsAssumption DEF WaitInv, NoLostWakeup, Busy
  <1>2. WaitInv /\ [Next]_vars => WaitInv'
    BY WaitInvNext
  <1>3. WaitInv => NoLostWakeup
    BY DEF WaitInv
  <1> QED
    BY <1>1, <1>2, <1>3, PTL DEF Spec

(***************************************************************************)
(* The position follows the hardware.  Whoever asks, hw_ptr becomes where  *)
(* the hardware is: the update finds the right turn of the ring as long as *)
(* less than a turn was played since the last one.  An interrupt that is   *)
(* handled in time sees to that, and it is also why the guess for an       *)
(* interrupt that comes late, Lapped, is never made.                       *)
(***************************************************************************)
\* A period interrupt is handled before half the ring is played again.
WellTimed == PeriodSize + MaxLate <= BufferSize \div 2

\* The frames played since the last update, and a bound on them: since an
\* interrupt that waits for its handler, or since the end of a period.
Played == Ahead(hw.at, hw_ptr)
Bound  == IF hw.irq = 0 THEN hw.at % PeriodSize ELSE PeriodSize + hw.irq - 1

\* hw_ptr lies in the turn of the ring that starts at hw_ptr_base, and
\* hw_ptr_jiffies tells how long ago it was right.
InTurn(b, p) == b <= p /\ p < b + BufferSize
Clock == /\ InTurn(hw_ptr_base, hw_ptr)
         /\ hw.age = Played
         /\ Played <= Bound

AtStart == hw.at = 0 /\ hw_ptr = 0

FollowInv ==
    /\ Running(state) => Clock
    /\ state = "PREPARED" /\ ~ Resetting => AtStart /\ hw_ptr_base = 0
    /\ \A t \in Threads : /\ thr[t].at \in {"base", "appl"} => AtStart
                          /\ thr[t].at = "appl" => hw_ptr_base = 0

\* A place that is x frames into a turn of the ring is at x in the ring.
LEMMA PlaceInRing ==
    ASSUME NEW k \in Nat, NEW b \in Nat, NEW x \in 0..b - 1
    PROVE  (k * b + x) % b = x
  <1> DEFINE d == (k * b + x) \div b
             m == (k * b + x) % b
  <1>1. /\ b > 0 /\ k * b \in Nat /\ d \in Int /\ m \in 0..b - 1
        /\ k * b + x = b * d + m
    OBVIOUS
  <1> HIDE DEF d, m
  <1>2. CASE d = k
    BY <1>1, <1>2
  <1>3. CASE d > k
    <2>1. b * d >= b * (k + 1) /\ b * (k + 1) = k * b + b
      BY <1>1, <1>3
    <2> QED
      BY <1>1, <2>1
  <1>4. CASE d < k
    <2>1. b * (d + 1) <= b * k /\ b * (d + 1) = b * d + b /\ b * k = k * b
      BY <1>1, <1>4
    <2> QED
      BY <1>1, <2>1
  <1> QED
    BY <1>1, <1>2, <1>3, <1>4 DEF m

\* The remainder of a counter's successor: back at zero or one more.
LEMMA NextRemainder ==
    ASSUME NEW a \in Nat, NEW b \in Nat, b > 0
    PROVE  (a + 1) % b = 0 \/ (a + 1) % b = (a % b) + 1
  <1> DEFINE d == a \div b
             m == a % b
  <1>1. d \in Nat /\ m \in 0..b - 1 /\ a = d * b + m
    OBVIOUS
  <1> HIDE DEF d, m
  <1>2. CASE m < b - 1
    <2>1. m + 1 \in 0..b - 1 /\ a + 1 = d * b + (m + 1)
      BY <1>1, <1>2
    <2> QED
      BY <1>1, <2>1, PlaceInRing DEF m
  <1>3. CASE m = b - 1
    <2>1. 0 \in 0..b - 1 /\ d + 1 \in Nat /\ a + 1 = (d + 1) * b + 0
      BY <1>1, <1>3
    <2>2. (a + 1) % b = 0
      BY <2>1, PlaceInRing
    <2> QED
      BY <2>2
  <1> QED
    BY <1>1, <1>2, <1>3

\* Of what is played since q, less than a turn of the ring, the position in
\* the ring tells the whole: behind q it is in the next turn.
LEMMA TurnFound ==
    ASSUME NEW b, Aligned(b), NEW q \in 0..Boundary - 1, InTurn(b, q),
           NEW at \in 0..Boundary - 1, Ahead(at, q) < BufferSize
    PROVE  LET pos == at % BufferSize
               c   == IF b + pos < q THEN NextBase(b) ELSE b
           IN c + pos = at /\ InTurn(c, at)
  <1>1. PICK k \in Nat : b = k * BufferSize
    BY DEF Aligned
  <1>2. b \in Nat /\ b + BufferSize <= Boundary
    BY DEF Aligned
  <1> DEFINE pos == at % BufferSize
  <1>3. CASE b <= at /\ at < b + BufferSize
    <2> DEFINE x == at - b
    <2>1. x \in 0..BufferSize - 1 /\ at = k * BufferSize + x
      BY <1>1, <1>2, <1>3, SizeFacts
    <2> HIDE DEF x
    <2>2. pos = x
      BY <2>1, PlaceInRing, SizeFacts
    <2>3. at >= q
      BY <1>2, <1>3, SizeFacts DEF Ahead, InTurn
    <2> QED
      BY <1>1, <1>2, <2>1, <2>2, <2>3, SizeFacts DEF InTurn
  <1>4. CASE ~ (b <= at /\ at < b + BufferSize)
    <2>1. CASE b + BufferSize >= Boundary
      <3>1. at < b /\ at = q + Ahead(at, q) - Boundary /\ at \in 0..BufferSize - 1
            /\ b + at < q /\ b + BufferSize = Boundary
        BY <1>2, <1>4, <2>1, SizeFacts DEF Ahead, InTurn
      <3>2. at = 0 * BufferSize + at
        BY SizeFacts
      <3>3. pos = at
        BY <3>1, <3>2, PlaceInRing, SizeFacts
      <3>4. NextBase(b) = 0
        BY <2>1 DEF NextBase
      <3>5. InTurn(0, at) /\ b + pos < q
        BY <3>1, <3>3, SizeFacts DEF InTurn
      <3> QED
        BY <3>1, <3>3, <3>4, <3>5, SizeFacts
    <2>2. CASE b + BufferSize < Boundary
      <3>1. Aligned(NextBase(b)) /\ NextBase(b) = b + BufferSize
        BY <1>2, <2>2, NextBaseAligned, SizeFacts DEF NextBase
      <3>2. b + 2 * BufferSize <= Boundary
        BY <1>2, <3>1, SizeFacts DEF Aligned
      <3> DEFINE x == at - (b + BufferSize)
      <3>3. at >= q /\ x \in 0..BufferSize - 1 /\ b + x < q
        BY <1>2, <1>4, <3>2, SizeFacts DEF Ahead, InTurn
      <3>4. at = (k + 1) * BufferSize + x /\ k + 1 \in Nat
        BY <1>1, SizeFacts
      <3> HIDE DEF x
      <3>5. pos = x
        BY <3>3, <3>4, PlaceInRing, SizeFacts
      <3>6. at = b + BufferSize + x
        BY <1>1, <3>3, <3>4, SizeFacts
      <3> QED
        BY <1>2, <3>1, <3>3, <3>5, <3>6, SizeFacts DEF InTurn
    <2> QED
      BY <1>2, <2>1, <2>2, SizeFacts
  <1> QED
    BY <1>3, <1>4

\* In time, an update finds the hardware where it is, whoever asks.
LEMMA UpdateFinds ==
    ASSUME TypeInv, WellTimed, Clock, NEW irq \in BOOLEAN
    PROVE  /\ Played \in Nat /\ Played <= PeriodSize + MaxLate
           /\ Plausible(irq) /\ NewPtr(irq) = hw.at /\ InTurn(NewBase(irq), hw.at)
  <1>1. /\ hw.at \in 0..Boundary - 1 /\ hw.irq \in 0..MaxLate + 1 /\ MaxLate \in Nat
        /\ hw_ptr \in 0..Boundary - 1 /\ Aligned(hw_ptr_base) /\ hw_ptr_base \in Nat
    BY ParamsAssumption DEF TypeInv, TypeOK, Hardware
  <1>2. Played \in Nat
    BY <1>1, AheadType, SizeFacts DEF Played
  <1>3. hw.at % PeriodSize \in 0..PeriodSize - 1
    BY <1>1, SizeFacts, Remainder
  <1>4. Played <= PeriodSize + MaxLate
    BY <1>1, <1>2, <1>3, SizeFacts DEF Clock, Bound
  <1>5. BufferSize \div 2 \in Nat /\ BufferSize \div 2 < BufferSize
    BY SizeFacts
  <1>6. Played < BufferSize /\ ~ (hw.age > BufferSize \div 2)
    BY <1>1, <1>2, <1>4, <1>5, SizeFacts DEF WellTimed, Clock
  <1> DEFINE c == IF hw_ptr_base + Position < hw_ptr THEN NextBase(hw_ptr_base) ELSE hw_ptr_base
  <1>7. c + Position = hw.at /\ InTurn(c, hw.at)
    BY <1>1, <1>6, TurnFound DEF Clock, Played, Position
  <1>8. NewBase(irq) = c
    BY <1>6 DEF NewBase, Lapped
  <1> HIDE DEF c
  <1>9. NewPtr(irq) = hw.at
    BY <1>7, <1>8 DEF NewPtr
  <1> QED
    BY <1>2, <1>4, <1>6, <1>7, <1>8, <1>9, SizeFacts DEF Plausible, Played

\* An update sets the clock right.
LEMMA UpdateClock ==
    ASSUME TypeInv, WellTimed, Clock, NEW irq \in BOOLEAN, Update(irq)
    PROVE  Clock'
  <1>1. /\ hw.at \in 0..Boundary - 1 /\ hw.irq \in 0..MaxLate + 1 /\ MaxLate \in Nat
        /\ hw_ptr \in 0..Boundary - 1
    BY ParamsAssumption DEF TypeInv, TypeOK, Hardware
  <1>2. Plausible(irq) /\ NewPtr(irq) = hw.at /\ InTurn(NewBase(irq), hw.at)
    BY UpdateFinds
  <1>3. hw.at % PeriodSize \in 0..PeriodSize - 1
    BY <1>1, SizeFacts, Remainder
  <1>4. /\ hw'.at = hw.at /\ hw'.irq \in {0, hw.irq} /\ hw_ptr' = hw.at
        /\ InTurn(hw_ptr_base', hw_ptr')
        /\ hw'.age = IF hw.at # hw_ptr THEN 0 ELSE hw.age
    BY <1>2 DEF Update, Ticked, pointers, Clock
  <1>5. Played' = 0
    BY <1>1, <1>4, SizeFacts DEF Played, Ahead
  <1>6. hw'.age = 0
    BY <1>1, <1>4 DEF Clock, Played, Ahead
  <1>7. 0 <= Bound'
    BY <1>1, <1>3, <1>4, SizeFacts DEF Bound
  <1> QED
    BY <1>4, <1>5, <1>6, <1>7 DEF Clock

\* The three ways in which a step of a thread that resets nothing keeps the
\* invariant: it moves neither pointer nor hardware, it updates, or it starts
\* the hardware at the start of the ring.
LEMMA UnmovedFollows ==
    ASSUME FollowInv, ~ Resetting, ~ Resetting', UNCHANGED <<hw_ptr, hw_ptr_base, hw>>,
           Running(state') => Running(state), state' = "PREPARED" => state = "PREPARED"
    PROVE  FollowInv'
  BY DEF FollowInv, Clock, Played, Bound, AtStart, Resetting

LEMMA SyncFollows ==
    ASSUME TypeInv, WellTimed, FollowInv, ~ Resetting, ~ Resetting', Sync
    PROVE  FollowInv'
  <1>1. CASE Running(state)
    <2>1. Clock'
      BY <1>1, UpdateClock DEF Sync, FollowInv
    <2>2. state' # "PREPARED"
      BY <1>1 DEF Sync, Update, StateWith, Running
    <2> QED
      BY <2>1, <2>2 DEF FollowInv, Resetting
  <1>2. CASE ~ Running(state)
    BY <1>2, UnmovedFollows DEF Sync, pointers
  <1> QED
    BY <1>1, <1>2

LEMMA StartFollows ==
    ASSUME TypeInv, FollowInv, ~ Resetting, ~ Resetting', state = "PREPARED",
           state' # "PREPARED", hw' = Ticked(FALSE, 0), UNCHANGED <<hw_ptr, hw_ptr_base>>
    PROVE  FollowInv'
  <1>1. /\ hw.at = 0 /\ hw_ptr = 0 /\ hw_ptr_base = 0
        /\ hw.irq \in 0..MaxLate + 1 /\ MaxLate \in Nat
    BY ParamsAssumption DEF FollowInv, AtStart, TypeInv, TypeOK, Hardware
  <1>2. hw'.at = 0 /\ hw'.irq = hw.irq /\ hw'.age = 0 /\ hw_ptr' = 0 /\ hw_ptr_base' = 0
    BY <1>1 DEF Ticked
  <1>3. 0 % PeriodSize \in 0..PeriodSize - 1
    BY SizeFacts, Remainder
  <1>4. Ahead(0, 0) = 0 /\ InTurn(0, 0)
    BY SizeFacts DEF Ahead, InTurn
  <1>5. 0 <= IF hw.irq = 0 THEN 0 % PeriodSize ELSE PeriodSize + hw.irq - 1
    BY <1>1, <1>3, SizeFacts
  <1>6. Played' = 0 /\ InTurn(hw_ptr_base', hw_ptr')
    BY <1>2, <1>4, Zenon DEF Played
  <1>7. 0 <= Bound'
    BY <1>2, <1>5, Zenon DEF Bound
  <1>8. Clock'
    BY <1>2, <1>6, <1>7 DEF Clock
  <1> QED
    BY <1>8 DEF FollowInv, Resetting

LEMMA PlayFollows ==
    ASSUME TypeInv, WellTimed, FollowInv, ~ Resetting, Play
    PROVE  FollowInv'
  <1>1. /\ hw.at \in 0..Boundary - 1 /\ hw.irq \in 0..MaxLate + 1 /\ MaxLate \in Nat
        /\ hw_ptr \in 0..Boundary - 1 /\ Running(state) /\ Clock
    BY ParamsAssumption DEF TypeInv, TypeOK, Hardware, Play, FollowInv
  <1>2. /\ hw'.at = Wrap(hw.at + 1) /\ hw'.age = Less(hw.age + 1, BufferSize)
        /\ hw'.irq = IF hw.irq > 0 THEN hw.irq + 1
                     ELSE IF hw'.at % PeriodSize = 0 THEN 1 ELSE 0
        /\ UNCHANGED <<state, hw_ptr, hw_ptr_base, thr>>
    BY DEF Play, pointers, AgeLimit
  <1>3. Played \in Nat /\ Played <= PeriodSize + MaxLate
    BY <1>1, UpdateFinds
  <1>4. Played + 1 <= BufferSize /\ Played + 1 < Boundary
    <2>1. BufferSize \div 2 \in Nat /\ BufferSize \div 2 < BufferSize
      BY SizeFacts
    <2> QED
      BY <1>1, <1>3, <2>1, SizeFacts DEF WellTimed
  <1>5. Played' = Played + 1
    BY <1>1, <1>2, <1>4, SizeFacts DEF Played, Ahead, Wrap
  <1>6. hw'.age = Played'
    BY <1>1, <1>2, <1>3, <1>4, <1>5, SizeFacts DEF Clock, Less
  <1>7. Played' <= Bound'
    <2>1. hw.at % PeriodSize \in 0..PeriodSize - 1
      BY <1>1, SizeFacts, Remainder
    <2>2. CASE hw.irq > 0
      BY <1>1, <1>2, <1>3, <1>5, <2>2, SizeFacts DEF Clock, Bound
    <2>3. CASE hw.irq = 0
      <3>1. Played <= hw.at % PeriodSize
        BY <1>1, <2>3 DEF Clock, Bound
      <3>2. hw'.at % PeriodSize = 0 \/ hw'.at % PeriodSize = (hw.at % PeriodSize) + 1
        <4>1. CASE hw.at + 1 >= Boundary
          <5>1. hw'.at = 0
            BY <1>1, <1>2, <4>1, SizeFacts DEF Wrap
          <5>2. 0 = 0 * PeriodSize + 0 /\ 0 \in 0..PeriodSize - 1
            BY SizeFacts
          <5>3. 0 % PeriodSize = 0
            BY <5>2, SizeFacts, PlaceInRing
          <5> QED
            BY <5>1, <5>3
        <4>2. CASE hw.at + 1 < Boundary
          <5>1. hw'.at = hw.at + 1
            BY <1>1, <1>2, <4>2, SizeFacts DEF Wrap
          <5>2. hw.at \in Nat /\ PeriodSize \in Nat /\ PeriodSize > 0
            BY <1>1, SizeFacts
          <5>3. (hw.at + 1) % PeriodSize = 0 \/ (hw.at + 1) % PeriodSize = (hw.at % PeriodSize) + 1
            BY <5>2, NextRemainder
          <5> QED
            BY <5>1, <5>3, Zenon
        <4> QED
          BY <1>1, <4>1, <4>2, SizeFacts
      <3>3. CASE hw'.at % PeriodSize = 0
        <4>1. Bound' = PeriodSize
          BY <1>2, <2>3, <3>3, SizeFacts DEF Bound
        <4> QED
          BY <1>3, <1>5, <2>1, <3>1, <4>1, SizeFacts
      <3>4. CASE hw'.at % PeriodSize # 0
        <4>1. Bound' = (hw.at % PeriodSize) + 1
          BY <1>2, <2>3, <3>2, <3>4 DEF Bound
        <4> QED
          BY <1>3, <1>5, <2>1, <3>1, <4>1
      <3> QED
        BY <3>3, <3>4
    <2> QED
      BY <1>1, <2>2, <2>3
  <1>8. Clock'
    BY <1>1, <1>2, <1>6, <1>7 DEF Clock
  <1>9. Running(state') /\ state' # "PREPARED"
    BY <1>1, <1>2 DEF Running
  <1>10. ~ Resetting'
    BY <1>2 DEF Resetting
  <1> QED
    BY <1>8, <1>9, <1>10 DEF FollowInv, Resetting

\* A handled interrupt updates a substream that runs, and is forgotten else.
LEMMA PeriodElapsedFollows ==
    ASSUME RingInv, WellTimed, FollowInv, PeriodElapsed
    PROVE  FollowInv'
  <1>1. TypeInv /\ thr \in [Threads -> Thread] /\ thr' = RousedBy(twake)
    BY DEF RingInv, TypeInv, TypeOK, PeriodElapsed
  <1>2. \A t \in Threads : thr'[t] = thr[t] \/ (thr'[t].at = "woken" /\ thr[t].at = "asleep")
    BY <1>1, RousedSame
  <1>3. CASE Running(state)
    <2>1. ~ Resetting
      BY <1>3 DEF RingInv, Current, Resetting
    <2>2. ~ Resetting'
      BY <1>2, <2>1 DEF Resetting
    <2>3. Update(TRUE)
      BY <1>3 DEF PeriodElapsed
    <2>4. Clock'
      BY <1>1, <1>3, <2>3, UpdateClock DEF FollowInv
    <2>5. state' # "PREPARED"
      BY <1>3, <2>3 DEF Update, StateWith, Running
    <2> QED
      BY <2>2, <2>4, <2>5 DEF FollowInv, Resetting
  <1>4. CASE ~ Running(state)
    <2>1. UNCHANGED <<state, hw_ptr, hw_ptr_base>> /\ hw'.at = hw.at
      BY <1>4 DEF PeriodElapsed, pointers, Ticked
    <2>2. AtStart' = AtStart
      BY <2>1 DEF AtStart
    <2>3. Resetting' = Resetting
      BY <1>2 DEF Resetting
    <2>4. ASSUME NEW t \in Threads
          PROVE  /\ thr'[t].at \in {"base", "appl"} => AtStart'
                 /\ thr'[t].at = "appl" => hw_ptr_base' = 0
      BY <1>2, <2>1, <2>2 DEF FollowInv
    <2>5. ~ Running(state')
      BY <1>4, <2>1
    <2>6. state' = "PREPARED" /\ ~ Resetting' => AtStart' /\ hw_ptr_base' = 0
      BY <2>1, <2>2, <2>3 DEF FollowInv
    <2> QED
      BY <2>4, <2>5, <2>6 DEF FollowInv
  <1> QED
    BY <1>3, <1>4

LEMMA WriterStepFollows ==
    ASSUME RingInv, Sequential, WellTimed, FollowInv, NEW t \in Writers, WriterStep(t)
    PROVE  FollowInv'
  <1>t. t \in Threads /\ TypeInv /\ thr \in [Threads -> Thread] /\ Roused \in [Threads -> Thread]
    BY ThreadsAssumption, RousedGood DEF RingInv, TypeInv, TypeOK
  <1>b. ASSUME NEW tw PROVE RousedBy(tw) \in [Threads -> Thread]
    BY <1>t, RousedByGood
  <1>r. /\ thr[t].at \notin {"base", "appl"} => ~ Resetting
        /\ thr'[t].at \notin {"base", "appl"} => ~ Resetting'
    BY <1>t DEF Sequential, Resetting
  <1>i. Idle.at = "idle"
    BY DEF Idle
  <1>1. ASSUME NEW n \in Sizes, Write(t, n) PROVE FollowInv'
    <2> DEFINE r == Loop(n, RoomAfter, hw_ptr', appl_ptr)
    <2>1. thr'[t] = r /\ AtRest(t) /\ Sync
      BY <1>1, <1>t, <1>b DEF Write, RoomAfter
    <2>2. r.at \in {"copy", "einval", "asleep"}
      BY LoopCurrent
    <2> HIDE DEF r
    <2> QED
      BY <1>t, <1>r, <2>1, <2>2, SyncFollows DEF AtRest
  <1>2. ASSUME WriteAgain(t) PROVE FollowInv'
    <2>1. thr'[t] = Idle /\ AtRest(t) /\ Sync
      BY <1>2, <1>t, <1>b DEF WriteAgain
    <2> QED
      BY <1>t, <1>r, <1>i, <2>1, SyncFollows DEF AtRest
  <1>3. ASSUME Commit(t) PROVE FollowInv'
    <2> DEFINE left == thr[t].size - thr[t].frames
               room == thr[t].avail - thr[t].frames
               starts == state = "PREPARED" /\ HwAvail(hw_ptr, appl_ptr') >= StartThreshold
               r == Loop(left, room, hw_ptr, appl_ptr')
    <2>1. thr[t].at = "copy" /\ thr'[t] \in {Idle, r} /\ UNCHANGED <<hw_ptr, hw_ptr_base>>
      BY <1>3, <1>t DEF Commit, Copied, pointers
    <2>2. r.at \in {"copy", "einval", "asleep"}
      BY LoopCurrent
    <2> HIDE DEF r
    <2>3. ~ Resetting /\ ~ Resetting'
      BY <1>i, <1>r, <2>1, <2>2
    <2>4. CASE starts
      <3>1. /\ state = "PREPARED" /\ hw' = Ticked(FALSE, 0)
            /\ state' \in {"RUNNING", StateWith("RUNNING", PlaybackAvail(hw_ptr, appl_ptr'))}
        BY <1>3, <2>4 DEF Commit
      <3>2. state' # "PREPARED"
        BY <3>1 DEF StateWith
      <3> QED
        BY <1>t, <2>1, <2>3, <3>1, <3>2, StartFollows
    <2>5. CASE ~ starts
      <3>1. /\ hw' = hw
            /\ state' \in {state, StateWith(state, PlaybackAvail(hw_ptr, appl_ptr'))}
        BY <1>3, <2>5 DEF Commit
      <3>2. Running(state') => Running(state)
        BY <3>1 DEF StateWith, Running
      <3>3. state' = "PREPARED" => state = "PREPARED"
        BY <3>1 DEF StateWith
      <3> QED
        BY <2>1, <2>3, <3>1, <3>2, <3>3, UnmovedFollows
    <2> QED
      BY <2>4, <2>5
  <1>4. ASSUME WriteFails(t) \/ WakeToFail(t) \/ WaitSignal(t) \/ WaitTimeout(t)
        PROVE  FollowInv'
    <2>1. /\ thr'[t] = Idle /\ thr[t].at \notin {"base", "appl"}
          /\ UNCHANGED <<state, pointers, hw>>
      BY <1>4, <1>t DEF WriteFails, WakeToFail, WaitSignal, WaitTimeout
    <2> QED
      BY <1>i, <1>r, <2>1, UnmovedFollows DEF pointers
  <1>5. ASSUME WakeToWrite(t) PROVE FollowInv'
    <2> DEFINE r == Round(thr[t].size, PlaybackAvail(hw_ptr, appl_ptr), appl_ptr)
    <2>1. /\ thr[t].at = "woken" /\ UNCHANGED <<state, pointers, hw>>
          /\ thr'[t] = r \/ thr'[t].at = "asleep"
      BY <1>5, <1>t DEF WakeToWrite, Thread
    <2>2. r.at \in {"copy", "einval"}
      BY RoundCurrent
    <2> HIDE DEF r
    <2> QED
      BY <1>r, <2>1, <2>2, UnmovedFollows DEF pointers
  <1> QED
    BY <1>1, <1>2, <1>3, <1>4, <1>5 DEF WriterStep

LEMMA CallerStepFollows ==
    ASSUME RingInv, Sequential, WellTimed, FollowInv, NEW t \in Callers, CallerStep(t)
    PROVE  FollowInv'
  <1>t. t \in Threads /\ TypeInv /\ thr \in [Threads -> Thread]
    BY ThreadsAssumption DEF RingInv, TypeInv, TypeOK
  <1>r. /\ thr[t].at \notin {"base", "appl"} => ~ Resetting
        /\ thr'[t].at \notin {"base", "appl"} => ~ Resetting'
    BY <1>t DEF Sequential, Resetting
  <1>s. ASSUME AtRest(t), NEW tw PROVE RousedBy(tw)[t] = thr[t] /\ Roused[t] = thr[t]
    BY <1>s, <1>t DEF AtRest, RousedBy, Roused
  <1>1. ASSUME Start(t) PROVE FollowInv'
    <2>1. /\ AtRest(t) /\ state = "PREPARED" /\ state' = "RUNNING" /\ hw' = Ticked(FALSE, 0)
          /\ UNCHANGED <<hw_ptr, hw_ptr_base, thr>>
      BY <1>1 DEF Start, pointers
    <2> QED
      BY <1>t, <1>r, <2>1, StartFollows DEF AtRest
  <1>2. ASSUME Drain(t) PROVE FollowInv'
    <2>1. /\ AtRest(t) /\ state # "PAUSED" /\ UNCHANGED <<hw_ptr, hw_ptr_base, thr>>
          /\ state' = (IF state = "XRUN" THEN "SETUP" ELSE "DRAINING")
          /\ state \in {"RUNNING", "PAUSED", "XRUN", "PREPARED"}
      BY <1>2 DEF Drain, pointers, RingInv
    <2>2. CASE state = "PREPARED"
      <3>1. hw' = Ticked(FALSE, 0)
        BY <1>2, <2>2, Zenon DEF Drain
      <3> QED
        BY <1>t, <1>r, <2>1, <2>2, <3>1, StartFollows DEF AtRest
    <2>3. CASE state # "PREPARED"
      <3>1. hw' = Ticked(FALSE, hw.age)
        BY <1>2, <2>1, <2>3, Zenon DEF Drain
      <3>2. hw \in Hardware
        BY <1>t DEF TypeInv, TypeOK
      <3>3. hw' = hw
        BY <3>1, <3>2 DEF Ticked, Hardware
      <3> QED
        BY <1>t, <1>r, <2>1, <2>3, <3>3, UnmovedFollows DEF AtRest, Running
    <2> QED
      BY <2>2, <2>3
  <1>3. ASSUME HwSync(t) \/ \E n \in Sizes : Rewind(t, n) \/ Forward(t, n)
        PROVE  FollowInv'
    <2>1. AtRest(t) /\ Sync /\ thr' = RousedBy(twake)
      BY <1>3 DEF HwSync, Rewind, Forward, Sync
    <2> QED
      BY <1>t, <1>r, <1>s, <2>1, SyncFollows DEF AtRest
  <1>4. ASSUME Drop(t) PROVE FollowInv'
    <2>1. AtRest(t) /\ state' = "SETUP" /\ thr'[t] = thr[t]
      BY <1>4, <1>s DEF Drop
    <2> QED
      BY <1>r, <2>1 DEF AtRest, FollowInv, Resetting, Running
  <1>5. ASSUME Prepare(t) PROVE FollowInv'
    <2>1. /\ ~ Running(state) /\ state' = state /\ hw_ptr' = 0 /\ hw'.at = 0
          /\ thr'[t].at = "base"
      BY <1>5, <1>t DEF Prepare, Placed, Resets
    <2> QED
      BY <1>t, <2>1 DEF FollowInv, AtStart, Resetting, Sequential
  <1>6. ASSUME ResetBase(t) PROVE FollowInv'
    <2>1. /\ thr[t].at = "base" /\ thr'[t].at = "appl" /\ hw_ptr_base' = 0
          /\ UNCHANGED <<state, hw_ptr, hw>>
      BY <1>6, <1>t DEF ResetBase, Thread
    <2>2. ~ Running(state) /\ AtStart
      BY <1>t, <2>1 DEF RingInv, Current, FollowInv
    <2> QED
      BY <1>t, <2>1, <2>2 DEF FollowInv, AtStart, Resetting, Sequential
  <1>7. ASSUME ResetAppl(t) PROVE FollowInv'
    <2>1. /\ thr[t].at = "appl" /\ thr'[t].at = "idle" /\ state' \in {state, "PREPARED"}
          /\ UNCHANGED <<hw_ptr, hw_ptr_base, hw>>
      BY <1>7, <1>t DEF ResetAppl, Idle, pointers
    <2>2. ~ Running(state) /\ AtStart /\ hw_ptr_base = 0
      BY <1>t, <2>1 DEF RingInv, Current, FollowInv
    <2>3. ~ Running(state') /\ ~ Resetting' /\ AtStart' /\ hw_ptr_base' = 0
      BY <1>r, <2>1, <2>2 DEF Running, AtStart
    <2> QED
      BY <2>3 DEF FollowInv, Resetting
  <1>8. ~ Push(t) /\ ~ Release(t) /\ ~ ResetPtr(t)
    BY DEF Sequential, Push, Release, ResetPtr
  <1> QED
    BY <1>1, <1>2, <1>3, <1>4, <1>5, <1>6, <1>7, <1>8 DEF CallerStep

FollowsRing == RingInv /\ FollowInv

LEMMA FollowsInit == Init => FollowsRing
  <1> SUFFICES ASSUME Init PROVE FollowsRing
    OBVIOUS
  <1>1. RingInv
    BY RingInvInit
  <1>2. state = "SETUP" /\ \A t \in Threads : thr[t].at = "idle"
    BY DEF Init, Idle
  <1>3. FollowInv
    BY <1>2 DEF FollowInv, Running
  <1> QED
    BY <1>1, <1>3 DEF FollowsRing

LEMMA FollowsNext == Sequential /\ WellTimed /\ FollowsRing /\ [Next]_vars => FollowsRing'
  <1> SUFFICES ASSUME Sequential, WellTimed, RingInv, FollowInv, [Next]_vars
               PROVE  FollowInv'
    BY RingInvNext DEF FollowsRing
  <1>1. CASE Play
    <2>1. Running(state)
      BY <1>1 DEF Play
    <2>2. TypeInv /\ ~ Resetting
      BY <2>1 DEF RingInv, Current, Resetting
    <2> QED
      BY <1>1, <2>2, PlayFollows
  <1>2. CASE PeriodElapsed
    BY <1>2, PeriodElapsedFollows
  <1>3. ASSUME NEW t \in Writers, WriterStep(t) PROVE FollowInv'
    BY <1>3, WriterStepFollows
  <1>4. ASSUME NEW t \in Callers, CallerStep(t) PROVE FollowInv'
    BY <1>4, CallerStepFollows
  <1>5. CASE UNCHANGED vars
    BY <1>5 DEF vars, FollowInv, Clock, Played, Bound, AtStart, Resetting
  <1> QED
    BY <1>1, <1>2, <1>3, <1>4, <1>5 DEF Next

\* hw_ptr is never older than a period and a late interrupt, for every size of
\* period, buffer and boundary: no update of a sequential application takes the
\* place in the ring for one a turn earlier or later.
THEOREM PositionFollows ==
    ASSUME Sequential, WellTimed PROVE Spec => []PointerFollows
  <1>1. FollowsRing => PointerFollows
    <2> SUFFICES ASSUME FollowsRing, Running(state)
                 PROVE  Ahead(hw.at, hw_ptr) <= PeriodSize + MaxLate
      BY DEF PointerFollows
    <2> QED
      BY UpdateFinds DEF FollowsRing, RingInv, FollowInv, Played
  <1>2. FollowsRing /\ [Next]_vars => FollowsRing'
    BY FollowsNext
  <1> QED
    BY <1>1, <1>2, FollowsInit, PTL DEF Spec

\* No period interrupt of a running substream is thrown away as implausible.
THEOREM InterruptsArePlausible ==
    ASSUME Sequential, WellTimed PROVE Spec => NothingReallyWrong
  <1>1. FollowsRing => (Running(state) => Plausible(TRUE))
    BY UpdateFinds DEF FollowsRing, RingInv, FollowInv
  <1>2. FollowsRing /\ [Next]_vars => FollowsRing'
    BY FollowsNext
  <1>3. FollowsRing /\ [Next]_vars => [PeriodElapsed /\ Running(state) => Plausible(TRUE)]_vars
    BY <1>1
  <1> QED
    BY <1>2, <1>3, FollowsInit, PTL DEF Spec, NothingReallyWrong

=============================================================================
