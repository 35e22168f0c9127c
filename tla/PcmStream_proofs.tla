------------------------- MODULE PcmStream_proofs -------------------------
(***************************************************************************)
(* Proofs about module PcmStream: its type invariant, and for applications *)
(* with one thread what its runs check of state and hardware: that the DMA *)
(* engine follows the state, that it has a buffer, that linked substreams  *)
(* run together, that a suspended card is quiet, and that a group is quiet *)
(* when a drop or the handling of an underrun is over.                     *)
(***************************************************************************)
EXTENDS PcmStream, SequenceTheorems, TLAPS

(***************************************************************************)
(* What an agent may be doing.                                             *)
(***************************************************************************)
Locking == {"self", "wait", "group", "both"}

\* The calls of snd_pcm_action that are left to a task.
Asks(t, c)     == t.at \in Locking /\ t.todo = <<c>>
Asks2(t, c, d) == t.at \in Locking /\ t.todo = <<c, d>>
Works(t, at)   == t.at = at /\ t.todo = <<>>

IrqTask(s, t) == t.op = "irq" /\ t.s = s /\ Asks(t, Stop("XRUN"))

DriverTask(t) == \/ t.op = "unplug" /\ Works(t, "each")
                 \/ t.op = "suspend" /\ (Works(t, "each") \/ Asks(t, Do("suspend")))

ThreadTask(t) ==
    \/ t.op = "start" /\ Asks(t, Do("start"))
    \/ t.op = "resume" /\ Asks(t, Do("resume"))
    \/ /\ t.op = "pause"
       /\ t.at \in Locking \cup {"stuck"} /\ t.todo \in {<<Do("push")>>, <<Do("release")>>}
    \/ t.op = "xrun" /\ Asks(t, Stop("XRUN"))
    \/ /\ t.op \in {"drop", "close"}
       /\ \/ Works(t, "checked") \/ Asks(t, Stop("SETUP"))
          \/ Asks2(t, Do("release"), Stop("SETUP"))
    \/ t.op = "close" /\ Works(t, "close")
    \/ /\ t.op = "drain"
       /\ \/ Asks(t, Stop("SETUP")) \/ Asks(t, Do("drain")) \/ Asks2(t, Do("release"), Do("drain"))
          \/ t.at \in {"self", "queued", "asleep", "woken", "timedout"} /\ t.todo = <<>>
    \/ t.op = "hw_params" /\ t.at = "work" /\ t.todo \in {<<Stop("SETUP")>>, <<Stop("OPEN")>>}
    \/ t.op = "hw_free" /\ t.at = "work" /\ t.todo = <<Stop("OPEN")>>
    \/ t.op = "prepare" /\ Works(t, "prepare")
    \/ /\ t.op \in {"read", "write"}
       /\ \/ Works(t, "work") \/ Asks(t, Do("start"))
          \/ Asks(t, Stop("SETUP")) \/ Asks(t, Stop("XRUN"))

FormOf(a, t) == /\ t \in Task
                /\ \/ t = Idle
                   \/ a \in Streams /\ IrqTask(a, t)
                   \/ a = Driver /\ DriverTask(t)
                   \/ a \in Threads /\ ThreadTask(t)

Forms == /\ pc = [a \in Agents |-> pc[a]]
         /\ \A a \in Agents : FormOf(a, pc[a])

LEMMA OneCall ==
  ASSUME NEW c
  PROVE  Head(<<c>>) = c /\ Tail(<<c>>) = <<>> /\ <<c>> # <<>>
  OBVIOUS

LEMMA TwoCalls ==
  ASSUME NEW c, NEW d
  PROVE  Head(<<c, d>>) = c /\ Tail(<<c, d>>) = <<d>> /\ <<c, d>> # <<>>
  OBVIOUS

LEMMA CallsTyped ==
  ASSUME NEW c \in Call, NEW d \in Call
  PROVE  <<>> \in Seq(Call) /\ <<c>> \in Seq(Call) /\ <<c, d>> \in Seq(Call)
  OBVIOUS

LEMMA DoTyped ==
  /\ \A act \in Acts : Do(act) \in Call /\ Do(act).act = act
  /\ \A to \in States : Stop(to) \in Call /\ Stop(to).act = "stop" /\ Stop(to).to = to
  BY DEF Do, Stop, Call, States, Acts

LEMMA ActNames ==
  /\ Acts = {"start", "stop", "push", "release", "suspend", "resume", "drain"}
  /\ {"SETUP", "XRUN", "OPEN"} \subseteq States
  BY DEF Acts, States

LEMMA PlansTyped ==
  /\ <<>> \in Seq(Call)
  /\ \A act \in Acts : <<Do(act)>> \in Seq(Call)
  /\ \A to \in States : <<Stop(to)>> \in Seq(Call)
  /\ <<Do("release"), Stop("SETUP")>> \in Seq(Call) /\ <<Do("release"), Do("drain")>> \in Seq(Call)
  <1>1. ASSUME NEW act \in Acts PROVE <<Do(act)>> \in Seq(Call)
    BY DoTyped, CallsTyped
  <1>2. ASSUME NEW to \in States PROVE <<Stop(to)>> \in Seq(Call)
    BY DoTyped, CallsTyped
  <1>3. <<Do("release"), Stop("SETUP")>> \in Seq(Call) /\ <<Do("release"), Do("drain")>> \in Seq(Call)
    <2>1. Do("release") \in Call /\ Do("drain") \in Call /\ Stop("SETUP") \in Call
      BY DoTyped, ActNames
    <2> QED
      BY <2>1, CallsTyped
  <1>4. <<>> \in Seq(Call)
    OBVIOUS
  <1> QED
    BY <1>1, <1>2, <1>3, <1>4

LEMMA IdleTask ==
  /\ Idle \in Task /\ Idle.at = "idle" /\ Idle.op = "none" /\ Idle.todo = <<>> /\ Idle.rest = {}
  /\ Idle.s \in Streams
  <1>1. PICK s \in Streams : s = Idle.s
    BY StreamsAssumption DEF Idle
  <1>2. <<>> \in Seq(Call)
    OBVIOUS
  <1> QED
    BY <1>1, <1>2 DEF Idle, Task, Places, Ops

LEMMA IdleForm == \A a : FormOf(a, Idle)
  BY IdleTask DEF FormOf

LEMMA TaskFields ==
  ASSUME NEW t \in Task
  PROVE  /\ t.at \in Places /\ t.op \in Ops /\ t.s \in Streams /\ t.todo \in Seq(Call)
         /\ t.rest \in SUBSET Streams
  BY DEF Task

\* A task moves to another place; it goes on to other calls; it changes its rest.
LEMMA Moved ==
  ASSUME NEW t \in Task, NEW at \in Places, NEW u, u = [t EXCEPT !.at = at]
  PROVE  /\ u \in Task /\ u.at = at
         /\ u.op = t.op /\ u.s = t.s /\ u.todo = t.todo /\ u.rest = t.rest
  BY DEF Task

LEMMA MovedTodo ==
  ASSUME NEW t \in Task, NEW at \in Places, NEW todo \in Seq(Call),
         NEW u, u = [t EXCEPT !.at = at, !.todo = todo]
  PROVE  /\ u \in Task /\ u.at = at /\ u.todo = todo
         /\ u.op = t.op /\ u.s = t.s /\ u.rest = t.rest
  BY DEF Task

LEMMA MovedRest ==
  ASSUME NEW t \in Task, NEW at \in Places, NEW rest \in SUBSET Streams,
         NEW u, u = [t EXCEPT !.at = at, !.rest = rest]
  PROVE  /\ u \in Task /\ u.at = at /\ u.rest = rest
         /\ u.op = t.op /\ u.s = t.s /\ u.todo = t.todo
  BY DEF Task

\* A task that may perform its next call, and what that call may be.
Pending(t) == t.at \in Locking /\ t.todo # <<>>

ThreadCall == {Do("start"), Do("push"), Do("release"), Do("drain"), Stop("SETUP"), Stop("XRUN")}

LEMMA NextCall ==
  ASSUME NEW a, NEW t, FormOf(a, t), Pending(t)
  PROVE  /\ Head(t.todo) \in ThreadCall \cup {Do("resume"), Do("suspend")}
         /\ Head(t.todo) = Do("resume") => t.op = "resume" /\ a \in Threads
         /\ Head(t.todo) = Do("suspend") => t.op = "suspend" /\ a = Driver
         /\ t.op \notin {"hw_params", "hw_free", "prepare", "none", "unplug"}
         /\ a \in Streams => Head(t.todo) = Stop("XRUN")
         /\ t.op = "resume" => Head(t.todo) = Do("resume")
         /\ t.op = "suspend" => Head(t.todo) = Do("suspend")
  <1>1. t.at # "idle" /\ t # Idle
    BY IdleTask DEF Pending, Locking
  <1>2. /\ Head(<<Stop("XRUN")>>) = Stop("XRUN") /\ Head(<<Stop("SETUP")>>) = Stop("SETUP")
        /\ \A act \in Acts : Head(<<Do(act)>>) = Do(act)
        /\ Head(<<Do("release"), Stop("SETUP")>>) = Do("release")
        /\ Head(<<Do("release"), Do("drain")>>) = Do("release")
    BY OneCall, TwoCalls
  <1>3. \A act, b \in Acts : act # b => Do(act) # Do(b)
    BY DEF Do
  <1>4. \A act \in Acts \ {"stop"} : Do(act) # Stop("XRUN") /\ Do(act) # Stop("SETUP")
    BY DEF Do, Stop
  <1>5. CASE a \in Streams /\ IrqTask(a, t)
    BY <1>2, <1>4, <1>5, ActNames, AgentsAssumption DEF IrqTask, Asks, ThreadCall
  <1>6. CASE a = Driver /\ DriverTask(t)
    BY <1>2, <1>3, <1>6, ActNames, AgentsAssumption DEF DriverTask, Asks, Works, Pending, Locking
  <1>7. CASE a \in Threads /\ ThreadTask(t)
    <2>1. a \notin Streams
      BY <1>7, AgentsAssumption
    <2> QED
      BY <2>1, <1>2, <1>3, <1>4, <1>7, ActNames
      DEF ThreadTask, Asks, Asks2, Works, Pending, Locking, ThreadCall
  <1> QED
    BY <1>1, <1>5, <1>6, <1>7 DEF FormOf

LEMMA LockingForm ==
  ASSUME NEW a, NEW t, FormOf(a, t), Pending(t), NEW at \in Locking,
         NEW u, u = [t EXCEPT !.at = at]
  PROVE  FormOf(a, u)
  <1>1. t \in Task /\ at \in Places
    BY DEF FormOf, Locking, Places
  <1>2. u \in Task /\ u.at = at /\ u.op = t.op /\ u.s = t.s /\ u.todo = t.todo
    BY <1>1, Moved
  <1>3. t # Idle
    BY IdleTask DEF Pending, Locking
  <1>4. CASE a \in Streams /\ IrqTask(a, t)
    BY <1>2, <1>4 DEF FormOf, IrqTask, Asks
  <1>5. CASE a = Driver /\ DriverTask(t)
    BY <1>2, <1>5 DEF FormOf, DriverTask, Asks, Works, Pending, Locking
  <1>6. CASE a \in Threads /\ ThreadTask(t)
    <2>1. ThreadTask(u)
      BY <1>2, <1>6 DEF ThreadTask, Asks, Asks2, Works, Pending, Locking
    <2> QED
      BY <1>2, <1>6, <2>1 DEF FormOf
  <1> QED
    BY <1>3, <1>4, <1>5, <1>6 DEF FormOf

LEMMA AfterCallsForm ==
  ASSUME NEW a, FormOf(a, pc[a]), Pending(pc[a])
  PROVE  FormOf(a, AfterCalls(a))
  <1>1. pc[a] \in Task /\ <<>> \in Seq(Call)
    BY PlansTyped DEF FormOf
  <1>2. ASSUME NEW at \in Places, NEW u, u = [pc[a] EXCEPT !.at = at, !.todo = <<>>]
        PROVE  u \in Task /\ Works(u, at) /\ u.op = pc[a].op
    BY <1>1, <1>2 DEF Works, Task
  <1>3. CASE pc[a].op = "suspend"
    <2>1. PICK u : u = AfterCalls(a) /\ u = [pc[a] EXCEPT !.at = "each", !.todo = <<>>]
      BY <1>3 DEF AfterCalls
    <2>2. a = Driver
      BY <1>3, IdleTask DEF FormOf, IrqTask, ThreadTask
    <2>3. u \in Task /\ Works(u, "each") /\ u.op = "suspend"
      BY <1>2, <1>3, <2>1 DEF Places
    <2> QED
      BY <2>1, <2>2, <2>3 DEF FormOf, DriverTask
  <1>4. CASE pc[a].op = "close"
    <2>1. PICK u : u = AfterCalls(a) /\ u = [pc[a] EXCEPT !.at = "close", !.todo = <<>>]
      BY <1>4 DEF AfterCalls
    <2>2. a \in Threads
      BY <1>4, IdleTask DEF FormOf, IrqTask, DriverTask
    <2>3. u \in Task /\ Works(u, "close") /\ u.op = "close"
      BY <1>2, <1>4, <2>1 DEF Places
    <2> QED
      BY <2>1, <2>2, <2>3 DEF FormOf, ThreadTask
  <1>5. CASE pc[a].op \notin {"suspend", "close"}
    <2>1. AfterCalls(a) = Idle
      BY <1>5 DEF AfterCalls
    <2> QED
      BY <2>1, IdleForm
  <1> QED
    BY <1>3, <1>4, <1>5

\* Where AfterCall leads to: it ends the task, or the task goes on.
LEMMA AfterCallIs ==
  ASSUME NEW a, NEW ok
  PROVE  \/ AfterCall(a, ok) = AfterCalls(a)
         \/ /\ pc[a].op \in {"drop", "close", "drain"}
            /\ AfterCall(a, ok) = [pc[a] EXCEPT !.at = "self", !.todo = Tail(pc[a].todo)]
            /\ pc[a].op \in {"drop", "close"} => Tail(pc[a].todo) # <<>>
         \/ /\ pc[a].op \in {"write", "read"} /\ Head(pc[a].todo) = Stop("XRUN")
            /\ AfterCall(a, ok) = [pc[a] EXCEPT !.at = "work", !.todo = Tail(pc[a].todo)]
  BY SMTT(30) DEF AfterCall

LEMMA AfterCallForm ==
  ASSUME NEW a, FormOf(a, pc[a]), Pending(pc[a]), NEW ok
  PROVE  FormOf(a, AfterCall(a, ok))
  <1>1. PICK t : t = pc[a] /\ t \in Task /\ FormOf(a, t) /\ Pending(t)
    BY DEF FormOf
  <1>2. /\ Tail(<<Stop("XRUN")>>) = <<>> /\ Tail(<<Stop("SETUP")>>) = <<>>
        /\ \A act \in Acts : Tail(<<Do(act)>>) = <<>>
        /\ Tail(<<Do("release"), Stop("SETUP")>>) = <<Stop("SETUP")>>
        /\ Tail(<<Do("release"), Do("drain")>>) = <<Do("drain")>>
    BY OneCall, TwoCalls
  <1>3. /\ Head(<<Stop("SETUP")>>) = Stop("SETUP") /\ Stop("SETUP") # Stop("XRUN")
        /\ Head(<<Do("start")>>) = Do("start") /\ Do("start") # Stop("XRUN")
    BY OneCall DEF Stop, Do
  <1>4. CASE AfterCall(a, ok) = AfterCalls(a)
    BY <1>4, AfterCallsForm
  <1>5. CASE /\ t.op \in {"drop", "close", "drain"}
             /\ AfterCall(a, ok) = [t EXCEPT !.at = "self", !.todo = Tail(t.todo)]
             /\ t.op \in {"drop", "close"} => Tail(t.todo) # <<>>
    <2>1. a \in Threads /\ ThreadTask(t)
      BY <1>1, <1>5, IdleTask DEF FormOf, IrqTask, DriverTask
    <2>2. PICK rest : rest = Tail(t.todo)
      OBVIOUS
    <2>3. \/ t.op \in {"drop", "close"} /\ rest = <<Stop("SETUP")>>
          \/ t.op = "drain" /\ rest = <<Do("drain")>>
          \/ t.op = "drain" /\ rest = <<>>
      BY <1>1, <1>2, <1>5, <2>1, <2>2, ActNames DEF ThreadTask, Asks, Asks2, Works, Pending, Locking
    <2>4. rest \in Seq(Call) /\ "self" \in Places
      BY <2>3, PlansTyped, ActNames DEF Places
    <2>5. PICK u : u = [t EXCEPT !.at = "self", !.todo = rest]
      OBVIOUS
    <2>6. u \in Task /\ u.at = "self" /\ u.todo = rest /\ u.op = t.op
      BY <1>1, <2>4, <2>5 DEF Task
    <2>7. ThreadTask(u)
      BY <2>3, <2>6 DEF ThreadTask, Asks, Locking
    <2> QED
      BY <1>5, <2>1, <2>2, <2>5, <2>6, <2>7 DEF FormOf
  <1>6. CASE /\ t.op \in {"write", "read"} /\ Head(t.todo) = Stop("XRUN")
             /\ AfterCall(a, ok) = [t EXCEPT !.at = "work", !.todo = Tail(t.todo)]
    <2>1. a \in Threads /\ ThreadTask(t)
      BY <1>1, <1>6, IdleTask DEF FormOf, IrqTask, DriverTask
    <2>2. PICK rest : rest = Tail(t.todo)
      OBVIOUS
    <2>3. rest = <<>>
      BY <1>1, <1>2, <1>3, <1>6, <2>1, <2>2, ActNames
      DEF ThreadTask, Asks, Asks2, Works, Pending, Locking
    <2>4. rest \in Seq(Call) /\ "work" \in Places
      BY <2>3, PlansTyped DEF Places
    <2>5. PICK u : u = [t EXCEPT !.at = "work", !.todo = rest]
      OBVIOUS
    <2>6. u \in Task /\ u.at = "work" /\ u.todo = rest /\ u.op = t.op
      BY <1>1, <2>4, <2>5 DEF Task
    <2>7. ThreadTask(u)
      BY <1>6, <2>3, <2>6 DEF ThreadTask, Works
    <2> QED
      BY <1>6, <2>1, <2>2, <2>5, <2>6, <2>7 DEF FormOf
  <1> QED
    BY <1>1, <1>4, <1>5, <1>6, AfterCallIs

(***************************************************************************)
(* Steps of the agents.                                                    *)
(***************************************************************************)
Types == TypeOK /\ Forms

\* A task that another agent's step leaves alone, or wakes.
Kin(t, u) == /\ u.op = t.op /\ u.s = t.s /\ u.todo = t.todo /\ u.rest = t.rest
             /\ u.at = t.at \/ (t.at = "asleep" /\ u.at = "woken")
             /\ t = Idle => u = Idle

LEMMA KinForm ==
  ASSUME NEW a, NEW t, FormOf(a, t), t.at = "asleep", NEW u, u = [t EXCEPT !.at = "woken"]
  PROVE  FormOf(a, u) /\ Kin(t, u)
  <1>1. t \in Task /\ "woken" \in Places /\ t # Idle
    BY IdleTask DEF FormOf, Places
  <1>2. u \in Task /\ u.at = "woken" /\ u.op = t.op /\ u.s = t.s /\ u.todo = t.todo /\ u.rest = t.rest
    BY <1>1, Moved
  <1>3. a \in Threads /\ ThreadTask(t)
    BY <1>1 DEF FormOf, IrqTask, DriverTask, Asks, Works, Locking
  <1>4. t.op = "drain" /\ t.todo = <<>>
    BY <1>3 DEF ThreadTask, Asks, Asks2, Works, Locking
  <1>5. ThreadTask(u)
    BY <1>2, <1>4 DEF ThreadTask
  <1> QED
    BY <1>1, <1>2, <1>3, <1>5 DEF FormOf, Kin

LEMMA Becomes ==
  ASSUME Types, NEW a \in Agents, NEW task, FormOf(a, task), NEW W, Become(a, task, W)
  PROVE  /\ (pc \in [Agents -> Task] /\ Forms)'
         /\ pc'[a] = task
         /\ \A b \in Agents \ {a} : Kin(pc[b], pc'[b])
  <1>1. pc'[a] = task
    BY DEF Become
  <1>2. ASSUME NEW b \in Agents \ {a}
        PROVE  FormOf(b, pc'[b]) /\ Kin(pc[b], pc'[b])
    <2>1. FormOf(b, pc[b])
      BY DEF Types, Forms
    <2>2. \/ pc'[b] = pc[b]
          \/ pc[b].at = "asleep" /\ pc'[b] = [pc[b] EXCEPT !.at = "woken"]
      BY DEF Become
    <2>3. CASE pc'[b] = pc[b]
      BY <2>1, <2>3 DEF Kin
    <2>4. CASE pc[b].at = "asleep" /\ pc'[b] = [pc[b] EXCEPT !.at = "woken"]
      <3>1. PICK t : t = pc[b]
        OBVIOUS
      <3>2. PICK u : u = pc'[b]
        OBVIOUS
      <3> QED
        BY <2>1, <2>4, <3>1, <3>2, KinForm
    <2> QED
      BY <2>2, <2>3, <2>4
  <1>3. pc' = [b \in Agents |-> pc'[b]]
    BY DEF Become
  <1>4. \A b \in Agents : FormOf(b, pc'[b])
    BY <1>1, <1>2
  <1>5. \A b \in Agents : pc'[b] \in Task
    BY <1>4 DEF FormOf
  <1>6. pc' \in [Agents -> Task]
    BY <1>3, <1>5
  <1>7. Forms'
    BY <1>3, <1>4 DEF Forms
  <1> QED
    BY <1>1, <1>2, <1>6, <1>7

\* A step that changes nothing but what an agent does.
LEMMA OnlyBecomes ==
  ASSUME Types, NEW a \in Agents, NEW task, FormOf(a, task), NEW W, Become(a, task, W),
         UNCHANGED <<rt, grp, shutdown>>, power' \in {"D0", "D3hot"}
  PROVE  Types'
  <1>1. (pc \in [Agents -> Task] /\ Forms)'
    BY Becomes
  <1> QED
    BY <1>1 DEF Types, TypeOK

(***************************************************************************)
(* The runtime of a substream under the operations of the model.           *)
(***************************************************************************)
LEMMA RuntimeFields ==
  ASSUME NEW r \in Runtime
  PROVE  /\ r.state \in States /\ r.suspended_state \in States /\ r.dma \in BOOLEAN
         /\ r.level \in 0..BufferSize /\ r.setup \in BOOLEAN
  BY DEF Runtime

LEMMA AdvanceFields ==
  ASSUME NEW s, NEW r \in Runtime, NEW n \in 0..BufferSize, NEW q, q = Advance(s, r, n)
  PROVE  /\ q \in Runtime
         /\ q.state = r.state /\ q.suspended_state = r.suspended_state
         /\ q.dma = r.dma /\ q.setup = r.setup
  <1>1. /\ BufferSize \in Nat /\ r.level \in 0..BufferSize
    BY BufferAssumption DEF Runtime
  <1>2. PICK l : l = IF s \in Playback THEN (IF r.level > n THEN r.level - n ELSE 0)
                     ELSE (IF r.level + n < BufferSize THEN r.level + n ELSE BufferSize)
    OBVIOUS
  <1>3. l \in 0..BufferSize
    BY <1>1, <1>2
  <1>4. q = [r EXCEPT !.level = l]
    BY <1>2 DEF Advance
  <1> QED
    BY <1>3, <1>4 DEF Runtime

LEMMA LookedFields ==
  ASSUME NEW c, NEW s, NEW r \in Runtime, NEW n \in 0..BufferSize, NEW q, q = Looked(c, s, r, n)
  PROVE  /\ q \in Runtime
         /\ q.state = r.state /\ q.suspended_state = r.suspended_state
         /\ q.dma = r.dma /\ q.setup = r.setup
         /\ c.act # "push" => q = r
  <1>1. PICK p : p = Advance(s, r, n)
    OBVIOUS
  <1>2. q = r \/ (q = p /\ c.act = "push")
    BY <1>1 DEF Looked
  <1> QED
    BY <1>1, <1>2, AdvanceFields

LEMMA CallFields ==
  ASSUME NEW c \in Call
  PROVE  c.act \in Acts /\ c.to \in States
  BY DEF Call

LEMMA AfterTyped ==
  ASSUME NEW c \in Call, NEW s, NEW r \in Runtime
  PROVE  /\ StateAfter(c, s, r) \in States /\ DrainTarget(s, r) \in States
         /\ Triggers(c, s, r) \in BOOLEAN /\ TriggerOn(c, s) \in BOOLEAN
         /\ DmaAfter(c, s, r) \in BOOLEAN
  <1>1. c.act \in Acts /\ c.to \in States /\ r.state \in States /\ r.suspended_state \in States
        /\ r.dma \in BOOLEAN
    BY CallFields, RuntimeFields
  <1>2. DrainTarget(s, r) \in States
    BY <1>1 DEF DrainTarget, States
  <1>3. StateAfter(c, s, r) \in States
    BY <1>1, <1>2 DEF StateAfter, States, Acts
  <1>4. TriggerOn(c, s) \in BOOLEAN
    BY DEF TriggerOn
  <1>5. Triggers(c, s, r) \in BOOLEAN
    BY <1>1 DEF Triggers, Acts, Running
  <1> QED
    BY <1>1, <1>2, <1>3, <1>4, <1>5 DEF DmaAfter

LEMMA DoneFields ==
  ASSUME shutdown \in BOOLEAN,
         NEW c \in Call, NEW s, NEW r \in Runtime, NEW q, q = Done(c, s, r)
  PROVE  /\ q \in Runtime
         /\ q.state = StateAfter(c, s, r)
         /\ q.dma = (DmaAfter(c, s, r) /\ ~shutdown)
         /\ q.suspended_state = IF c.act = "suspend" THEN r.state ELSE r.suspended_state
         /\ q.level = r.level /\ q.setup = r.setup
  <1>1. StateAfter(c, s, r) \in States /\ DmaAfter(c, s, r) \in BOOLEAN
    BY AfterTyped
  <1>2. PICK to : to = StateAfter(c, s, r)
    OBVIOUS
  <1>3. PICK dma \in BOOLEAN : dma = (DmaAfter(c, s, r) /\ ~shutdown)
    BY <1>1
  <1>4. PICK old : old = IF c.act = "suspend" THEN r.state ELSE r.suspended_state
    OBVIOUS
  <1>5. old \in States
    BY <1>4, RuntimeFields
  <1>6. q = [r EXCEPT !.state = to, !.dma = dma, !.suspended_state = old]
    BY <1>2, <1>3, <1>4 DEF Done
  <1> QED
    BY <1>1, <1>2, <1>3, <1>4, <1>5, <1>6 DEF Runtime

LEMMA UndoneFields ==
  ASSUME shutdown \in BOOLEAN,
         NEW c \in Call, NEW s, NEW r \in Runtime, NEW q, q = Undone(c, s, r)
  PROVE  /\ q \in Runtime
         /\ q.state = r.state /\ q.suspended_state = r.suspended_state
         /\ q.level = r.level /\ q.setup = r.setup
         /\ q.dma = ((IF Triggers(c, s, r) /\ (c.act = "resume" => Running(s, r))
                      THEN ~TriggerOn(c, s) ELSE DmaAfter(c, s, r)) /\ ~shutdown)
  <1>1. TriggerOn(c, s) \in BOOLEAN /\ DmaAfter(c, s, r) \in BOOLEAN
    BY AfterTyped
  <1>2. PICK dma \in BOOLEAN :
           dma = ((IF Triggers(c, s, r) /\ (c.act = "resume" => Running(s, r))
                   THEN ~TriggerOn(c, s) ELSE DmaAfter(c, s, r)) /\ ~shutdown)
    BY <1>1
  <1>3. q = [r EXCEPT !.dma = dma]
    BY <1>2 DEF Undone
  <1> QED
    BY <1>2, <1>3 DEF Runtime

LEMMA SetFields ==
  ASSUME NEW r \in Runtime, NEW to \in States, NEW q, q = SetState(r, to)
  PROVE  /\ q \in Runtime
         /\ q.state = IF r.state = "DISCONNECTED" THEN r.state ELSE to
         /\ q.dma = r.dma /\ q.suspended_state = r.suspended_state
         /\ q.level = r.level /\ q.setup = r.setup
  BY DEF SetState, Runtime

LEMMA NewRuntimeTyped ==
  /\ NewRuntime \in Runtime /\ NewRuntime.state = "OPEN" /\ ~NewRuntime.dma
  /\ ~NewRuntime.setup /\ NewRuntime.suspended_state = "OPEN"
  <1>1. 0 \in 0..BufferSize
    BY BufferAssumption
  <1> QED
    BY <1>1 DEF NewRuntime, Runtime, States

(***************************************************************************)
(* What one call of snd_pcm_action does to the runtimes.                   *)
(***************************************************************************)
DoneOrNoStart(c, s, q) ==
    \/ \E n \in 0..BufferSize : q = Done(c, s, Looked(c, s, rt[s], n))
    \/ /\ c.act = "drain" /\ s \in Playback /\ Triggers(c, s, rt[s])
       /\ q = [Done(c, s, rt[s]) EXCEPT !.dma = rt[s].dma]

Unchanged    == rt' = rt
SomeUndone(c, G) ==
    /\ c.act \in Fallible
    /\ \A s \in Streams \ G : rt'[s] = rt[s]
    /\ \A s \in G : rt'[s] = rt[s] \/ rt'[s] = Undone(c, s, rt[s])
AllDone(c, G) ==
    /\ \A s \in Streams \ G : rt'[s] = rt[s]
    /\ \A s \in G : DoneOrNoStart(c, s, rt'[s])

Outcome(c, G) == \/ Refused(c, G) /\ Unchanged
                 \/ ~Refused(c, G) /\ SomeUndone(c, G)
                 \/ ~Refused(c, G) /\ AllDone(c, G)

LEMMA ActionIs ==
  ASSUME Types, NEW a \in Agents, Perform(a), NEW c, c = Head(pc[a].todo),
         NEW G \in SUBSET Streams, G = Members(a)
  PROVE  /\ rt' = [s \in Streams |-> rt'[s]]
         /\ Outcome(c, G)
         /\ \E ok, W : Become(a, AfterCall(a, ok), W)
  <1>0. rt = [s \in Streams |-> rt[s]]
    BY DEF Types, TypeOK
  <1>1. CASE ActionRefused(c, G) /\ Become(a, AfterCall(a, FALSE), {})
    BY <1>0, <1>1 DEF ActionRefused, Outcome, Unchanged
  <1>2. CASE ActionFailed(c, G)  /\ Become(a, AfterCall(a, FALSE), {})
    <2>1. PICK D \in SUBSET G :
             rt' = [s \in Streams |-> IF s \in D THEN Undone(c, s, rt[s]) ELSE rt[s]]
      BY <1>2 DEF ActionFailed
    <2>2. SomeUndone(c, G)
      BY <1>2, <2>1 DEF SomeUndone, ActionFailed
    <2> QED
      BY <1>2, <2>1, <2>2 DEF Outcome, ActionFailed
  <1>3. CASE /\ \E frames \in Positions(c, G) : ActionDone(c, G, frames)
             /\ Become(a, AfterCall(a, TRUE), WokenBy(c, G))
    <2>1. PICK frames \in Positions(c, G) : ActionDone(c, G, frames)
      BY <1>3
    <2>2. \A s \in G : frames[s] \in 0..BufferSize
      <3>1. \A s \in G : frames[s] \in IF c.act = "push" THEN 0..BufferSize ELSE {0}
        BY DEF Positions
      <3>2. 0 \in 0..BufferSize
        BY BufferAssumption
      <3> QED
        BY <3>1, <3>2
    <2>3. /\ ~Refused(c, G)
          /\ rt' = [s \in Streams |-> IF s \in G THEN Done(c, s, Looked(c, s, rt[s], frames[s]))
                                      ELSE rt[s]]
      BY <2>1 DEF ActionDone
    <2>4. \A s \in G : DoneOrNoStart(c, s, rt'[s])
      BY <2>2, <2>3 DEF DoneOrNoStart
    <2>5. AllDone(c, G)
      BY <2>3, <2>4 DEF AllDone
    <2> QED
      BY <1>3, <2>3, <2>5 DEF Outcome
  <1>4. CASE DrainWithoutStart(c, G) /\ Become(a, AfterCall(a, TRUE), WokenBy(c, G))
    <2>1. ~Refused(c, G) /\ c.act = "drain"
      BY <1>4 DEF DrainWithoutStart
    <2>2. PICK F \in SUBSET {s \in G : s \in Playback /\ Triggers(c, s, rt[s])} :
            rt' = [s \in Streams |-> IF s \notin G THEN rt[s]
                                  ELSE IF s \in F THEN [Done(c, s, rt[s]) EXCEPT !.dma = rt[s].dma]
                                  ELSE Done(c, s, rt[s])]
      BY <1>4 DEF DrainWithoutStart
    <2>3. 0 \in 0..BufferSize
      BY BufferAssumption
    <2>4. ASSUME NEW s \in G
          PROVE  DoneOrNoStart(c, s, rt'[s])
      <3>1. CASE s \in F
        BY <2>1, <2>2, <3>1 DEF DoneOrNoStart
      <3>2. CASE s \notin F
        <4>1. Looked(c, s, rt[s], 0) = rt[s]
          BY <2>1 DEF Looked
        <4>2. rt'[s] = Done(c, s, rt[s])
          BY <2>2, <3>2
        <4> QED
          BY <2>3, <4>1, <4>2 DEF DoneOrNoStart
      <3> QED
        BY <3>1, <3>2
    <2>5. AllDone(c, G)
      BY <2>2, <2>4 DEF AllDone
    <2> QED
      BY <1>4, <2>1, <2>2, <2>5 DEF Outcome
  <1> QED
    BY <1>1, <1>2, <1>3, <1>4 DEF Perform

\* What DoneOrNoStart makes of a runtime whose fields but the level are those of o.
SameBut(c, r, o) == /\ r \in Runtime
                    /\ r.state = o.state /\ r.dma = o.dma
                    /\ r.suspended_state = o.suspended_state /\ r.setup = o.setup
                    /\ c.act # "push" => r = o
Result(c, s, r, q) == /\ q \in Runtime
                      /\ q.state = StateAfter(c, s, r)
                      /\ \/ q.dma <=> (DmaAfter(c, s, r) /\ ~shutdown)
                         \/ /\ c.act = "drain" /\ s \in Playback /\ Triggers(c, s, r)
                            /\ q.dma = r.dma
                      /\ c.act = "suspend" => q.suspended_state = r.state
                      /\ c.act # "suspend" => q.suspended_state = r.suspended_state
                      /\ q.setup = r.setup

LEMMA DoneOrNoStartFields ==
  ASSUME shutdown \in BOOLEAN, NEW c \in Call, NEW s, rt[s] \in Runtime,
         NEW q, DoneOrNoStart(c, s, q)
  PROVE  q \in Runtime /\ \E r : SameBut(c, r, rt[s]) /\ Result(c, s, r, q)
  <1>1. ASSUME NEW n \in 0..BufferSize, q = Done(c, s, Looked(c, s, rt[s], n))
        PROVE  q \in Runtime /\ \E r : SameBut(c, r, rt[s]) /\ Result(c, s, r, q)
    <2>1. PICK r : r = Looked(c, s, rt[s], n)
      OBVIOUS
    <2>2. /\ r \in Runtime
          /\ r.state = rt[s].state /\ r.suspended_state = rt[s].suspended_state
          /\ r.dma = rt[s].dma /\ r.setup = rt[s].setup
          /\ c.act # "push" => r = rt[s]
      BY <2>1, LookedFields
    <2>3. q = Done(c, s, r)
      BY <1>1, <2>1
    <2>4. /\ q \in Runtime
          /\ q.state = StateAfter(c, s, r)
          /\ q.dma = (DmaAfter(c, s, r) /\ ~shutdown)
          /\ q.suspended_state = IF c.act = "suspend" THEN r.state ELSE r.suspended_state
          /\ q.setup = r.setup
      BY <2>2, <2>3, DoneFields
    <2>5. SameBut(c, r, rt[s])
      BY <2>2 DEF SameBut
    <2>6. Result(c, s, r, q)
      BY <2>4 DEF Result
    <2> QED
      BY <2>4, <2>5, <2>6
  <1>2. ASSUME c.act = "drain", s \in Playback, Triggers(c, s, rt[s]),
               q = [Done(c, s, rt[s]) EXCEPT !.dma = rt[s].dma]
        PROVE  q \in Runtime /\ SameBut(c, rt[s], rt[s]) /\ Result(c, s, rt[s], q)
    <2>1. PICK d : d = Done(c, s, rt[s])
      OBVIOUS
    <2>2. /\ d \in Runtime
          /\ d.state = StateAfter(c, s, rt[s])
          /\ d.suspended_state = IF c.act = "suspend" THEN rt[s].state ELSE rt[s].suspended_state
          /\ d.setup = rt[s].setup
      BY <2>1, DoneFields
    <2>3. PICK dma \in BOOLEAN : dma = rt[s].dma
      BY RuntimeFields
    <2>4. q = [d EXCEPT !.dma = dma]
      BY <1>2, <2>1, <2>3
    <2>5. /\ q \in Runtime /\ q.state = d.state /\ q.dma = dma
          /\ q.suspended_state = d.suspended_state /\ q.setup = d.setup
      BY <2>2, <2>4 DEF Runtime
    <2> QED
      BY <1>2, <2>2, <2>3, <2>5 DEF SameBut, Result
  <1> QED
    BY <1>1, <1>2 DEF DoneOrNoStart

LEMMA OutcomeTyped ==
  ASSUME TypeOK, NEW c \in Call, NEW G \in SUBSET Streams, Outcome(c, G),
         rt' = [s \in Streams |-> rt'[s]]
  PROVE  rt' \in [Streams -> Runtime]
  <1>1. ASSUME NEW s \in Streams
        PROVE  rt'[s] \in Runtime
    <2>1. rt[s] \in Runtime /\ shutdown \in BOOLEAN
      BY DEF TypeOK
    <2>2. \/ rt'[s] = rt[s] \/ rt'[s] = Undone(c, s, rt[s]) \/ DoneOrNoStart(c, s, rt'[s])
      BY DEF Outcome, Unchanged, SomeUndone, AllDone
    <2>3. PICK q : q = rt'[s]
      OBVIOUS
    <2>4. CASE rt'[s] = Undone(c, s, rt[s])
      BY <2>1, <2>3, <2>4, UndoneFields
    <2>5. CASE DoneOrNoStart(c, s, rt'[s])
      BY <2>1, <2>5, DoneOrNoStartFields
    <2> QED
      BY <2>1, <2>2, <2>4, <2>5
  <1> QED
    BY <1>1

\* Perform, with the members it applies to, from a state as Types describes.
LEMMA PerformDoes ==
  ASSUME Types, NEW a \in Agents, Pending(pc[a]), Perform(a),
         NEW c, c = Head(pc[a].todo), NEW G, G = Members(a)
  PROVE  /\ c \in Call /\ G \in SUBSET Streams
         /\ rt' \in [Streams -> Runtime]
         /\ Outcome(c, G)
         /\ \E ok, W : Become(a, AfterCall(a, ok), W)
         /\ FormOf(a, pc[a])
  <1>1. FormOf(a, pc[a]) /\ TypeOK
    BY DEF Types, Forms
  <1>2. pc[a].s \in Streams /\ pc[a].todo \in Seq(Call) /\ pc[a].todo # <<>>
    BY <1>1, TaskFields DEF FormOf, Pending
  <1>3. c \in Call
    BY <1>2
  <1>4. G \in SUBSET Streams
    BY <1>1, <1>2 DEF Members, TypeOK
  <1>5. /\ rt' = [s \in Streams |-> rt'[s]]
        /\ Outcome(c, G)
        /\ \E ok, W : Become(a, AfterCall(a, ok), W)
    BY <1>4, ActionIs
  <1>6. rt' \in [Streams -> Runtime]
    BY <1>1, <1>3, <1>4, <1>5, OutcomeTyped
  <1> QED
    BY <1>1, <1>3, <1>4, <1>5, <1>6

LEMMA PerformTypes ==
  ASSUME Types, NEW a \in Agents, Pending(pc[a]), Perform(a), UNCHANGED <<grp, power, shutdown>>
  PROVE  Types'
  <1>1. /\ rt' \in [Streams -> Runtime] /\ FormOf(a, pc[a])
        /\ \E ok, W : Become(a, AfterCall(a, ok), W)
    BY PerformDoes
  <1>2. PICK ok, W : Become(a, AfterCall(a, ok), W)
    BY <1>1
  <1>3. FormOf(a, AfterCall(a, ok))
    BY <1>1, AfterCallForm
  <1>4. (pc \in [Agents -> Task] /\ Forms)'
    BY <1>2, <1>3, Becomes
  <1> QED
    BY <1>1, <1>4 DEF Types, TypeOK

(***************************************************************************)
(* The steps that change nothing but what an agent does: a call goes to    *)
(* another lock, a call of a thread goes on, a call of a thread begins.    *)
(***************************************************************************)
Others(a) == \A b \in Agents \ {a} : Kin(pc[b], pc'[b])

\* Calls whose tasks promise nothing about the substreams.
Ordinary == {"start", "pause", "xrun", "drop", "close", "drain", "write", "read"}

Relocks(a) == /\ UNCHANGED <<rt, grp, power, shutdown>> /\ Others(a)
              /\ pc[a].at \in Locking /\ pc'[a].at \in Locking
              /\ pc'[a].op = pc[a].op /\ pc'[a].s = pc[a].s /\ pc'[a].todo = pc[a].todo
              /\ pc'[a].rest = pc[a].rest

GoesOn(a) == /\ a \in Threads
             /\ UNCHANGED <<rt, grp, power, shutdown>> /\ Others(a)
             /\ pc[a].op \in Ordinary /\ pc'[a].op \in Ordinary \cup {"none"}

Begins(a, s) ==
    /\ pc[a] = Idle /\ power = "D0"
    /\ UNCHANGED <<rt, grp, power, shutdown>> /\ Others(a)
    /\ pc'[a].s = s /\ pc'[a].op \in Ordinary \cup {"resume", "prepare"}
    /\ pc'[a].op = "resume" => rt[s].state = "SUSPENDED" \/ "anyresume" \in Features
    /\ pc'[a].op = "prepare" => /\ \A m \in grp[s] : MayPrepare(m)
                                /\ pc'[a].rest = grp[s] /\ ~shutdown

LEMMA AgentKinds ==
  /\ Threads \subseteq Agents /\ Driver \in Agents /\ Streams \subseteq Agents
  /\ Driver \notin Threads /\ Driver \notin Streams /\ \A a \in Threads : a \notin Streams
  BY AgentsAssumption DEF Agents

\* Agents that wait for a lock or hold one have a call to perform.
LEMMA WaitingIsPending ==
  ASSUME Types, NEW a \in Agents, pc[a].at \in {"wait", "group", "both"}
  PROVE  Pending(pc[a])
  <1>1. PICK t : t = pc[a]
    OBVIOUS
  <1>2. FormOf(a, t) /\ t # Idle
    BY <1>1, IdleTask DEF Types, Forms
  <1>3. t.todo # <<>>
    <2>1. \A c, d : <<c>> # <<>> /\ <<c, d>> # <<>>
      BY OneCall, TwoCalls
    <2> QED
      BY <1>1, <1>2, <2>1
      DEF FormOf, IrqTask, DriverTask, ThreadTask, Asks, Asks2, Works, Locking
  <1> QED
    BY <1>1, <1>3 DEF Pending, Locking

LEMMA LockMoves ==
  ASSUME Types, NEW a \in Agents, TryGroupLock(a) \/ TakeGroupLock(a)
  PROVE  Types' /\ Relocks(a)
  <1>1. Pending(pc[a])
    BY WaitingIsPending DEF TryGroupLock, TakeGroupLock, Pending, Locking
  <1>2. PICK at \in Locking : Become(a, [pc[a] EXCEPT !.at = at], {})
    BY DEF TryGroupLock, TakeGroupLock, Locking
  <1>3. PICK u : u = [pc[a] EXCEPT !.at = at]
    OBVIOUS
  <1>4. FormOf(a, pc[a]) /\ pc[a] \in Task /\ at \in Places
    BY DEF Types, Forms, FormOf, Locking, Places
  <1>5. FormOf(a, u) /\ Become(a, u, {})
    BY <1>1, <1>2, <1>3, <1>4, LockingForm
  <1>6. u.at = at /\ u.op = pc[a].op /\ u.s = pc[a].s /\ u.todo = pc[a].todo /\ u.rest = pc[a].rest
    BY <1>3, <1>4, Moved
  <1>7. UNCHANGED <<rt, grp, power, shutdown>> /\ pc[a].at \in Locking
    BY DEF TryGroupLock, TakeGroupLock, Locking
  <1>8. Types'
    BY <1>5, <1>7, OnlyBecomes DEF Types, TypeOK
  <1>9. pc'[a] = u /\ Others(a)
    BY <1>5, Becomes DEF Others
  <1> QED
    BY <1>6, <1>7, <1>8, <1>9 DEF Relocks

\* A call that a thread begins with Enter.
LEMMA Enters ==
  ASSUME Types, NEW a \in Threads, NEW s \in Streams,
         NEW at \in Places, NEW op \in Ops, NEW todo \in Seq(Call),
         \A t : t.at = at /\ t.op = op /\ t.todo = todo => ThreadTask(t),
         Enter(a, s, at, op, todo)
  PROVE  /\ (pc \in [Agents -> Task] /\ Forms)' /\ Others(a)
         /\ pc'[a].at = at /\ pc'[a].op = op /\ pc'[a].s = s /\ pc'[a].todo = todo
  <1>1. PICK t : t = [Idle EXCEPT !.at = at, !.op = op, !.s = s, !.todo = todo]
    OBVIOUS
  <1>2. t \in Task /\ t.at = at /\ t.op = op /\ t.s = s /\ t.todo = todo
    BY <1>1, IdleTask DEF Task
  <1>3. FormOf(a, t)
    BY <1>2 DEF FormOf
  <1>4. Become(a, t, {}) /\ a \in Agents
    BY <1>1, AgentKinds DEF Enter
  <1> QED
    BY <1>2, <1>3, <1>4, Becomes DEF Others

LEMMA EntersOrdinary ==
  ASSUME Types, NEW a \in Threads, NEW s \in Streams,
         NEW at \in Places, NEW op \in Ordinary, NEW todo \in Seq(Call),
         \A t : t.at = at /\ t.op = op /\ t.todo = todo => ThreadTask(t),
         Enter(a, s, at, op, todo),
         pc[a] = Idle, power = "D0", UNCHANGED <<rt, grp, power, shutdown>>
  PROVE  Types' /\ Begins(a, s)
  <1>1. op \in Ops
    BY DEF Ordinary, Ops
  <1>2. /\ (pc \in [Agents -> Task] /\ Forms)' /\ Others(a)
        /\ pc'[a].op = op /\ pc'[a].s = s
    BY <1>1, Enters
  <1>3. Types'
    BY <1>2 DEF Types, TypeOK
  <1> QED
    BY <1>2, <1>3 DEF Begins, Ordinary

LEMMA PlansJoined ==
  ASSUME NEW c \in Call, NEW d \in Call
  PROVE  <<>> \o <<d>> = <<d>> /\ <<c>> \o <<d>> = <<c, d>>
  <1>1. <<c>> \in Seq(Call) /\ <<d>> \in Seq(Call)
    BY CallsTyped
  <1>2. <<>> \o <<d>> = <<d>>
    BY <1>1, ConcatEmptySeq
  <1>3. Append(<<c>>, d) = <<c>> \o <<d>>
    BY <1>1, AppendIsConcat
  <1>4. Append(<<c>>, d) = <<c, d>>
    <2>1. PICK q : q = Append(<<c>>, d)
      OBVIOUS
    <2>2. PICK p : p = <<c, d>>
      OBVIOUS
    <2>3. Len(<<c>>) = 1 /\ <<c>>[1] = c /\ Len(p) = 2 /\ p[1] = c /\ p[2] = d
      BY <2>2
    <2>4. q \in Seq(Call) /\ Len(q) = 2 /\ q[1] = c /\ q[2] = d
      BY <1>1, <2>1, <2>3, AppendProperties
    <2>5. p \in Seq(Call)
      BY <2>2, CallsTyped
    <2>6. \A i \in 1..Len(p) : q[i] = p[i]
      BY <2>3, <2>4
    <2>7. q = p
      BY <2>3, <2>4, <2>5, <2>6, SeqEqual
    <2> QED
      BY <2>1, <2>2, <2>7
  <1> QED
    BY <1>2, <1>3, <1>4

LEMMA StartBegins ==
  ASSUME Types, NEW a \in Threads, NEW s \in Streams, IoctlStart(a, s)
  PROVE  Types' /\ Begins(a, s)
  <1>1. PICK at \in {"wait", "self"} : Enter(a, s, at, "start", <<Do("start")>>)
    BY DEF IoctlStart, LockGroupFirst
  <1>2. pc[a] = Idle /\ power = "D0" /\ UNCHANGED <<rt, grp, power, shutdown>>
    BY DEF IoctlStart, LockGroupFirst, MayCall
  <1>3. at \in Places /\ "start" \in Ordinary /\ <<Do("start")>> \in Seq(Call)
    BY PlansTyped, ActNames DEF Places, Ordinary
  <1>4. \A t : t.at = at /\ t.op = "start" /\ t.todo = <<Do("start")>> => ThreadTask(t)
    BY DEF ThreadTask, Asks, Locking
  <1> QED
    BY <1>1, <1>2, <1>3, <1>4, EntersOrdinary

LEMMA ResumeBegins ==
  ASSUME Types, NEW a \in Threads, NEW s \in Streams, IoctlResume(a, s)
  PROVE  Types' /\ Begins(a, s)
  <1>1. PICK at \in {"wait", "self"} : Enter(a, s, at, "resume", <<Do("resume")>>)
    BY DEF IoctlResume, LockGroupFirst
  <1>2. pc[a] = Idle /\ power = "D0" /\ UNCHANGED <<rt, grp, power, shutdown>>
    BY DEF IoctlResume, LockGroupFirst, MayCall
  <1>3. at \in Places /\ "resume" \in Ops /\ <<Do("resume")>> \in Seq(Call)
    BY PlansTyped, ActNames DEF Places, Ops
  <1>4. \A t : t.at = at /\ t.op = "resume" /\ t.todo = <<Do("resume")>> => ThreadTask(t)
    BY DEF ThreadTask, Asks, Locking
  <1>5. /\ (pc \in [Agents -> Task] /\ Forms)' /\ Others(a)
        /\ pc'[a].op = "resume" /\ pc'[a].s = s
    BY <1>1, <1>3, <1>4, Enters
  <1>6. Types'
    BY <1>2, <1>5 DEF Types, TypeOK
  <1> QED
    BY <1>2, <1>5, <1>6 DEF Begins, IoctlResume

LEMMA PauseBegins ==
  ASSUME Types, NEW a \in Threads, NEW s \in Streams, IoctlPause(a, s)
  PROVE  Types' /\ Begins(a, s)
  <1>1. PICK act \in {"push", "release"} : Enter(a, s, "self", "pause", <<Do(act)>>)
    BY DEF IoctlPause
  <1>2. pc[a] = Idle /\ power = "D0" /\ UNCHANGED <<rt, grp, power, shutdown>>
    BY DEF IoctlPause, MayCall
  <1>3. "self" \in Places /\ "pause" \in Ordinary /\ <<Do(act)>> \in Seq(Call)
    BY PlansTyped, ActNames DEF Places, Ordinary
  <1>4. \A t : t.at = "self" /\ t.op = "pause" /\ t.todo = <<Do(act)>> => ThreadTask(t)
    BY DEF ThreadTask, Asks, Locking
  <1> QED
    BY <1>1, <1>2, <1>3, <1>4, EntersOrdinary

LEMMA XrunBegins ==
  ASSUME Types, NEW a \in Threads, NEW s \in Streams, IoctlXrun(a, s)
  PROVE  Types' /\ Begins(a, s)
  <1>1. Enter(a, s, "self", "xrun", <<Stop("XRUN")>>)
    BY DEF IoctlXrun
  <1>2. pc[a] = Idle /\ power = "D0" /\ UNCHANGED <<rt, grp, power, shutdown>>
    BY DEF IoctlXrun, MayCall
  <1>3. "self" \in Places /\ "xrun" \in Ordinary /\ <<Stop("XRUN")>> \in Seq(Call)
    BY PlansTyped, ActNames DEF Places, Ordinary
  <1>4. \A t : t.at = "self" /\ t.op = "xrun" /\ t.todo = <<Stop("XRUN")>> => ThreadTask(t)
    BY DEF ThreadTask, Asks, Locking
  <1> QED
    BY <1>1, <1>2, <1>3, <1>4, EntersOrdinary

LEMMA DropBegins ==
  ASSUME Types, NEW a \in Threads, NEW s \in Streams, IoctlDrop(a, s)
  PROVE  Types' /\ Begins(a, s)
  <1>1. Enter(a, s, "checked", "drop", <<>>)
    BY DEF IoctlDrop
  <1>2. pc[a] = Idle /\ power = "D0" /\ UNCHANGED <<rt, grp, power, shutdown>>
    BY DEF IoctlDrop, MayCall
  <1>3. "checked" \in Places /\ "drop" \in Ordinary /\ <<>> \in Seq(Call)
    BY PlansTyped DEF Places, Ordinary
  <1>4. \A t : t.at = "checked" /\ t.op = "drop" /\ t.todo = <<>> => ThreadTask(t)
    BY DEF ThreadTask, Works
  <1> QED
    BY <1>1, <1>2, <1>3, <1>4, EntersOrdinary

LEMMA CloseBegins ==
  ASSUME Types, NEW a \in Threads, NEW s \in Streams, Close(a, s)
  PROVE  Types' /\ Begins(a, s)
  <1>1. PICK at \in {"close", "checked"} : Enter(a, s, at, "close", <<>>)
    BY DEF Close
  <1>2. pc[a] = Idle /\ power = "D0" /\ UNCHANGED <<rt, grp, power, shutdown>>
    BY DEF Close
  <1>3. at \in Places /\ "close" \in Ordinary /\ <<>> \in Seq(Call)
    BY PlansTyped DEF Places, Ordinary
  <1>4. \A t : t.at = at /\ t.op = "close" /\ t.todo = <<>> => ThreadTask(t)
    BY DEF ThreadTask, Works
  <1> QED
    BY <1>1, <1>2, <1>3, <1>4, EntersOrdinary

LEMMA ReadBegins ==
  ASSUME Types, NEW a \in Threads, NEW s \in Streams, IoctlReadStart(a, s)
  PROVE  Types' /\ Begins(a, s)
  <1>1. PICK todo \in {<<Do("start")>>, <<Stop("SETUP")>>} : Enter(a, s, "self", "read", todo)
    BY DEF IoctlReadStart
  <1>2. pc[a] = Idle /\ power = "D0" /\ UNCHANGED <<rt, grp, power, shutdown>>
    BY DEF IoctlReadStart, MayCall
  <1>3. "self" \in Places /\ "read" \in Ordinary /\ todo \in Seq(Call)
    BY PlansTyped, ActNames DEF Places, Ordinary
  <1>4. \A t : t.at = "self" /\ t.op = "read" /\ t.todo = todo => ThreadTask(t)
    BY DEF ThreadTask, Asks, Locking
  <1> QED
    BY <1>1, <1>2, <1>3, <1>4, EntersOrdinary

LEMMA DrainBegins ==
  ASSUME Types, NEW a \in Threads, NEW s \in Streams, IoctlDrain(a, s)
  PROVE  Types' /\ Begins(a, s)
  <1>1. Do("release") \in Call /\ Do("drain") \in Call
    BY DoTyped, ActNames
  <1>2. PICK todo \in {<<Do("drain")>>, <<Do("release"), Do("drain")>>} :
           Enter(a, s, "self", "drain", todo)
    BY <1>1, PlansJoined DEF IoctlDrain
  <1>3. pc[a] = Idle /\ power = "D0" /\ UNCHANGED <<rt, grp, power, shutdown>>
    BY DEF IoctlDrain, MayCall
  <1>4. "self" \in Places /\ "drain" \in Ordinary /\ todo \in Seq(Call)
    BY PlansTyped, ActNames DEF Places, Ordinary
  <1>5. \A t : t.at = "self" /\ t.op = "drain" /\ t.todo = todo => ThreadTask(t)
    BY DEF ThreadTask, Asks, Asks2, Locking
  <1> QED
    BY <1>2, <1>3, <1>4, <1>5, EntersOrdinary

LEMMA PrepareBegins ==
  ASSUME Types, NEW a \in Threads, NEW s \in Streams, IoctlPrepare(a, s)
  PROVE  Types' /\ Begins(a, s)
  <1>1. PICK t : t = [Idle EXCEPT !.at = "prepare", !.op = "prepare", !.s = s, !.rest = grp[s]]
    OBVIOUS
  <1>2. PICK rest \in SUBSET Streams : rest = grp[s]
    BY DEF Types, TypeOK
  <1>3. t \in Task /\ t.at = "prepare" /\ t.op = "prepare" /\ t.s = s /\ t.todo = <<>> /\ t.rest = rest
    <2>1. t = [Idle EXCEPT !.at = "prepare", !.op = "prepare", !.s = s, !.rest = rest]
      BY <1>1, <1>2
    <2> QED
      BY <2>1, IdleTask DEF Task, Places, Ops
  <1>4. FormOf(a, t)
    BY <1>3 DEF FormOf, ThreadTask, Works
  <1>5. Become(a, t, {}) /\ a \in Agents
    BY <1>1, AgentKinds DEF IoctlPrepare
  <1>6. pc'[a] = t /\ Others(a) /\ (pc \in [Agents -> Task] /\ Forms)'
    BY <1>4, <1>5, Becomes DEF Others
  <1>7. pc[a] = Idle /\ power = "D0" /\ UNCHANGED <<rt, grp, power, shutdown>> /\ ~shutdown
        /\ \A m \in grp[s] : MayPrepare(m)
    BY DEF IoctlPrepare, MayCall
  <1>8. Types'
    BY <1>6, <1>7 DEF Types, TypeOK
  <1> QED
    BY <1>2, <1>3, <1>6, <1>7, <1>8 DEF Begins

\* A call of a thread that goes on to task.
LEMMA GoesTo ==
  ASSUME Types, NEW a \in Threads, NEW task, FormOf(a, task), NEW W, Become(a, task, W),
         UNCHANGED <<rt, grp, power, shutdown>>,
         pc[a].op \in Ordinary, task.op \in Ordinary \cup {"none"}
  PROVE  Types' /\ GoesOn(a)
  <1>1. a \in Agents
    BY AgentKinds
  <1>2. pc'[a] = task /\ Others(a)
    BY <1>1, Becomes DEF Others
  <1>3. Types'
    BY <1>1, OnlyBecomes DEF Types, TypeOK
  <1> QED
    BY <1>2, <1>3 DEF GoesOn

LEMMA DropLockGoesOn ==
  ASSUME Types, NEW a \in Agents, DropLock(a)
  PROVE  Types' /\ GoesOn(a)
  <1>1. PICK t : t = pc[a]
    OBVIOUS
  <1>2. FormOf(a, t) /\ t \in Task /\ t.op \in {"drop", "close"}
    BY <1>1 DEF Types, Forms, FormOf, DropLock
  <1>3. a \in Threads
    BY <1>2, IdleTask DEF FormOf, IrqTask, DriverTask
  <1>4. Do("release") \in Call /\ Stop("SETUP") \in Call
    BY DoTyped, ActNames
  <1>5. PICK todo \in {<<Stop("SETUP")>>, <<Do("release"), Stop("SETUP")>>} :
           todo = DropCalls(t.s)
    BY <1>4, PlansJoined DEF DropCalls
  <1>6. todo \in Seq(Call)
    BY PlansTyped, ActNames
  <1>7. PICK u : u = [t EXCEPT !.at = "self", !.todo = todo]
    OBVIOUS
  <1>8. u \in Task /\ u.at = "self" /\ u.todo = todo /\ u.op = t.op
    BY <1>2, <1>6, <1>7 DEF Task, Places
  <1>9. FormOf(a, u)
    BY <1>2, <1>3, <1>8 DEF FormOf, ThreadTask, Asks, Asks2, Locking
  <1>10. Become(a, u, {}) /\ UNCHANGED <<rt, grp, power, shutdown>>
    BY <1>1, <1>5, <1>7 DEF DropLock
  <1> QED
    BY <1>1, <1>2, <1>3, <1>8, <1>9, <1>10, GoesTo DEF Ordinary

LEMMA PauseMeetsXrunGoesOn ==
  ASSUME Types, NEW a \in Agents, PauseMeetsXrun(a)
  PROVE  Types' /\ GoesOn(a)
  <1>1. PICK t : t = pc[a]
    OBVIOUS
  <1>2. FormOf(a, t) /\ t \in Task /\ t.at \in {"group", "both"} /\ Head(t.todo) = Do("push")
    BY <1>1 DEF Types, Forms, FormOf, PauseMeetsXrun
  <1>3. /\ \A c : Head(<<c>>) = c
        /\ \A c, d : Head(<<c, d>>) = c
        /\ Do("push") # Stop("XRUN") /\ Do("push") # Stop("SETUP")
        /\ \A act \in {"start", "resume", "suspend", "drain", "release"} : Do(act) # Do("push")
    BY OneCall, TwoCalls DEF Do, Stop
  <1>4. a \in Threads /\ t.op = "pause" /\ t.todo \in {<<Do("push")>>, <<Do("release")>>}
    BY <1>2, <1>3, IdleTask
    DEF FormOf, IrqTask, DriverTask, ThreadTask, Asks, Asks2, Works
  <1>5. PICK f \in grp[t.s] : Become(a, [t EXCEPT !.at = "stuck", !.rest = {f}], {})
    BY <1>1 DEF PauseMeetsXrun
  <1>6. f \in Streams
    BY <1>2, TaskFields DEF Types, TypeOK
  <1>7. PICK u : u = [t EXCEPT !.at = "stuck", !.rest = {f}]
    OBVIOUS
  <1>8. u \in Task /\ u.at = "stuck" /\ u.todo = t.todo /\ u.op = "pause"
    BY <1>2, <1>4, <1>6, <1>7 DEF Task, Places
  <1>9. FormOf(a, u)
    BY <1>4, <1>8 DEF FormOf, ThreadTask
  <1>10. UNCHANGED <<rt, grp, power, shutdown>>
    BY DEF PauseMeetsXrun
  <1> QED
    BY <1>1, <1>4, <1>5, <1>7, <1>8, <1>9, <1>10, GoesTo DEF Ordinary

\* The waits of drain.
LEMMA DrainWaits ==
  ASSUME NEW a \in Threads, NEW u \in Task, u.op = "drain",
         \/ u.at \in {"self", "queued", "asleep", "woken", "timedout"} /\ u.todo = <<>>
         \/ u.at = "self" /\ u.todo = <<Stop("SETUP")>>
  PROVE  FormOf(a, u)
  BY DEF FormOf, ThreadTask, Asks, Locking

LEMMA DrainKind ==
  ASSUME Types, NEW a \in Agents,
         \/ pc[a].at \in {"queued", "asleep", "woken", "timedout"}
         \/ pc[a].op = "drain" /\ pc[a].todo = <<>>
  PROVE  a \in Threads /\ pc[a] \in Task /\ pc[a].op = "drain" /\ pc[a].todo = <<>>
  <1>1. PICK t : t = pc[a]
    OBVIOUS
  <1>2. FormOf(a, t) /\ t # Idle
    BY <1>1, IdleTask DEF Types, Forms
  <1> QED
    BY <1>1, <1>2 DEF FormOf, IrqTask, DriverTask, ThreadTask, Asks, Asks2, Works, Locking

LEMMA DrainSteps ==
  ASSUME Types, NEW a \in Agents,
         DrainRound(a) \/ DrainSleep(a) \/ DrainTimeout(a) \/ DrainSignal(a) \/ DrainWake(a)
  PROVE  Types' /\ GoesOn(a)
  <1>1. PICK t : t = pc[a]
    OBVIOUS
  <1>2. a \in Threads /\ t \in Task /\ t.op = "drain" /\ t.todo = <<>>
    BY <1>1, DrainKind DEF DrainRound, DrainSleep, DrainTimeout, DrainSignal, DrainWake
  <1>3. t.rest \in SUBSET Streams /\ t.s \in Streams
    BY <1>2, TaskFields
  <1>4. UNCHANGED <<rt, grp, power, shutdown>>
    BY DEF DrainRound, DrainSleep, DrainTimeout, DrainSignal, DrainWake
  <1>5. ASSUME NEW task, Become(a, task, {}),
               task = Idle \/ (FormOf(a, task) /\ task.op = "drain")
        PROVE  Types' /\ GoesOn(a)
    BY <1>1, <1>2, <1>4, <1>5, IdleForm, IdleTask, GoesTo DEF Ordinary
  <1>6. ASSUME NEW u \in Task, u.op = "drain", Become(a, u, {}),
               \/ u.at \in {"self", "queued", "asleep", "woken", "timedout"} /\ u.todo = <<>>
               \/ u.at = "self" /\ u.todo = <<Stop("SETUP")>>
        PROVE  Types' /\ GoesOn(a)
    BY <1>2, <1>5, <1>6, DrainWaits
  <1>7. CASE DrainRound(a)
    <2>1. CASE Become(a, Idle, {})
      BY <1>5, <2>1
    <2>2. ASSUME NEW m \in Draining(t.s), Become(a, [t EXCEPT !.at = "queued", !.rest = {m}], {})
          PROVE  Types' /\ GoesOn(a)
      <3>1. m \in Streams
        BY <1>3 DEF Draining, Types, TypeOK
      <3>2. PICK u : u = [t EXCEPT !.at = "queued", !.rest = {m}]
        OBVIOUS
      <3>3. u \in Task /\ u.at = "queued" /\ u.op = "drain" /\ u.todo = <<>>
        BY <1>2, <3>1, <3>2 DEF Task, Places
      <3> QED
        BY <1>6, <2>2, <3>2, <3>3
    <2> QED
      BY <1>1, <1>7, <2>1, <2>2 DEF DrainRound
  <1>8. CASE DrainSleep(a) \/ DrainTimeout(a)
    <2>1. PICK at \in {"asleep", "timedout"} : Become(a, [t EXCEPT !.at = at], {})
      BY <1>1, <1>8 DEF DrainSleep, DrainTimeout
    <2>2. PICK u : u = [t EXCEPT !.at = at]
      OBVIOUS
    <2>3. u \in Task /\ u.at = at /\ u.op = "drain" /\ u.todo = <<>>
      BY <1>2, <2>2, Moved DEF Places
    <2> QED
      BY <1>6, <2>1, <2>2, <2>3
  <1>9. CASE DrainSignal(a)
    <2>1. Become(a, [t EXCEPT !.at = "woken", !.rest = {}], {})
      BY <1>1, <1>9 DEF DrainSignal
    <2>2. PICK u : u = [t EXCEPT !.at = "woken", !.rest = {}]
      OBVIOUS
    <2>3. u \in Task /\ u.at = "woken" /\ u.op = "drain" /\ u.todo = <<>>
      BY <1>2, <2>2 DEF Task, Places
    <2> QED
      BY <1>6, <2>1, <2>2, <2>3
  <1>10. CASE DrainWake(a)
    <2>1. \/ Become(a, Idle, {})
          \/ Become(a, [t EXCEPT !.at = "self", !.rest = {}], {})
          \/ Become(a, [t EXCEPT !.at = "self", !.rest = {}, !.todo = <<Stop("SETUP")>>], {})
      BY <1>1, <1>10 DEF DrainWake
    <2>2. CASE Become(a, Idle, {})
      BY <1>5, <2>2
    <2>3. CASE Become(a, [t EXCEPT !.at = "self", !.rest = {}], {})
      <3>1. PICK u : u = [t EXCEPT !.at = "self", !.rest = {}]
        OBVIOUS
      <3>2. u \in Task /\ u.at = "self" /\ u.op = "drain" /\ u.todo = <<>>
        BY <1>2, <3>1 DEF Task, Places
      <3> QED
        BY <1>6, <2>3, <3>1, <3>2
    <2>4. CASE Become(a, [t EXCEPT !.at = "self", !.rest = {}, !.todo = <<Stop("SETUP")>>], {})
      <3>1. PICK u : u = [t EXCEPT !.at = "self", !.rest = {}, !.todo = <<Stop("SETUP")>>]
        OBVIOUS
      <3>2. PICK todo \in Seq(Call) : todo = <<Stop("SETUP")>>
        BY PlansTyped, ActNames
      <3>3. u \in Task /\ u.at = "self" /\ u.op = "drain" /\ u.todo = todo
        BY <1>2, <3>1, <3>2 DEF Task, Places
      <3> QED
        BY <1>6, <2>4, <3>1, <3>2, <3>3
    <2> QED
      BY <2>1, <2>2, <2>3, <2>4
  <1> QED
    BY <1>7, <1>8, <1>9, <1>10

(***************************************************************************)
(* The steps that change runtimes.                                         *)
(***************************************************************************)
SameFields(r, q) == /\ q.state = r.state /\ q.dma = r.dma
                    /\ q.suspended_state = r.suspended_state /\ q.setup = r.setup

\* A substream that drained has come to its end.
Drained(s, r, q) == /\ r.state = "DRAINING" /\ q.state = "SETUP"
                    /\ q.dma => r.dma /\ ~Running(s, r)
                    /\ q.suspended_state = r.suspended_state /\ q.setup = r.setup

\* An interrupt, or a step of an ordinary call, that at most ends a draining.
Settles(a) ==
    /\ UNCHANGED <<grp, power, shutdown>> /\ Others(a)
    /\ \A m \in Streams : SameFields(rt[m], rt'[m]) \/ Drained(m, rt[m], rt'[m])
    /\ \/ a \in Streams
       \/ /\ a \in Threads /\ pc'[a].op \in Ordinary \cup {"none"}
          /\ \/ pc[a] = Idle /\ power = "D0"
             \/ pc[a].op \in Ordinary

LEMMA SettlesAtRest ==
  ASSUME NEW a, GoesOn(a) \/ (a \in Threads /\ \E s \in Streams : Begins(a, s) /\ pc'[a].op \in Ordinary)
  PROVE  Settles(a)
  <1>1. rt' = rt
    BY DEF GoesOn, Begins
  <1>2. \A m \in Streams : SameFields(rt[m], rt'[m])
    BY <1>1 DEF SameFields
  <1> QED
    BY <1>2 DEF Settles, GoesOn, Begins

LEMMA UpdateDoes ==
  ASSUME Types, NEW a \in Agents, NEW s \in Streams, NEW n \in 1..BufferSize,
         NEW task, NEW onXrun, FormOf(a, task), FormOf(a, onXrun),
         UpdateState(a, s, n, task, onXrun), UNCHANGED <<grp, power, shutdown>>
  PROVE  /\ Types' /\ Others(a)
         /\ \A m \in Streams : SameFields(rt[m], rt'[m]) \/ Drained(m, rt[m], rt'[m])
         /\ pc'[a] \in {task, onXrun}
  <1>1. PICK r : r = Advance(s, rt[s], n)
    OBVIOUS
  <1>2. rt \in [Streams -> Runtime] /\ rt[s] \in Runtime /\ shutdown \in BOOLEAN /\ n \in 0..BufferSize
    BY BufferAssumption DEF Types, TypeOK
  <1>3. r \in Runtime /\ SameFields(rt[s], r)
    BY <1>1, <1>2, AdvanceFields DEF SameFields
  <1>4. PICK d : d = Done(Stop("SETUP"), s, r)
    OBVIOUS
  <1>5. Stop("SETUP") \in Call /\ Stop("SETUP").act = "stop" /\ Stop("SETUP").to = "SETUP"
    BY DoTyped, ActNames
  <1>6. d \in Runtime /\ d.state = "SETUP" /\ d.suspended_state = r.suspended_state
        /\ d.setup = r.setup /\ (d.dma => r.dma /\ ~Running(s, r))
    <2>1. /\ d \in Runtime
          /\ d.state = StateAfter(Stop("SETUP"), s, r)
          /\ d.dma = (DmaAfter(Stop("SETUP"), s, r) /\ ~shutdown)
          /\ d.suspended_state = r.suspended_state
          /\ d.setup = r.setup
      BY <1>2, <1>3, <1>4, <1>5, DoneFields
    <2>2. StateAfter(Stop("SETUP"), s, r) = "SETUP"
      BY <1>5 DEF StateAfter
    <2>3. DmaAfter(Stop("SETUP"), s, r) = IF Running(s, r) THEN FALSE ELSE r.dma
      BY <1>5 DEF DmaAfter, Triggers, TriggerOn
    <2> QED
      BY <2>1, <2>2, <2>3
  <1>7. PICK t \in {task, onXrun} : \E W : Become(a, t, W)
    BY DEF UpdateState
  <1>8. PICK W : Become(a, t, W)
    BY <1>7
  <1>9. /\ (pc \in [Agents -> Task] /\ Forms)' /\ Others(a) /\ pc'[a] = t
    BY <1>7, <1>8, Becomes DEF Others
  <1>10. PICK q : /\ rt' = [rt EXCEPT ![s] = q]
                  /\ q = r \/ (q = d /\ r.state = "DRAINING")
    BY <1>1, <1>4 DEF UpdateState
  <1>11. q \in Runtime /\ (SameFields(rt[s], q) \/ Drained(s, rt[s], q))
    BY <1>3, <1>6, <1>10 DEF SameFields, Drained, Running
  <1>12. rt' \in [Streams -> Runtime] /\ rt'[s] = q /\ \A m \in Streams \ {s} : rt'[m] = rt[m]
    BY <1>2, <1>10, <1>11
  <1>13. \A m \in Streams : SameFields(rt[m], rt'[m]) \/ Drained(m, rt[m], rt'[m])
    BY <1>11, <1>12 DEF SameFields
  <1>14. Types'
    BY <1>9, <1>12 DEF Types, TypeOK
  <1> QED
    BY <1>7, <1>9, <1>13, <1>14

LEMMA PeriodSettles ==
  ASSUME Types, NEW s \in Streams, PeriodElapsed(s)
  PROVE  Types' /\ Settles(s)
  <1>1. PICK n \in 1..BufferSize : UpdateState(s, s, n, Idle, XrunTask(s))
    BY DEF PeriodElapsed
  <1>2. FormOf(s, Idle) /\ s \in Agents
    BY IdleForm, AgentKinds
  <1>3. PICK t : t = XrunTask(s)
    OBVIOUS
  <1>4. PICK todo \in Seq(Call) : todo = <<Stop("XRUN")>>
    BY PlansTyped, ActNames
  <1>5. t \in Task /\ t.at = "self" /\ t.op = "irq" /\ t.s = s /\ t.todo = todo
    BY <1>3, <1>4, IdleTask DEF XrunTask, Task, Places, Ops
  <1>6. FormOf(s, t)
    BY <1>4, <1>5 DEF FormOf, IrqTask, Asks, Locking
  <1>7. UNCHANGED <<grp, power, shutdown>>
    BY DEF PeriodElapsed
  <1>8. /\ Types' /\ Others(s)
        /\ \A m \in Streams : SameFields(rt[m], rt'[m]) \/ Drained(m, rt[m], rt'[m])
    BY <1>1, <1>2, <1>3, <1>6, <1>7, UpdateDoes
  <1> QED
    BY <1>7, <1>8 DEF Settles

LEMMA TransferTask ==
  ASSUME NEW a \in Threads, NEW s \in Streams
  PROVE  FormOf(a, Transfer(a, s)) /\ Transfer(a, s).op \in {"read", "write"}
  <1>1. PICK op \in {"read", "write"} : op = IF s \in Playback THEN "write" ELSE "read"
    OBVIOUS
  <1>2. PICK t : t = Transfer(a, s)
    OBVIOUS
  <1>3. t = [Idle EXCEPT !.at = "work", !.op = op, !.s = s]
    BY <1>1, <1>2 DEF Transfer
  <1>4. t \in Task /\ t.at = "work" /\ t.op = op /\ t.todo = <<>>
    BY <1>3, IdleTask DEF Task, Places, Ops
  <1>5. FormOf(a, t)
    BY <1>4 DEF FormOf, ThreadTask, Works
  <1> QED
    BY <1>2, <1>4, <1>5

LEMMA TransferSettles ==
  ASSUME Types, NEW a \in Threads, NEW s \in Streams, IoctlTransfer(a, s)
  PROVE  Types' /\ Settles(a)
  <1>1. PICK t : t = Transfer(a, s)
    OBVIOUS
  <1>2. FormOf(a, t) /\ t \in Task /\ t.op \in {"read", "write"} /\ a \in Agents
    BY <1>1, TransferTask, AgentKinds DEF FormOf
  <1>3. PICK todo \in Seq(Call) : todo = <<Stop("XRUN")>>
    BY PlansTyped, ActNames
  <1>4. PICK u : u = [t EXCEPT !.at = "self", !.todo = todo]
    OBVIOUS
  <1>5. u \in Task /\ u.at = "self" /\ u.op = t.op /\ u.todo = todo
    BY <1>2, <1>4 DEF Task, Places
  <1>6. FormOf(a, u)
    BY <1>2, <1>3, <1>5 DEF FormOf, ThreadTask, Asks, Locking
  <1>7. pc[a] = Idle /\ power = "D0" /\ UNCHANGED <<grp, power, shutdown>>
    BY DEF IoctlTransfer, MayCall
  <1>8. CASE rt' = rt /\ Become(a, t, {})
    <2>1. pc'[a] = t /\ Others(a)
      BY <1>2, <1>8, Becomes DEF Others
    <2>2. Types'
      BY <1>2, <1>7, <1>8, OnlyBecomes DEF Types, TypeOK
    <2>3. \A m \in Streams : SameFields(rt[m], rt'[m])
      BY <1>8 DEF SameFields
    <2> QED
      BY <1>2, <1>7, <2>1, <2>2, <2>3 DEF Settles, Ordinary
  <1>9. ASSUME NEW n \in 1..BufferSize, UpdateState(a, s, n, t, u)
        PROVE  Types' /\ Settles(a)
    <2>1. /\ Types' /\ Others(a)
          /\ \A m \in Streams : SameFields(rt[m], rt'[m]) \/ Drained(m, rt[m], rt'[m])
          /\ pc'[a] \in {t, u}
      BY <1>2, <1>6, <1>7, <1>9, UpdateDoes
    <2> QED
      BY <1>2, <1>5, <1>7, <2>1 DEF Settles, Ordinary
  <1> QED
    BY <1>1, <1>3, <1>4, <1>8, <1>9 DEF IoctlTransfer

LEMMA CommitSettles ==
  ASSUME Types, NEW a \in Agents, CommitTransfer(a)
  PROVE  Types' /\ Settles(a)
  <1>1. PICK t : t = pc[a]
    OBVIOUS
  <1>2. FormOf(a, t) /\ t \in Task /\ t.op \in {"read", "write"}
    BY <1>1 DEF Types, Forms, FormOf, CommitTransfer
  <1>3. a \in Threads
    BY <1>2, IdleTask DEF FormOf, IrqTask, DriverTask
  <1>4. PICK todo \in Seq(Call) : todo = <<Do("start")>>
    BY PlansTyped, ActNames
  <1>5. PICK u : u = [t EXCEPT !.at = "self", !.todo = todo]
    OBVIOUS
  <1>6. u \in Task /\ u.at = "self" /\ u.op = t.op /\ u.todo = todo
    BY <1>2, <1>5 DEF Task, Places
  <1>7. FormOf(a, u)
    BY <1>2, <1>3, <1>4, <1>6 DEF FormOf, ThreadTask, Asks, Locking
  <1>8. PICK task \in {Idle, u} : Become(a, task, {})
    BY <1>1, <1>4, <1>5 DEF CommitTransfer
  <1>9. FormOf(a, task) /\ task.op \in Ordinary \cup {"none"}
    BY <1>2, <1>6, <1>7, IdleForm, IdleTask DEF Ordinary
  <1>10. /\ (pc \in [Agents -> Task] /\ Forms)' /\ Others(a) /\ pc'[a] = task
    BY <1>8, <1>9, Becomes DEF Others
  <1>11. PICK s \in Streams : s = t.s
    BY <1>2, TaskFields
  <1>12. rt \in [Streams -> Runtime] /\ rt[s] \in Runtime
    BY <1>11 DEF Types, TypeOK
  <1>13. PICK l : l = IF s \in Playback THEN (IF rt[s].level < BufferSize THEN rt[s].level + 1 ELSE rt[s].level)
                      ELSE (IF rt[s].level > 0 THEN rt[s].level - 1 ELSE rt[s].level)
    OBVIOUS
  <1>14. l \in 0..BufferSize
    BY <1>12, <1>13, RuntimeFields, BufferAssumption
  <1>15. PICK q : q = [rt[s] EXCEPT !.level = l]
    OBVIOUS
  <1>16. q \in Runtime /\ SameFields(rt[s], q)
    BY <1>12, <1>14, <1>15 DEF Runtime, SameFields
  <1>17. rt' = rt \/ rt' = [rt EXCEPT ![s] = q]
    BY <1>1, <1>11, <1>13, <1>15 DEF CommitTransfer
  <1>18. rt' \in [Streams -> Runtime] /\ \A m \in Streams : SameFields(rt[m], rt'[m])
    BY <1>12, <1>16, <1>17 DEF SameFields
  <1>19. UNCHANGED <<grp, power, shutdown>>
    BY DEF CommitTransfer
  <1>20. Types'
    BY <1>10, <1>18, <1>19 DEF Types, TypeOK
  <1> QED
    BY <1>1, <1>2, <1>3, <1>9, <1>10, <1>18, <1>19, <1>20 DEF Settles, Ordinary

\* Only the runtime of s changes, to q.
Sets(s, q) == rt' \in [Streams -> Runtime] /\ rt'[s] = q /\ \A m \in Streams \ {s} : rt'[m] = rt[m]

\* The beginnings of hw_params and hw_free.
HwBegins(a, s) ==
    /\ pc[a] = Idle /\ power = "D0" /\ UNCHANGED <<grp, power, shutdown>> /\ Others(a) /\ ~shutdown
    /\ rt[s].state \in {"OPEN", "SETUP", "PREPARED"}
    /\ \E q : /\ Sets(s, q)
              /\ q.state = rt[s].state /\ q.dma = rt[s].dma
              /\ q.suspended_state = rt[s].suspended_state
              /\ pc'[a].op = "hw_params" => /\ rt[s].setup => q.setup
                                            /\ pc'[a].todo = <<Stop("SETUP")>> => q.setup
    /\ pc'[a].op \in {"hw_params", "hw_free"} /\ pc'[a].s = s /\ pc'[a].at = "work"

LEMMA HwParamsBegins ==
  ASSUME Types, NEW a \in Threads, NEW s \in Streams, IoctlHwParams(a, s)
  PROVE  Types' /\ HwBegins(a, s)
  <1>1. PICK ok \in BOOLEAN :
         /\ rt' = [rt EXCEPT ![s].setup = ok \/ rt[s].setup]
         /\ Become(a, [Idle EXCEPT !.at = "work", !.op = "hw_params", !.s = s,
                                   !.todo = IF ok THEN <<Stop("SETUP")>> ELSE <<Stop("OPEN")>>], {})
    BY DEF IoctlHwParams
  <1>2. rt \in [Streams -> Runtime] /\ rt[s] \in Runtime /\ rt[s].setup \in BOOLEAN
    BY DEF Types, TypeOK, Runtime
  <1>3. PICK setup \in BOOLEAN : setup = (ok \/ rt[s].setup)
    BY <1>2
  <1>4. PICK q : q = [rt[s] EXCEPT !.setup = setup]
    OBVIOUS
  <1>5. q \in Runtime /\ q.state = rt[s].state /\ q.dma = rt[s].dma /\ q.setup = setup
        /\ q.suspended_state = rt[s].suspended_state
    BY <1>2, <1>4 DEF Runtime
  <1>6. Sets(s, q)
    BY <1>1, <1>2, <1>3, <1>4, <1>5 DEF Sets
  <1>7. PICK todo \in Seq(Call) : todo = IF ok THEN <<Stop("SETUP")>> ELSE <<Stop("OPEN")>>
    BY PlansTyped, ActNames
  <1>8. PICK u : u = [Idle EXCEPT !.at = "work", !.op = "hw_params", !.s = s, !.todo = todo]
    OBVIOUS
  <1>9. u \in Task /\ u.at = "work" /\ u.op = "hw_params" /\ u.s = s /\ u.todo = todo
    BY <1>8, IdleTask DEF Task, Places, Ops
  <1>10. FormOf(a, u)
    BY <1>7, <1>9 DEF FormOf, ThreadTask
  <1>11. Become(a, u, {}) /\ a \in Agents
    BY <1>1, <1>7, <1>8, AgentKinds
  <1>12. /\ (pc \in [Agents -> Task] /\ Forms)' /\ Others(a) /\ pc'[a] = u
    BY <1>10, <1>11, Becomes DEF Others
  <1>13. pc[a] = Idle /\ power = "D0" /\ ~shutdown /\ UNCHANGED <<grp, power, shutdown>>
         /\ rt[s].state \in {"OPEN", "SETUP", "PREPARED"}
    BY DEF IoctlHwParams, MayCall
  <1>14. Types'
    BY <1>6, <1>12, <1>13 DEF Types, TypeOK, Sets
  <1>15. /\ rt[s].setup => q.setup
         /\ u.todo = <<Stop("SETUP")>> => q.setup
    <2>1. <<Stop("OPEN")>> # <<Stop("SETUP")>>
      <3>1. Stop("OPEN") # Stop("SETUP")
        BY DEF Stop
      <3>2. Head(<<Stop("OPEN")>>) = Stop("OPEN") /\ Head(<<Stop("SETUP")>>) = Stop("SETUP")
        BY OneCall
      <3> QED
        BY <3>1, <3>2
    <2> QED
      BY <1>3, <1>5, <1>7, <1>9, <2>1
  <1>16. u.op = "hw_params" /\ u.s = s /\ u.at = "work"
    BY <1>9
  <1> QED
    BY <1>5, <1>6, <1>12, <1>13, <1>14, <1>15, <1>16 DEF HwBegins

LEMMA HwFreeBegins ==
  ASSUME Types, NEW a \in Threads, NEW s \in Streams, IoctlHwFree(a, s)
  PROVE  Types' /\ HwBegins(a, s)
  <1>1. /\ rt' = [rt EXCEPT ![s].setup = FALSE]
        /\ Enter(a, s, "work", "hw_free", <<Stop("OPEN")>>)
        /\ pc[a] = Idle /\ power = "D0" /\ ~shutdown /\ UNCHANGED <<grp, power, shutdown>>
        /\ rt[s].state \in {"SETUP", "PREPARED"}
    BY DEF IoctlHwFree, MayCall, MayFree
  <1>2. rt \in [Streams -> Runtime] /\ rt[s] \in Runtime
    BY DEF Types, TypeOK
  <1>3. PICK q : q = [rt[s] EXCEPT !.setup = FALSE]
    OBVIOUS
  <1>4. q \in Runtime /\ q.state = rt[s].state /\ q.dma = rt[s].dma
        /\ q.suspended_state = rt[s].suspended_state
    BY <1>2, <1>3 DEF Runtime
  <1>5. Sets(s, q)
    BY <1>1, <1>2, <1>3, <1>4 DEF Sets
  <1>6. "work" \in Places /\ "hw_free" \in Ops /\ <<Stop("OPEN")>> \in Seq(Call)
    BY PlansTyped, ActNames DEF Places, Ops
  <1>7. \A t : t.at = "work" /\ t.op = "hw_free" /\ t.todo = <<Stop("OPEN")>> => ThreadTask(t)
    BY DEF ThreadTask
  <1>8. /\ (pc \in [Agents -> Task] /\ Forms)' /\ Others(a)
        /\ pc'[a].at = "work" /\ pc'[a].op = "hw_free" /\ pc'[a].s = s
    BY <1>1, <1>6, <1>7, Enters
  <1>9. Types'
    BY <1>1, <1>5, <1>8 DEF Types, TypeOK, Sets
  <1> QED
    BY <1>1, <1>4, <1>5, <1>8, <1>9 DEF HwBegins

\* Their ends.
HwEnds(a, s) ==
    /\ a \in Threads /\ pc[a].op \in {"hw_params", "hw_free"} /\ pc[a].s = s /\ pc'[a] = Idle
    /\ UNCHANGED <<grp, power, shutdown>> /\ Others(a)
    /\ \E to \in {"SETUP", "OPEN"} : \E q :
         /\ to = "SETUP" => pc[a].op = "hw_params" /\ pc[a].todo = <<Stop("SETUP")>>
         /\ Sets(s, q)
         /\ q.state = IF rt[s].state = "DISCONNECTED" THEN "DISCONNECTED" ELSE to
         /\ q.dma = rt[s].dma /\ q.suspended_state = rt[s].suspended_state
         /\ to = "SETUP" => q.setup = rt[s].setup

LEMMA HwSetEnds ==
  ASSUME Types, NEW a \in Agents, HwSetState(a)
  PROVE  Types' /\ \E s \in Streams : HwEnds(a, s)
  <1>1. PICK t : t = pc[a]
    OBVIOUS
  <1>2. FormOf(a, t) /\ t \in Task /\ t.op \in {"hw_params", "hw_free"} /\ t.at = "work"
    BY <1>1 DEF Types, Forms, FormOf, HwSetState
  <1>3. a \in Threads /\ ThreadTask(t)
    BY <1>2, IdleTask DEF FormOf, IrqTask, DriverTask
  <1>4. t.todo \in {<<Stop("SETUP")>>, <<Stop("OPEN")>>}
        /\ (t.todo = <<Stop("SETUP")>> => t.op = "hw_params" \/ t.todo = <<Stop("OPEN")>>)
    BY <1>2, <1>3 DEF ThreadTask
  <1>5. PICK to \in {"SETUP", "OPEN"} :
           /\ t.todo = <<Stop(to)>>
           /\ to = "SETUP" => t.op = "hw_params" /\ t.todo = <<Stop("SETUP")>>
    BY <1>4
  <1>6. Head(t.todo) = Stop(to) /\ Stop(to).to = to /\ to \in States
    BY <1>5, OneCall, DoTyped, ActNames
  <1>7. PICK s \in Streams : s = t.s
    BY <1>2, TaskFields
  <1>8. rt \in [Streams -> Runtime] /\ rt[s] \in Runtime
    BY DEF Types, TypeOK
  <1>9. PICK p : p = SetState(rt[s], to)
    OBVIOUS
  <1>10. /\ p \in Runtime
         /\ p.state = IF rt[s].state = "DISCONNECTED" THEN rt[s].state ELSE to
         /\ p.dma = rt[s].dma /\ p.suspended_state = rt[s].suspended_state
    BY <1>6, <1>8, <1>9, SetFields
  <1>11. PICK setup \in BOOLEAN : setup = (rt[s].setup /\ to # "OPEN")
    BY <1>8, RuntimeFields
  <1>12. PICK q : q = [p EXCEPT !.setup = setup]
    OBVIOUS
  <1>13. q \in Runtime /\ q.state = p.state /\ q.dma = p.dma
         /\ q.suspended_state = p.suspended_state /\ q.setup = setup
    BY <1>10, <1>12 DEF Runtime
  <1>14. /\ rt' = [rt EXCEPT ![s] = q] /\ Become(a, Idle, {}) /\ UNCHANGED <<grp, power, shutdown>>
    BY <1>1, <1>6, <1>7, <1>9, <1>11, <1>12 DEF HwSetState
  <1>15. Sets(s, q)
    BY <1>8, <1>13, <1>14 DEF Sets
  <1>16. (pc \in [Agents -> Task] /\ Forms)' /\ Others(a) /\ pc'[a] = Idle
    BY <1>14, IdleForm, Becomes DEF Others
  <1>17. Types'
    BY <1>14, <1>15, <1>16 DEF Types, TypeOK, Sets
  <1>18. to = "SETUP" => q.setup = rt[s].setup
    BY <1>8, <1>11, <1>13, RuntimeFields
  <1>19. q.state = IF rt[s].state = "DISCONNECTED" THEN "DISCONNECTED" ELSE to
    BY <1>10, <1>13
  <1>20. HwEnds(a, s)
    BY <1>1, <1>2, <1>3, <1>5, <1>7, <1>10, <1>13, <1>14, <1>15, <1>16, <1>18, <1>19 DEF HwEnds
  <1> QED
    BY <1>17, <1>20

\* One member more is prepared.
Prepares(a, m) ==
    /\ a \in Threads /\ pc[a].op = "prepare" /\ m \in pc[a].rest
    /\ UNCHANGED <<grp, power, shutdown>> /\ Others(a)
    /\ \/ pc[a].rest = {m} /\ pc'[a] = Idle
       \/ /\ pc'[a].op = "prepare" /\ pc'[a].s = pc[a].s
          /\ pc'[a].rest = pc[a].rest \ {m}
    /\ \E q : /\ Sets(m, q)
              /\ q.state = IF rt[m].state = "DISCONNECTED" THEN "DISCONNECTED" ELSE "PREPARED"
              /\ q.dma = rt[m].dma /\ q.suspended_state = rt[m].suspended_state
              /\ q.setup = rt[m].setup

LEMMA PostPrepares ==
  ASSUME Types, NEW a \in Agents, PostPrepare(a)
  PROVE  Types' /\ \E m \in Streams : Prepares(a, m)
  <1>1. PICK t : t = pc[a]
    OBVIOUS
  <1>2. FormOf(a, t) /\ t \in Task /\ t.at = "prepare"
    BY <1>1 DEF Types, Forms, FormOf, PostPrepare
  <1>3. a \in Threads /\ t.op = "prepare" /\ t.todo = <<>>
    BY <1>2, IdleTask DEF FormOf, IrqTask, DriverTask, ThreadTask, Asks, Asks2, Works, Locking
  <1>4. PICK m \in t.rest :
         /\ rt' = [rt EXCEPT ![m] = [SetState(rt[m], "PREPARED") EXCEPT !.level = 0]]
         /\ Become(a, IF t.rest = {m} THEN Idle ELSE [t EXCEPT !.rest = t.rest \ {m}], {})
         /\ UNCHANGED <<grp, power, shutdown>>
    BY <1>1 DEF PostPrepare
  <1>5. m \in Streams /\ t.rest \in SUBSET Streams
    BY <1>2, TaskFields
  <1>6. rt \in [Streams -> Runtime] /\ rt[m] \in Runtime
    BY <1>5 DEF Types, TypeOK
  <1>7. PICK p : p = SetState(rt[m], "PREPARED")
    OBVIOUS
  <1>8. /\ p \in Runtime
        /\ p.state = IF rt[m].state = "DISCONNECTED" THEN rt[m].state ELSE "PREPARED"
        /\ p.dma = rt[m].dma /\ p.suspended_state = rt[m].suspended_state
        /\ p.setup = rt[m].setup
    BY <1>6, <1>7, SetFields DEF States
  <1>9. PICK q : q = [p EXCEPT !.level = 0]
    OBVIOUS
  <1>10. q \in Runtime /\ q.state = p.state /\ q.dma = p.dma
         /\ q.suspended_state = p.suspended_state /\ q.setup = p.setup
    <2>1. 0 \in 0..BufferSize
      BY BufferAssumption
    <2> QED
      BY <1>8, <1>9, <2>1 DEF Runtime
  <1>11. Sets(m, q)
    BY <1>4, <1>5, <1>6, <1>7, <1>9, <1>10 DEF Sets
  <1>12. PICK u : u = [t EXCEPT !.rest = t.rest \ {m}]
    OBVIOUS
  <1>13. u \in Task /\ u.at = t.at /\ u.op = t.op /\ u.s = t.s /\ u.todo = t.todo
         /\ u.rest = t.rest \ {m}
    BY <1>2, <1>5, <1>12 DEF Task
  <1>14. FormOf(a, u)
    BY <1>2, <1>3, <1>13 DEF FormOf, ThreadTask, Works
  <1>15. PICK task : /\ Become(a, task, {})
                     /\ (t.rest = {m} /\ task = Idle) \/ task = u
    BY <1>4, <1>12
  <1>16. FormOf(a, task)
    BY <1>14, <1>15, IdleForm
  <1>17. (pc \in [Agents -> Task] /\ Forms)' /\ Others(a) /\ pc'[a] = task
    BY <1>15, <1>16, Becomes DEF Others
  <1>18. Types'
    BY <1>4, <1>11, <1>17 DEF Types, TypeOK, Sets
  <1>19. q.state = IF rt[m].state = "DISCONNECTED" THEN "DISCONNECTED" ELSE "PREPARED"
    BY <1>8, <1>10
  <1>20. Prepares(a, m)
    BY <1>1, <1>3, <1>4, <1>8, <1>10, <1>11, <1>13, <1>15, <1>17, <1>19 DEF Prepares
  <1> QED
    BY <1>5, <1>18, <1>20

\* The groups after s is taken out of its group, or s1 is added to that of s.
LEMMA UnlinkedTyped ==
  ASSUME Types, NEW s \in Streams
  PROVE  /\ Unlinked(s) \in [Streams -> SUBSET Streams] /\ Unlinked(s)[s] = {s}
         /\ \A t \in Streams \ {s} : Unlinked(s)[t] = grp[t] \ {s}
  BY DEF Types, TypeOK, Unlinked

Closes(a, s) ==
    /\ a \in Threads /\ pc[a].op = "close" /\ pc'[a] = Idle
    /\ UNCHANGED <<power, shutdown>> /\ Others(a)
    /\ Sets(s, NewRuntime) /\ grp' = Unlinked(s)

LEMMA CloseFinishes ==
  ASSUME Types, NEW a \in Agents, CloseFinish(a)
  PROVE  Types' /\ \E s \in Streams : Closes(a, s)
  <1>1. PICK t : t = pc[a]
    OBVIOUS
  <1>2. FormOf(a, t) /\ t \in Task /\ t.at = "close"
    BY <1>1 DEF Types, Forms, FormOf, CloseFinish
  <1>3. a \in Threads /\ t.op = "close"
    BY <1>2, IdleTask DEF FormOf, IrqTask, DriverTask, ThreadTask, Asks, Asks2, Works, Locking
  <1>4. PICK s \in Streams : s = t.s
    BY <1>2, TaskFields
  <1>5. /\ rt' = [rt EXCEPT ![s] = NewRuntime] /\ grp' = Unlinked(s)
        /\ Become(a, Idle, {}) /\ UNCHANGED <<power, shutdown>>
    BY <1>1, <1>4 DEF CloseFinish
  <1>6. rt \in [Streams -> Runtime]
    BY DEF Types, TypeOK
  <1>7. Sets(s, NewRuntime)
    BY <1>5, <1>6, NewRuntimeTyped DEF Sets
  <1>8. (pc \in [Agents -> Task] /\ Forms)' /\ Others(a) /\ pc'[a] = Idle
    BY <1>5, IdleForm, Becomes DEF Others
  <1>9. Types'
    BY <1>5, <1>7, <1>8, UnlinkedTyped DEF Types, TypeOK, Sets
  <1>10. Closes(a, s)
    BY <1>1, <1>3, <1>5, <1>7, <1>8 DEF Closes
  <1> QED
    BY <1>9, <1>10

Regroups(a) == /\ pc[a] = Idle /\ power = "D0" /\ ~shutdown
               /\ UNCHANGED <<rt, pc, power, shutdown>>

LEMMA FormsStay ==
  ASSUME Types, pc' = pc
  PROVE  (pc \in [Agents -> Task] /\ Forms)'
  BY DEF Types, TypeOK, Forms

LEMMA LinkRegroups ==
  ASSUME Types, NEW a \in Threads, NEW s \in Streams, NEW s1 \in Streams, IoctlLink(a, s, s1)
  PROVE  Types' /\ Regroups(a)
  <1>1. Regroups(a)
    BY DEF IoctlLink, MayCall, Regroups
  <1>2. grp \in [Streams -> SUBSET Streams]
    BY DEF Types, TypeOK
  <1>3. grp' \in [Streams -> SUBSET Streams]
    BY <1>2 DEF IoctlLink
  <1> QED
    BY <1>1, <1>3, FormsStay DEF Types, TypeOK, Regroups

LEMMA UnlinkRegroups ==
  ASSUME Types, NEW a \in Threads, NEW s \in Streams, IoctlUnlink(a, s)
  PROVE  Types' /\ Regroups(a)
  <1>1. Regroups(a)
    BY DEF IoctlUnlink, MayCall, Regroups
  <1>2. grp' \in [Streams -> SUBSET Streams]
    BY UnlinkedTyped DEF IoctlUnlink
  <1> QED
    BY <1>1, <1>2, FormsStay DEF Types, TypeOK, Regroups

(***************************************************************************)
(* The steps of the driver.                                                *)
(***************************************************************************)
Unplugs == /\ ~shutdown /\ shutdown' /\ power = "D0" /\ UNCHANGED <<grp, power>> /\ Others(Driver)
           /\ "unplug" \in Features
           /\ pc[Driver] = Idle /\ pc'[Driver].op = "unplug"
           /\ \A s \in Streams : /\ rt'[s].state = rt[s].state /\ ~rt'[s].dma
                                 /\ rt'[s].suspended_state = rt[s].suspended_state
                                 /\ rt'[s].setup = rt[s].setup

LEMMA DriverTasks ==
  ASSUME NEW t \in Task, t.op \in {"suspend", "unplug"}, t.at = "each", t.todo = <<>>
  PROVE  FormOf(Driver, t)
  BY DEF FormOf, DriverTask, Works

LEMMA UnplugUnplugs ==
  ASSUME Types, Unplug
  PROVE  Types' /\ Unplugs
  <1>1. /\ "unplug" \in Features /\ ~shutdown /\ power = "D0" /\ pc[Driver] = Idle /\ shutdown' = TRUE
        /\ rt' = [s \in Streams |-> [rt[s] EXCEPT !.dma = FALSE]]
        /\ Become(Driver, [Idle EXCEPT !.at = "each", !.op = "unplug", !.rest = Streams], {})
        /\ UNCHANGED <<grp, power>>
    BY DEF Unplug
  <1>2. ASSUME NEW s \in Streams
        PROVE  /\ rt'[s] \in Runtime
               /\ rt'[s].state = rt[s].state /\ ~rt'[s].dma
               /\ rt'[s].suspended_state = rt[s].suspended_state /\ rt'[s].setup = rt[s].setup
    <2>1. rt[s] \in Runtime
      BY DEF Types, TypeOK
    <2>2. PICK q : q = [rt[s] EXCEPT !.dma = FALSE]
      OBVIOUS
    <2>3. /\ q \in Runtime /\ q.state = rt[s].state /\ ~q.dma
          /\ q.suspended_state = rt[s].suspended_state /\ q.setup = rt[s].setup
      BY <2>1, <2>2 DEF Runtime
    <2> QED
      BY <1>1, <2>2, <2>3
  <1>3. rt' \in [Streams -> Runtime]
    BY <1>1, <1>2
  <1>4. PICK t : t = [Idle EXCEPT !.at = "each", !.op = "unplug", !.rest = Streams]
    OBVIOUS
  <1>5. FormOf(Driver, t) /\ t.op = "unplug" /\ Become(Driver, t, {}) /\ Driver \in Agents
    <2>1. t \in Task /\ t.at = "each" /\ t.op = "unplug" /\ t.todo = <<>>
      BY <1>4, IdleTask DEF Task, Places, Ops
    <2> QED
      BY <1>1, <1>4, <2>1, DriverTasks, AgentKinds
  <1>6. (pc \in [Agents -> Task] /\ Forms)' /\ Others(Driver) /\ pc'[Driver] = t
    BY <1>5, Becomes DEF Others
  <1>7. Types'
    BY <1>1, <1>3, <1>6 DEF Types, TypeOK
  <1> QED
    BY <1>1, <1>2, <1>5, <1>6, <1>7 DEF Unplugs

Disconnects(s) ==
    /\ pc[Driver].op = "unplug" /\ pc'[Driver].op \in {"none", "unplug"}
    /\ UNCHANGED <<grp, power, shutdown>> /\ Others(Driver)
    /\ \E q : /\ Sets(s, q)
              /\ q.state = "DISCONNECTED" /\ q.dma = rt[s].dma
              /\ q.suspended_state = rt[s].suspended_state /\ q.setup = rt[s].setup

LEMMA DisconnectDisconnects ==
  ASSUME Types, DisconnectOne
  PROVE  Types' /\ \E s \in Streams : Disconnects(s)
  <1>1. PICK t : t = pc[Driver]
    OBVIOUS
  <1>2. FormOf(Driver, t) /\ t \in Task /\ t.op = "unplug" /\ t.at = "each"
    BY <1>1, AgentKinds DEF Types, Forms, FormOf, DisconnectOne
  <1>3. t.todo = <<>> /\ Driver \in Agents
    BY <1>2, IdleTask, AgentKinds DEF FormOf, IrqTask, DriverTask, ThreadTask, Asks, Works, Locking
  <1>4. PICK s \in t.rest :
         /\ rt' = [rt EXCEPT ![s].state = "DISCONNECTED"]
         /\ Become(Driver, IF t.rest = {s} THEN Idle ELSE [t EXCEPT !.rest = t.rest \ {s}], {s})
         /\ UNCHANGED <<grp, power, shutdown>>
    BY <1>1 DEF DisconnectOne
  <1>5. s \in Streams /\ t.rest \in SUBSET Streams
    BY <1>2, TaskFields
  <1>6. rt \in [Streams -> Runtime] /\ rt[s] \in Runtime
    BY <1>5 DEF Types, TypeOK
  <1>7. PICK q : q = [rt[s] EXCEPT !.state = "DISCONNECTED"]
    OBVIOUS
  <1>8. q \in Runtime /\ q.state = "DISCONNECTED" /\ q.dma = rt[s].dma
        /\ q.suspended_state = rt[s].suspended_state /\ q.setup = rt[s].setup
    BY <1>6, <1>7 DEF Runtime, States
  <1>9. Sets(s, q)
    BY <1>4, <1>5, <1>6, <1>7, <1>8 DEF Sets
  <1>10. PICK u : u = [t EXCEPT !.rest = t.rest \ {s}]
    OBVIOUS
  <1>11. u \in Task /\ u.at = t.at /\ u.op = t.op /\ u.todo = t.todo
    BY <1>2, <1>5, <1>10 DEF Task
  <1>12. FormOf(Driver, u)
    BY <1>2, <1>3, <1>11 DEF FormOf, DriverTask, Works
  <1>13. PICK task \in {Idle, u} : Become(Driver, task, {s})
    BY <1>4, <1>10
  <1>14. FormOf(Driver, task) /\ task.op \in {"none", "unplug"}
    BY <1>2, <1>11, <1>12, <1>13, IdleForm, IdleTask
  <1>15. (pc \in [Agents -> Task] /\ Forms)' /\ Others(Driver) /\ pc'[Driver] = task
    BY <1>3, <1>13, <1>14, Becomes DEF Others
  <1>16. Types'
    BY <1>4, <1>9, <1>15 DEF Types, TypeOK, Sets
  <1>17. Disconnects(s)
    BY <1>1, <1>2, <1>4, <1>8, <1>9, <1>14, <1>15 DEF Disconnects
  <1> QED
    BY <1>5, <1>16, <1>17

\* The four steps of a suspend and resume of the card.
PowersDown == /\ "pm" \in Features /\ power = "D0" /\ ~shutdown /\ power' = "D3hot"
              /\ \A a \in Threads : pc[a] = Idle
              /\ UNCHANGED <<rt, grp, shutdown>> /\ Others(Driver)
              /\ pc[Driver] = Idle /\ pc'[Driver].op = "suspend" /\ pc'[Driver].rest = Streams
Visits(s)  == /\ UNCHANGED <<rt, grp, power, shutdown>> /\ Others(Driver)
              /\ pc[Driver].op = "suspend" /\ pc'[Driver].op = "suspend"
              /\ pc[Driver].at = "each" /\ s \in pc[Driver].rest
              /\ pc'[Driver].at # "each" /\ pc'[Driver].s = s
              /\ pc'[Driver].rest = pc[Driver].rest \ {s}
HasVisited == /\ UNCHANGED <<rt, grp, power, shutdown>> /\ Others(Driver)
              /\ pc[Driver].op = "suspend" /\ pc[Driver].at = "each" /\ pc[Driver].rest = {}
              /\ pc'[Driver] = Idle
PowersUp   == /\ power = "D3hot" /\ power' = "D0" /\ pc[Driver] = Idle
              /\ UNCHANGED <<rt, grp, pc, shutdown>>

LEMMA SuspendPowersDown ==
  ASSUME Types, SuspendCard
  PROVE  Types' /\ PowersDown
  <1>1. PICK t : t = [Idle EXCEPT !.at = "each", !.op = "suspend", !.rest = Streams]
    OBVIOUS
  <1>2. FormOf(Driver, t) /\ t.op = "suspend" /\ t.rest = Streams /\ Driver \in Agents
    <2>1. t \in Task /\ t.at = "each" /\ t.op = "suspend" /\ t.todo = <<>> /\ t.rest = Streams
      BY <1>1, IdleTask DEF Task, Places, Ops
    <2> QED
      BY <2>1, DriverTasks, AgentKinds
  <1>3. Become(Driver, t, {}) /\ UNCHANGED <<rt, grp, shutdown>> /\ power' = "D3hot"
    BY <1>1 DEF SuspendCard
  <1>4. pc'[Driver] = t /\ Others(Driver)
    BY <1>2, <1>3, Becomes DEF Others
  <1>5. Types'
    BY <1>2, <1>3, OnlyBecomes
  <1> QED
    BY <1>2, <1>3, <1>4, <1>5 DEF PowersDown, SuspendCard

LEMMA SuspendVisits ==
  ASSUME Types, SuspendOne
  PROVE  Types' /\ \E s \in Streams : Visits(s)
  <1>1. PICK t : t = pc[Driver]
    OBVIOUS
  <1>2. FormOf(Driver, t) /\ t \in Task /\ t.op = "suspend" /\ t.at = "each" /\ Driver \in Agents
    BY <1>1, AgentKinds DEF Types, Forms, FormOf, SuspendOne
  <1>3. PICK s \in t.rest :
           Become(Driver, [t EXCEPT !.at = "self", !.s = s, !.rest = t.rest \ {s},
                                    !.todo = <<Do("suspend")>>], {})
    BY <1>1 DEF SuspendOne
  <1>4. s \in Streams /\ t.rest \in SUBSET Streams
    BY <1>2, TaskFields
  <1>5. PICK todo \in Seq(Call) : todo = <<Do("suspend")>>
    BY PlansTyped, ActNames
  <1>6. PICK u : u = [t EXCEPT !.at = "self", !.s = s, !.rest = t.rest \ {s}, !.todo = todo]
    OBVIOUS
  <1>7. u \in Task /\ u.at = "self" /\ u.op = t.op /\ u.s = s /\ u.todo = todo /\ u.rest = t.rest \ {s}
    BY <1>2, <1>4, <1>6 DEF Task, Places
  <1>8. FormOf(Driver, u)
    BY <1>2, <1>5, <1>7 DEF FormOf, DriverTask, Asks, Locking
  <1>9. Become(Driver, u, {}) /\ UNCHANGED <<rt, grp, power, shutdown>>
    BY <1>3, <1>5, <1>6 DEF SuspendOne
  <1>10. pc'[Driver] = u /\ Others(Driver)
    BY <1>2, <1>8, <1>9, Becomes DEF Others
  <1>11. Types'
    BY <1>2, <1>8, <1>9, OnlyBecomes DEF Types, TypeOK
  <1>12. Visits(s)
    BY <1>1, <1>2, <1>3, <1>7, <1>9, <1>10 DEF Visits
  <1> QED
    BY <1>4, <1>11, <1>12

LEMMA SuspendHasVisited ==
  ASSUME Types, SuspendedAll
  PROVE  Types' /\ HasVisited
  <1>1. FormOf(Driver, Idle) /\ Driver \in Agents
    BY IdleForm, AgentKinds
  <1>2. Become(Driver, Idle, {}) /\ UNCHANGED <<rt, grp, power, shutdown>>
    BY DEF SuspendedAll
  <1>3. pc'[Driver] = Idle /\ Others(Driver)
    BY <1>1, <1>2, Becomes DEF Others
  <1>4. Types'
    BY <1>1, <1>2, OnlyBecomes DEF Types, TypeOK
  <1> QED
    BY <1>2, <1>3, <1>4 DEF HasVisited, SuspendedAll

LEMMA ResumePowersUp ==
  ASSUME Types, ResumeCard
  PROVE  Types' /\ PowersUp
  <1>1. PowersUp
    BY DEF ResumeCard, PowersUp
  <1> QED
    BY <1>1, FormsStay DEF Types, TypeOK, PowersUp

(***************************************************************************)
(* Every step is of one of these kinds, and keeps the types.               *)
(***************************************************************************)
Performs(a) == /\ Pending(pc[a]) /\ Perform(a) /\ UNCHANGED <<grp, power, shutdown>>
               /\ pc[a].at = "self" => ~Linked(pc[a].s)

Relinks(a, s) == /\ Regroups(a)
                 /\ IoctlUnlink(a, s) \/ \E s1 \in Streams : IoctlLink(a, s, s1)

StepOfAgent(a)     == Performs(a) \/ Relocks(a) \/ Settles(a)
StepOfThread(a, s) == \/ Begins(a, s) \/ HwBegins(a, s) \/ HwEnds(a, s) \/ Prepares(a, s)
                      \/ Closes(a, s) \/ Relinks(a, s)
StepOfDriver       == \/ Unplugs \/ PowersDown \/ HasVisited \/ PowersUp
                      \/ \E s \in Streams : Disconnects(s) \/ Visits(s)

Kinds == \/ \E a \in Agents : StepOfAgent(a)
         \/ \E a \in Threads, s \in Streams : StepOfThread(a, s)
         \/ StepOfDriver

LEMMA ActsPerform ==
  ASSUME Types, NEW a \in Agents, ActSingle(a) \/ ActGroup(a)
  PROVE  Types' /\ Performs(a)
  <1>1. Pending(pc[a])
    BY WaitingIsPending DEF ActSingle, ActGroup, Pending, Locking
  <1>2. Performs(a)
    BY <1>1 DEF ActSingle, ActGroup, Performs
  <1> QED
    BY <1>1, <1>2, PerformTypes DEF Performs

LEMMA ContinueKinds ==
  ASSUME Types, NEW a \in Agents, Continue(a)
  PROVE  Types' /\ Kinds
  <1>1. CASE ActSingle(a) \/ ActGroup(a)
    BY <1>1, ActsPerform DEF Kinds, StepOfAgent
  <1>2. CASE TryGroupLock(a) \/ TakeGroupLock(a)
    BY <1>2, LockMoves DEF Kinds, StepOfAgent
  <1>3. CASE PauseMeetsXrun(a)
    BY <1>3, PauseMeetsXrunGoesOn, SettlesAtRest DEF Kinds, StepOfAgent
  <1>4. CASE DropLock(a)
    BY <1>4, DropLockGoesOn, SettlesAtRest DEF Kinds, StepOfAgent
  <1>5. CASE HwSetState(a)
    <2>1. PICK s \in Streams : Types' /\ HwEnds(a, s)
      BY <1>5, HwSetEnds
    <2> QED
      BY <2>1 DEF Kinds, StepOfThread, HwEnds
  <1>6. CASE PostPrepare(a)
    <2>1. PICK s \in Streams : Types' /\ Prepares(a, s)
      BY <1>6, PostPrepares
    <2> QED
      BY <2>1 DEF Kinds, StepOfThread, Prepares
  <1>7. CASE CommitTransfer(a)
    BY <1>7, CommitSettles DEF Kinds, StepOfAgent
  <1>8. CASE DrainRound(a) \/ DrainSleep(a) \/ DrainTimeout(a) \/ DrainWake(a)
    BY <1>8, DrainSteps, SettlesAtRest DEF Kinds, StepOfAgent
  <1>9. CASE CloseFinish(a)
    <2>1. PICK s \in Streams : Types' /\ Closes(a, s)
      BY <1>9, CloseFinishes
    <2> QED
      BY <2>1 DEF Kinds, StepOfThread, Closes
  <1> QED
    BY <1>1, <1>2, <1>3, <1>4, <1>5, <1>6, <1>7, <1>8, <1>9 DEF Continue

LEMMA IoctlKinds ==
  ASSUME Types, NEW a \in Threads, NEW s \in Streams, Ioctl(a, s)
  PROVE  Types' /\ Kinds
  <1>0. a \in Agents
    BY AgentKinds
  <1>1. CASE IoctlStart(a, s)
    BY <1>1, StartBegins DEF Kinds, StepOfThread
  <1>2. CASE IoctlResume(a, s)
    BY <1>2, ResumeBegins DEF Kinds, StepOfThread
  <1>3. CASE IoctlPause(a, s)
    BY <1>3, PauseBegins DEF Kinds, StepOfThread
  <1>4. CASE IoctlXrun(a, s)
    BY <1>4, XrunBegins DEF Kinds, StepOfThread
  <1>5. CASE IoctlDrop(a, s)
    BY <1>5, DropBegins DEF Kinds, StepOfThread
  <1>6. CASE IoctlHwParams(a, s)
    BY <1>6, HwParamsBegins DEF Kinds, StepOfThread
  <1>7. CASE IoctlHwFree(a, s)
    BY <1>7, HwFreeBegins DEF Kinds, StepOfThread
  <1>8. CASE IoctlPrepare(a, s)
    BY <1>8, PrepareBegins DEF Kinds, StepOfThread
  <1>9. CASE IoctlTransfer(a, s)
    BY <1>0, <1>9, TransferSettles DEF Kinds, StepOfAgent
  <1>10. CASE IoctlReadStart(a, s)
    BY <1>10, ReadBegins DEF Kinds, StepOfThread
  <1>11. CASE IoctlDrain(a, s)
    BY <1>11, DrainBegins DEF Kinds, StepOfThread
  <1>12. CASE IoctlUnlink(a, s)
    BY <1>12, UnlinkRegroups DEF Kinds, StepOfThread, Relinks
  <1>13. CASE Close(a, s)
    BY <1>13, CloseBegins DEF Kinds, StepOfThread
  <1>14. ASSUME NEW s1 \in Streams, IoctlLink(a, s, s1)
         PROVE  Types' /\ Kinds
    BY <1>14, LinkRegroups DEF Kinds, StepOfThread, Relinks
  <1> QED
    BY <1>1, <1>2, <1>3, <1>4, <1>5, <1>6, <1>7, <1>8, <1>9, <1>10, <1>11, <1>12, <1>13, <1>14
    DEF Ioctl

LEMMA NextKinds ==
  ASSUME Types, Next
  PROVE  Types' /\ Kinds
  <1>1. CASE \E a \in Agents : Continue(a)
    BY <1>1, ContinueKinds
  <1>2. CASE \E a \in Threads, s \in Streams : Ioctl(a, s)
    BY <1>2, IoctlKinds
  <1>3. ASSUME NEW a \in Threads, DrainSignal(a)
        PROVE  Types' /\ Kinds
    <2>1. a \in Agents
      BY AgentKinds
    <2> QED
      BY <1>3, <2>1, DrainSteps, SettlesAtRest DEF Kinds, StepOfAgent
  <1>4. ASSUME NEW s \in Streams, PeriodElapsed(s)
        PROVE  Types' /\ Kinds
    <2>1. s \in Agents
      BY AgentKinds
    <2> QED
      BY <1>4, <2>1, PeriodSettles DEF Kinds, StepOfAgent
  <1>5. CASE SuspendCard
    BY <1>5, SuspendPowersDown DEF Kinds, StepOfDriver
  <1>6. CASE ResumeCard
    BY <1>6, ResumePowersUp DEF Kinds, StepOfDriver
  <1>7. CASE Unplug
    BY <1>7, UnplugUnplugs DEF Kinds, StepOfDriver
  <1>8. CASE SuspendOne
    <2>1. PICK s \in Streams : Types' /\ Visits(s)
      BY <1>8, SuspendVisits
    <2> QED
      BY <2>1 DEF Kinds, StepOfDriver
  <1>9. CASE SuspendedAll
    BY <1>9, SuspendHasVisited DEF Kinds, StepOfDriver
  <1>10. CASE DisconnectOne
    <2>1. PICK s \in Streams : Types' /\ Disconnects(s)
      BY <1>10, DisconnectDisconnects
    <2> QED
      BY <2>1 DEF Kinds, StepOfDriver
  <1> QED
    BY <1>1, <1>2, <1>3, <1>4, <1>5, <1>6, <1>7, <1>8, <1>9, <1>10 DEF Next, DriverStep

LEMMA InitTypes ==
  ASSUME Init
  PROVE  Types
  <1>1. \A a \in Agents : pc[a] = Idle
    BY DEF Init
  <1>2. pc \in [Agents -> Task]
    BY IdleTask DEF Init
  <1>3. Forms
    BY <1>1, <1>2, IdleForm DEF Forms
  <1>4. rt \in [Streams -> Runtime]
    BY NewRuntimeTyped DEF Init
  <1> QED
    BY <1>2, <1>3, <1>4 DEF Init, Types, TypeOK

LEMMA StutterTypes ==
  ASSUME Types, UNCHANGED vars
  PROVE  Types'
  BY FormsStay DEF Types, TypeOK, vars

(***************************************************************************)
(* Every variable keeps its type, and every agent is somewhere in a call   *)
(* that snd_pcm_common_ioctl1, the interrupt handler or the driver makes:  *)
(* whoever waits for the group lock or holds it has an action to perform,  *)
(* and only pause can wait for it while holding it.                        *)
(***************************************************************************)
THEOREM TypeCorrect == Spec => [](TypeOK /\ Forms)
  <1>1. Init => Types
    BY InitTypes
  <1>2. Types /\ [Next]_vars => Types'
    BY NextKinds, StutterTypes
  <1>3. Types => TypeOK /\ Forms
    BY DEF Types
  <1> QED
    BY <1>1, <1>2, <1>3, PTL DEF Spec

(***************************************************************************)
(* What keeps hardware and state in step for an application with one       *)
(* thread: the invariant Sound.  Between the unlocked check of a call and  *)
(* its end, no other agent undoes what the call found (Promise); a group   *)
(* is suspended as a whole, unless its prepare is under way (Uniform); and *)
(* what still moves while the card is powered down is what the driver has  *)
(* yet to visit (Frozen).                                                  *)
(***************************************************************************)
OneThread == /\ \A t, u \in Threads : t = u
             /\ "anyresume" \notin Features /\ "resume" \notin Fallible

Good(s, r) == /\ r.dma => Running(s, r)
              /\ r.state = "RUNNING" => r.dma \/ shutdown
              /\ shutdown => ~r.dma
              /\ r.suspended_state # "SUSPENDED"

Healthy == \A s \in Streams : Good(s, rt[s])

Grouped == \A s \in Streams : s \in grp[s] /\ \A m \in grp[s] : grp[m] = grp[s]

Suspended(s) == rt[s].state = "SUSPENDED"

Preparing(s) == \E a \in Threads : pc[a].op = "prepare" /\ s \in grp[pc[a].s]

Alike(s) == \A m \in grp[s] : Suspended(m) <=> Suspended(s)

Uniform == shutdown \/ \A s \in Streams : Preparing(s) \/ Alike(s)

Promise(t) ==
    /\ t.op \in {"hw_params", "hw_free"} => ~rt[t.s].dma /\ (shutdown \/ ~Suspended(t.s))
    /\ t.op = "prepare" => t.rest \subseteq grp[t.s]
    /\ t.op = "prepare" => \A m \in grp[t.s] : ~rt[m].dma /\ (m \in t.rest \/ shutdown \/ ~Suspended(m))
    /\ t.op = "resume" => \A m \in grp[t.s] : ~rt[m].dma

Promises == \A a \in Threads : Promise(pc[a])

Gone == (shutdown => power = "D0") /\ (pc[Driver].op = "unplug" => shutdown)

\* Still to be suspended by the driver.
Left(s) == LET d == pc[Driver] IN d.op = "suspend" /\ (s \in d.rest \/ (d.at # "each" /\ s = d.s))

Frozen == /\ pc[Driver].op = "suspend" => power = "D3hot"
          /\ power = "D3hot" => \A a \in Threads : pc[a] = Idle
          /\ power = "D3hot" => \A s \in Streams : rt[s].dma => Left(s)

Sound == Healthy /\ Grouped /\ Uniform /\ Promises /\ Gone /\ Frozen

(***************************************************************************)
(* Without power management, moreover: a substream that is ready to start, *)
(* started or paused has been set up, or is being set up; as long as the   *)
(* card is plugged in, so has every one that is beyond OPEN (Configured);  *)
(* and what prepare and hw_params found or did is still so (HasSetUp).     *)
(***************************************************************************)
NeverSuspended == /\ \A s \in Streams : ~Suspended(s) /\ rt[s].suspended_state = "OPEN"
                  /\ \A a \in Agents : pc[a].op \notin {"suspend", "resume"}

Ready(r) == r.state \in {"PREPARED", "RUNNING", "DRAINING", "PAUSED"}

Beyond(r) == r.state # "OPEN" /\ ~shutdown

Configured(s) == /\ Ready(rt[s]) \/ Beyond(rt[s]) => rt[s].setup \/ BeingSetUp(s)
                 /\ shutdown \/ rt[s].state # "DISCONNECTED"

HasSetUp(t) == /\ t.op = "prepare" => \A m \in grp[t.s] : rt[m].setup
               /\ t.op = "hw_params" /\ t.todo = <<Stop("SETUP")>> => rt[t.s].setup

SetUp == /\ NeverSuspended
         /\ \A s \in Streams : Configured(s)
         /\ \A a \in Threads : HasSetUp(pc[a])

(***************************************************************************)
(* One runtime under a call of snd_pcm_action.                             *)
(***************************************************************************)
LEMMA UndoneGood ==
  ASSUME Types, OneThread, NEW c \in Call, c.act \in Fallible,
         NEW s, NEW r \in Runtime, Good(s, r), Pre(c, s, r), NEW q, q = Undone(c, s, r)
  PROVE  Good(s, q) /\ q.state = r.state /\ q.setup = r.setup
  <1>1. c.act \in {"start", "push", "release"}
    BY HardwareAssumption DEF OneThread
  <1>2. /\ q.state = r.state /\ q.suspended_state = r.suspended_state /\ q.setup = r.setup
        /\ q.dma = (~TriggerOn(c, s) /\ ~shutdown)
    <2>1. shutdown \in BOOLEAN
      BY DEF Types, TypeOK
    <2>2. Triggers(c, s, r) /\ c.act # "resume"
      BY <1>1 DEF Triggers
    <2> QED
      BY <2>1, <2>2, UndoneFields
  <1>3. TriggerOn(c, s) <=> c.act \in {"start", "release"}
    BY <1>1 DEF TriggerOn
  <1>4. /\ c.act = "start" => r.state = "PREPARED"
        /\ c.act = "push" => r.state = "RUNNING"
        /\ c.act = "release" => r.state = "PAUSED"
    BY DEF Pre
  <1> QED
    BY <1>1, <1>2, <1>3, <1>4 DEF Good, Running

\* What a call that was not refused leaves.
LEMMA DoneGood ==
  ASSUME Types, NEW c \in Call, c.act = "stop" => c.to \in {"SETUP", "XRUN"},
         NEW s, NEW o \in Runtime, Good(s, o), Pre(c, s, o), c.act = "resume" => ~o.dma,
         NEW r, SameBut(c, r, o), NEW q, Result(c, s, r, q)
  PROVE  /\ Good(s, q) /\ q.setup = o.setup
         /\ q.state = "SUSPENDED" <=> c.act = "suspend"
         /\ c.act \in {"stop", "suspend"} => ~q.dma
  <1>1. shutdown \in BOOLEAN /\ r \in Runtime /\ q.dma \in BOOLEAN /\ r.dma \in BOOLEAN
    BY RuntimeFields DEF Types, TypeOK, SameBut, Result
  <1>2. Good(s, r) /\ r.state = o.state /\ r.setup = o.setup /\ r.dma = o.dma
    BY DEF SameBut, Good, Running
  <1>3. q.setup = o.setup /\ q.state = StateAfter(c, s, r)
    BY <1>2 DEF Result
  <1>4. CASE c.act \in {"start", "release"}
    <2>1. q.state = "RUNNING" /\ Triggers(c, s, r) /\ TriggerOn(c, s)
      BY <1>3, <1>4 DEF StateAfter, Triggers, TriggerOn
    <2>2. (q.dma <=> ~shutdown) /\ q.suspended_state = r.suspended_state
      BY <1>1, <1>4, <2>1 DEF Result, DmaAfter
    <2> QED
      BY <1>1, <1>2, <1>3, <1>4, <2>1, <2>2 DEF Good, Running
  <1>5. CASE c.act = "stop"
    <2>1. q.state \in {"SETUP", "XRUN"} /\ (Triggers(c, s, r) <=> Running(s, r)) /\ ~TriggerOn(c, s)
      BY <1>3, <1>5 DEF StateAfter, Triggers, TriggerOn
    <2>2. ~q.dma /\ q.suspended_state = r.suspended_state
      BY <1>1, <1>2, <1>5, <2>1 DEF Result, DmaAfter, Good
    <2> QED
      BY <1>1, <1>2, <1>3, <1>5, <2>1, <2>2 DEF Good, Running
  <1>6. CASE c.act = "push"
    <2>1. q.state = "PAUSED" /\ Triggers(c, s, r) /\ ~TriggerOn(c, s)
      BY <1>3, <1>6 DEF StateAfter, Triggers, TriggerOn
    <2>2. ~q.dma /\ q.suspended_state = r.suspended_state
      BY <1>1, <1>6, <2>1 DEF Result, DmaAfter
    <2> QED
      BY <1>1, <1>2, <1>3, <1>6, <2>1, <2>2 DEF Good, Running
  <1>7. CASE c.act = "suspend"
    <2>1. q.state = "SUSPENDED" /\ (Triggers(c, s, r) <=> Running(s, r)) /\ ~TriggerOn(c, s)
      BY <1>3, <1>7 DEF StateAfter, Triggers, TriggerOn
    <2>2. ~q.dma /\ q.suspended_state = r.state
      BY <1>1, <1>2, <1>7, <2>1 DEF Result, DmaAfter, Good
    <2>3. r.state # "SUSPENDED"
      BY <1>2, <1>7 DEF Pre
    <2> QED
      BY <1>1, <1>2, <1>3, <1>7, <2>1, <2>2, <2>3 DEF Good, Running
  <1>8. CASE c.act = "resume"
    <2>1. q.state = r.suspended_state /\ q.suspended_state = r.suspended_state
      BY <1>3, <1>8 DEF StateAfter, Result
    <2>2. PICK p : p = [r EXCEPT !.state = r.suspended_state]
      OBVIOUS
    <2>3. p.state = r.suspended_state
      BY <1>1, <2>2 DEF Runtime
    <2>4. Running(s, p) <=> Running(s, q)
      BY <2>1, <2>3 DEF Running
    <2>5. (Triggers(c, s, r) <=> Running(s, q)) /\ TriggerOn(c, s)
      BY <1>8, <2>2, <2>4 DEF Triggers, TriggerOn
    <2>6. ~r.dma
      BY <1>2, <1>8
    <2>7. q.dma <=> (Running(s, q) /\ ~shutdown)
      BY <1>1, <1>8, <2>5, <2>6 DEF Result, DmaAfter
    <2> QED
      BY <1>1, <1>2, <1>3, <1>8, <2>1, <2>7 DEF Good, Running
  <1>9. CASE c.act = "drain"
    <2>1. q.state = DrainTarget(s, r) /\ q.suspended_state = r.suspended_state
      BY <1>3, <1>9 DEF StateAfter, Result
    <2>2. r.state # "SUSPENDED"
      BY <1>2, <1>9 DEF Pre
    <2>3. CASE s \in Playback
      <3>1. TriggerOn(c, s) /\ (Triggers(c, s, r) <=> r.state = "PREPARED" /\ r.level > 0)
        BY <1>9, <2>3 DEF TriggerOn, Triggers
      <3>2. r.state = "PREPARED" => ~r.dma
        BY <1>2 DEF Good, Running
      <3>3. CASE r.state = "PREPARED" /\ r.level > 0
        <4>1. q.state = "DRAINING" /\ (q.dma => ~shutdown)
          BY <1>1, <1>2, <2>1, <2>3, <3>2, <3>3 DEF DrainTarget, Result, Good
        <4> QED
          BY <1>1, <1>2, <1>3, <1>9, <2>1, <2>3, <4>1 DEF Good, Running
      <3>4. CASE ~(r.state = "PREPARED" /\ r.level > 0)
        <4>1. q.dma <=> (r.dma /\ ~shutdown)
          BY <1>1, <1>9, <3>1, <3>4 DEF Result, DmaAfter
        <4>2. \/ r.state = "RUNNING" /\ q.state = "DRAINING"
              \/ r.state = "XRUN" /\ q.state = "SETUP"
              \/ r.state \notin {"RUNNING", "XRUN"} /\ q.state = r.state
          BY <2>1, <2>3, <3>4 DEF DrainTarget
        <4> QED
          BY <1>1, <1>2, <1>3, <1>9, <2>1, <2>2, <2>3, <4>1, <4>2 DEF Good, Running
      <3> QED
        BY <3>3, <3>4
    <2>4. CASE s \notin Playback
      <3>1. ~TriggerOn(c, s) /\ (Triggers(c, s, r) <=> r.state = "RUNNING")
        BY <1>9, <2>4 DEF TriggerOn, Triggers
      <3>2. q.dma <=> (r.dma /\ r.state # "RUNNING" /\ ~shutdown)
        BY <1>1, <1>9, <2>4, <3>1 DEF Result, DmaAfter
      <3>3. \/ r.state = "RUNNING" /\ q.state \in {"DRAINING", "SETUP"}
            \/ r.state # "RUNNING" /\ q.state = r.state
        BY <2>1, <2>4 DEF DrainTarget
      <3> QED
        BY <1>1, <1>2, <1>3, <1>9, <2>1, <2>2, <2>4, <3>2, <3>3 DEF Good, Running
    <2> QED
      BY <2>3, <2>4
  <1> QED
    BY <1>4, <1>5, <1>6, <1>7, <1>8, <1>9, CallFields DEF Acts

\* A call of snd_pcm_action on a whole group.
StatesStay == \A s \in Streams : rt'[s].state = rt[s].state
AllBecome(c, G) == /\ \A s \in Streams \ G : rt'[s].state = rt[s].state
                   /\ \A s \in G : Suspended(s)' <=> c.act = "suspend"
SetUpStays == \A s \in Streams : rt'[s].setup = rt[s].setup

LEMMA OutcomeGood ==
  ASSUME Types, Healthy, OneThread, NEW c \in Call, c.act = "stop" => c.to \in {"SETUP", "XRUN"},
         NEW G \in SUBSET Streams, Outcome(c, G), c.act = "resume" => \A m \in G : ~rt[m].dma,
         rt' \in [Streams -> Runtime], shutdown' = shutdown
  PROVE  /\ Healthy' /\ SetUpStays
         /\ StatesStay \/ AllBecome(c, G)
         /\ c.act \in {"stop", "suspend"} => \A s \in Streams : rt'[s].dma => rt[s].dma
         /\ c.act = "suspend" /\ ~Refused(c, G) => \A s \in G : ~rt'[s].dma
  <1>1. \A s \in Streams : rt[s] \in Runtime /\ Good(s, rt[s])
    BY DEF Healthy, Types, TypeOK
  <1>2. \A s, q : Good(s, q) => Good(s, q)'
    <2>1. ASSUME NEW s, NEW q, Good(s, q)
          PROVE  /\ q.dma => Running(s, q)
                 /\ q.state = "RUNNING" => q.dma \/ shutdown'
                 /\ shutdown' => ~q.dma
                 /\ q.suspended_state # "SUSPENDED"
      BY <2>1 DEF Good
    <2> QED
      BY <2>1 DEF Good, Running
  <1>3. SUFFICES /\ \A s \in Streams : Good(s, rt'[s])
                 /\ SetUpStays
                 /\ StatesStay \/ AllBecome(c, G)
                 /\ c.act \in {"stop", "suspend"} => \A s \in Streams : rt'[s].dma => rt[s].dma
                 /\ c.act = "suspend" /\ ~Refused(c, G) => \A s \in G : ~rt'[s].dma
    <2>1. ASSUME \A s \in Streams : Good(s, rt'[s])
          PROVE  Healthy'
      <3>1. ASSUME NEW s \in Streams
            PROVE  Good(s, rt[s])'
        <4>1. Good(s, rt'[s])
          BY <2>1
        <4>2. /\ rt'[s].dma => Running(s, rt'[s])
              /\ rt'[s].state = "RUNNING" => rt'[s].dma \/ shutdown'
              /\ shutdown' => ~rt'[s].dma
              /\ rt'[s].suspended_state # "SUSPENDED"
          BY <4>1 DEF Good
        <4> QED
          BY <4>2 DEF Good, Running
      <3> QED
        BY <3>1 DEF Healthy
    <2> QED
      BY <2>1
  <1>4. CASE Unchanged
    <2>1. \A s \in Streams : rt'[s] = rt[s]
      BY <1>4 DEF Unchanged
    <2>2. Refused(c, G) \/ SomeUndone(c, G) \/ AllDone(c, G)
      BY DEF Outcome
    <2>3. c.act = "suspend" /\ ~Refused(c, G) => AllDone(c, G)
      BY <2>2, HardwareAssumption DEF SomeUndone
    <2>4. ASSUME c.act = "suspend", ~Refused(c, G), NEW s \in G
          PROVE  ~rt'[s].dma
      <3>1. DoneOrNoStart(c, s, rt'[s]) /\ Pre(c, s, rt[s])
        BY <2>3, <2>4 DEF AllDone, Refused
      <3>2. PICK r : SameBut(c, r, rt[s]) /\ Result(c, s, r, rt'[s])
        BY <1>1, <3>1, DoneOrNoStartFields DEF Types, TypeOK
      <3> QED
        BY <1>1, <2>4, <3>1, <3>2, DoneGood
    <2> QED
      BY <1>1, <2>1, <2>4 DEF SetUpStays, StatesStay
  <1>5. CASE ~Refused(c, G) /\ SomeUndone(c, G)
    <2>1. ASSUME NEW s \in Streams
          PROVE  Good(s, rt'[s]) /\ rt'[s].state = rt[s].state /\ rt'[s].setup = rt[s].setup
      <3>1. CASE rt'[s] = rt[s]
        BY <1>1, <3>1
      <3>2. CASE s \in G /\ rt'[s] = Undone(c, s, rt[s])
        <4>1. Pre(c, s, rt[s]) /\ c.act \in Fallible
          BY <1>5, <3>2 DEF Refused, SomeUndone
        <4> QED
          BY <1>1, <3>2, <4>1, UndoneGood
      <3> QED
        BY <1>5, <3>1, <3>2 DEF SomeUndone
    <2>2. c.act \notin {"stop", "suspend"}
      BY <1>5, HardwareAssumption DEF SomeUndone
    <2> QED
      BY <2>1, <2>2 DEF SetUpStays, StatesStay
  <1>6. CASE ~Refused(c, G) /\ AllDone(c, G)
    <2>1. ASSUME NEW s \in G
          PROVE  /\ Good(s, rt'[s]) /\ rt'[s].setup = rt[s].setup
                 /\ rt'[s].state = "SUSPENDED" <=> c.act = "suspend"
                 /\ c.act \in {"stop", "suspend"} => ~rt'[s].dma
      <3>1. DoneOrNoStart(c, s, rt'[s]) /\ Pre(c, s, rt[s])
        BY <1>6 DEF AllDone, Refused
      <3>2. PICK r : SameBut(c, r, rt[s]) /\ Result(c, s, r, rt'[s])
        BY <1>1, <3>1, DoneOrNoStartFields DEF Types, TypeOK
      <3>3. rt[s] \in Runtime /\ Good(s, rt[s]) /\ (c.act = "resume" => ~rt[s].dma)
        BY <1>1
      <3> QED
        BY <3>1, <3>2, <3>3, DoneGood
    <2>2. \A s \in Streams \ G : rt'[s] = rt[s]
      BY <1>6 DEF AllDone
    <2>3. AllBecome(c, G)
      BY <2>1, <2>2 DEF AllBecome, Suspended
    <2>4. \A s \in Streams : Good(s, rt'[s]) /\ rt'[s].setup = rt[s].setup
      BY <1>1, <2>1, <2>2
    <2>5. c.act \in {"stop", "suspend"} => \A s \in Streams : rt'[s].dma => rt[s].dma
      BY <2>1, <2>2
    <2> QED
      BY <2>1, <2>3, <2>4, <2>5 DEF SetUpStays
  <1> QED
    BY <1>4, <1>5, <1>6 DEF Outcome

(***************************************************************************)
(* Sound under a step of another kind: the parts that most steps keep in   *)
(* the same way.                                                           *)
(***************************************************************************)
LEMMA AwakeThread ==
  ASSUME Frozen, NEW a \in Threads, pc[a] # Idle, TypeOK
  PROVE  power = "D0"
  BY DEF Frozen, TypeOK

LEMMA ThreadKeepsFrozen ==
  ASSUME Frozen, Gone, NEW a \in Threads, Others(a), power = "D0", power' = power, shutdown' = shutdown
  PROVE  Frozen' /\ Gone'
  <1>1. Driver \in Agents \ {a}
    BY AgentKinds
  <1>2. pc'[Driver].op = pc[Driver].op
    BY <1>1 DEF Others, Kin
  <1> QED
    BY <1>2 DEF Frozen, Gone

\* An interrupt handler starts no hardware.
LEMMA InterruptKeepsFrozen ==
  ASSUME Frozen, Gone, NEW a \in Streams, Others(a), UNCHANGED <<power, shutdown>>,
         \A s \in Streams : rt'[s].dma => rt[s].dma
  PROVE  Frozen' /\ Gone'
  <1>1. Driver \in Agents \ {a} /\ \A t \in Threads : t \in Agents \ {a}
    BY AgentKinds
  <1>2. Kin(pc[Driver], pc'[Driver]) /\ \A t \in Threads : Kin(pc[t], pc'[t])
    BY <1>1 DEF Others
  <1>3. \A s \in Streams : Left(s) => Left(s)'
    BY <1>2 DEF Left, Kin
  <1>4. \A t \in Threads : pc[t] = Idle => pc'[t] = Idle
    BY <1>2 DEF Kin
  <1>5. pc'[Driver].op = pc[Driver].op
    BY <1>2 DEF Kin
  <1> QED
    BY <1>3, <1>4, <1>5 DEF Frozen, Gone

LEMMA OnlyThread ==
  ASSUME OneThread, NEW a \in Threads, Promise(pc[a])'
  PROVE  Promises'
  BY DEF OneThread, Promises

LEMMA NoPromise ==
  ASSUME NEW a, pc'[a].op \notin {"hw_params", "hw_free", "prepare", "resume"}
  PROVE  Promise(pc[a])'
  BY DEF Promise

\* No other agent starts the hardware of, or suspends, what a thread works on.
LEMMA OthersKeepPromises ==
  ASSUME TypeOK, Promises, NEW a \in Agents \ Threads, Others(a), grp' = grp, shutdown => shutdown',
         \A s \in Streams : /\ rt'[s].dma => rt[s].dma
                            /\ Suspended(s)' => Suspended(s) \/ shutdown'
  PROVE  Promises'
  <1>1. ASSUME NEW t \in Threads
        PROVE  Promise(pc[t])'
    <2>1. /\ pc'[t].op = pc[t].op /\ pc'[t].s = pc[t].s /\ pc'[t].rest = pc[t].rest
          /\ pc[t] \in Task
      BY AgentKinds DEF Others, Kin, TypeOK
    <2>2. pc[t].s \in Streams /\ grp[pc[t].s] \subseteq Streams
      BY <2>1, TaskFields DEF TypeOK
    <2>3. Promise(pc[t])
      BY DEF Promises
    <2> QED
      BY <2>1, <2>2, <2>3 DEF Promise
  <1> QED
    BY <1>1 DEF Promises

LEMMA PreparingStays ==
  ASSUME grp' = grp,
         \/ \E a \in Agents \ Threads : Others(a)
         \/ OneThread /\ \E a \in Threads : pc[a].op # "prepare"
  PROVE  \A s \in Streams : Preparing(s) => Preparing(s)'
  <1>1. ASSUME NEW a \in Agents \ Threads, Others(a)
        PROVE  \A s \in Streams : Preparing(s) => Preparing(s)'
    <2>1. \A t \in Threads : pc'[t].op = pc[t].op /\ pc'[t].s = pc[t].s
      BY <1>1, AgentKinds DEF Others, Kin
    <2> QED
      BY <2>1 DEF Preparing
  <1>2. ASSUME OneThread, NEW a \in Threads, pc[a].op # "prepare"
        PROVE  \A s \in Streams : ~Preparing(s)
    BY <1>2 DEF OneThread, Preparing
  <1> QED
    BY <1>1, <1>2

LEMMA UniformStays ==
  ASSUME TypeOK, Uniform, grp' = grp, shutdown => shutdown',
         \A s \in Streams : Preparing(s) => Preparing(s)',
         \A s \in Streams : Suspended(s)' <=> Suspended(s)
  PROVE  Uniform'
  <1>1. \A s \in Streams : Alike(s) => Alike(s)'
    BY DEF Alike, TypeOK
  <1> QED
    BY <1>1 DEF Uniform

LEMMA HealthyStays ==
  ASSUME Healthy, shutdown' = shutdown, \A s \in Streams : SameFields(rt[s], rt'[s])
                                                           \/ Drained(s, rt[s], rt'[s])
  PROVE  Healthy'
  <1>1. ASSUME NEW s \in Streams
        PROVE  /\ rt'[s].dma => Running(s, rt'[s])
               /\ rt'[s].state = "RUNNING" => rt'[s].dma \/ shutdown'
               /\ shutdown' => ~rt'[s].dma
               /\ rt'[s].suspended_state # "SUSPENDED"
    BY DEF Healthy, Good, SameFields, Drained, Running
  <1> QED
    BY <1>1 DEF Healthy, Good, Running

(***************************************************************************)
(* Sound under the calls of snd_pcm_action.                                *)
(***************************************************************************)
\* It applies to a whole group.
LEMMA WholeGroup ==
  ASSUME Grouped, NEW a \in Agents, pc[a].s \in Streams, pc[a].at = "self" => ~Linked(pc[a].s)
  PROVE  Members(a) = grp[pc[a].s]
  BY DEF Members, Linked, Grouped

LEMMA UniformAfter ==
  ASSUME TypeOK, Grouped, Uniform, grp' = grp, shutdown' = shutdown, NEW c, NEW s \in Streams,
         StatesStay \/ AllBecome(c, grp[s]),
         \A m \in Streams : Preparing(m) => Preparing(m)'
  PROVE  Uniform'
  <1>1. CASE StatesStay
    <2>1. \A m \in Streams : Suspended(m)' <=> Suspended(m)
      BY <1>1 DEF StatesStay, Suspended
    <2> QED
      BY <2>1, UniformStays
  <1>2. CASE AllBecome(c, grp[s])
    <2>1. \A m \in Streams : grp[m] \subseteq Streams
      BY DEF TypeOK
    <2>2. ASSUME NEW m \in grp[s]
          PROVE  Alike(m)'
      <3>1. grp'[m] = grp[s]
        BY <2>2 DEF Grouped
      <3> QED
        BY <1>2, <2>2, <3>1 DEF Alike, AllBecome
    <2>3. ASSUME NEW m \in Streams \ grp[s], Alike(m)
          PROVE  Alike(m)'
      <3>1. \A k \in grp[m] : k \in Streams \ grp[s]
        <4>1. ASSUME NEW k \in grp[m], k \in grp[s]
              PROVE  FALSE
          <5>1. grp[k] = grp[m] /\ grp[k] = grp[s] /\ m \in grp[m]
            BY <4>1 DEF Grouped
          <5> QED
            BY <2>3, <5>1
        <4> QED
          BY <2>1, <4>1
      <3>2. \A k \in Streams \ grp[s] : Suspended(k)' <=> Suspended(k)
        BY <1>2 DEF AllBecome, Suspended
      <3> QED
        BY <2>3, <3>1, <3>2 DEF Alike
    <2> QED
      BY <2>2, <2>3 DEF Uniform
  <1> QED
    BY <1>1, <1>2

LEMMA PerformFacts ==
  ASSUME Types, Sound, NEW a \in Agents, Performs(a), NEW c, c = Head(pc[a].todo)
  PROVE  /\ c \in ThreadCall \cup {Do("resume"), Do("suspend")} /\ c \in Call
         /\ pc[a].s \in Streams
         /\ Outcome(c, grp[pc[a].s])
         /\ grp[pc[a].s] \in SUBSET Streams
         /\ rt' \in [Streams -> Runtime]
         /\ \E ok : pc'[a] = AfterCall(a, ok)
         /\ Others(a)
         /\ c.act = "stop" => c.to \in {"SETUP", "XRUN"}
         /\ c.act = "resume" => pc[a].op = "resume" /\ a \in Threads
         /\ c.act = "suspend" => pc[a].op = "suspend" /\ a = Driver
         /\ a \in Streams => c.act = "stop"
         /\ pc[a].op = "resume" => c.act = "resume"
         /\ pc[a].op = "suspend" => c.act = "suspend"
         /\ pc[a].op \notin {"hw_params", "hw_free", "prepare", "none", "unplug"}
  <1>1. FormOf(a, pc[a]) /\ Pending(pc[a])
    BY DEF Types, Forms, Performs
  <1>2. pc[a].s \in Streams
    BY <1>1, TaskFields DEF FormOf
  <1>3. Members(a) = grp[pc[a].s]
    BY <1>2, WholeGroup DEF Sound, Performs
  <1>4. /\ c \in Call /\ grp[pc[a].s] \in SUBSET Streams
        /\ rt' \in [Streams -> Runtime]
        /\ Outcome(c, grp[pc[a].s])
        /\ \E ok, W : Become(a, AfterCall(a, ok), W)
    BY <1>1, <1>3, PerformDoes DEF Performs
  <1>5. PICK ok, W : Become(a, AfterCall(a, ok), W)
    BY <1>4
  <1>6. pc'[a] = AfterCall(a, ok) /\ Others(a)
    BY <1>1, <1>5, AfterCallForm, Becomes DEF Others
  <1>7. /\ c \in ThreadCall \cup {Do("resume"), Do("suspend")}
        /\ c = Do("resume") => pc[a].op = "resume" /\ a \in Threads
        /\ c = Do("suspend") => pc[a].op = "suspend" /\ a = Driver
        /\ pc[a].op \notin {"hw_params", "hw_free", "prepare", "none", "unplug"}
        /\ a \in Streams => c = Stop("XRUN")
        /\ pc[a].op = "resume" => c = Do("resume")
        /\ pc[a].op = "suspend" => c = Do("suspend")
    BY <1>1, NextCall
  <1>8. /\ c.act = "stop" => c.to \in {"SETUP", "XRUN"}
        /\ c.act = "resume" => c = Do("resume")
        /\ c.act = "suspend" => c = Do("suspend")
    BY <1>7, DoTyped, ActNames DEF ThreadCall
  <1>9. /\ Stop("XRUN").act = "stop" /\ Do("resume").act = "resume" /\ Do("suspend").act = "suspend"
    BY DoTyped, ActNames
  <1> QED
    BY <1>2, <1>4, <1>6, <1>7, <1>8, <1>9

\* The task of the agent afterwards: it is over, or of the same call.
LEMMA AfterOps ==
  ASSUME Types, NEW a \in Agents, NEW ok, Pending(pc[a])
  PROVE  /\ \/ AfterCall(a, ok) = Idle
            \/ AfterCall(a, ok).op = pc[a].op /\ AfterCall(a, ok).s = pc[a].s
               /\ AfterCall(a, ok).rest = pc[a].rest
         /\ pc[a].op \in {"resume", "irq"} => AfterCall(a, ok) = Idle
         /\ pc[a].op = "suspend" => AfterCall(a, ok).at = "each"
  <1>1. FormOf(a, pc[a]) /\ pc[a] \in Task
    BY DEF Types, Forms, FormOf
  <1>2. PICK t : t = pc[a]
    OBVIOUS
  <1>3. Tail(t.todo) \in Seq(Call) /\ <<>> \in Seq(Call)
    BY <1>1, <1>2, TaskFields DEF Pending
  <1>5. \/ AfterCall(a, ok) = Idle /\ t.op # "suspend"
        \/ \E at \in {"self", "work", "each", "close"} :
              /\ \/ AfterCall(a, ok) = [t EXCEPT !.at = at, !.todo = Tail(t.todo)]
                 \/ AfterCall(a, ok) = [t EXCEPT !.at = at, !.todo = <<>>]
              /\ t.op \notin {"resume", "irq"}
              /\ t.op = "suspend" => at = "each"
    <2>1. CASE AfterCall(a, ok) = AfterCalls(a)
      BY <1>2, <2>1, SMTT(30) DEF AfterCalls
    <2>2. CASE AfterCall(a, ok) # AfterCalls(a)
      BY <1>2, <2>2, AfterCallIs
    <2> QED
      BY <2>1, <2>2
  <1>6. {"self", "work", "each", "close"} \subseteq Places
    BY DEF Places
  <1>7. PICK u : u = AfterCall(a, ok)
    OBVIOUS
  <1>8. CASE u = Idle /\ t.op # "suspend"
    BY <1>2, <1>7, <1>8
  <1>9. ASSUME NEW at \in {"self", "work", "each", "close"}, NEW todo \in Seq(Call),
               u = [t EXCEPT !.at = at, !.todo = todo]
        PROVE  u.op = t.op /\ u.s = t.s /\ u.rest = t.rest /\ u.at = at
    BY <1>1, <1>2, <1>6, <1>9, SMTT(30) DEF Task
  <1>10. \/ u = Idle /\ t.op # "suspend"
         \/ \E at \in {"self", "work", "each", "close"} :
              /\ u.op = t.op /\ u.s = t.s /\ u.rest = t.rest /\ u.at = at
              /\ t.op \notin {"resume", "irq"}
              /\ t.op = "suspend" => at = "each"
    BY <1>3, <1>5, <1>7, <1>9
  <1> QED
    BY <1>2, <1>7, <1>10

LEMMA PerformSound ==
  ASSUME Types, Sound, OneThread, NEW a \in Agents, Performs(a)
  PROVE  Sound' /\ SetUpStays
  <1>1. PICK c : c = Head(pc[a].todo)
    OBVIOUS
  <1>2. PICK s \in Streams : s = pc[a].s
    BY <1>1, PerformFacts
  <1>3. /\ c \in Call /\ Outcome(c, grp[s]) /\ grp[s] \in SUBSET Streams
        /\ rt' \in [Streams -> Runtime] /\ Others(a)
        /\ c.act = "stop" => c.to \in {"SETUP", "XRUN"}
        /\ c.act = "resume" => pc[a].op = "resume" /\ a \in Threads
        /\ c.act = "suspend" => pc[a].op = "suspend" /\ a = Driver
        /\ a \in Streams => c.act = "stop"
        /\ pc[a].op = "resume" => c.act = "resume"
        /\ pc[a].op = "suspend" => c.act = "suspend"
        /\ pc[a].op \notin {"hw_params", "hw_free", "prepare", "none", "unplug"}
    BY <1>1, <1>2, PerformFacts
  <1>4. PICK ok : pc'[a] = AfterCall(a, ok)
    BY <1>1, PerformFacts
  <1>5. UNCHANGED <<grp, power, shutdown>> /\ TypeOK /\ Pending(pc[a])
    BY DEF Performs, Types
  <1>6. c.act = "resume" => \A m \in grp[s] : ~rt[m].dma
    BY <1>2, <1>3 DEF Sound, Promises, Promise
  <1>7. /\ Healthy' /\ SetUpStays
        /\ StatesStay \/ AllBecome(c, grp[s])
        /\ c.act \in {"stop", "suspend"} => \A m \in Streams : rt'[m].dma => rt[m].dma
        /\ c.act = "suspend" /\ ~Refused(c, grp[s]) => \A m \in grp[s] : ~rt'[m].dma
    BY <1>3, <1>5, <1>6, OutcomeGood DEF Sound, Types
  <1>8. Grouped'
    BY <1>5 DEF Sound, Grouped
  <1>9. /\ pc'[a] = Idle \/ (pc'[a].op = pc[a].op /\ pc'[a].s = s /\ pc'[a].rest = pc[a].rest)
        /\ pc[a].op \in {"resume", "irq"} => pc'[a] = Idle
        /\ pc[a].op = "suspend" => pc'[a].at = "each"
    BY <1>2, <1>4, <1>5, AfterOps
  <1>10. \A m \in Streams : Preparing(m) => Preparing(m)'
    <2>1. CASE a \in Threads
      BY <1>3, <1>5, <2>1, PreparingStays
    <2>2. CASE a \notin Threads
      BY <1>3, <1>5, <2>2, PreparingStays
    <2> QED
      BY <2>1, <2>2
  <1>11. Uniform'
    BY <1>5, <1>7, <1>10, UniformAfter DEF Sound
  <1>12. CASE a \in Threads
    <2>1. pc[a] # Idle
      BY <1>3, IdleTask
    <2>2. power = "D0"
      BY <1>5, <1>12, <2>1, AwakeThread DEF Sound
    <2>3. Frozen' /\ Gone'
      BY <1>3, <1>5, <1>12, <2>2, ThreadKeepsFrozen DEF Sound
    <2>4. pc'[a].op \notin {"hw_params", "hw_free", "prepare", "resume"}
      BY <1>3, <1>9, IdleTask
    <2>5. Promises'
      BY <1>12, <2>4, OnlyThread, NoPromise
    <2> QED
      BY <1>7, <1>8, <1>11, <2>3, <2>5 DEF Sound
  <1>13. CASE a \in Streams
    <2>1. c.act = "stop" /\ a \notin Threads
      BY <1>3, <1>13, AgentKinds
    <2>2. \A m \in Streams : rt'[m].dma => rt[m].dma
      BY <1>7, <2>1
    <2>3. Frozen' /\ Gone'
      BY <1>3, <1>5, <1>13, <2>2, InterruptKeepsFrozen DEF Sound
    <2>4. \A m \in Streams : Suspended(m)' => Suspended(m)
      BY <1>7, <2>1 DEF StatesStay, AllBecome, Suspended
    <2>5. Promises'
      BY <1>3, <1>5, <2>1, <2>2, <2>4, OthersKeepPromises DEF Sound
    <2> QED
      BY <1>7, <1>8, <1>11, <2>3, <2>5 DEF Sound
  <1>14. CASE a = Driver
    <2>1. FormOf(a, pc[a]) /\ pc[a] # Idle
      BY <1>3, IdleTask DEF Types, Forms
    <2>2. pc[a].op = "suspend" /\ pc[a].at # "each"
      BY <1>3, <1>5, <1>14, <2>1, AgentKinds DEF FormOf, DriverTask, Pending, Locking
    <2>3. c.act = "suspend" /\ power = "D3hot" /\ ~shutdown
      BY <1>3, <1>14, <2>2, <1>5 DEF Sound, Frozen, Gone, TypeOK
    <2>4. \A t \in Threads : pc[t] = Idle /\ pc'[t] = Idle
      <3>1. \A t \in Threads : pc[t] = Idle /\ t \in Agents \ {a}
        BY <1>14, <2>3, AgentKinds DEF Sound, Frozen
      <3> QED
        BY <1>3, <3>1 DEF Others, Kin
    <2>5. Promises'
      BY <2>4, NoPromise, IdleTask DEF Promises
    <2>6. pc'[a].op = "suspend" /\ pc'[a].at = "each" /\ pc'[a].rest = pc[a].rest
      BY <1>9, <2>2, IdleTask
    <2>7. \A m \in grp[s] : ~rt'[m].dma
      <3>1. CASE ~Refused(c, grp[s])
        BY <1>7, <2>3, <3>1
      <3>2. CASE Refused(c, grp[s])
        <4>1. PICK m \in grp[s] : Suspended(m)
          BY <2>3, <3>2 DEF Refused, Pre, Suspended
        <4>2. \A k \in Streams : ~Preparing(k)
          BY <2>4, IdleTask DEF Preparing
        <4>3. Alike(s)
          BY <2>3, <4>2 DEF Sound, Uniform
        <4>4. \A k \in grp[s] : Suspended(k)
          BY <4>1, <4>3 DEF Alike
        <4>5. \A k \in grp[s] : k \in Streams /\ ~rt[k].dma
          BY <1>3, <4>4 DEF Sound, Healthy, Good, Running, Suspended
        <4> QED
          BY <1>7, <2>3, <4>5
      <3> QED
        BY <3>1, <3>2
    <2>8. \A m \in Streams : rt'[m].dma => rt[m].dma
      BY <1>7, <2>3
    <2>9. s \in grp[s]
      BY DEF Sound, Grouped
    <2>10. ASSUME NEW m \in Streams, rt'[m].dma
           PROVE  m \in pc'[a].rest
      <3>1. Left(m) /\ m # s
        BY <2>3, <2>7, <2>8, <2>9, <2>10 DEF Sound, Frozen
      <3>2. m \in pc[a].rest
        BY <1>2, <1>14, <3>1 DEF Left
      <3> QED
        BY <2>6, <3>2
    <2>11. Frozen'
      BY <1>5, <1>14, <2>3, <2>4, <2>6, <2>10 DEF Frozen, Left
    <2>12. Gone'
      BY <1>5, <1>14, <2>6 DEF Sound, Gone
    <2> QED
      BY <1>7, <1>8, <1>11, <2>5, <2>11, <2>12 DEF Sound
  <1> QED
    BY <1>7, <1>12, <1>13, <1>14 DEF Agents

(***************************************************************************)
(* Sound under the steps that leave the runtimes in their states.          *)
(***************************************************************************)
LEMMA RelocksSound ==
  ASSUME Types, Sound, NEW a \in Agents, Relocks(a)
  PROVE  Sound'
  <1>1. \A b \in Agents : /\ pc'[b].op = pc[b].op /\ pc'[b].s = pc[b].s /\ pc'[b].rest = pc[b].rest
                          /\ pc[b] = Idle => pc'[b] = Idle
                          /\ pc[b].at # "each" => pc'[b].at # "each"
    BY IdleTask DEF Relocks, Others, Kin, Locking
  <1>2. UNCHANGED <<rt, grp, power, shutdown>>
    BY DEF Relocks
  <1>3. Healthy' /\ Grouped'
    BY <1>2 DEF Sound, Healthy, Good, Running, Grouped
  <1>4. Promises'
    BY <1>1, <1>2, AgentKinds DEF Sound, Promises, Promise, Suspended
  <1>5. Uniform'
    BY <1>1, <1>2, AgentKinds DEF Sound, Uniform, Preparing, Alike, Suspended
  <1>6. Gone'
    BY <1>1, <1>2, AgentKinds DEF Sound, Gone
  <1>7. \A s \in Streams : Left(s) => Left(s)'
    BY <1>1, AgentKinds DEF Left
  <1>8. Frozen'
    BY <1>1, <1>2, <1>7, AgentKinds DEF Sound, Frozen
  <1> QED
    BY <1>3, <1>4, <1>5, <1>6, <1>8 DEF Sound

LEMMA SettlesSound ==
  ASSUME Types, Sound, OneThread, NEW a \in Agents, Settles(a)
  PROVE  Sound'
  <1>1. /\ UNCHANGED <<grp, power, shutdown>> /\ Others(a) /\ TypeOK
        /\ \A m \in Streams : SameFields(rt[m], rt'[m]) \/ Drained(m, rt[m], rt'[m])
    BY DEF Settles, Types
  <1>2. \A m \in Streams : /\ Suspended(m)' <=> Suspended(m)
                           /\ rt'[m].dma => rt[m].dma
    BY <1>1 DEF SameFields, Drained, Suspended
  <1>3. Healthy' /\ Grouped'
    BY <1>1, HealthyStays DEF Sound, Grouped
  <1>4. CASE a \in Streams
    <2>1. a \notin Threads
      BY <1>4, AgentKinds
    <2>2. \A m \in Streams : Preparing(m) => Preparing(m)'
      BY <1>1, <2>1, PreparingStays
    <2>3. Uniform'
      BY <1>1, <1>2, <2>2, UniformStays DEF Sound
    <2>4. Promises'
      BY <1>1, <1>2, <2>1, OthersKeepPromises DEF Sound
    <2>5. Frozen' /\ Gone'
      BY <1>1, <1>2, <1>4, InterruptKeepsFrozen DEF Sound
    <2> QED
      BY <1>3, <2>3, <2>4, <2>5 DEF Sound
  <1>5. CASE a \notin Streams
    <2>1. /\ a \in Threads /\ pc'[a].op \in Ordinary \cup {"none"}
          /\ (pc[a] = Idle /\ power = "D0") \/ pc[a].op \in Ordinary
      BY <1>5 DEF Settles
    <2>2. pc[a].op # "prepare"
      BY <2>1, IdleTask DEF Ordinary
    <2>3. \A m \in Streams : Preparing(m) => Preparing(m)'
      BY <1>1, <2>1, <2>2, PreparingStays
    <2>4. Uniform'
      BY <1>1, <1>2, <2>3, UniformStays DEF Sound
    <2>5. pc'[a].op \notin {"hw_params", "hw_free", "prepare", "resume"}
      BY <2>1 DEF Ordinary
    <2>6. Promises'
      BY <2>1, <2>5, OnlyThread, NoPromise
    <2>7. power = "D0"
      <3>1. CASE pc[a] # Idle
        BY <1>1, <2>1, <3>1, AwakeThread DEF Sound
      <3> QED
        BY <2>1, <3>1, IdleTask DEF Ordinary
    <2>8. Frozen' /\ Gone'
      BY <1>1, <2>1, <2>7, ThreadKeepsFrozen DEF Sound
    <2> QED
      BY <1>3, <2>4, <2>6, <2>8 DEF Sound
  <1> QED
    BY <1>4, <1>5

LEMMA BeginsSound ==
  ASSUME Types, Sound, OneThread, NEW a \in Threads, NEW s \in Streams, Begins(a, s)
  PROVE  Sound'
  <1>1. /\ UNCHANGED <<rt, grp, power, shutdown>> /\ Others(a) /\ power = "D0" /\ pc[a] = Idle
        /\ pc'[a].s = s /\ pc'[a].op \in Ordinary \cup {"resume", "prepare"}
        /\ pc'[a].op = "resume" => rt[s].state = "SUSPENDED"
        /\ pc'[a].op = "prepare" => (\A m \in grp[s] : MayPrepare(m)) /\ pc'[a].rest = grp[s]
        /\ TypeOK
    BY DEF Begins, OneThread, Types
  <1>2. Healthy' /\ Grouped'
    BY <1>1 DEF Sound, Healthy, Good, Running, Grouped
  <1>3. Frozen' /\ Gone'
    BY <1>1, ThreadKeepsFrozen DEF Sound
  <1>4. pc[a].op # "prepare"
    BY <1>1, IdleTask
  <1>5. \A m \in Streams : Preparing(m) => Preparing(m)'
    BY <1>1, <1>4, PreparingStays
  <1>6. \A m \in Streams : Suspended(m)' <=> Suspended(m)
    BY <1>1 DEF Suspended
  <1>7. Uniform'
    BY <1>1, <1>5, <1>6, UniformStays DEF Sound
  <1>8. grp[s] \subseteq Streams
    BY <1>1 DEF TypeOK
  <1>9. Promise(pc[a])'
    <2>1. CASE pc'[a].op \in Ordinary
      BY <2>1, NoPromise DEF Ordinary
    <2>2. CASE pc'[a].op = "resume"
      <3>1. Suspended(s) /\ ~Preparing(s)
        BY <1>1, <1>4, <2>2 DEF Suspended, Preparing, OneThread
      <3>2. ASSUME NEW m \in grp[s]
            PROVE  ~rt[m].dma
        <4>1. shutdown \/ Suspended(m)
          BY <3>1, <3>2 DEF Sound, Uniform, Alike
        <4> QED
          BY <1>8, <4>1 DEF Sound, Healthy, Good, Running, Suspended
      <3> QED
        BY <1>1, <2>2, <3>2 DEF Promise
    <2>3. CASE pc'[a].op = "prepare"
      <3>1. \A m \in grp[s] : ~rt[m].dma
        BY <1>1, <1>8, <2>3 DEF Sound, Healthy, Good, MayPrepare
      <3> QED
        BY <1>1, <2>3, <3>1 DEF Promise
    <2> QED
      BY <1>1, <2>1, <2>2, <2>3
  <1>10. Promises'
    BY <1>9, OnlyThread
  <1> QED
    BY <1>2, <1>3, <1>7, <1>10 DEF Sound

(***************************************************************************)
(* Sound under the calls that set up one substream.                        *)
(***************************************************************************)
\* One runtime changes, its hardware does not.
LEMMA SetsHealthy ==
  ASSUME Healthy, NEW s \in Streams, NEW q, Sets(s, q), shutdown' = shutdown,
         ~q.dma, q.state # "RUNNING" \/ shutdown, q.suspended_state # "SUSPENDED"
  PROVE  Healthy'
  <1>1. ASSUME NEW m \in Streams
        PROVE  /\ rt'[m].dma => Running(m, rt'[m])
               /\ rt'[m].state = "RUNNING" => rt'[m].dma \/ shutdown'
               /\ shutdown' => ~rt'[m].dma
               /\ rt'[m].suspended_state # "SUSPENDED"
    <2>1. CASE m = s
      BY <2>1 DEF Sets
    <2>2. CASE m # s
      BY <2>2 DEF Sets, Healthy, Good
    <2> QED
      BY <2>1, <2>2
  <1> QED
    BY <1>1 DEF Healthy, Good, Running

LEMMA HwBeginsSound ==
  ASSUME Types, Sound, OneThread, NEW a \in Threads, NEW s \in Streams, HwBegins(a, s)
  PROVE  Sound'
  <1>1. PICK q : /\ Sets(s, q)
                 /\ q.state = rt[s].state /\ q.dma = rt[s].dma
                 /\ q.suspended_state = rt[s].suspended_state
    BY DEF HwBegins
  <1>2. /\ UNCHANGED <<grp, power, shutdown>> /\ Others(a) /\ power = "D0" /\ pc[a] = Idle
        /\ pc'[a].s = s /\ pc'[a].op \in {"hw_params", "hw_free"}
        /\ rt[s].state \in {"OPEN", "SETUP", "PREPARED"} /\ TypeOK
    BY DEF HwBegins, Types
  <1>3. ~rt[s].dma /\ ~Suspended(s) /\ rt[s].suspended_state # "SUSPENDED"
    BY <1>2 DEF Sound, Healthy, Good, Running, Suspended
  <1>4. Healthy' /\ Grouped'
    <2>1. q.state # "RUNNING"
      BY <1>1, <1>2
    <2> QED
      BY <1>1, <1>2, <1>3, <2>1, SetsHealthy DEF Sound, Grouped
  <1>5. Frozen' /\ Gone'
    BY <1>2, ThreadKeepsFrozen DEF Sound
  <1>6. \A m \in Streams : Suspended(m)' <=> Suspended(m)
    BY <1>1 DEF Sets, Suspended
  <1>7. pc[a].op # "prepare"
    BY <1>2, IdleTask
  <1>8. \A m \in Streams : Preparing(m) => Preparing(m)'
    BY <1>2, <1>7, PreparingStays
  <1>9. Uniform'
    BY <1>2, <1>6, <1>8, UniformStays DEF Sound
  <1>10. Promise(pc[a])'
    BY <1>1, <1>2, <1>3, <1>6 DEF Promise, Sets
  <1>11. Promises'
    BY <1>10, OnlyThread
  <1> QED
    BY <1>4, <1>5, <1>9, <1>11 DEF Sound

LEMMA HwEndsSound ==
  ASSUME Types, Sound, OneThread, NEW a \in Threads, NEW s \in Streams, HwEnds(a, s)
  PROVE  Sound'
  <1>1. PICK to \in {"SETUP", "OPEN"}, q \in {rt'[s]} :
         /\ Sets(s, q)
         /\ q.state = IF rt[s].state = "DISCONNECTED" THEN "DISCONNECTED" ELSE to
         /\ q.dma = rt[s].dma /\ q.suspended_state = rt[s].suspended_state
    BY DEF HwEnds, Sets
  <1>2. /\ UNCHANGED <<grp, power, shutdown>> /\ Others(a)
        /\ pc[a].op \in {"hw_params", "hw_free"} /\ pc[a].s = s /\ pc'[a] = Idle /\ TypeOK
    BY DEF HwEnds, Types
  <1>3. /\ ~rt[s].dma /\ (shutdown \/ ~Suspended(s)) /\ rt[s].suspended_state # "SUSPENDED"
    BY <1>2 DEF Sound, Promises, Promise, Healthy, Good
  <1>4. q.state \in {"DISCONNECTED", "SETUP", "OPEN"}
    BY <1>1
  <1>5. Healthy' /\ Grouped'
    BY <1>1, <1>2, <1>3, <1>4, SetsHealthy DEF Sound, Grouped
  <1>6. power = "D0"
    BY <1>2, IdleTask, AwakeThread DEF Sound
  <1>7. Frozen' /\ Gone'
    BY <1>2, <1>6, ThreadKeepsFrozen DEF Sound
  <1>8. Promises'
    BY <1>2, IdleTask, OnlyThread, NoPromise
  <1>9. Uniform'
    <2>1. CASE shutdown
      BY <1>2, <2>1 DEF Uniform
    <2>2. CASE ~shutdown
      <3>1. \A m \in Streams : Suspended(m)' <=> Suspended(m)
        BY <1>1, <1>3, <1>4, <2>2 DEF Sets, Suspended
      <3>2. \A m \in Streams : Preparing(m) => Preparing(m)'
        BY <1>2, PreparingStays
      <3> QED
        BY <1>2, <3>1, <3>2, UniformStays DEF Sound
    <2> QED
      BY <2>1, <2>2
  <1> QED
    BY <1>5, <1>7, <1>8, <1>9 DEF Sound

LEMMA PreparesSound ==
  ASSUME Types, Sound, OneThread, NEW a \in Threads, NEW m \in Streams, Prepares(a, m)
  PROVE  Sound'
  <1>1. PICK q : /\ Sets(m, q)
                 /\ q.state = IF rt[m].state = "DISCONNECTED" THEN "DISCONNECTED" ELSE "PREPARED"
                 /\ q.dma = rt[m].dma /\ q.suspended_state = rt[m].suspended_state
    BY DEF Prepares
  <1>2. /\ UNCHANGED <<grp, power, shutdown>> /\ Others(a) /\ TypeOK
        /\ pc[a].op = "prepare" /\ m \in pc[a].rest
        /\ \/ pc[a].rest = {m} /\ pc'[a] = Idle
           \/ pc'[a].op = "prepare" /\ pc'[a].s = pc[a].s /\ pc'[a].rest = pc[a].rest \ {m}
    BY DEF Prepares, Types
  <1>3. PICK G : G = grp[pc[a].s]
    OBVIOUS
  <1>4. /\ pc[a].rest \subseteq G
        /\ \A k \in G : ~rt[k].dma /\ (k \in pc[a].rest \/ shutdown \/ ~Suspended(k))
    BY <1>2, <1>3 DEF Sound, Promises, Promise
  <1>5. G \subseteq Streams /\ pc[a].s \in Streams
    <2>1. pc[a].s \in Streams
      BY AgentKinds, TaskFields, <1>2 DEF TypeOK
    <2> QED
      BY <1>2, <1>3, <2>1 DEF TypeOK
  <1>6. ~q.dma /\ q.state \in {"DISCONNECTED", "PREPARED"} /\ q.suspended_state # "SUSPENDED"
    BY <1>1, <1>2, <1>4 DEF Sound, Healthy, Good
  <1>7. Healthy' /\ Grouped'
    BY <1>1, <1>2, <1>6, SetsHealthy DEF Sound, Grouped
  <1>8. power = "D0"
    BY <1>2, IdleTask, AwakeThread DEF Sound
  <1>9. Frozen' /\ Gone'
    BY <1>2, <1>8, ThreadKeepsFrozen DEF Sound
  <1>10. /\ ~Suspended(m)' /\ ~rt'[m].dma
         /\ \A k \in Streams \ {m} : /\ Suspended(k)' <=> Suspended(k)
                                     /\ rt'[k].dma = rt[k].dma
    BY <1>1, <1>6 DEF Sets, Suspended
  <1>11. Promise(pc[a])'
    <2>1. CASE pc'[a] = Idle
      BY <2>1, IdleTask, NoPromise
    <2>2. CASE pc'[a].op = "prepare" /\ pc'[a].s = pc[a].s /\ pc'[a].rest = pc[a].rest \ {m}
      <3>1. \A k \in G : ~rt'[k].dma
                         /\ (k \in pc'[a].rest \/ shutdown' \/ ~Suspended(k)')
        BY <1>2, <1>4, <1>5, <1>10, <2>2
      <3> QED
        BY <1>2, <1>3, <1>4, <2>2, <3>1 DEF Promise
    <2> QED
      BY <1>2, <2>1, <2>2
  <1>12. Promises'
    BY <1>11, OnlyThread
  <1>13. Uniform'
    <2>1. CASE shutdown
      BY <1>2, <2>1 DEF Uniform
    <2>2. CASE ~shutdown
      <3>1. ASSUME NEW k \in Streams \ G
            PROVE  Alike(k)'
        <4>1. ~Preparing(k)
          BY <1>2, <1>3, <3>1 DEF Preparing, OneThread
        <4>2. Alike(k)
          BY <2>2, <4>1 DEF Sound, Uniform
        <4>3. m \in G /\ grp[m] = G
          BY <1>2, <1>3, <1>4, <1>5 DEF Sound, Grouped
        <4>4. m \notin grp[k] /\ k # m /\ grp[k] \subseteq Streams /\ k \in grp[k]
          BY <1>2, <4>3, <3>1 DEF Sound, Grouped, TypeOK
        <4> QED
          BY <1>2, <1>10, <4>2, <4>4 DEF Alike
      <3>2. CASE pc'[a].op = "prepare" /\ pc'[a].s = pc[a].s
        <4>1. \A k \in G : Preparing(k)'
          BY <1>2, <1>3, <3>2 DEF Preparing
        <4> QED
          BY <3>1, <4>1 DEF Uniform
      <3>3. CASE pc[a].rest = {m}
        <4>1. \A k \in G : ~Suspended(k)' /\ grp'[k] = G
          BY <1>2, <1>3, <1>4, <1>5, <1>10, <2>2, <3>3 DEF Sound, Grouped
        <4>2. \A k \in G : Alike(k)'
          BY <4>1 DEF Alike
        <4> QED
          BY <3>1, <4>2 DEF Uniform
      <3> QED
        BY <1>2, <3>2, <3>3
    <2> QED
      BY <2>1, <2>2
  <1> QED
    BY <1>7, <1>9, <1>12, <1>13 DEF Sound

(***************************************************************************)
(* Sound under the steps that link, unlink and close.                      *)
(***************************************************************************)
LEMMA UnlinkedGrouped ==
  ASSUME TypeOK, Grouped, NEW s \in Streams, grp' = Unlinked(s)
  PROVE  /\ Grouped' /\ grp'[s] = {s}
         /\ \A t \in Streams \ {s} : grp'[t] = grp[t] \ {s}
  <1>1. grp'[s] = {s} /\ \A t \in Streams \ {s} : grp'[t] = grp[t] \ {s}
    BY DEF Unlinked
  <1>2. ASSUME NEW t \in Streams \ {s}
        PROVE  t \in grp'[t] /\ \A m \in grp'[t] : grp'[m] = grp'[t]
    <2>1. t \in grp[t] /\ \A m \in grp[t] : m \in Streams /\ grp[m] = grp[t]
      BY DEF Grouped, TypeOK
    <2> QED
      BY <1>1, <2>1
  <1> QED
    BY <1>1, <1>2 DEF Grouped

\* Where no prepare is under way, a group is suspended as a whole.
LEMMA AllAlike ==
  ASSUME Sound, OneThread, NEW a \in Threads, pc[a].op # "prepare"
  PROVE  shutdown \/ \A s \in Streams : Alike(s)
  BY DEF Sound, Uniform, Preparing, OneThread

LEMMA ClosesSound ==
  ASSUME Types, Sound, OneThread, NEW a \in Threads, NEW s \in Streams, Closes(a, s)
  PROVE  Sound'
  <1>1. /\ UNCHANGED <<power, shutdown>> /\ Others(a) /\ TypeOK
        /\ pc[a].op = "close" /\ pc'[a] = Idle
        /\ Sets(s, NewRuntime) /\ grp' = Unlinked(s)
    BY DEF Closes, Types
  <1>2. /\ Grouped' /\ grp'[s] = {s}
        /\ \A t \in Streams \ {s} : grp'[t] = grp[t] \ {s}
    BY <1>1, UnlinkedGrouped DEF Sound
  <1>3. Healthy'
    BY <1>1, NewRuntimeTyped, SetsHealthy DEF Sound
  <1>4. power = "D0"
    BY <1>1, IdleTask, AwakeThread DEF Sound
  <1>5. Frozen' /\ Gone'
    BY <1>1, <1>4, ThreadKeepsFrozen DEF Sound
  <1>6. Promises'
    BY <1>1, IdleTask, OnlyThread, NoPromise
  <1>7. shutdown \/ \A t \in Streams : Alike(t)
    BY <1>1, AllAlike
  <1>8. ASSUME NEW t \in Streams, Alike(t)
        PROVE  Alike(t)'
    <2>1. CASE t = s
      BY <1>2, <2>1 DEF Alike
    <2>2. CASE t # s
      <3>1. \A m \in grp'[t] \cup {t} : m \in Streams \ {s} /\ rt'[m] = rt[m]
        BY <1>1, <1>2, <2>2 DEF Sets, TypeOK
      <3> QED
        BY <1>2, <1>8, <2>2, <3>1 DEF Alike, Suspended
    <2> QED
      BY <2>1, <2>2
  <1>9. Uniform'
    BY <1>1, <1>7, <1>8 DEF Uniform
  <1> QED
    BY <1>2, <1>3, <1>5, <1>6, <1>9 DEF Sound

\* The group after a link: that of s with s1, which was alone and in its state.
Joined(s, s1) == /\ s # s1 /\ grp[s1] = {s1} /\ rt[s].state = rt[s1].state
                 /\ \A t \in Streams : grp'[t] = IF t \in grp[s] \cup {s1} THEN grp[s] \cup {s1}
                                                 ELSE grp[t]

LEMMA LinkJoins ==
  ASSUME Types, Sound, NEW a \in Threads, NEW s \in Streams, NEW s1 \in Streams, IoctlLink(a, s, s1)
  PROVE  Joined(s, s1)
  BY DEF IoctlLink, Linked, Joined

LEMMA JoinedGrouped ==
  ASSUME TypeOK, Grouped, NEW s \in Streams, NEW s1 \in Streams, Joined(s, s1)
  PROVE  Grouped'
  <1>1. \A t \in Streams : t \in grp[t] /\ \A m \in grp[t] : m \in Streams /\ grp[m] = grp[t]
    BY DEF Grouped, TypeOK
  <1>2. PICK G : G = grp[s] \cup {s1}
    OBVIOUS
  <1>3. G \subseteq Streams /\ \A t \in Streams : grp'[t] = IF t \in G THEN G ELSE grp[t]
    BY <1>1, <1>2 DEF Joined
  <1>4. ASSUME NEW t \in Streams
        PROVE  t \in grp'[t] /\ \A m \in grp'[t] : grp'[m] = grp'[t]
    <2>1. CASE t \in G
      BY <1>3, <2>1
    <2>2. CASE t \notin G
      <3>1. ASSUME NEW m \in grp[t]
            PROVE  m \in Streams /\ m \notin G
        <4>1. m \in Streams /\ grp[m] = grp[t] /\ t \in grp[t]
          BY <1>1, <3>1
        <4>2. m \in grp[s] => t \in grp[s]
          BY <1>1, <4>1
        <4>3. m = s1 => t = s1
          BY <4>1 DEF Joined
        <4> QED
          BY <1>2, <2>2, <4>1, <4>2, <4>3
      <3> QED
        BY <1>1, <1>3, <2>2, <3>1
    <2> QED
      BY <2>1, <2>2
  <1> QED
    BY <1>4 DEF Grouped

LEMMA RelinksSound ==
  ASSUME Types, Sound, OneThread, NEW a \in Threads, NEW s \in Streams, Relinks(a, s)
  PROVE  Sound'
  <1>1. /\ UNCHANGED <<rt, pc, power, shutdown>> /\ TypeOK
        /\ pc[a] = Idle /\ power = "D0" /\ ~shutdown
    BY DEF Relinks, Regroups, Types
  <1>2. Healthy' /\ Gone'
    BY <1>1 DEF Sound, Healthy, Good, Running, Gone
  <1>3. Frozen'
    BY <1>1 DEF Sound, Frozen
  <1>4. Promises'
    BY <1>1, IdleTask, OnlyThread, NoPromise
  <1>5. \A t \in Streams : Alike(t)
    BY <1>1, IdleTask, AllAlike
  <1>6. CASE IoctlUnlink(a, s)
    <2>1. /\ Grouped' /\ grp'[s] = {s}
          /\ \A t \in Streams \ {s} : grp'[t] = grp[t] \ {s}
      BY <1>1, <1>6, UnlinkedGrouped DEF Sound, IoctlUnlink
    <2>2. \A t \in Streams : Alike(t)'
      BY <1>1, <1>5, <2>1 DEF Alike, Suspended
    <2> QED
      BY <1>2, <1>3, <1>4, <2>1, <2>2 DEF Sound, Uniform
  <1>7. ASSUME NEW s1 \in Streams, IoctlLink(a, s, s1)
        PROVE  Sound'
    <2>1. Joined(s, s1)
      BY <1>7, LinkJoins
    <2>2. Grouped'
      BY <1>1, <2>1, JoinedGrouped DEF Sound
    <2>3. ASSUME NEW t \in Streams
          PROVE  Alike(t)'
      <3>1. CASE t \in grp[s] \cup {s1}
        <4>1. \A m \in grp[s] : Suspended(m) <=> Suspended(s)
          BY <1>5 DEF Alike
        <4>2. \A m \in grp[s] \cup {s1} : Suspended(m) <=> Suspended(s)
          BY <2>1, <4>1 DEF Joined, Suspended
        <4> QED
          BY <1>1, <2>1, <3>1, <4>2 DEF Joined, Alike, Suspended
      <3>2. CASE t \notin grp[s] \cup {s1}
        BY <1>1, <1>5, <2>1, <3>2 DEF Joined, Alike, Suspended
      <3> QED
        BY <3>1, <3>2
    <2> QED
      BY <1>2, <1>3, <1>4, <2>2, <2>3 DEF Sound, Uniform
  <1> QED
    BY <1>6, <1>7 DEF Relinks

(***************************************************************************)
(* Sound under the steps of the driver.                                    *)
(***************************************************************************)
LEMMA DriverIsNoThread ==
  ASSUME Others(Driver)
  PROVE  /\ Driver \in Agents \ Threads
         /\ \A t \in Threads : Kin(pc[t], pc'[t])
         /\ grp' = grp => \A m \in Streams : Preparing(m) => Preparing(m)'
  BY AgentKinds, PreparingStays DEF Others

LEMMA UnplugsSound ==
  ASSUME Types, Sound, Unplugs
  PROVE  Sound'
  <1>1. /\ shutdown' /\ power = "D0" /\ UNCHANGED <<grp, power>> /\ Others(Driver) /\ TypeOK
        /\ pc[Driver] = Idle /\ pc'[Driver].op = "unplug"
        /\ \A s \in Streams : rt'[s].state = rt[s].state /\ ~rt'[s].dma
                              /\ rt'[s].suspended_state = rt[s].suspended_state
    BY DEF Unplugs, Types
  <1>2. Driver \in Agents \ Threads
    BY <1>1, DriverIsNoThread
  <1>3. Healthy'
    BY <1>1 DEF Sound, Healthy, Good
  <1>4. Promises'
    BY <1>1, <1>2, OthersKeepPromises DEF Sound, Suspended
  <1> QED
    BY <1>1, <1>3, <1>4 DEF Sound, Grouped, Uniform, Gone, Frozen

LEMMA DisconnectsSound ==
  ASSUME Types, Sound, NEW s \in Streams, Disconnects(s)
  PROVE  Sound'
  <1>1. /\ pc[Driver].op = "unplug" /\ pc'[Driver].op \in {"none", "unplug"}
        /\ UNCHANGED <<grp, power, shutdown>> /\ Others(Driver) /\ TypeOK
    BY DEF Disconnects, Types
  <1>2. PICK q : /\ Sets(s, q)
                 /\ q.state = "DISCONNECTED" /\ q.dma = rt[s].dma
                 /\ q.suspended_state = rt[s].suspended_state
    BY DEF Disconnects
  <1>3. shutdown /\ power = "D0"
    BY <1>1 DEF Sound, Gone
  <1>4. ~q.dma /\ q.suspended_state # "SUSPENDED"
    BY <1>2, <1>3 DEF Sound, Healthy, Good
  <1>5. Healthy'
    BY <1>1, <1>2, <1>3, <1>4, SetsHealthy DEF Sound
  <1>6. \A m \in Streams : (rt'[m].dma => rt[m].dma) /\ (Suspended(m)' => Suspended(m))
    BY <1>2 DEF Sets, Suspended
  <1>7. Driver \in Agents \ Threads
    BY <1>1, DriverIsNoThread
  <1>8. Promises'
    BY <1>1, <1>6, <1>7, OthersKeepPromises DEF Sound
  <1> QED
    BY <1>1, <1>3, <1>5, <1>8 DEF Sound, Grouped, Uniform, Gone, Frozen

LEMMA PowersDownSound ==
  ASSUME Types, Sound, PowersDown
  PROVE  Sound'
  <1>1. /\ power = "D0" /\ ~shutdown /\ power' = "D3hot" /\ UNCHANGED <<rt, grp, shutdown>>
        /\ \A a \in Threads : pc[a] = Idle
        /\ Others(Driver) /\ TypeOK
        /\ pc'[Driver].op = "suspend" /\ pc'[Driver].rest = Streams
    BY DEF PowersDown, Types
  <1>2. \A t \in Threads : pc'[t] = Idle
    BY <1>1, DriverIsNoThread DEF Kin
  <1>3. \A m \in Streams : Preparing(m) => Preparing(m)'
    BY <1>1, DriverIsNoThread
  <1>4. Uniform'
    BY <1>1, <1>3, UniformStays DEF Sound, Suspended
  <1>5. Promises'
    BY <1>2, IdleTask, NoPromise DEF Promises
  <1>6. Frozen'
    BY <1>1, <1>2 DEF Frozen, Left
  <1> QED
    BY <1>1, <1>4, <1>5, <1>6 DEF Sound, Healthy, Good, Running, Grouped, Gone

\* The driver goes to its next substream, and comes to its end.
LEMMA VisitSound ==
  ASSUME Types, Sound, HasVisited \/ \E s \in Streams : Visits(s)
  PROVE  Sound'
  <1>1. /\ UNCHANGED <<rt, grp, power, shutdown>> /\ Others(Driver) /\ TypeOK
        /\ pc[Driver].op = "suspend" /\ pc'[Driver].op # "unplug"
    BY IdleTask DEF HasVisited, Visits, Types
  <1>2. \A t \in Threads : Kin(pc[t], pc'[t]) /\ Driver \in Agents \ Threads
    BY <1>1, DriverIsNoThread
  <1>3. \A m \in Streams : Preparing(m) => Preparing(m)'
    BY <1>1, DriverIsNoThread
  <1>4. Uniform'
    BY <1>1, <1>3, UniformStays DEF Sound, Suspended
  <1>5. Promises'
    <2>1. Driver \in Agents \ Threads
      BY <1>1, DriverIsNoThread
    <2> QED
      BY <1>1, <2>1, OthersKeepPromises DEF Sound, Suspended
  <1>6. power = "D3hot" /\ power' = "D3hot"
    BY <1>1 DEF Sound, Frozen
  <1>7. \A t \in Threads : pc'[t] = Idle
    BY <1>2, <1>6 DEF Sound, Frozen, Kin
  <1>8. \A m \in Streams : Left(m) => Left(m)'
    BY IdleTask DEF HasVisited, Visits, Left
  <1>9. Frozen'
    BY <1>1, <1>6, <1>7, <1>8 DEF Sound, Frozen
  <1> QED
    BY <1>1, <1>4, <1>5, <1>9 DEF Sound, Healthy, Good, Running, Grouped, Gone

LEMMA PowersUpSound ==
  ASSUME Types, Sound, PowersUp
  PROVE  Sound'
  <1>1. /\ power' = "D0" /\ pc[Driver] = Idle /\ UNCHANGED <<rt, grp, pc, shutdown>>
    BY DEF PowersUp
  <1>2. Healthy' /\ Grouped' /\ Gone' /\ Frozen'
    BY <1>1, IdleTask DEF Sound, Healthy, Good, Running, Grouped, Gone, Frozen
  <1>3. Uniform'
    BY <1>1 DEF Sound, Uniform, Preparing, Alike, Suspended
  <1>4. Promises'
    BY <1>1 DEF Sound, Promises, Promise, Suspended
  <1> QED
    BY <1>2, <1>3, <1>4 DEF Sound

LEMMA InitSound ==
  ASSUME Init
  PROVE  Sound
  <1>1. \A s \in Streams : rt[s] = NewRuntime /\ grp[s] = {s}
    BY DEF Init
  <1>2. /\ \A a \in Threads : pc[a] = Idle
        /\ pc[Driver] = Idle /\ power = "D0" /\ shutdown = FALSE
    BY AgentKinds DEF Init
  <1>3. Healthy /\ Grouped /\ Uniform
    BY <1>1, <1>2, NewRuntimeTyped DEF Healthy, Good, Grouped, Uniform, Alike, Suspended
  <1>4. Promises /\ Gone /\ Frozen
    BY <1>2, IdleTask DEF Promises, Promise, Gone, Frozen
  <1> QED
    BY <1>3, <1>4 DEF Sound

LEMMA StutterSound ==
  ASSUME Sound, UNCHANGED vars
  PROVE  Sound'
  <1>1. Healthy' /\ Grouped' /\ Uniform'
    BY DEF vars, Sound, Healthy, Good, Running, Grouped, Uniform, Alike, Suspended, Preparing
  <1>2. Promises' /\ Gone' /\ Frozen'
    BY DEF vars, Sound, Promises, Promise, Suspended, Gone, Frozen, Left
  <1> QED
    BY <1>1, <1>2 DEF Sound

LEMMA StepSound ==
  ASSUME Types, Sound, OneThread, Kinds
  PROVE  Sound'
  <1>1. ASSUME NEW a \in Agents, StepOfAgent(a)
        PROVE  Sound'
    BY <1>1, PerformSound, RelocksSound, SettlesSound DEF StepOfAgent
  <1>2. ASSUME NEW a \in Threads, NEW s \in Streams, StepOfThread(a, s)
        PROVE  Sound'
    BY <1>2, BeginsSound, HwBeginsSound, HwEndsSound, PreparesSound, ClosesSound, RelinksSound
    DEF StepOfThread
  <1>3. ASSUME StepOfDriver
        PROVE  Sound'
    BY <1>3, UnplugsSound, DisconnectsSound, PowersDownSound, VisitSound, PowersUpSound
    DEF StepOfDriver
  <1> QED
    BY <1>1, <1>2, <1>3 DEF Kinds

LEMMA AlwaysSound ==
  ASSUME OneThread
  PROVE  Spec => [](Types /\ Sound)
  <1>1. Init => Types /\ Sound
    BY InitTypes, InitSound
  <1>2. Types /\ Sound /\ [Next]_vars => (Types /\ Sound)'
    BY NextKinds, StutterTypes, StepSound, StutterSound
  <1> QED
    BY <1>1, <1>2, PTL DEF Spec

(***************************************************************************)
(* The hardware of a substream moves only in a running state, and moves in *)
(* state RUNNING unless the card is gone: for an application with one      *)
(* thread, any group, and interrupts, power management, unplugging and     *)
(* failing triggers at any time.                                           *)
(***************************************************************************)
THEOREM StateIsHardware ==
  ASSUME OneThread
  PROVE  Spec => []HardwareFollowsState
  <1>1. Sound => HardwareFollowsState
    BY DEF Sound, Healthy, Good, HardwareFollowsState
  <1> QED
    BY <1>1, AlwaysSound, PTL

(***************************************************************************)
(* When snd_pcm_suspend_all is through, no hardware of the card moves until*)
(* it is powered up again, and none of a suspended substream ever does.    *)
(***************************************************************************)
THEOREM SuspendedIsQuiet ==
  ASSUME OneThread
  PROVE  Spec => []SuspendQuiets
  <1>1. ASSUME Sound
        PROVE  SuspendQuiets
    <2>1. power = "D3hot" /\ pc[Driver] = Idle => \A s \in Streams : ~rt[s].dma
      BY <1>1, IdleTask DEF Sound, Frozen, Left
    <2>2. \A s \in Streams : rt[s].state = "SUSPENDED" => ~rt[s].dma
      BY <1>1 DEF Sound, Healthy, Good, Running
    <2> QED
      BY <2>1, <2>2 DEF SuspendQuiets
  <1> QED
    BY <1>1, AlwaysSound, PTL

(***************************************************************************)
(* Without power management: what has been set up.                         *)
(***************************************************************************)
LEMMA OthersKeepOps ==
  ASSUME NEW a \in Agents, Others(a), NeverSuspended, pc'[a].op \notin {"suspend", "resume"}
  PROVE  \A b \in Agents : pc'[b].op \notin {"suspend", "resume"}
  BY DEF Others, Kin, NeverSuspended

LEMMA BeingSetUpStays ==
  ASSUME NEW a \in Agents, Others(a),
         \/ a \notin Threads
         \/ a \in Threads /\ OneThread /\ pc[a].op \notin {"hw_params", "hw_free"}
  PROVE  \A s \in Streams : BeingSetUp(s) => BeingSetUp(s)'
  <1>1. CASE a \notin Threads
    <2>1. \A t \in Threads : Kin(pc[t], pc'[t])
      BY <1>1, AgentKinds DEF Others
    <2> QED
      BY <2>1 DEF BeingSetUp, Kin
  <1>2. CASE a \in Threads /\ OneThread /\ pc[a].op \notin {"hw_params", "hw_free"}
    BY <1>2 DEF BeingSetUp, OneThread
  <1> QED
    BY <1>1, <1>2

\* A runtime that is not more configured than it was.
Modest(r, q) == /\ q.setup = r.setup /\ q.suspended_state = r.suspended_state
                /\ q.state = "SUSPENDED" => r.state = "SUSPENDED"
                /\ q.state = "DISCONNECTED" => r.state = "DISCONNECTED"
                /\ q.state # "OPEN" => r.state # "OPEN"
                /\ Ready(q) => Ready(r)

LEMMA SetUpStaysSo ==
  ASSUME TypeOK, SetUp, NEW a \in Agents, Others(a), UNCHANGED <<grp, shutdown>>,
         \A s \in Streams : Modest(rt[s], rt'[s]),
         pc'[a].op \notin {"suspend", "resume"},
         \/ a \notin Threads
         \/ a \in Threads /\ OneThread /\ pc[a].op \notin {"hw_params", "hw_free"}
            /\ HasSetUp(pc[a])'
  PROVE  SetUp'
  <1>1. NeverSuspended'
    <2>1. \A b \in Agents : pc'[b].op \notin {"suspend", "resume"}
      BY OthersKeepOps DEF SetUp
    <2> QED
      BY <2>1 DEF SetUp, NeverSuspended, Modest, Suspended
  <1>3. \A s \in Streams : BeingSetUp(s) => BeingSetUp(s)'
    BY BeingSetUpStays
  <1>4. \A s \in Streams : Configured(s)'
    BY <1>3 DEF SetUp, Configured, Modest, Ready, Beyond
  <1>5. CASE a \notin Threads
    <2>1. ASSUME NEW t \in Threads
          PROVE  HasSetUp(pc[t])'
      <3>1. /\ pc'[t].op = pc[t].op /\ pc'[t].s = pc[t].s /\ pc'[t].todo = pc[t].todo
            /\ pc[t] \in Task
        BY <1>5, AgentKinds DEF Others, Kin, TypeOK
      <3>2. pc[t].s \in Streams /\ grp[pc[t].s] \subseteq Streams
        BY <3>1, TaskFields DEF TypeOK
      <3>3. HasSetUp(pc[t])
        BY DEF SetUp
      <3> QED
        BY <3>1, <3>2, <3>3 DEF HasSetUp, Modest
    <2> QED
      BY <1>1, <1>4, <2>1 DEF SetUp
  <1>6. CASE a \in Threads
    <2>1. \A t \in Threads : t = a
      BY <1>6 DEF OneThread
    <2> QED
      BY <1>1, <1>4, <1>6, <2>1 DEF SetUp
  <1> QED
    BY <1>5, <1>6

\* What a call of snd_pcm_action that was not refused leaves.
LEMMA DoneModest ==
  ASSUME NEW c \in Call, c.act = "stop" => c.to \in {"SETUP", "XRUN"},
         c.act \notin {"suspend", "resume"},
         NEW s, NEW o \in Runtime, o.state # "SUSPENDED", Pre(c, s, o),
         NEW r, SameBut(c, r, o), NEW q, Result(c, s, r, q)
  PROVE  /\ Modest(o, q)
         /\ q.state = "RUNNING" <=> c.act \in {"start", "release"}
  <1>1. r.state = o.state /\ r.setup = o.setup /\ r.suspended_state = o.suspended_state
    BY DEF SameBut
  <1>2. q.setup = o.setup /\ q.state = StateAfter(c, s, r) /\ q.suspended_state = o.suspended_state
    BY <1>1 DEF Result
  <1>3. /\ c.act = "start" => r.state = "PREPARED"
        /\ c.act = "stop" => r.state # "OPEN"
        /\ c.act = "push" => r.state = "RUNNING"
        /\ c.act = "release" => r.state = "PAUSED"
        /\ c.act = "drain" => r.state \notin {"OPEN", "DISCONNECTED"}
    BY <1>1 DEF Pre
  <1>4. c.act \in {"start", "stop", "push", "release", "drain"}
    BY CallFields DEF Acts
  <1>5. CASE c.act # "drain"
    BY <1>1, <1>2, <1>3, <1>4, <1>5 DEF StateAfter, Modest, Ready
  <1>6. CASE c.act = "drain"
    <2>1. q.state = DrainTarget(s, r)
      BY <1>2, <1>6 DEF StateAfter
    <2>2. \/ q.state = "DRAINING" /\ r.state \in {"PREPARED", "RUNNING"}
          \/ q.state = "SETUP"
          \/ q.state = r.state /\ r.state # "RUNNING"
      BY <2>1 DEF DrainTarget
    <2> QED
      BY <1>1, <1>2, <1>3, <1>6, <2>2 DEF Modest, Ready
  <1> QED
    BY <1>5, <1>6

\* A group that runs after the call, or does not.
RunOrNot(G) == \/ \A s \in G : rt'[s].state = "RUNNING"
               \/ \A s \in G : rt'[s].state # "RUNNING"

LEMMA OutcomeModest ==
  ASSUME Types, NEW c \in Call, c.act = "stop" => c.to \in {"SETUP", "XRUN"},
         c.act \notin {"suspend", "resume"}, \A s \in Streams : ~Suspended(s),
         NEW G \in SUBSET Streams, Outcome(c, G), OneThread
  PROVE  /\ \A s \in Streams : Modest(rt[s], rt'[s])
         /\ StatesStay \/ ((\A s \in Streams \ G : rt'[s] = rt[s]) /\ RunOrNot(G))
  <1>1. \A s \in Streams : rt[s] \in Runtime /\ rt[s].state # "SUSPENDED"
    BY DEF Types, TypeOK, Suspended
  <1>2. CASE Unchanged
    BY <1>2 DEF Unchanged, Modest, Ready, StatesStay
  <1>3. CASE SomeUndone(c, G)
    <2>1. ASSUME NEW s \in Streams, rt'[s] # rt[s]
          PROVE  /\ rt'[s].state = rt[s].state /\ rt'[s].setup = rt[s].setup
                 /\ rt'[s].suspended_state = rt[s].suspended_state
      <3>1. rt'[s] = Undone(c, s, rt[s])
        BY <1>3, <2>1 DEF SomeUndone
      <3>2. PICK q : q = rt'[s]
        OBVIOUS
      <3>3. q = Undone(c, s, rt[s]) /\ shutdown \in BOOLEAN
        BY <3>1, <3>2 DEF Types, TypeOK
      <3> QED
        BY <1>1, <3>2, <3>3, UndoneFields
    <2> QED
      BY <2>1 DEF Modest, Ready, StatesStay
  <1>4. CASE ~Refused(c, G) /\ AllDone(c, G)
    <2>1. ASSUME NEW s \in G
          PROVE  /\ Modest(rt[s], rt'[s])
                 /\ rt'[s].state = "RUNNING" <=> c.act \in {"start", "release"}
      <3>1. DoneOrNoStart(c, s, rt'[s]) /\ Pre(c, s, rt[s])
        BY <1>4 DEF AllDone, Refused
      <3>2. PICK r : SameBut(c, r, rt[s]) /\ Result(c, s, r, rt'[s])
        BY <1>1, <3>1, DoneOrNoStartFields DEF Types, TypeOK
      <3> QED
        BY <1>1, <3>1, <3>2, DoneModest
    <2>2. \A s \in Streams \ G : rt'[s] = rt[s]
      BY <1>4 DEF AllDone
    <2>3. RunOrNot(G)
      BY <2>1 DEF RunOrNot
    <2>4. \A s \in Streams \ G : Modest(rt[s], rt'[s])
      BY <2>2 DEF Modest, Ready
    <2> QED
      BY <2>1, <2>2, <2>3, <2>4
  <1> QED
    BY <1>2, <1>3, <1>4 DEF Outcome

LEMMA PerformSetUp ==
  ASSUME Types, Sound, SetUp, OneThread, NEW a \in Agents, Performs(a)
  PROVE  /\ SetUp'
         /\ StatesStay \/ ((\A m \in Streams \ grp[pc[a].s] : rt'[m] = rt[m]) /\ RunOrNot(grp[pc[a].s]))
  <1>1. PICK c : c = Head(pc[a].todo)
    OBVIOUS
  <1>2. PICK s \in Streams : s = pc[a].s
    BY <1>1, PerformFacts
  <1>3. /\ c \in Call /\ Outcome(c, grp[s]) /\ grp[s] \in SUBSET Streams /\ Others(a)
        /\ c.act = "stop" => c.to \in {"SETUP", "XRUN"}
        /\ c.act = "resume" => pc[a].op = "resume"
        /\ c.act = "suspend" => pc[a].op = "suspend"
        /\ pc[a].op \notin {"hw_params", "hw_free", "prepare", "none", "unplug"}
    BY <1>1, <1>2, PerformFacts
  <1>4. PICK ok : pc'[a] = AfterCall(a, ok)
    BY <1>1, PerformFacts
  <1>5. UNCHANGED <<grp, power, shutdown>> /\ TypeOK /\ Pending(pc[a])
    BY DEF Performs, Types
  <1>6. c.act \notin {"suspend", "resume"} /\ \A m \in Streams : ~Suspended(m)
    BY <1>3 DEF SetUp, NeverSuspended
  <1>7. /\ \A m \in Streams : Modest(rt[m], rt'[m])
        /\ StatesStay \/ ((\A m \in Streams \ grp[s] : rt'[m] = rt[m]) /\ RunOrNot(grp[s]))
    BY <1>3, <1>6, OutcomeModest
  <1>8. pc'[a].op \in {pc[a].op, "none"}
    BY <1>4, <1>5, AfterOps, IdleTask
  <1>9. pc'[a].op \notin {"suspend", "resume", "prepare", "hw_params"}
    BY <1>3, <1>8 DEF SetUp, NeverSuspended
  <1>10. HasSetUp(pc[a])'
    BY <1>9 DEF HasSetUp
  <1>11. SetUp'
    BY <1>3, <1>5, <1>7, <1>9, <1>10, SetUpStaysSo
  <1> QED
    BY <1>2, <1>7, <1>11

LEMMA RelocksSetUp ==
  ASSUME Types, SetUp, OneThread, NEW a \in Agents, Relocks(a)
  PROVE  SetUp'
  <1>1. /\ UNCHANGED <<rt, grp, power, shutdown>> /\ Others(a) /\ TypeOK
        /\ pc[a].at \in Locking /\ pc'[a].op = pc[a].op
    BY DEF Relocks, Types
  <1>2. FormOf(a, pc[a]) /\ pc[a] # Idle
    BY <1>1, IdleTask DEF Types, Forms, Locking
  <1>3. a \in Threads => pc[a].op \notin {"hw_params", "hw_free", "prepare"}
    BY <1>1, <1>2, AgentKinds DEF FormOf, IrqTask, DriverTask, ThreadTask, Works, Locking
  <1>4. \A m \in Streams : Modest(rt[m], rt'[m])
    BY <1>1 DEF Modest, Ready
  <1>5. pc'[a].op \notin {"suspend", "resume"}
    BY <1>1 DEF SetUp, NeverSuspended
  <1>6. a \in Threads => HasSetUp(pc[a])'
    BY <1>1, <1>3 DEF HasSetUp
  <1> QED
    BY <1>1, <1>3, <1>4, <1>5, <1>6, SetUpStaysSo

LEMMA SettlesSetUp ==
  ASSUME Types, Types', SetUp, OneThread, NEW a \in Agents, Settles(a)
  PROVE  SetUp'
  <1>1. /\ UNCHANGED <<grp, power, shutdown>> /\ Others(a) /\ TypeOK
        /\ \A m \in Streams : SameFields(rt[m], rt'[m]) \/ Drained(m, rt[m], rt'[m])
    BY DEF Settles, Types
  <1>2. \A m \in Streams : Modest(rt[m], rt'[m])
    BY <1>1 DEF SameFields, Drained, Modest, Ready
  <1>3. CASE a \in Streams
    <2>1. PICK u : u = pc'[a]
      OBVIOUS
    <2>2. FormOf(a, u)
      BY <2>1 DEF Types, Forms, FormOf, IrqTask, DriverTask, ThreadTask, Asks, Asks2, Works
    <2>3. u.op \in {"none", "irq"}
      BY <1>3, <2>2, AgentKinds, IdleTask DEF FormOf, IrqTask
    <2> QED
      BY <1>1, <1>2, <1>3, <2>1, <2>3, AgentKinds, SetUpStaysSo
  <1>4. CASE a \notin Streams
    <2>1. /\ a \in Threads /\ pc'[a].op \in Ordinary \cup {"none"}
          /\ pc[a] = Idle \/ pc[a].op \in Ordinary
      BY <1>4 DEF Settles
    <2>2. pc[a].op \notin {"hw_params", "hw_free"}
      BY <2>1, IdleTask DEF Ordinary
    <2>3. pc'[a].op \notin {"suspend", "resume", "hw_params", "prepare"}
      BY <2>1 DEF Ordinary
    <2>4. HasSetUp(pc[a])'
      BY <2>3 DEF HasSetUp
    <2> QED
      BY <1>1, <1>2, <2>1, <2>2, <2>3, <2>4, SetUpStaysSo
  <1> QED
    BY <1>3, <1>4

\* Where the only thread does not set up anything, nothing is being set up.
LEMMA NothingBeingSetUp ==
  ASSUME OneThread, NEW a \in Threads, pc[a].op \notin {"hw_params", "hw_free"}
  PROVE  \A s \in Streams : ~BeingSetUp(s)
  BY DEF OneThread, BeingSetUp

LEMMA BeginsSetUp ==
  ASSUME Types, SetUp, OneThread, NEW a \in Threads, NEW s \in Streams, Begins(a, s)
  PROVE  SetUp'
  <1>1. /\ UNCHANGED <<rt, grp, power, shutdown>> /\ Others(a) /\ pc[a] = Idle
        /\ pc'[a].s = s /\ pc'[a].op \in Ordinary \cup {"resume", "prepare"}
        /\ pc'[a].op = "resume" => rt[s].state = "SUSPENDED"
        /\ pc'[a].op = "prepare" => (\A m \in grp[s] : MayPrepare(m)) /\ ~shutdown
        /\ TypeOK
    BY DEF Begins, OneThread, Types
  <1>2. pc'[a].op \in Ordinary \cup {"prepare"}
    BY <1>1 DEF SetUp, NeverSuspended, Suspended
  <1>3. \A m \in Streams : Modest(rt[m], rt'[m])
    BY <1>1 DEF Modest, Ready
  <1>4. pc[a].op \notin {"hw_params", "hw_free"}
    BY <1>1, IdleTask
  <1>5. \A m \in Streams : ~BeingSetUp(m)
    BY <1>4, NothingBeingSetUp
  <1>6. grp[s] \subseteq Streams
    BY <1>1 DEF TypeOK
  <1>7. HasSetUp(pc[a])'
    <2>1. CASE pc'[a].op = "prepare"
      <3>1. \A m \in grp[s] : rt[m].setup
        BY <1>1, <1>5, <1>6, <2>1 DEF SetUp, Configured, Beyond, MayPrepare
      <3> QED
        BY <1>1, <2>1, <3>1 DEF HasSetUp
    <2>2. CASE pc'[a].op \in Ordinary
      BY <2>2 DEF HasSetUp, Ordinary
    <2> QED
      BY <1>2, <2>1, <2>2
  <1>8. a \in Agents /\ pc'[a].op \notin {"suspend", "resume"}
    BY <1>2, AgentKinds DEF Ordinary
  <1> QED
    BY <1>1, <1>3, <1>4, <1>7, <1>8, SetUpStaysSo

(***************************************************************************)
(* SetUp under the calls that set up, prepare or close one substream.      *)
(***************************************************************************)
\* The runtime of s changes to q; nothing is suspended.
LEMMA StillNeverSuspended ==
  ASSUME SetUp, NEW a \in Agents, Others(a), pc'[a].op \notin {"suspend", "resume"},
         NEW s \in Streams, NEW q, Sets(s, q), q.state # "SUSPENDED", q.suspended_state = "OPEN"
  PROVE  NeverSuspended'
  <1>1. \A b \in Agents : pc'[b].op \notin {"suspend", "resume"}
    BY OthersKeepOps DEF SetUp
  <1>2. \A m \in Streams : ~Suspended(m)' /\ rt'[m].suspended_state = "OPEN"
    BY DEF SetUp, NeverSuspended, Sets, Suspended
  <1> QED
    BY <1>1, <1>2 DEF NeverSuspended

LEMMA OnlyHasSetUp ==
  ASSUME OneThread, NEW a \in Threads, HasSetUp(pc[a])'
  PROVE  \A t \in Threads : HasSetUp(pc[t])'
  BY DEF OneThread

LEMMA HwBeginsSetUp ==
  ASSUME Types, SetUp, OneThread, NEW a \in Threads, NEW s \in Streams, HwBegins(a, s)
  PROVE  SetUp'
  <1>1. PICK q : /\ Sets(s, q)
                 /\ q.state = rt[s].state /\ q.suspended_state = rt[s].suspended_state
                 /\ pc'[a].op = "hw_params" /\ pc'[a].todo = <<Stop("SETUP")>> => q.setup
    BY DEF HwBegins
  <1>2. /\ pc[a] = Idle /\ UNCHANGED <<grp, power, shutdown>> /\ Others(a)
        /\ rt[s].state \in {"OPEN", "SETUP", "PREPARED"}
        /\ pc'[a].op \in {"hw_params", "hw_free"} /\ pc'[a].s = s /\ pc'[a].at = "work"
    BY DEF HwBegins
  <1>3. NeverSuspended'
    BY <1>1, <1>2, AgentKinds, StillNeverSuspended DEF SetUp, NeverSuspended
  <1>4. \A m \in Streams : ~BeingSetUp(m)
    BY <1>2, IdleTask, NothingBeingSetUp
  <1>5. BeingSetUp(s)'
    BY <1>2 DEF BeingSetUp
  <1>6. ASSUME NEW m \in Streams
        PROVE  Configured(m)'
    BY <1>1, <1>2, <1>4, <1>5 DEF SetUp, Configured, Ready, Beyond, Sets
  <1>7. HasSetUp(pc[a])'
    BY <1>1, <1>2 DEF HasSetUp, Sets
  <1> QED
    BY <1>3, <1>6, <1>7, OnlyHasSetUp DEF SetUp

LEMMA HwEndsSetUp ==
  ASSUME Types, SetUp, OneThread, NEW a \in Threads, NEW s \in Streams, HwEnds(a, s)
  PROVE  SetUp'
  <1>1. PICK to \in {"SETUP", "OPEN"} : \E q :
         /\ to = "SETUP" => pc[a].op = "hw_params" /\ pc[a].todo = <<Stop("SETUP")>>
         /\ Sets(s, q)
         /\ q.state = IF rt[s].state = "DISCONNECTED" THEN "DISCONNECTED" ELSE to
         /\ q.suspended_state = rt[s].suspended_state
         /\ to = "SETUP" => q.setup = rt[s].setup
    BY DEF HwEnds
  <1>2. PICK q :
         /\ to = "SETUP" => pc[a].op = "hw_params" /\ pc[a].todo = <<Stop("SETUP")>>
         /\ Sets(s, q)
         /\ q.state = IF rt[s].state = "DISCONNECTED" THEN "DISCONNECTED" ELSE to
         /\ q.suspended_state = rt[s].suspended_state
         /\ to = "SETUP" => q.setup = rt[s].setup
    BY <1>1
  <1>3. /\ UNCHANGED <<grp, power, shutdown>> /\ Others(a) /\ pc[a].s = s /\ pc'[a] = Idle
    BY DEF HwEnds
  <1>4. NeverSuspended'
    <2>1. q.state # "SUSPENDED" /\ q.suspended_state = "OPEN"
      BY <1>2 DEF SetUp, NeverSuspended
    <2> QED
      BY <1>2, <1>3, <2>1, AgentKinds, IdleTask, StillNeverSuspended
  <1>5. Configured(s)'
    <2>1. rt'[s] = q /\ (q.state = "DISCONNECTED" => shutdown)
      BY <1>2 DEF SetUp, Configured, Sets
    <2>2. q.state = "SETUP" => rt[s].setup
      BY <1>2, <1>3 DEF SetUp, HasSetUp
    <2>3. to = "SETUP" => q.setup = rt[s].setup
      BY <1>2
    <2>4. q.state \in {"SETUP", "OPEN", "DISCONNECTED"} /\ (q.state = "SETUP" => to = "SETUP")
      BY <1>2
    <2> QED
      BY <1>3, <2>1, <2>2, <2>3, <2>4 DEF Configured, Ready, Beyond
  <1>6. ASSUME NEW m \in Streams \ {s}
        PROVE  Configured(m)'
    <2>1. ~BeingSetUp(m)
      BY <1>3 DEF BeingSetUp, OneThread
    <2> QED
      BY <1>2, <1>3, <2>1 DEF SetUp, Configured, Ready, Beyond, Sets
  <1>7. HasSetUp(pc[a])'
    BY <1>3, IdleTask DEF HasSetUp
  <1> QED
    BY <1>4, <1>5, <1>6, <1>7, OnlyHasSetUp DEF SetUp

LEMMA PreparesSetUp ==
  ASSUME Types, Sound, SetUp, OneThread, NEW a \in Threads, NEW m \in Streams, Prepares(a, m)
  PROVE  SetUp'
  <1>1. PICK q : /\ Sets(m, q)
                 /\ q.state = IF rt[m].state = "DISCONNECTED" THEN "DISCONNECTED" ELSE "PREPARED"
                 /\ q.suspended_state = rt[m].suspended_state /\ q.setup = rt[m].setup
    BY DEF Prepares
  <1>2. /\ UNCHANGED <<grp, power, shutdown>> /\ Others(a) /\ TypeOK
        /\ pc[a].op = "prepare" /\ m \in pc[a].rest
        /\ pc'[a] = Idle \/ (pc'[a].op = "prepare" /\ pc'[a].s = pc[a].s)
    BY DEF Prepares, Types
  <1>3. m \in grp[pc[a].s]
    BY <1>2 DEF Sound, Promises, Promise
  <1>4. \A k \in grp[pc[a].s] : rt[k].setup
    BY <1>2 DEF SetUp, HasSetUp
  <1>5. \A k \in Streams : rt'[k].setup = rt[k].setup
    BY <1>1 DEF Sets
  <1>6. NeverSuspended'
    <2>1. q.state # "SUSPENDED" /\ q.suspended_state = "OPEN"
      BY <1>1 DEF SetUp, NeverSuspended
    <2>2. pc'[a].op \notin {"suspend", "resume"} /\ a \in Agents
      BY <1>2, AgentKinds, IdleTask
    <2> QED
      BY <1>1, <1>2, <2>1, <2>2, StillNeverSuspended
  <1>7. \A k \in Streams : ~BeingSetUp(k)
    BY <1>2, NothingBeingSetUp
  <1>8. Configured(m)'
    <2>1. rt'[m].setup
      BY <1>3, <1>4, <1>5
    <2>2. shutdown' \/ rt'[m].state # "DISCONNECTED"
      BY <1>1, <1>2 DEF SetUp, Configured, Sets
    <2> QED
      BY <2>1, <2>2 DEF Configured
  <1>9. ASSUME NEW k \in Streams \ {m}
        PROVE  Configured(k)'
    BY <1>1, <1>2, <1>7 DEF SetUp, Configured, Ready, Beyond, Sets
  <1>10. HasSetUp(pc[a])'
    <2>1. pc[a].s \in Streams /\ grp[pc[a].s] \subseteq Streams
      <3>1. pc[a].s \in Streams
        BY <1>2, AgentKinds, TaskFields DEF TypeOK
      <3> QED
        BY <1>2, <3>1 DEF TypeOK
    <2>2. CASE pc'[a] = Idle
      BY <2>2, IdleTask DEF HasSetUp
    <2>3. CASE pc'[a].op = "prepare" /\ pc'[a].s = pc[a].s
      BY <1>2, <1>4, <1>5, <2>1, <2>3 DEF HasSetUp
    <2> QED
      BY <1>2, <2>2, <2>3
  <1> QED
    BY <1>6, <1>8, <1>9, <1>10, OnlyHasSetUp DEF SetUp

LEMMA ClosesSetUp ==
  ASSUME Types, SetUp, OneThread, NEW a \in Threads, NEW s \in Streams, Closes(a, s)
  PROVE  SetUp'
  <1>1. /\ UNCHANGED <<power, shutdown>> /\ Others(a)
        /\ pc[a].op = "close" /\ pc'[a] = Idle /\ Sets(s, NewRuntime)
    BY DEF Closes
  <1>2. NewRuntime.state = "OPEN" /\ NewRuntime.suspended_state = "OPEN"
    BY DEF NewRuntime
  <1>3. NeverSuspended'
    BY <1>1, <1>2, AgentKinds, IdleTask, StillNeverSuspended
  <1>4. \A m \in Streams : ~BeingSetUp(m)
    BY <1>1, NothingBeingSetUp
  <1>5. Configured(s)'
    BY <1>1, <1>2 DEF Configured, Ready, Beyond, Sets
  <1>6. ASSUME NEW m \in Streams \ {s}
        PROVE  Configured(m)'
    BY <1>1, <1>4 DEF SetUp, Configured, Ready, Beyond, Sets
  <1>7. HasSetUp(pc[a])'
    BY <1>1, IdleTask DEF HasSetUp
  <1> QED
    BY <1>3, <1>5, <1>6, <1>7, OnlyHasSetUp DEF SetUp

LEMMA RelinksSetUp ==
  ASSUME SetUp, OneThread, NEW a \in Threads, NEW s \in Streams, Relinks(a, s)
  PROVE  SetUp'
  <1>1. UNCHANGED <<rt, pc, power, shutdown>> /\ pc[a] = Idle
    BY DEF Relinks, Regroups
  <1>2. NeverSuspended' /\ \A m \in Streams : Configured(m)'
    BY <1>1 DEF SetUp, NeverSuspended, Suspended, Configured, Ready, Beyond, BeingSetUp
  <1>3. HasSetUp(pc[a])'
    BY <1>1, IdleTask DEF HasSetUp
  <1> QED
    BY <1>2, <1>3, OnlyHasSetUp DEF SetUp

(***************************************************************************)
(* SetUp under the steps of the driver.                                    *)
(***************************************************************************)
\* The driver unplugs; the tasks of the threads and what they set up stay.
LEMMA UnpluggedSetUp ==
  ASSUME Types, SetUp, Others(Driver), grp' = grp, shutdown',
         pc'[Driver].op \notin {"suspend", "resume"},
         \A m \in Streams : /\ rt'[m].setup = rt[m].setup
                            /\ rt'[m].suspended_state = rt[m].suspended_state
                            /\ rt'[m].state \in {rt[m].state, "DISCONNECTED"}
  PROVE  SetUp'
  <1>1. Driver \in Agents /\ \A t \in Threads : Kin(pc[t], pc'[t])
    BY AgentKinds DEF Others
  <1>2. \A b \in Agents : pc'[b].op \notin {"suspend", "resume"}
    BY <1>1, OthersKeepOps DEF SetUp
  <1>3. NeverSuspended'
    BY <1>2 DEF SetUp, NeverSuspended, Suspended
  <1>4. \A m \in Streams : BeingSetUp(m) => BeingSetUp(m)'
    BY <1>1, AgentKinds, BeingSetUpStays
  <1>5. \A m \in Streams : Configured(m)'
    BY <1>4 DEF SetUp, Configured, Ready, Beyond
  <1>6. ASSUME NEW t \in Threads
        PROVE  HasSetUp(pc[t])'
    <2>1. pc'[t].op = pc[t].op /\ pc'[t].s = pc[t].s /\ pc'[t].todo = pc[t].todo /\ pc[t] \in Task
      BY <1>1, AgentKinds DEF Kin, Types, TypeOK
    <2>2. pc[t].s \in Streams /\ grp[pc[t].s] \subseteq Streams
      BY <2>1, TaskFields DEF Types, TypeOK
    <2>3. HasSetUp(pc[t])
      BY DEF SetUp
    <2> QED
      BY <2>1, <2>2, <2>3 DEF HasSetUp
  <1> QED
    BY <1>3, <1>5, <1>6 DEF SetUp

LEMMA DriverSetUp ==
  ASSUME Types, Sound, SetUp, "pm" \notin Features, StepOfDriver
  PROVE  SetUp'
  <1>1. CASE Unplugs
    <2>1. pc'[Driver].op \notin {"suspend", "resume"}
      BY <1>1 DEF Unplugs
    <2> QED
      BY <1>1, <2>1, UnpluggedSetUp DEF Unplugs
  <1>2. CASE PowersDown
    BY <1>2 DEF PowersDown
  <1>3. CASE HasVisited \/ \E s \in Streams : Visits(s)
    BY <1>3, AgentKinds DEF HasVisited, Visits, SetUp, NeverSuspended
  <1>4. CASE PowersUp
    BY <1>4 DEF PowersUp, SetUp, NeverSuspended, Suspended, Configured, Ready, Beyond, BeingSetUp, HasSetUp
  <1>5. ASSUME NEW s \in Streams, Disconnects(s)
        PROVE  SetUp'
    <2>1. PICK q : /\ Sets(s, q) /\ q.state = "DISCONNECTED"
                   /\ q.suspended_state = rt[s].suspended_state /\ q.setup = rt[s].setup
      BY <1>5 DEF Disconnects
    <2>2. /\ Others(Driver) /\ grp' = grp /\ shutdown' = shutdown
          /\ pc[Driver].op = "unplug" /\ pc'[Driver].op \in {"none", "unplug"}
      BY <1>5 DEF Disconnects
    <2>3. shutdown
      BY <2>2 DEF Sound, Gone
    <2> QED
      BY <2>1, <2>2, <2>3, UnpluggedSetUp DEF Sets
  <1> QED
    BY <1>1, <1>2, <1>3, <1>4, <1>5 DEF StepOfDriver

LEMMA StepSetUp ==
  ASSUME Types, Types', Sound, SetUp, OneThread, "pm" \notin Features, Kinds
  PROVE  SetUp'
  <1>1. ASSUME NEW a \in Agents, StepOfAgent(a)
        PROVE  SetUp'
    BY <1>1, PerformSetUp, RelocksSetUp, SettlesSetUp DEF StepOfAgent
  <1>2. ASSUME NEW a \in Threads, NEW s \in Streams, StepOfThread(a, s)
        PROVE  SetUp'
    BY <1>2, BeginsSetUp, HwBeginsSetUp, HwEndsSetUp, PreparesSetUp, ClosesSetUp, RelinksSetUp
    DEF StepOfThread
  <1> QED
    BY <1>1, <1>2, DriverSetUp DEF Kinds

LEMMA InitSetUp ==
  ASSUME Init
  PROVE  SetUp
  <1>1. \A s \in Streams : rt[s] = NewRuntime
    BY DEF Init
  <1>2. (\A a \in Agents : pc[a] = Idle) /\ Threads \subseteq Agents
    BY AgentKinds DEF Init
  <1>3. NeverSuspended
    BY <1>1, <1>2, IdleTask DEF NeverSuspended, Suspended, NewRuntime
  <1>4. \A s \in Streams : Configured(s)
    BY <1>1 DEF Configured, Ready, Beyond, NewRuntime
  <1>5. \A a \in Threads : HasSetUp(pc[a])
    BY <1>2, IdleTask DEF HasSetUp
  <1> QED
    BY <1>3, <1>4, <1>5 DEF SetUp

LEMMA StutterSetUp ==
  ASSUME SetUp, UNCHANGED vars
  PROVE  SetUp'
  BY DEF vars, SetUp, NeverSuspended, Suspended, Configured, Ready, Beyond, BeingSetUp, HasSetUp

LEMMA AlwaysSetUp ==
  ASSUME OneThread, "pm" \notin Features
  PROVE  Spec => [](Types /\ Sound /\ SetUp)
  <1>1. Init => Types /\ Sound /\ SetUp
    BY InitTypes, InitSound, InitSetUp
  <1>2. ASSUME Types, Sound, SetUp, Next
        PROVE  (Types /\ Sound /\ SetUp)'
    <2>1. Types' /\ Kinds
      BY <1>2, NextKinds
    <2>2. Sound'
      BY <1>2, <2>1, StepSound
    <2>3. SetUp'
      BY <1>2, <2>1, StepSetUp
    <2> QED
      BY <2>1, <2>2, <2>3
  <1>3. Types /\ Sound /\ SetUp /\ [Next]_vars => (Types /\ Sound /\ SetUp)'
    BY <1>2, StutterTypes, StutterSound, StutterSetUp
  <1> QED
    BY <1>1, <1>3, PTL DEF Spec

(***************************************************************************)
(* The hardware moves only between ops->hw_params and ops->hw_free, for an *)
(* application with one thread on a card that is not suspended: whatever   *)
(* is linked, unplugged or fails, it never touches a buffer that is gone.  *)
(***************************************************************************)
THEOREM HardwareHasBuffer ==
  ASSUME OneThread, "pm" \notin Features
  PROVE  Spec => []DmaHasBuffer
  <1>1. ASSUME Types, Sound, SetUp, NEW s \in Streams, rt[s].dma
        PROVE  rt[s].setup
    <2>1. Ready(rt[s])
      BY <1>1 DEF Sound, Healthy, Good, Running, Ready
    <2>2. ~BeingSetUp(s)
      BY <1>1 DEF Sound, Promises, Promise, BeingSetUp
    <2> QED
      BY <1>1, <2>1, <2>2 DEF SetUp, Configured
  <1>2. Types /\ Sound /\ SetUp => DmaHasBuffer
    BY <1>1 DEF DmaHasBuffer
  <1> QED
    BY <1>2, AlwaysSetUp, PTL

(***************************************************************************)
(* A substream in PREPARED, RUNNING, DRAINING or PAUSED has its hardware   *)
(* parameters, or hw_params or hw_free is at work on it, under the same    *)
(* assumptions (PcmStream_suspend_open.cfg shows a suspend breaking it).   *)
(***************************************************************************)
THEOREM ReadyIsSetUp ==
  ASSUME OneThread, "pm" \notin Features
  PROVE  Spec => []PreparedIsSetUp
  <1>1. SetUp => PreparedIsSetUp
    BY DEF SetUp, Configured, Ready, PreparedIsSetUp
  <1> QED
    BY <1>1, AlwaysSetUp, PTL
(***************************************************************************)
(* Without unplugging, moreover: linked substreams run together.           *)
(***************************************************************************)
Together == ~shutdown /\ RunningTogether

Runs(s) == rt[s].state = "RUNNING"

LEMMA TogetherStays ==
  ASSUME TypeOK, Together, UNCHANGED <<grp, shutdown>>,
         \A s \in Streams : Runs(s)' <=> Runs(s)
  PROVE  Together'
  <1>1. \A s \in Streams : grp[s] \subseteq Streams
    BY DEF TypeOK
  <1> QED
    BY <1>1 DEF Together, RunningTogether, Runs

LEMMA PerformTogether ==
  ASSUME Types, Sound, SetUp, OneThread, Together, NEW a \in Agents, Performs(a)
  PROVE  Together'
  <1>1. UNCHANGED <<grp, shutdown>> /\ TypeOK
    BY DEF Performs, Types
  <1>2. PICK s \in Streams : s = pc[a].s
    BY AgentKinds, TaskFields DEF Types, TypeOK
  <1>3. PICK G : G = grp[s] /\ G \subseteq Streams
    BY <1>1 DEF TypeOK
  <1>4. StatesStay \/ ((\A m \in Streams \ G : rt'[m] = rt[m]) /\ RunOrNot(G))
    BY <1>2, <1>3, PerformSetUp
  <1>5. CASE StatesStay
    BY <1>1, <1>5, TogetherStays DEF StatesStay, Runs
  <1>6. CASE (\A m \in Streams \ G : rt'[m] = rt[m]) /\ RunOrNot(G)
    <2>1. ASSUME NEW t \in Streams, Runs(t)', NEW m \in grp[t]
          PROVE  Runs(m)'
      <3>1. m \in Streams /\ grp[m] = grp[t] /\ t \in grp[t]
        BY <1>1 DEF Sound, Grouped, TypeOK
      <3>2. CASE t \in G
        <4>1. grp[t] = G
          BY <1>3, <3>2 DEF Sound, Grouped
        <4> QED
          BY <1>6, <2>1, <3>2, <4>1 DEF RunOrNot, Runs
      <3>3. CASE t \notin G
        <4>1. m \notin G
          BY <1>3, <3>1, <3>3 DEF Sound, Grouped
        <4>2. Runs(t)
          BY <1>6, <2>1, <3>3 DEF Runs
        <4> QED
          BY <1>6, <3>1, <4>1, <4>2 DEF Together, RunningTogether, Runs
      <3> QED
        BY <3>2, <3>3
    <2> QED
      BY <1>1, <2>1 DEF Together, RunningTogether, Runs
  <1> QED
    BY <1>4, <1>5, <1>6

\* A runtime whose hardware rests is set to a state that does not run.
LEMMA SetsTogether ==
  ASSUME TypeOK, Healthy, Together, UNCHANGED <<grp, shutdown>>, NEW s \in Streams, NEW q,
         Sets(s, q), ~rt[s].dma, q.state # "RUNNING"
  PROVE  Together'
  <1>1. ~Runs(s)
    BY DEF Healthy, Good, Together, Runs
  <1>2. \A m \in Streams : Runs(m)' <=> Runs(m)
    BY <1>1 DEF Sets, Runs
  <1> QED
    BY <1>2, TogetherStays

LEMMA SetUpTogether ==
  ASSUME Types, Sound, OneThread, Together, NEW a \in Threads, NEW s \in Streams,
         Begins(a, s) \/ HwBegins(a, s) \/ HwEnds(a, s) \/ Prepares(a, s)
  PROVE  Together'
  <1>1. TypeOK /\ Healthy
    BY DEF Types, Sound
  <1>2. CASE Begins(a, s)
    BY <1>1, <1>2, TogetherStays DEF Begins, Runs
  <1>3. CASE HwBegins(a, s)
    <2>1. UNCHANGED <<grp, shutdown>> /\ \A m \in Streams : rt'[m].state = rt[m].state
      BY <1>3 DEF HwBegins, Sets
    <2> QED
      BY <1>1, <2>1, TogetherStays DEF Runs
  <1>4. CASE HwEnds(a, s)
    <2>1. PICK q : /\ Sets(s, q) /\ q.state \in {"DISCONNECTED", "SETUP", "OPEN"}
      BY <1>4 DEF HwEnds
    <2>2. ~rt[s].dma /\ UNCHANGED <<grp, shutdown>> /\ q.state # "RUNNING"
      BY <1>4, <2>1 DEF HwEnds, Sound, Promises, Promise
    <2> QED
      BY <1>1, <2>1, <2>2, SetsTogether
  <1>5. CASE Prepares(a, s)
    <2>1. PICK q : Sets(s, q) /\ q.state \in {"DISCONNECTED", "PREPARED"}
      BY <1>5 DEF Prepares
    <2>2. ~rt[s].dma /\ UNCHANGED <<grp, shutdown>> /\ q.state # "RUNNING"
      BY <1>5, <2>1 DEF Prepares, Sound, Promises, Promise
    <2> QED
      BY <1>1, <2>1, <2>2, SetsTogether
  <1> QED
    BY <1>2, <1>3, <1>4, <1>5

LEMMA ClosesTogether ==
  ASSUME Types, Sound, Together, NEW a \in Threads, NEW s \in Streams, Closes(a, s)
  PROVE  Together'
  <1>1. shutdown' = shutdown /\ Sets(s, NewRuntime) /\ grp' = Unlinked(s) /\ TypeOK
    BY DEF Closes, Types
  <1>2. grp'[s] = {s} /\ \A t \in Streams \ {s} : grp'[t] = grp[t] \ {s}
    BY <1>1, UnlinkedGrouped DEF Sound
  <1>3. \A t \in Streams : grp[t] \subseteq Streams
    BY <1>1 DEF TypeOK
  <1>4. rt'[s].state = "OPEN" /\ \A t \in Streams \ {s} : rt'[t] = rt[t]
    BY <1>1 DEF Sets, NewRuntime
  <1>5. ASSUME NEW t \in Streams, rt'[t].state = "RUNNING", NEW m \in grp'[t]
        PROVE  rt'[m].state = "RUNNING"
    <2>1. t # s
      BY <1>4, <1>5
    <2>2. m \in grp[t] /\ m \in Streams \ {s} /\ rt[t].state = "RUNNING"
      BY <1>2, <1>3, <1>4, <1>5, <2>1
    <2> QED
      BY <1>4, <2>2 DEF Together, RunningTogether
  <1> QED
    BY <1>1, <1>5 DEF Together, RunningTogether

LEMMA RelinksTogether ==
  ASSUME Types, Sound, Together, NEW a \in Threads, NEW s \in Streams, Relinks(a, s)
  PROVE  Together'
  <1>1. UNCHANGED <<rt, shutdown>> /\ TypeOK
    BY DEF Relinks, Regroups, Types
  <1>2. CASE IoctlUnlink(a, s)
    <2>1. grp'[s] = {s} /\ \A t \in Streams \ {s} : grp'[t] = grp[t] \ {s}
      BY <1>1, <1>2, UnlinkedGrouped DEF Sound, IoctlUnlink
    <2> QED
      BY <1>1, <2>1 DEF Together, RunningTogether
  <1>3. ASSUME NEW s1 \in Streams, IoctlLink(a, s, s1)
        PROVE  Together'
    <2>1. Joined(s, s1)
      BY <1>3, LinkJoins
    <2>2. \A m \in grp[s] : m \in Streams /\ s \in grp[m]
      BY <1>1 DEF Sound, Grouped, TypeOK
    <2>3. \A m \in grp[s] \cup {s1} : Runs(m) <=> Runs(s)
      BY <2>1, <2>2 DEF Joined, Together, RunningTogether, Runs
    <2>4. ASSUME NEW t \in Streams, Runs(t), NEW m \in grp'[t]
          PROVE  Runs(m)
      <3>1. CASE t \in grp[s] \cup {s1}
        <4>1. m \in grp[s] \cup {s1}
          BY <2>1, <2>4, <3>1 DEF Joined
        <4> QED
          BY <2>3, <2>4, <3>1, <4>1
      <3>2. CASE t \notin grp[s] \cup {s1}
        <4>1. m \in grp[t]
          BY <2>1, <2>4, <3>2 DEF Joined
        <4> QED
          BY <2>4, <4>1 DEF Together, RunningTogether, Runs
      <3> QED
        BY <3>1, <3>2
    <2> QED
      BY <1>1, <2>4 DEF Together, RunningTogether, Runs
  <1> QED
    BY <1>2, <1>3 DEF Relinks

LEMMA StepTogether ==
  ASSUME Types, Sound, SetUp, Together, OneThread, {"pm", "unplug"} \cap Features = {}, Kinds
  PROVE  Together'
  <1>1. ASSUME NEW a \in Agents, StepOfAgent(a)
        PROVE  Together'
    <2>1. CASE Performs(a)
      BY <2>1, PerformTogether
    <2>2. CASE Relocks(a)
      BY <2>2, TogetherStays DEF Types, Relocks, Runs
    <2>3. CASE Settles(a)
      <3>1. UNCHANGED <<grp, shutdown>> /\ \A m \in Streams : Runs(m)' <=> Runs(m)
        BY <2>3 DEF Settles, SameFields, Drained, Runs
      <3> QED
        BY <3>1, TogetherStays DEF Types
    <2> QED
      BY <1>1, <2>1, <2>2, <2>3 DEF StepOfAgent
  <1>2. ASSUME NEW a \in Threads, NEW s \in Streams, StepOfThread(a, s)
        PROVE  Together'
    BY <1>2, SetUpTogether, ClosesTogether, RelinksTogether DEF StepOfThread
  <1>3. ASSUME StepOfDriver
        PROVE  Together'
    <2>1. ~Unplugs /\ ~PowersDown
      BY DEF Unplugs, PowersDown
    <2>2. ASSUME NEW s \in Streams, Disconnects(s)
          PROVE  FALSE
      BY <2>2 DEF Disconnects, Sound, Gone, Together
    <2>3. HasVisited \/ PowersUp \/ \E s \in Streams : Visits(s)
      BY <1>3, <2>1, <2>2 DEF StepOfDriver
    <2>4. UNCHANGED <<rt, grp, shutdown>>
      BY <2>3 DEF HasVisited, PowersUp, Visits
    <2> QED
      BY <2>4, TogetherStays DEF Types, Runs
  <1> QED
    BY <1>1, <1>2, <1>3 DEF Kinds

(***************************************************************************)
(* Linked substreams run together: start, stop and pause reach all members *)
(* or none, whoever asks for them and whatever trigger fails, for an       *)
(* application with one thread on a card that stays powered and plugged in.*)
(***************************************************************************)
THEOREM GroupsRunTogether ==
  ASSUME OneThread, {"pm", "unplug"} \cap Features = {}
  PROVE  Spec => []RunningTogether
  <1>1. "pm" \notin Features
    OBVIOUS
  <1>2. Init => Together
    <2>1. ASSUME Init
          PROVE  \A s \in Streams : rt[s].state # "RUNNING"
      BY <2>1 DEF Init, NewRuntime
    <2> QED
      BY <2>1 DEF Init, Together, RunningTogether
  <1>3. ASSUME Types, Sound, SetUp, Together, Next
        PROVE  Together'
    BY <1>3, NextKinds, StepTogether
  <1>4. ASSUME Together, UNCHANGED vars
        PROVE  Together'
    BY <1>4 DEF Together, RunningTogether, vars
  <1>5. Types /\ Sound /\ SetUp /\ Together /\ [Next]_vars => Together'
    BY <1>3, <1>4
  <1>6. Together => RunningTogether
    BY DEF Together
  <1> QED
    BY <1>1, <1>2, <1>5, <1>6, AlwaysSetUp, PTL DEF Spec

(***************************************************************************)
(* When drop or the handling of an underrun is over, nothing moves.        *)
(* Both rely on snd_pcm_pre_stop, which refuses a whole group for a member *)
(* that is OPEN: such a group must be at rest already (OpenRests).  A      *)
(* member at rest gets to OPEN by itself, through hw_free or hw_params,    *)
(* while the others run with it, which rests, or drain; and what drains    *)
(* and moves belongs to a group whose drain is under way (Attended): the   *)
(* thread is in it until nothing drains any more.                          *)
(***************************************************************************)
Waiting(s) == \E a \in Threads : pc[a].op = "drain" /\ s \in grp[pc[a].s]

Attended == \A s \in Streams : rt[s].dma => Runs(s) \/ Waiting(s)

OpenRests == \A s \in Streams : rt[s].state = "OPEN" => \A m \in grp[s] : ~rt[m].dma

Waits == {"queued", "asleep", "woken", "timedout"}

\* Without signals, a drain in its wait waits for a substream.
WaitsForOne == \A a \in Threads : pc[a].at \in Waits => pc[a].rest # {}

Quiet == Attended /\ OpenRests /\ WaitsForOne

\* What another agent's step does to a task.
LEMMA BecomeKin ==
  ASSUME Types, NEW a \in Agents, NEW b, b # a, NEW task, NEW W, Become(b, task, W)
  PROVE  Kin(pc[a], pc'[a])
  <1>1. FormOf(a, pc[a])
    BY DEF Types, Forms
  <1>2. \/ pc'[a] = pc[a]
        \/ pc[a].at = "asleep" /\ pc'[a] = [pc[a] EXCEPT !.at = "woken"]
    BY DEF Become
  <1>3. CASE pc'[a] = pc[a]
    BY <1>3 DEF Kin
  <1>4. CASE pc[a].at = "asleep" /\ pc'[a] = [pc[a] EXCEPT !.at = "woken"]
    <2>1. PICK t : t = pc[a]
      OBVIOUS
    <2>2. PICK u : u = pc'[a]
      OBVIOUS
    <2> QED
      BY <1>1, <1>4, <2>1, <2>2, KinForm
  <1> QED
    BY <1>2, <1>3, <1>4

LEMMA ContinueBecomes ==
  ASSUME NEW b, Continue(b)
  PROVE  \E task, W : Become(b, task, W)
  <1>1. CASE ActSingle(b) \/ ActGroup(b)
    BY <1>1 DEF ActSingle, ActGroup, Perform
  <1>2. CASE TryGroupLock(b) \/ TakeGroupLock(b) \/ PauseMeetsXrun(b) \/ DropLock(b)
    BY <1>2 DEF TryGroupLock, TakeGroupLock, PauseMeetsXrun, DropLock
  <1>3. CASE HwSetState(b) \/ PostPrepare(b)
    BY <1>3 DEF HwSetState, PostPrepare
  <1>4. CASE CommitTransfer(b)
    BY <1>4 DEF CommitTransfer
  <1>5. CASE DrainRound(b) \/ DrainSleep(b) \/ DrainTimeout(b)
    BY <1>5 DEF DrainRound, DrainSleep, DrainTimeout
  <1>6. CASE DrainWake(b)
    BY <1>6 DEF DrainWake
  <1>7. CASE CloseFinish(b)
    BY <1>7 DEF CloseFinish
  <1> QED
    BY <1>1, <1>2, <1>3, <1>4, <1>5, <1>6, <1>7 DEF Continue

LEMMA IoctlBecomes ==
  ASSUME NEW b, NEW s, Ioctl(b, s)
  PROVE  /\ pc[b] = Idle
         /\ pc' = pc \/ \E task, W : Become(b, task, W)
  <1>1. CASE IoctlStart(b, s) \/ IoctlResume(b, s)
    BY <1>1 DEF IoctlStart, IoctlResume, LockGroupFirst, MayCall, Enter
  <1>2. CASE IoctlPause(b, s) \/ IoctlXrun(b, s) \/ IoctlDrop(b, s)
    BY <1>2 DEF IoctlPause, IoctlXrun, IoctlDrop, MayCall, Enter
  <1>3. CASE IoctlHwParams(b, s) \/ IoctlHwFree(b, s) \/ IoctlPrepare(b, s)
    BY <1>3 DEF IoctlHwParams, IoctlHwFree, IoctlPrepare, MayCall, Enter
  <1>4. CASE IoctlTransfer(b, s)
    BY <1>4 DEF IoctlTransfer, UpdateState, MayCall, Enter
  <1>5. CASE IoctlReadStart(b, s) \/ IoctlDrain(b, s) \/ Close(b, s)
    BY <1>5 DEF IoctlReadStart, IoctlDrain, Close, MayCall, Enter
  <1>6. CASE IoctlUnlink(b, s) \/ \E s1 \in Streams : IoctlLink(b, s, s1)
    BY <1>6 DEF IoctlUnlink, IoctlLink, MayCall
  <1> QED
    BY <1>1, <1>2, <1>3, <1>4, <1>5, <1>6 DEF Ioctl

LEMMA DriverBecomes ==
  ASSUME SuspendCard \/ ResumeCard \/ Unplug \/ DriverStep
  PROVE  pc' = pc \/ \E task, W : Become(Driver, task, W)
  BY DEF SuspendCard, ResumeCard, Unplug, DriverStep, SuspendOne, SuspendedAll, DisconnectOne

\* A task changes by a step of its own agent, or as Kin says.
LEMMA OwnStep ==
  ASSUME Types, Next, NEW a \in Agents, a # Driver
  PROVE  \/ Kin(pc[a], pc'[a])
         \/ Continue(a)
         \/ a \in Threads /\ ((\E s \in Streams : Ioctl(a, s)) \/ DrainSignal(a))
         \/ a \in Streams /\ PeriodElapsed(a)
  <1>1. pc' = pc => Kin(pc[a], pc'[a])
    BY DEF Kin
  <1>2. ASSUME NEW b \in Agents, Continue(b), b # a
        PROVE  Kin(pc[a], pc'[a])
    BY <1>2, ContinueBecomes, BecomeKin
  <1>3. ASSUME NEW b \in Threads, NEW s \in Streams, Ioctl(b, s), b # a
        PROVE  Kin(pc[a], pc'[a])
    BY <1>1, <1>3, IoctlBecomes, BecomeKin
  <1>4. ASSUME NEW b \in Threads, DrainSignal(b), b # a
        PROVE  Kin(pc[a], pc'[a])
    BY <1>4, BecomeKin DEF DrainSignal
  <1>5. ASSUME NEW s \in Streams, PeriodElapsed(s), s # a
        PROVE  Kin(pc[a], pc'[a])
    <2>1. \E task, W : Become(s, task, W)
      BY <1>5 DEF PeriodElapsed, UpdateState
    <2> QED
      BY <1>5, <2>1, BecomeKin
  <1>6. CASE SuspendCard \/ ResumeCard \/ Unplug \/ DriverStep
    BY <1>1, <1>6, DriverBecomes, BecomeKin
  <1>7. CASE \E b \in Agents : Continue(b)
    BY <1>2, <1>7
  <1>8. CASE \E b \in Threads, s \in Streams : Ioctl(b, s)
    BY <1>3, <1>8
  <1>9. CASE \E b \in Threads : DrainSignal(b)
    BY <1>4, <1>9
  <1>10. CASE \E s \in Streams : PeriodElapsed(s)
    BY <1>5, <1>10
  <1> QED
    BY <1>6, <1>7, <1>8, <1>9, <1>10 DEF Next

\* Where a call of snd_pcm_action leads its task, and that drain goes on.
LEMMA AfterCallAt ==
  ASSUME Types, NEW a \in Agents, NEW ok, Pending(pc[a])
  PROVE  /\ \/ AfterCall(a, ok) = Idle
            \/ /\ AfterCall(a, ok).op = pc[a].op /\ AfterCall(a, ok).s = pc[a].s
               /\ AfterCall(a, ok).at \notin Waits
         /\ pc[a].op \in {"drop", "close", "drain"} /\ Tail(pc[a].todo) # <<>>
               => AfterCall(a, ok).op = pc[a].op /\ AfterCall(a, ok).at = "self"
         /\ pc[a].op = "drain" /\ Head(pc[a].todo).act = "drain" /\ ok
               => AfterCall(a, ok).op = pc[a].op /\ AfterCall(a, ok).at = "self"
  <1>1. pc[a] \in Task /\ Tail(pc[a].todo) \in Seq(Call) /\ <<>> \in Seq(Call)
    BY TaskFields DEF Types, Forms, FormOf, Pending
  <1>2. PICK t : t = pc[a]
    OBVIOUS
  <1>3. {"self", "work", "each", "close"} \subseteq Places
        /\ {"self", "work", "each", "close"} \cap Waits = {}
    BY DEF Places, Waits
  <1>4. ASSUME NEW at \in {"self", "work", "each", "close"}, NEW todo \in Seq(Call),
               NEW u, u = [t EXCEPT !.at = at, !.todo = todo]
        PROVE  u.op = t.op /\ u.s = t.s /\ u.at = at
    BY <1>1, <1>2, <1>3, <1>4 DEF Task
  <1>5. PICK u : u = AfterCall(a, ok)
    OBVIOUS
  <1>6. \/ u = Idle
        \/ \E at \in {"self", "work", "each", "close"} :
              \/ u = [t EXCEPT !.at = at, !.todo = Tail(t.todo)]
              \/ u = [t EXCEPT !.at = at, !.todo = <<>>]
    BY <1>2, <1>5 DEF AfterCall, AfterCalls
  <1>7. ASSUME u # Idle
        PROVE  u.op = t.op /\ u.s = t.s /\ u.at \notin Waits
    <2>1. PICK at \in {"self", "work", "each", "close"} :
            \/ u = [t EXCEPT !.at = at, !.todo = Tail(t.todo)]
            \/ u = [t EXCEPT !.at = at, !.todo = <<>>]
      BY <1>6, <1>7
    <2>2. Tail(t.todo) \in Seq(Call) /\ at \notin Waits
      BY <1>1, <1>2, <1>3
    <2>3. CASE u = [t EXCEPT !.at = at, !.todo = Tail(t.todo)]
      <3>1. u.op = t.op /\ u.s = t.s /\ u.at = at
        BY <1>1, <1>2, <1>3, <2>2, <2>3, SMTT(30) DEF Task
      <3> QED
        BY <2>2, <3>1
    <2>4. CASE u = [t EXCEPT !.at = at, !.todo = <<>>]
      <3>1. u.op = t.op /\ u.s = t.s /\ u.at = at
        BY <1>1, <1>2, <1>3, <2>4, SMTT(30) DEF Task
      <3> QED
        BY <2>2, <3>1
    <2> QED
      BY <2>1, <2>3, <2>4
  <1>8. CASE \/ t.op \in {"drop", "close", "drain"} /\ Tail(t.todo) # <<>>
             \/ t.op = "drain" /\ Head(t.todo).act = "drain" /\ ok
    <2>1. u = [t EXCEPT !.at = "self", !.todo = Tail(t.todo)]
      BY <1>2, <1>5, <1>8 DEF AfterCall
    <2>2. Tail(t.todo) \in Seq(Call)
      BY <1>1, <1>2
    <2>3. u.op = t.op /\ u.at = "self"
      BY <1>4, <2>1, <2>2, ZenonT(60)
    <2> QED
      BY <1>2, <1>5, <1>7, <2>3
  <1> QED
    BY <1>2, <1>5, <1>7, <1>8

\* The calls of drop and of drain.
LEMMA DropAndDrainCalls ==
  ASSUME Types, NEW a \in Agents, Pending(pc[a]), NEW c, c = Head(pc[a].todo)
  PROVE  /\ c.act = "drain" => a \in Threads /\ pc[a].op = "drain"
         /\ pc[a].op = "drain" => c.act \in {"stop", "drain"} \/ Tail(pc[a].todo) # <<>>
         /\ pc[a].op \in {"drop", "irq"} => c.act = "stop" \/ Tail(pc[a].todo) # <<>>
         /\ pc[a].op = "irq" => a \in Streams
  <1>1. PICK t : t = pc[a]
    OBVIOUS
  <1>2. FormOf(a, t) /\ t # Idle /\ Pending(t)
    BY <1>1, IdleTask DEF Types, Forms, Pending, Locking
  <1>3. /\ \A x : Head(<<x>>) = x /\ <<x>> # <<>>
        /\ \A x, y : Head(<<x, y>>) = x /\ Tail(<<x, y>>) # <<>>
    BY OneCall, TwoCalls
  <1>4. /\ \A act \in Acts : Do(act).act = act
        /\ \A to \in States : Stop(to).act = "stop"
    BY DoTyped, ActNames
  <1>5. /\ {"start", "push", "release", "suspend", "resume", "drain"} \subseteq Acts
        /\ {"SETUP", "XRUN"} \subseteq States
    BY DEF Acts, States
  <1>6. CASE a \in Streams /\ IrqTask(a, t)
    BY <1>1, <1>3, <1>4, <1>5, <1>6 DEF IrqTask, Asks
  <1>7. CASE a = Driver /\ DriverTask(t)
    BY <1>1, <1>2, <1>3, <1>4, <1>5, <1>7 DEF DriverTask, Asks, Works, Pending
  <1>8. CASE a \in Threads /\ ThreadTask(t)
    <2>1. t.op = "drain" => t.todo \in {<<Stop("SETUP")>>, <<Do("drain")>>, <<Do("release"), Do("drain")>>}
      BY <1>2, <1>8 DEF ThreadTask, Asks, Asks2, Pending
    <2>2. t.op = "drop" => t.todo \in {<<Stop("SETUP")>>, <<Do("release"), Stop("SETUP")>>}
      BY <1>2, <1>8 DEF ThreadTask, Works, Asks, Asks2, Pending
    <2>3. t.op # "irq"
      BY <1>8 DEF ThreadTask
    <2>4. t.op # "drain" => t.todo \in {<<Do("start")>>, <<Do("resume")>>, <<Do("push")>>, <<Do("release")>>,
                 <<Stop("XRUN")>>, <<Stop("SETUP")>>, <<Do("release"), Stop("SETUP")>>}
      BY <1>2, <1>8 DEF ThreadTask, Works, Asks, Asks2, Pending, Locking
    <2>5. \A x : t.todo = <<x>> => c = x
      BY <1>1, <1>3
    <2>6. \A x, y : t.todo = <<x, y>> => c = x /\ Tail(t.todo) # <<>>
      BY <1>1, <1>3
    <2>7. /\ Do("start").act = "start" /\ Do("push").act = "push" /\ Do("release").act = "release"
          /\ Do("resume").act = "resume" /\ Do("drain").act = "drain"
          /\ Stop("SETUP").act = "stop" /\ Stop("XRUN").act = "stop"
      BY <1>4, <1>5
    <2>8. t.op = "drain" => c.act \in {"stop", "drain"} \/ Tail(t.todo) # <<>>
      BY <2>1, <2>5, <2>6, <2>7
    <2>9. t.op = "drop" => c.act = "stop" \/ Tail(t.todo) # <<>>
      BY <2>2, <2>5, <2>6, <2>7
    <2>10. t.op # "drain" => c.act # "drain"
      BY <2>4, <2>5, <2>6, <2>7
    <2> QED
      BY <1>1, <1>8, <2>3, <2>8, <2>9, <2>10
  <1> QED
    BY <1>2, <1>6, <1>7, <1>8 DEF FormOf

\* drain_init is refused or done.
LEMMA DrainIsDone ==
  ASSUME NEW a, Perform(a), NEW c, c = Head(pc[a].todo), c.act = "drain", ~Refused(c, Members(a))
  PROVE  \E W : Become(a, AfterCall(a, TRUE), W)
  BY HardwareAssumption DEF Perform, ActionRefused, ActionFailed

\* A drain goes on, or ends by what it was asked to do, or with nothing left to wait for.
LEMMA DrainGoesOn ==
  ASSUME Types, Next, NEW a \in Threads, pc[a].op = "drain"
  PROVE  \/ pc'[a].op = "drain" /\ pc'[a].s = pc[a].s
         \/ Performs(a)
         \/ pc'[a] = Idle /\ (DrainRound(a) \/ DrainWake(a))
  <1>1. a \in Agents /\ a # Driver /\ a \notin Streams /\ Idle.op # "drain"
    BY AgentKinds, IdleTask
  <1>2. PICK t : t = pc[a]
    OBVIOUS
  <1>3. t \in Task /\ FormOf(a, t)
    BY <1>1, <1>2 DEF Types, Forms, FormOf
  <1>4. CASE Kin(pc[a], pc'[a])
    BY <1>4 DEF Kin
  <1>5. CASE ActSingle(a) \/ ActGroup(a)
    BY <1>1, <1>5, ActsPerform
  <1>6. CASE TryGroupLock(a) \/ TakeGroupLock(a)
    BY <1>1, <1>6, LockMoves DEF Relocks
  <1>7. CASE PauseMeetsXrun(a)
    <2>1. PICK f \in grp[t.s] : Become(a, [t EXCEPT !.at = "stuck", !.rest = {f}], {})
      BY <1>2, <1>7 DEF PauseMeetsXrun
    <2>2. PICK u : u = [t EXCEPT !.at = "stuck", !.rest = {f}]
      OBVIOUS
    <2>3. u.op = t.op /\ u.s = t.s
      BY <1>3, <2>2 DEF Task
    <2> QED
      BY <1>1, <1>2, <2>1, <2>2, <2>3 DEF Become
  <1>8. ~DropLock(a) /\ ~HwSetState(a) /\ ~CommitTransfer(a)
    BY DEF DropLock, HwSetState, CommitTransfer
  <1>9. ~PostPrepare(a) /\ ~CloseFinish(a)
    BY <1>1, <1>2, <1>3 DEF PostPrepare, CloseFinish, FormOf, IrqTask, DriverTask, ThreadTask, Asks,
                            Asks2, Works, Locking
  <1>10. ASSUME NEW u, Become(a, u, {}), u.op = "drain" /\ u.s = t.s
         PROVE  pc'[a].op = "drain" /\ pc'[a].s = pc[a].s
    BY <1>1, <1>2, <1>10 DEF Become
  <1>11. CASE DrainRound(a)
    <2>1. \/ Become(a, Idle, {})
          \/ \E m : Become(a, [t EXCEPT !.at = "queued", !.rest = {m}], {})
      BY <1>2, <1>11 DEF DrainRound
    <2>2. ASSUME NEW m, NEW u, u = [t EXCEPT !.at = "queued", !.rest = {m}]
          PROVE  u.op = t.op /\ u.s = t.s
      BY <1>3, <2>2 DEF Task
    <2>3. Become(a, Idle, {}) => pc'[a] = Idle
      BY <1>1 DEF Become
    <2> QED
      BY <1>2, <1>10, <1>11, <2>1, <2>2, <2>3
  <1>12. CASE DrainSleep(a) \/ DrainTimeout(a)
    <2>1. PICK at : Become(a, [t EXCEPT !.at = at], {})
      BY <1>2, <1>12 DEF DrainSleep, DrainTimeout
    <2>2. PICK u : u = [t EXCEPT !.at = at]
      OBVIOUS
    <2>3. u.op = t.op /\ u.s = t.s
      BY <1>3, <2>2 DEF Task
    <2> QED
      BY <1>2, <1>10, <2>1, <2>2, <2>3
  <1>13. CASE DrainSignal(a)
    <2>1. PICK u : Become(a, u, {}) /\ u = [t EXCEPT !.at = "woken", !.rest = {}]
      BY <1>2, <1>13 DEF DrainSignal
    <2>2. u.op = t.op /\ u.s = t.s
      BY <1>3, <2>1 DEF Task
    <2> QED
      BY <1>2, <1>10, <2>1, <2>2
  <1>14. CASE DrainWake(a)
    <2>1. \/ Become(a, Idle, {})
          \/ Become(a, [t EXCEPT !.at = "self", !.rest = {}], {})
          \/ Become(a, [t EXCEPT !.at = "self", !.rest = {}, !.todo = <<Stop("SETUP")>>], {})
      BY <1>2, <1>14 DEF DrainWake
    <2>2. ASSUME NEW u, \/ u = [t EXCEPT !.at = "self", !.rest = {}]
                        \/ u = [t EXCEPT !.at = "self", !.rest = {}, !.todo = <<Stop("SETUP")>>]
          PROVE  u.op = t.op /\ u.s = t.s
      BY <1>3, <2>2 DEF Task
    <2>3. Become(a, Idle, {}) => pc'[a] = Idle
      BY <1>1 DEF Become
    <2> QED
      BY <1>2, <1>10, <1>14, <2>1, <2>2, <2>3
  <1>15. ASSUME NEW s \in Streams, Ioctl(a, s)
         PROVE  FALSE
    BY <1>1, <1>15, IoctlBecomes
  <1>16. CASE Continue(a)
    BY <1>5, <1>6, <1>7, <1>8, <1>9, <1>11, <1>12, <1>14, <1>16 DEF Continue
  <1> QED
    BY <1>1, <1>4, <1>13, <1>15, <1>16, OwnStep


(***************************************************************************)
(* Quiet under the calls of snd_pcm_action.                                *)
(***************************************************************************)
\* A call that is refused although nothing is suspended or unplugged met a
\* member in OPEN, and so a group at rest.
LEMMA RefusedAtRest ==
  ASSUME Types, Sound, SetUp, ~shutdown, OpenRests, NEW s \in Streams,
         NEW c, c.act \in {"stop", "drain"}, Refused(c, grp[s])
  PROVE  \A m \in grp[s] : ~rt[m].dma
  <1>1. PICK f \in grp[s] : ~Pre(c, f, rt[f])
    BY DEF Refused
  <1>2. f \in Streams /\ grp[f] = grp[s]
    BY DEF Types, TypeOK, Sound, Grouped
  <1>3. rt[f].state \notin {"SUSPENDED", "DISCONNECTED"}
    BY <1>2 DEF SetUp, NeverSuspended, Suspended, Configured
  <1>4. rt[f].state = "OPEN"
    BY <1>1, <1>3 DEF Pre
  <1> QED
    BY <1>2, <1>4 DEF OpenRests

LEMMA OutcomeStates ==
  ASSUME Types, NEW c \in Call, c.act = "stop" => c.to \in {"SETUP", "XRUN"},
         c.act \notin {"suspend", "resume"},
         NEW G \in SUBSET Streams, Outcome(c, G), ~Refused(c, G), NEW s \in G
  PROVE  /\ rt[s].state # "OPEN" /\ rt'[s].state # "OPEN"
         /\ c.act # "drain" => rt'[s].state # "DRAINING"
         /\ c.act = "stop" => rt'[s].state \in {"SETUP", "XRUN"}
  <1>1. s \in Streams /\ rt[s] \in Runtime /\ shutdown \in BOOLEAN
    BY DEF Types, TypeOK
  <1>2. /\ c.act = "start" => rt[s].state = "PREPARED"
        /\ c.act = "stop" => rt[s].state # "OPEN"
        /\ c.act = "push" => rt[s].state = "RUNNING"
        /\ c.act = "release" => rt[s].state = "PAUSED"
        /\ c.act = "drain" => rt[s].state # "OPEN"
    BY DEF Refused, Pre
  <1>3. c.act \in {"start", "stop", "push", "release", "drain"}
    BY CallFields DEF Acts
  <1>4. CASE SomeUndone(c, G)
    <2>1. c.act \in {"start", "push", "release"}
      BY <1>3, <1>4, HardwareAssumption DEF SomeUndone
    <2>2. rt'[s].state = rt[s].state
      <3>1. PICK q : q = rt'[s]
        OBVIOUS
      <3>2. q = rt[s] \/ q = Undone(c, s, rt[s])
        BY <1>4, <3>1 DEF SomeUndone
      <3> QED
        BY <1>1, <3>1, <3>2, UndoneFields
    <2> QED
      BY <1>2, <2>1, <2>2
  <1>5. CASE AllDone(c, G)
    <2>1. PICK q : q = rt'[s]
      OBVIOUS
    <2>2. DoneOrNoStart(c, s, q)
      BY <1>5, <2>1 DEF AllDone
    <2>3. PICK r : SameBut(c, r, rt[s]) /\ Result(c, s, r, q)
      BY <1>1, <2>2, DoneOrNoStartFields
    <2>4. q.state = StateAfter(c, s, r) /\ r.state = rt[s].state
      BY <2>3 DEF SameBut, Result
    <2>5. c.act = "drain" => q.state \in {"DRAINING", "SETUP"} \/ q.state = r.state
      BY <2>4 DEF StateAfter, DrainTarget
    <2>6. c.act # "drain" => /\ c.act \in {"start", "release"} => q.state = "RUNNING"
                             /\ c.act = "push" => q.state = "PAUSED"
                             /\ c.act = "stop" => q.state = c.to
      BY <2>4 DEF StateAfter
    <2> QED
      BY <1>2, <1>3, <2>1, <2>4, <2>5, <2>6
  <1> QED
    BY <1>4, <1>5 DEF Outcome

\* A drain that performs a call goes on, unless the call found the group at
\* rest or stopped it.
LEMMA PerformDrains ==
  ASSUME Types, NEW a \in Agents, Performs(a), pc[a].op = "drain",
         NEW c, c = Head(pc[a].todo)
  PROVE  \/ pc'[a].op = "drain" /\ pc'[a].s = pc[a].s
         \/ c.act = "stop"
         \/ c.act = "drain" /\ Refused(c, Members(a))
  <1>1. FormOf(a, pc[a]) /\ Pending(pc[a]) /\ Perform(a)
    BY DEF Types, Forms, Performs
  <1>2. c.act \in {"stop", "drain"} \/ Tail(pc[a].todo) # <<>>
    BY <1>1, DropAndDrainCalls
  <1>3. ASSUME NEW ok, NEW W, Become(a, AfterCall(a, ok), W)
        PROVE  pc'[a] = AfterCall(a, ok)
    BY <1>3 DEF Become
  <1>4. Idle.op # "drain"
    BY IdleTask
  <1>5. CASE c.act = "drain" /\ ~Refused(c, Members(a))
    <2>1. PICK W : Become(a, AfterCall(a, TRUE), W)
      BY <1>1, <1>5, DrainIsDone
    <2>2. pc'[a] = AfterCall(a, TRUE)
      BY <1>3, <2>1
    <2>3. AfterCall(a, TRUE).op = pc[a].op
      BY <1>1, <1>5, AfterCallAt
    <2> QED
      BY <1>1, <1>4, <2>2, <2>3, AfterCallAt
  <1>6. CASE Tail(pc[a].todo) # <<>>
    <2>1. PICK ok : \E W : Become(a, AfterCall(a, ok), W)
      BY <1>1 DEF Perform
    <2>2. pc'[a] = AfterCall(a, ok)
      BY <1>3, <2>1
    <2>3. AfterCall(a, ok).op = pc[a].op
      BY <1>1, <1>6, AfterCallAt
    <2> QED
      BY <1>1, <1>4, <2>2, <2>3, AfterCallAt
  <1> QED
    BY <1>2, <1>5, <1>6

LEMMA PerformQuiet ==
  ASSUME Types, Sound, SetUp, ~shutdown, Attended, OpenRests, OneThread,
         NEW a \in Agents, Performs(a), Healthy'
  PROVE  Attended' /\ OpenRests'
  <1>1. PICK c : c = Head(pc[a].todo)
    OBVIOUS
  <1>2. PICK s \in Streams : s = pc[a].s
    BY <1>1, PerformFacts
  <1>3. PICK G \in SUBSET Streams : G = grp[s] /\ Outcome(c, G)
    BY <1>1, <1>2, PerformFacts
  <1>4. /\ c \in Call /\ Others(a)
        /\ c.act = "stop" => c.to \in {"SETUP", "XRUN"}
        /\ c.act \notin {"suspend", "resume"}
    BY <1>1, PerformFacts DEF SetUp, NeverSuspended
  <1>5. Members(a) = G
    BY <1>2, <1>3, WholeGroup DEF Sound, Performs
  <1>6. grp' = grp /\ ~shutdown'
    BY DEF Performs
  <1>7. /\ \A m \in G : grp[m] = G
        /\ \A m \in Streams \ G : m \notin G /\ grp[m] \subseteq Streams \ G
    BY <1>2, <1>3 DEF Types, TypeOK, Sound, Grouped
  <1>8. \A m \in Streams \ G : rt'[m] = rt[m]
    BY <1>3 DEF Outcome, Unchanged, SomeUndone, AllDone
  <1>9. ASSUME NEW m \in Streams \ G, Waiting(m)
        PROVE  Waiting(m)'
    <2>1. PICK b \in Threads : pc[b].op = "drain" /\ m \in grp[pc[b].s]
      BY <1>9 DEF Waiting
    <2>2. b # a
      BY <1>2, <1>3, <1>9, <2>1
    <2>3. pc'[b].op = pc[b].op /\ pc'[b].s = pc[b].s
      BY <1>4, <2>2, AgentKinds DEF Others, Kin
    <2> QED
      BY <1>6, <2>1, <2>3 DEF Waiting
  <1>10. ASSUME NEW m \in Streams \ G
         PROVE  /\ rt'[m].dma => Runs(m)' \/ Waiting(m)'
                /\ rt'[m].state = "OPEN" => \A n \in grp'[m] : ~rt'[n].dma
    BY <1>6, <1>7, <1>8, <1>9 DEF Attended, OpenRests, Runs
  <1>11. ASSUME NEW m \in G
         PROVE  /\ rt'[m].dma => Runs(m)' \/ Waiting(m)'
                /\ rt'[m].state = "OPEN" => \A n \in grp'[m] : ~rt'[n].dma
    <2>0. m \in Streams
      BY <1>3
    <2>1. CASE Refused(c, G)
      <3>1. rt' = rt
        BY <1>3, <2>1 DEF Outcome, Unchanged
      <3>2. rt'[m].state = "OPEN" => \A n \in grp'[m] : ~rt'[n].dma
        BY <1>6, <2>0, <3>1 DEF OpenRests
      <3>3. ASSUME rt[m].dma, ~Runs(m)
            PROVE  Waiting(m)'
        <4>1. PICK b \in Threads : pc[b].op = "drain" /\ m \in grp[pc[b].s]
          BY <2>0, <3>3 DEF Attended, Waiting
        <4>2. CASE b # a
          <5>1. pc'[b].op = pc[b].op /\ pc'[b].s = pc[b].s
            BY <1>4, <4>2, AgentKinds DEF Others, Kin
          <5> QED
            BY <1>6, <4>1, <5>1 DEF Waiting
        <4>3. CASE b = a
          <5>1. c.act \notin {"stop", "drain"}
            BY <1>2, <1>3, <2>1, <3>3, RefusedAtRest
          <5>2. pc'[a].op = "drain" /\ pc'[a].s = pc[a].s
            BY <1>1, <4>1, <4>3, <5>1, PerformDrains
          <5> QED
            BY <1>6, <4>1, <4>3, <5>2 DEF Waiting
        <4> QED
          BY <4>2, <4>3
      <3> QED
        BY <3>1, <3>2, <3>3 DEF Runs
    <2>2. CASE ~Refused(c, G)
      <3>1. /\ rt'[m].state # "OPEN"
            /\ c.act # "drain" => rt'[m].state # "DRAINING"
        BY <1>3, <1>4, <2>2, OutcomeStates
      <3>2. rt'[m].dma => rt'[m].state \in {"RUNNING", "DRAINING"}
        BY <2>0 DEF Healthy, Good, Running
      <3>3. CASE c.act = "drain"
        <4>1. a \in Threads /\ pc[a].op = "drain"
          BY <1>1, <3>3, DropAndDrainCalls DEF Performs
        <4>2. pc'[a].op = "drain" /\ pc'[a].s = s
          BY <1>1, <1>2, <1>5, <2>2, <3>3, <4>1, PerformDrains
        <4>3. Waiting(m)'
          BY <1>3, <1>6, <4>1, <4>2 DEF Waiting
        <4> QED
          BY <3>1, <4>3
      <3>4. CASE c.act # "drain"
        BY <3>1, <3>2, <3>4 DEF Runs
      <3> QED
        BY <3>3, <3>4
    <2> QED
      BY <2>1, <2>2
  <1> QED
    BY <1>10, <1>11 DEF Attended, OpenRests

(***************************************************************************)
(* Drain waits for a substream, and until none of its group drains.        *)
(***************************************************************************)
LEMMA IdleWith ==
  ASSUME NEW u,
         \/ \E at, op, s, todo, rest :
               u = [Idle EXCEPT !.at = at, !.op = op, !.s = s, !.todo = todo, !.rest = rest]
               /\ at \notin Waits
         \/ \E at, op, s, todo : u = [Idle EXCEPT !.at = at, !.op = op, !.s = s, !.todo = todo]
                                 /\ at \notin Waits
         \/ \E at, op, s, rest : u = [Idle EXCEPT !.at = at, !.op = op, !.s = s, !.rest = rest]
                                 /\ at \notin Waits
         \/ \E at, op, s : u = [Idle EXCEPT !.at = at, !.op = op, !.s = s] /\ at \notin Waits
  PROVE  u.at \notin Waits
  BY IdleTask DEF Task

LEMMA IoctlStaysAwake ==
  ASSUME Types, NEW b \in Threads, NEW s \in Streams, Ioctl(b, s)
  PROVE  pc'[b].at \notin Waits
  <1>1. b \in Agents /\ \A task, W : Become(b, task, W) => pc'[b] = task
    BY AgentKinds DEF Become
  <1>2. {"idle", "self", "wait", "checked", "work", "prepare", "close"} \cap Waits = {}
    BY DEF Waits
  <1>3. ASSUME NEW at \in {"self", "wait", "checked", "work", "close"}, NEW op, NEW todo,
               Enter(b, s, at, op, todo)
        PROVE  pc'[b].at \notin Waits
    <2>1. pc'[b] = [Idle EXCEPT !.at = at, !.op = op, !.s = s, !.todo = todo]
      BY <1>1, <1>3 DEF Enter
    <2> QED
      BY <1>2, <2>1, IdleWith
  <1>4. CASE IoctlStart(b, s) \/ IoctlResume(b, s)
    BY <1>3, <1>4 DEF IoctlStart, IoctlResume, LockGroupFirst
  <1>5. CASE IoctlPause(b, s) \/ IoctlXrun(b, s) \/ IoctlDrop(b, s)
    BY <1>3, <1>5 DEF IoctlPause, IoctlXrun, IoctlDrop
  <1>6. CASE IoctlHwFree(b, s) \/ IoctlReadStart(b, s) \/ IoctlDrain(b, s) \/ Close(b, s)
    BY <1>3, <1>6 DEF IoctlHwFree, IoctlReadStart, IoctlDrain, Close
  <1>7. CASE IoctlHwParams(b, s)
    <2>1. PICK todo : pc'[b] = [Idle EXCEPT !.at = "work", !.op = "hw_params", !.s = s, !.todo = todo]
      BY <1>1, <1>7 DEF IoctlHwParams
    <2> QED
      BY <1>2, <2>1, IdleWith
  <1>8. CASE IoctlPrepare(b, s)
    <2>1. pc'[b] = [Idle EXCEPT !.at = "prepare", !.op = "prepare", !.s = s, !.rest = grp[s]]
      BY <1>1, <1>8 DEF IoctlPrepare
    <2> QED
      BY <1>2, <2>1, IdleWith
  <1>9. CASE IoctlTransfer(b, s)
    <2>1. PICK t : t = Transfer(b, s)
      OBVIOUS
    <2>2. PICK u : u = [t EXCEPT !.at = "self", !.todo = <<Stop("XRUN")>>]
      OBVIOUS
    <2>3. pc'[b] = t \/ pc'[b] = u
      BY <1>1, <1>9, <2>1, <2>2 DEF IoctlTransfer, UpdateState
    <2>4. t \in Task /\ t.at = "work"
      <3>1. PICK op : t = [Idle EXCEPT !.at = "work", !.op = op, !.s = s]
        BY <2>1 DEF Transfer
      <3>2. FormOf(b, t) /\ b \in Agents
        BY <2>1, TransferTask, AgentKinds
      <3>3. t \in Task
        BY <3>2 DEF FormOf
      <3> QED
        BY <3>1, <3>3, IdleTask DEF Task
    <2>5. u.at = "self"
      BY <2>2, <2>4 DEF Task
    <2> QED
      BY <1>2, <2>3, <2>4, <2>5
  <1>10. CASE IoctlUnlink(b, s) \/ \E s1 \in Streams : IoctlLink(b, s, s1)
    <2>1. pc'[b] = Idle
      BY <1>10 DEF IoctlUnlink, IoctlLink, MayCall
    <2> QED
      BY <1>2, <2>1, IdleTask
  <1> QED
    BY <1>4, <1>5, <1>6, <1>7, <1>8, <1>9, <1>10 DEF Ioctl

LEMMA ContinueWaits ==
  ASSUME Types, WaitsForOne, NEW a \in Threads, Continue(a), pc'[a].at \in Waits
  PROVE  pc'[a].rest # {}
  <1>1. PICK t : t = pc[a]
    OBVIOUS
  <1>2. a \in Agents /\ FormOf(a, t) /\ t \in Task /\ Idle.at \notin Waits
    BY <1>1, AgentKinds, IdleTask DEF Types, Forms, FormOf, Waits
  <1>3. \A task, W : Become(a, task, W) => pc'[a] = task
    BY <1>2 DEF Become
  <1>4. {"idle", "self", "stuck", "prepare"} \cap Waits = {}
        /\ Locking \cap Waits = {}
    BY DEF Locking, Waits
  <1>5. CASE ActSingle(a) \/ ActGroup(a)
    <2>1. Performs(a)
      BY <1>2, <1>5, ActsPerform
    <2>2. Pending(pc[a]) /\ \E ok, W : Become(a, AfterCall(a, ok), W)
      BY <2>1 DEF Performs, Perform
    <2>3. PICK ok : pc'[a] = AfterCall(a, ok)
      BY <1>3, <2>2
    <2> QED
      BY <1>2, <2>2, <2>3, AfterCallAt
  <1>6. CASE TryGroupLock(a) \/ TakeGroupLock(a)
    BY <1>2, <1>4, <1>6, LockMoves DEF Relocks
  <1>7. ASSUME NEW u, pc'[a] = u, NEW at, at \notin Waits,
               \/ u = [t EXCEPT !.at = at]
               \/ \E todo : u = [t EXCEPT !.at = at, !.todo = todo]
               \/ \E rest : u = [t EXCEPT !.at = at, !.rest = rest]
               \/ \E rest, todo : u = [t EXCEPT !.at = at, !.rest = rest, !.todo = todo]
        PROVE  FALSE
    BY <1>2, <1>7 DEF Task
  <1>8. CASE PauseMeetsXrun(a)
    <2>1. PICK f : pc'[a] = [t EXCEPT !.at = "stuck", !.rest = {f}]
      BY <1>1, <1>3, <1>8 DEF PauseMeetsXrun
    <2> QED
      BY <1>4, <1>7, <2>1
  <1>9. CASE DropLock(a)
    <2>1. PICK todo : pc'[a] = [t EXCEPT !.at = "self", !.todo = todo]
      BY <1>1, <1>3, <1>9 DEF DropLock
    <2> QED
      BY <1>4, <1>7, <2>1
  <1>10. ~HwSetState(a) /\ ~CloseFinish(a)
    BY <1>2, <1>3 DEF HwSetState, CloseFinish
  <1>11. CASE PostPrepare(a)
    <2>1. \/ pc'[a] = Idle
          \/ \E rest : pc'[a] = [t EXCEPT !.rest = rest]
      BY <1>1, <1>3, <1>11 DEF PostPrepare
    <2>2. t.at = "prepare"
      BY <1>1, <1>11 DEF PostPrepare
    <2>3. ASSUME NEW rest, NEW u, u = [t EXCEPT !.rest = rest]
          PROVE  u.at = t.at
      BY <1>2, <2>3 DEF Task
    <2> QED
      BY <1>2, <1>4, <2>1, <2>2, <2>3
  <1>12. CASE CommitTransfer(a)
    <2>1. \/ pc'[a] = Idle
          \/ pc'[a] = [t EXCEPT !.at = "self", !.todo = <<Do("start")>>]
      BY <1>1, <1>3, <1>12 DEF CommitTransfer
    <2> QED
      BY <1>2, <1>4, <1>7, <2>1
  <1>13. CASE DrainRound(a)
    <2>1. PICK m : pc'[a] = [t EXCEPT !.at = "queued", !.rest = {m}]
      BY <1>1, <1>2, <1>3, <1>13 DEF DrainRound
    <2>2. PICK u : u = [t EXCEPT !.at = "queued", !.rest = {m}]
      OBVIOUS
    <2>3. u.rest = {m}
      BY <1>2, <2>2 DEF Task
    <2> QED
      BY <2>1, <2>2, <2>3
  <1>14. CASE DrainSleep(a) \/ DrainTimeout(a)
    <2>1. PICK at : pc'[a] = [t EXCEPT !.at = at]
      BY <1>1, <1>3, <1>14 DEF DrainSleep, DrainTimeout
    <2>2. PICK u : u = [t EXCEPT !.at = at]
      OBVIOUS
    <2>3. u.rest = t.rest
      BY <1>2, <2>2 DEF Task
    <2>4. t.rest # {}
      BY <1>1, <1>14 DEF DrainSleep, DrainTimeout, WaitsForOne, Waits
    <2> QED
      BY <2>1, <2>2, <2>3, <2>4
  <1>15. CASE DrainWake(a)
    <2>1. \/ pc'[a] = Idle
          \/ pc'[a] = [t EXCEPT !.at = "self", !.rest = {}]
          \/ pc'[a] = [t EXCEPT !.at = "self", !.rest = {}, !.todo = <<Stop("SETUP")>>]
      BY <1>1, <1>3, <1>15 DEF DrainWake
    <2>2. pc'[a] # [t EXCEPT !.at = "self", !.rest = {}]
      BY <1>4, <1>7
    <2>3. pc'[a] # [t EXCEPT !.at = "self", !.rest = {}, !.todo = <<Stop("SETUP")>>]
      BY <1>4, <1>7
    <2> QED
      BY <1>2, <2>1, <2>2, <2>3
  <1> QED
    BY <1>5, <1>6, <1>8, <1>9, <1>10, <1>11, <1>12, <1>13, <1>14, <1>15 DEF Continue

LEMMA WaitsStay ==
  ASSUME Types, WaitsForOne, Next, "signal" \notin Features
  PROVE  WaitsForOne'
  <1>1. ASSUME NEW a \in Threads, pc'[a].at \in Waits
        PROVE  pc'[a].rest # {}
    <2>1. a \in Agents /\ a # Driver /\ a \notin Streams
      BY AgentKinds
    <2>2. CASE Kin(pc[a], pc'[a])
      BY <1>1, <2>2 DEF Kin, WaitsForOne, Waits
    <2>3. CASE Continue(a)
      BY <1>1, <2>3, ContinueWaits
    <2>4. ~DrainSignal(a) /\ \A s \in Streams : ~Ioctl(a, s)
      BY <1>1, IoctlStaysAwake DEF DrainSignal
    <2> QED
      BY <2>1, <2>2, <2>3, <2>4, OwnStep
  <1> QED
    BY <1>1 DEF WaitsForOne

\* A drain goes on as long as a member of its group drains.
LEMMA WaitingLasts ==
  ASSUME Types, SetUp, ~shutdown, WaitsForOne, Next, "signal" \notin Features,
         NEW a \in Threads, pc[a].op = "drain", ~Performs(a), Draining(pc[a].s) # {}
  PROVE  pc'[a].op = "drain" /\ pc'[a].s = pc[a].s
  <1>1. a \in Agents /\ pc[a] \in Task /\ pc[a].s \in Streams /\ Idle.op # "drain"
    BY AgentKinds, TaskFields, IdleTask DEF Types, TypeOK
  <1>2. PICK t : t = pc[a]
    OBVIOUS
  <1>3. \A task, W : Become(a, task, W) => pc'[a] = task
    BY <1>1 DEF Become
  <1>4. ASSUME DrainRound(a), pc'[a] = Idle
        PROVE  FALSE
    <2>1. PICK m : pc'[a] = [t EXCEPT !.at = "queued", !.rest = {m}]
      BY <1>2, <1>3, <1>4 DEF DrainRound
    <2>2. PICK u : u = [t EXCEPT !.at = "queued", !.rest = {m}]
      OBVIOUS
    <2>3. u.at = "queued"
      BY <1>1, <1>2, <2>2 DEF Task
    <2> QED
      BY <1>4, <2>1, <2>2, <2>3, IdleTask
  <1>5. ASSUME DrainWake(a), pc'[a] = Idle
        PROVE  FALSE
    <2>1. t.rest # {} /\ rt[t.s].state # "SUSPENDED"
      BY <1>1, <1>2, <1>5 DEF DrainWake, WaitsForOne, Waits, SetUp, NeverSuspended, Suspended
    <2>2. \/ pc'[a] = [t EXCEPT !.at = "self", !.rest = {}]
          \/ pc'[a] = [t EXCEPT !.at = "self", !.rest = {}, !.todo = <<Stop("SETUP")>>]
      BY <1>2, <1>3, <1>5, <2>1 DEF DrainWake
    <2>3. ASSUME NEW u, \/ u = [t EXCEPT !.at = "self", !.rest = {}]
                        \/ u = [t EXCEPT !.at = "self", !.rest = {}, !.todo = <<Stop("SETUP")>>]
          PROVE  u.at = "self"
      BY <1>1, <1>2, <2>3 DEF Task
    <2> QED
      BY <1>5, <2>2, <2>3, IdleTask
  <1> QED
    BY <1>4, <1>5, DrainGoesOn

(***************************************************************************)
(* Quiet under the other steps.                                            *)
(***************************************************************************)
LEMMA QuietStays ==
  ASSUME TypeOK, Attended, OpenRests, grp' = grp,
         \A s \in Streams : /\ rt'[s].dma => rt[s].dma
                            /\ rt'[s].state = "OPEN" => rt[s].state = "OPEN"
                            /\ rt'[s].dma => /\ Runs(s) => Runs(s)'
                                             /\ Waiting(s) /\ ~Runs(s) => Waiting(s)'
  PROVE  Attended' /\ OpenRests'
  <1>1. \A s \in Streams : grp[s] \subseteq Streams
    BY DEF TypeOK
  <1> QED
    BY <1>1 DEF Attended, OpenRests

\* Others' steps do not end a drain.
LEMMA WaitingStays ==
  ASSUME NEW a \in Agents, Others(a), grp' = grp, a \in Threads => pc[a].op # "drain"
  PROVE  \A s \in Streams : Waiting(s) => Waiting(s)'
  <1>1. \A b \in Threads : pc[b].op = "drain" => pc'[b].op = "drain" /\ pc'[b].s = pc[b].s
    BY AgentKinds DEF Others, Kin
  <1> QED
    BY <1>1 DEF Waiting

\* No thread drains while it is in another call.
LEMMA NobodyWaits ==
  ASSUME OneThread, NEW a \in Threads, pc[a].op # "drain", Attended
  PROVE  \A s \in Streams : rt[s].dma => Runs(s)
  BY DEF OneThread, Attended, Waiting

\* An interrupt, or a step of an ordinary call, and a drain among them.
LEMMA SettlesQuiet ==
  ASSUME Types, Sound, SetUp, ~shutdown, Attended, OpenRests, WaitsForOne, OneThread,
         Next, "signal" \notin Features, NEW a \in Agents, Settles(a), ~Performs(a)
  PROVE  Attended' /\ OpenRests'
  <1>1. grp' = grp /\ Others(a) /\ TypeOK
    BY DEF Settles, Types
  <1>2. ASSUME NEW s \in Streams
        PROVE  /\ rt'[s].dma => rt[s].dma /\ rt'[s].state = rt[s].state
               /\ rt'[s].state = "OPEN" => rt[s].state = "OPEN"
    BY DEF Settles, SameFields, Drained, Sound, Healthy, Good
  <1>3. ASSUME NEW s \in Streams, rt[s].dma, ~Runs(s), Waiting(s)
        PROVE  Waiting(s)'
    <2>1. PICK b \in Threads : pc[b].op = "drain" /\ s \in grp[pc[b].s]
      BY <1>3 DEF Waiting
    <2>2. CASE b # a
      BY <1>1, <2>1, <2>2, AgentKinds DEF Others, Kin, Waiting
    <2>3. CASE b = a
      <3>1. s \in Draining(pc[a].s)
        BY <1>3, <2>1, <2>3 DEF Draining, Sound, Healthy, Good, Running, Runs
      <3>2. pc'[a].op = "drain" /\ pc'[a].s = pc[a].s
        BY <2>1, <2>3, <3>1, WaitingLasts
      <3> QED
        BY <1>1, <2>1, <2>3, <3>2 DEF Waiting
    <2> QED
      BY <2>2, <2>3
  <1> QED
    BY <1>1, <1>2, <1>3, QuietStays DEF Runs

LEMMA HwEndsQuiet ==
  ASSUME Types, Sound, Together, Attended, OpenRests, OneThread,
         NEW a \in Threads, NEW s \in Streams, HwEnds(a, s)
  PROVE  Attended' /\ OpenRests'
  <1>1. /\ grp' = grp /\ pc[a].op # "drain" /\ ~rt[s].dma
        /\ \A m \in Streams : rt'[m].dma = rt[m].dma
        /\ \A m \in Streams \ {s} : rt'[m] = rt[m]
    BY DEF HwEnds, Sets, Sound, Promises, Promise
  <1>2. \A m \in Streams : rt[m].dma => Runs(m)
    BY <1>1, NobodyWaits
  <1>3. Attended'
    BY <1>1, <1>2 DEF Attended, Runs
  <1>4. ASSUME NEW m \in grp[s]
        PROVE  ~rt[m].dma
    <2>1. m \in Streams /\ s \in grp[m]
      BY DEF Types, TypeOK, Sound, Grouped
    <2>2. ~Runs(s)
      BY <1>1 DEF Sound, Healthy, Good, Together, Runs
    <2> QED
      BY <1>2, <2>1, <2>2 DEF Together, RunningTogether, Runs
  <1>5. \A t \in Streams : grp[t] \subseteq Streams
    BY DEF Types, TypeOK
  <1> QED
    BY <1>1, <1>3, <1>4, <1>5 DEF OpenRests

LEMMA PreparesQuiet ==
  ASSUME Types, Sound, Attended, OpenRests, OneThread,
         NEW a \in Threads, NEW m \in Streams, Prepares(a, m)
  PROVE  Attended' /\ OpenRests'
  <1>1. /\ grp' = grp /\ pc[a].op # "drain" /\ ~rt[m].dma /\ TypeOK
        /\ \A n \in Streams : rt'[n].dma = rt[n].dma
        /\ \A n \in Streams \ {m} : rt'[n] = rt[n]
        /\ rt'[m].state # "OPEN"
    BY DEF Prepares, Sets, Sound, Promises, Promise, Types
  <1>2. \A n \in Streams : rt[n].dma => Runs(n)
    BY <1>1, NobodyWaits
  <1>3. Attended'
    BY <1>1, <1>2 DEF Attended, Runs
  <1>4. \A t \in Streams : grp[t] \subseteq Streams
    BY <1>1 DEF TypeOK
  <1> QED
    BY <1>1, <1>3, <1>4 DEF OpenRests

LEMMA ClosesQuiet ==
  ASSUME Types, Sound, Attended, OpenRests, OneThread,
         NEW a \in Threads, NEW s \in Streams, Closes(a, s)
  PROVE  Attended' /\ OpenRests'
  <1>1. Sets(s, NewRuntime) /\ grp' = Unlinked(s) /\ TypeOK /\ pc[a].op # "drain"
    BY DEF Closes, Types
  <1>2. grp'[s] = {s} /\ \A t \in Streams \ {s} : grp'[t] = grp[t] \ {s}
    BY <1>1, UnlinkedGrouped DEF Sound
  <1>3. \A t \in Streams : grp[t] \subseteq Streams
    BY <1>1 DEF TypeOK
  <1>4. ~rt'[s].dma /\ \A t \in Streams \ {s} : rt'[t] = rt[t]
    BY <1>1 DEF Sets, NewRuntime
  <1>5. Attended'
    BY <1>1, <1>4, NobodyWaits DEF Attended, Runs
  <1> QED
    BY <1>2, <1>3, <1>4, <1>5 DEF OpenRests

LEMMA RelinksQuiet ==
  ASSUME Types, Sound, Together, Attended, OpenRests, OneThread,
         NEW a \in Threads, NEW s \in Streams, Relinks(a, s)
  PROVE  Attended' /\ OpenRests'
  <1>1. UNCHANGED <<rt, pc>> /\ TypeOK /\ pc[a].op # "drain"
    BY IdleTask DEF Relinks, Regroups, Types
  <1>2. \A m \in Streams : rt[m].dma => Runs(m)
    BY <1>1, NobodyWaits
  <1>3. Attended'
    BY <1>1, <1>2 DEF Attended, Runs
  <1>4. CASE IoctlUnlink(a, s)
    <2>1. grp'[s] = {s} /\ \A t \in Streams \ {s} : grp'[t] = grp[t] \ {s}
      BY <1>1, <1>4, UnlinkedGrouped DEF Sound, IoctlUnlink
    <2>2. s \in grp[s]
      BY DEF Sound, Grouped
    <2> QED
      BY <1>1, <1>3, <2>1, <2>2 DEF OpenRests
  <1>5. ASSUME NEW s1 \in Streams, IoctlLink(a, s, s1)
        PROVE  OpenRests'
    <2>1. Joined(s, s1) /\ rt[s].state # "OPEN"
      BY <1>5, LinkJoins DEF IoctlLink
    <2>2. ASSUME NEW t \in Streams, rt[t].state = "OPEN", NEW m \in grp'[t]
          PROVE  ~rt[m].dma
      <3>1. CASE t \in grp[s] \cup {s1}
        <4>1. t \in grp[s] /\ m \in grp[s] \cup {s1}
          BY <2>1, <2>2, <3>1 DEF Joined
        <4>2. grp[t] = grp[s]
          BY <4>1 DEF Sound, Grouped
        <4>3. ~Runs(s)
          BY <2>2, <4>1 DEF Together, RunningTogether, Runs
        <4> QED
          BY <1>2, <2>1, <2>2, <4>1, <4>2, <4>3 DEF Joined, OpenRests, Runs
      <3>2. CASE t \notin grp[s] \cup {s1}
        <4>1. m \in grp[t]
          BY <2>1, <2>2, <3>2 DEF Joined
        <4> QED
          BY <2>2, <4>1 DEF OpenRests
      <3> QED
        BY <3>1, <3>2
    <2> QED
      BY <1>1, <2>2 DEF OpenRests
  <1> QED
    BY <1>3, <1>4, <1>5 DEF Relinks

LEMMA StepQuiet ==
  ASSUME Types, Sound, SetUp, Together, Quiet, OneThread,
         {"pm", "unplug", "signal"} \cap Features = {}, Next, Kinds, Healthy'
  PROVE  Quiet'
  <1>1. Attended /\ OpenRests /\ WaitsForOne /\ ~shutdown /\ TypeOK /\ "signal" \notin Features
    BY DEF Quiet, Together, Types
  <1>2. ASSUME NEW a \in Agents, StepOfAgent(a)
        PROVE  Attended' /\ OpenRests'
    <2>1. CASE Performs(a)
      BY <1>1, <2>1, PerformQuiet
    <2>2. CASE Relocks(a)
      <3>1. UNCHANGED <<rt, grp>> /\ \A b \in Agents : pc'[b].op = pc[b].op /\ pc'[b].s = pc[b].s
        BY <2>2 DEF Relocks, Others, Kin
      <3>2. \A s \in Streams : Waiting(s) => Waiting(s)'
        BY <3>1, AgentKinds DEF Waiting
      <3> QED
        BY <1>1, <3>1, <3>2, QuietStays DEF Runs
    <2>3. CASE Settles(a) /\ ~Performs(a)
      BY <1>1, <2>3, SettlesQuiet
    <2> QED
      BY <1>2, <2>1, <2>2, <2>3 DEF StepOfAgent
  <1>3. ASSUME NEW a \in Threads, NEW s \in Streams, StepOfThread(a, s)
        PROVE  Attended' /\ OpenRests'
    <2>1. ASSUME Begins(a, s) \/ HwBegins(a, s)
          PROVE  Attended' /\ OpenRests'
      <3>1. /\ grp' = grp /\ Others(a) /\ pc[a].op # "drain"
            /\ \A m \in Streams : rt'[m].state = rt[m].state /\ rt'[m].dma = rt[m].dma
        BY <2>1, IdleTask DEF Begins, HwBegins, Sets
      <3>2. \A m \in Streams : Waiting(m) => Waiting(m)'
        BY <3>1, AgentKinds, WaitingStays
      <3> QED
        BY <1>1, <3>1, <3>2, QuietStays DEF Runs
    <2> QED
      BY <1>1, <1>3, <2>1, HwEndsQuiet, PreparesQuiet, ClosesQuiet, RelinksQuiet DEF StepOfThread
  <1>4. ASSUME StepOfDriver
        PROVE  Attended' /\ OpenRests'
    <2>1. ~Unplugs /\ ~PowersDown
      BY DEF Unplugs, PowersDown
    <2>2. ASSUME NEW s \in Streams, Disconnects(s)
          PROVE  FALSE
      BY <1>1, <2>2 DEF Disconnects, Sound, Gone
    <2>3. HasVisited \/ PowersUp \/ \E s \in Streams : Visits(s)
      BY <1>4, <2>1, <2>2 DEF StepOfDriver
    <2>4. UNCHANGED <<rt, grp>> /\ (Others(Driver) \/ pc' = pc)
      BY <2>3 DEF HasVisited, PowersUp, Visits
    <2>5. \A s \in Streams : Waiting(s) => Waiting(s)'
      BY <2>4, AgentKinds, WaitingStays DEF Waiting
    <2> QED
      BY <1>1, <2>4, <2>5, QuietStays DEF Runs
  <1>5. WaitsForOne'
    BY <1>1, WaitsStay
  <1> QED
    BY <1>2, <1>3, <1>4, <1>5 DEF Kinds, Quiet

\* A drop or the handling of an underrun is over with a call that stops.
LEMMA EndsByStop ==
  ASSUME Types, Sound, Next, NEW a \in Agents, pc[a].op \in {"irq", "drop"}, pc'[a] = Idle
  PROVE  Performs(a) /\ Head(pc[a].todo).act = "stop"
  <1>1. PICK t : t = pc[a]
    OBVIOUS
  <1>2. FormOf(a, t) /\ t # Idle /\ Idle.op \notin {"irq", "drop"} /\ Idle.at = "idle"
    BY <1>1, IdleTask DEF Types, Forms
  <1>3. \/ a \in Streams /\ t.op = "irq" /\ t.at \in Locking
        \/ a \in Threads /\ t.op = "drop" /\ t.at \in Locking \cup {"checked"}
    BY <1>1, <1>2 DEF FormOf, IrqTask, DriverTask, ThreadTask, Asks, Asks2, Works
  <1>4. a # Driver /\ ~Kin(pc[a], pc'[a])
    BY <1>2, <1>3, AgentKinds DEF Kin
  <1>5. ~DrainSignal(a) /\ ~PeriodElapsed(a) /\ \A s \in Streams : a \in Threads => ~Ioctl(a, s)
    BY <1>1, <1>2, <1>3, IoctlBecomes DEF DrainSignal, PeriodElapsed, Locking
  <1>6. Continue(a)
    BY <1>4, <1>5, OwnStep
  <1>7. ~TryGroupLock(a) /\ ~TakeGroupLock(a)
    BY <1>2, LockMoves DEF Relocks
  <1>8. \A task, W : Become(a, task, W) => task = Idle
    BY DEF Become
  <1>9. ~PauseMeetsXrun(a) /\ ~DropLock(a)
    <2>1. ASSUME NEW rest
          PROVE  [t EXCEPT !.at = "stuck", !.rest = rest] # Idle
      BY <1>2, <2>1 DEF FormOf, Task
    <2>2. ASSUME NEW todo
          PROVE  [t EXCEPT !.at = "self", !.todo = todo] # Idle
      BY <1>2, <2>2 DEF FormOf, Task
    <2> QED
      BY <1>1, <1>8, <2>1, <2>2 DEF PauseMeetsXrun, DropLock
  <1>10. ~HwSetState(a) /\ ~PostPrepare(a) /\ ~CommitTransfer(a) /\ ~CloseFinish(a)
    BY <1>1, <1>3 DEF HwSetState, PostPrepare, CommitTransfer, CloseFinish, Locking
  <1>11. ~DrainRound(a) /\ ~DrainSleep(a) /\ ~DrainTimeout(a) /\ ~DrainWake(a)
    BY <1>1, <1>3 DEF DrainRound, DrainSleep, DrainTimeout, DrainWake, Locking
  <1>12. Performs(a)
    BY <1>6, <1>7, <1>9, <1>10, <1>11, ActsPerform DEF Continue
  <1>13. Tail(pc[a].todo) = <<>> \/ t.op # "drop"
    <2>1. Pending(pc[a]) /\ \E ok, W : Become(a, AfterCall(a, ok), W)
      BY <1>12 DEF Performs, Perform
    <2>2. PICK ok : AfterCall(a, ok) = Idle
      BY <1>8, <2>1
    <2> QED
      BY <1>1, <1>2, <2>1, <2>2, AfterCallAt
  <1>14. PICK c : c = Head(pc[a].todo)
    OBVIOUS
  <1>15. c.act = "stop" \/ (Tail(pc[a].todo) # <<>> /\ a \notin Streams)
    BY <1>12, <1>14, DropAndDrainCalls, PerformFacts DEF Performs
  <1> QED
    BY <1>1, <1>3, <1>12, <1>13, <1>14, <1>15

LEMMA StopQuiets ==
  ASSUME Types, Sound, SetUp, Together, Quiet, Next, Healthy',
         NEW a \in Agents, pc[a].op \in {"irq", "drop"}, pc'[a] = Idle
  PROVE  \A m \in grp[pc[a].s] : ~rt'[m].dma
  <1>1. PICK c : c = Head(pc[a].todo)
    OBVIOUS
  <1>2. Performs(a) /\ c.act = "stop"
    BY <1>1, EndsByStop
  <1>3. PICK s \in Streams : s = pc[a].s
    BY <1>1, <1>2, PerformFacts
  <1>4. PICK G \in SUBSET Streams : G = grp[s] /\ Outcome(c, G)
    BY <1>1, <1>2, <1>3, PerformFacts
  <1>5. c \in Call /\ c.to \in {"SETUP", "XRUN"}
    BY <1>1, <1>2, PerformFacts
  <1>6. CASE Refused(c, G)
    <2>1. rt' = rt
      BY <1>4, <1>6 DEF Outcome, Unchanged
    <2>2. \A m \in G : ~rt[m].dma
      BY <1>2, <1>4, <1>6, RefusedAtRest DEF Together, Quiet
    <2> QED
      BY <1>3, <1>4, <2>1, <2>2
  <1>7. CASE ~Refused(c, G)
    <2>1. \A m \in G : m \in Streams /\ rt'[m].state \in {"SETUP", "XRUN"}
      BY <1>2, <1>4, <1>5, <1>7, OutcomeStates
    <2>2. \A m \in G : ~rt'[m].dma
      BY <2>1 DEF Healthy, Good, Running
    <2> QED
      BY <1>3, <1>4, <2>2
  <1> QED
    BY <1>6, <1>7

LEMMA AlwaysQuiet ==
  ASSUME OneThread, {"pm", "unplug", "signal"} \cap Features = {}
  PROVE  Spec => [](Types /\ Sound /\ SetUp /\ Together /\ Quiet)
  <1>1. "pm" \notin Features /\ {"pm", "unplug"} \cap Features = {}
    OBVIOUS
  <1>2. Init => Together /\ Quiet
    <2>1. ASSUME Init
          PROVE  /\ ~shutdown
                 /\ \A s \in Streams : /\ rt[s].state = "OPEN" /\ ~rt[s].dma
                                       /\ grp[s] = {s}
                 /\ \A a \in Threads : pc[a] = Idle
      BY <2>1, AgentKinds DEF Init, NewRuntime
    <2>2. Idle.at \notin Waits
      BY IdleTask DEF Waits
    <2> QED
      BY <2>1, <2>2
      DEF Together, RunningTogether, Quiet, Attended, OpenRests, WaitsForOne
  <1>3. ASSUME Types, Sound, SetUp, Together, Quiet, Next, Sound'
        PROVE  Together' /\ Quiet'
    <2>1. Kinds /\ Healthy'
      BY <1>3, NextKinds DEF Sound
    <2> QED
      BY <1>1, <1>3, <2>1, StepTogether, StepQuiet
  <1>4. ASSUME Together, Quiet, UNCHANGED vars
        PROVE  Together' /\ Quiet'
    BY <1>4 DEF vars, Together, RunningTogether, Quiet, Attended, Runs, Waiting, OpenRests, WaitsForOne
  <1>5. /\ Types /\ Sound /\ SetUp /\ Sound' /\ Together /\ Quiet /\ [Next]_vars
           => (Together /\ Quiet)'
    BY <1>3, <1>4
  <1> QED
    BY <1>1, <1>2, <1>5, AlwaysSetUp, PTL DEF Spec

(***************************************************************************)
(* When the stop that follows an underrun or overrun is over, no member of *)
(* the group moves, although the interrupt handler drops its lock to take  *)
(* the group's and others may start, pause or drain in between: for an     *)
(* application with one thread that no signal interrupts, on a card that   *)
(* stays powered and plugged in.                                           *)
(***************************************************************************)
THEOREM UnderrunQuietsGroup ==
  ASSUME OneThread, {"pm", "unplug", "signal"} \cap Features = {}
  PROVE  Spec => XrunQuiets
  <1>1. ASSUME Types, Sound, SetUp, Together, Quiet, Sound', [Next]_vars
        PROVE  [\A a \in Agents :
                  pc[a].op = "irq" /\ Ends(a) => \A m \in grp[pc[a].s] : ~rt'[m].dma]_vars
    <2>1. ASSUME Next, NEW a \in Agents, pc[a].op = "irq", Ends(a)
          PROVE  \A m \in grp[pc[a].s] : ~rt'[m].dma
      BY <1>1, <2>1, StopQuiets DEF Ends, Sound
    <2> QED
      BY <1>1, <2>1
  <1>2. Types /\ Sound /\ SetUp /\ Together /\ Quiet /\ Sound' /\ [Next]_vars
           => [\A a \in Agents :
                 pc[a].op = "irq" /\ Ends(a) => \A m \in grp[pc[a].s] : ~rt'[m].dma]_vars
    BY <1>1
  <1> QED
    BY <1>2, AlwaysQuiet, PTL DEF Spec, XrunQuiets

(***************************************************************************)
(* When snd_pcm_drop returns, no member of the group moves any more, under *)
(* the same assumptions.                                                   *)
(***************************************************************************)
THEOREM DropQuietsGroup ==
  ASSUME OneThread, {"pm", "unplug", "signal"} \cap Features = {}
  PROVE  Spec => DropQuiets
  <1>1. ASSUME Types, Sound, SetUp, Together, Quiet, Sound', [Next]_vars
        PROVE  [\A a \in Threads :
                  pc[a].op = "drop" /\ Ends(a) => \A m \in grp[pc[a].s] : ~rt'[m].dma]_vars
    <2>1. ASSUME Next, NEW a \in Threads, pc[a].op = "drop", Ends(a)
          PROVE  \A m \in grp[pc[a].s] : ~rt'[m].dma
      BY <1>1, <2>1, AgentKinds, StopQuiets DEF Ends, Sound
    <2> QED
      BY <1>1, <2>1
  <1>2. Types /\ Sound /\ SetUp /\ Together /\ Quiet /\ Sound' /\ [Next]_vars
           => [\A a \in Threads :
                 pc[a].op = "drop" /\ Ends(a) => \A m \in grp[pc[a].s] : ~rt'[m].dma]_vars
    BY <1>1
  <1> QED
    BY <1>2, AlwaysQuiet, PTL DEF Spec, DropQuiets

===========================================================================
