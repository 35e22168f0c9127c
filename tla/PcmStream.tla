---------------------------- MODULE PcmStream ----------------------------
(***************************************************************************)
(* The control state of a set of PCM substreams of one card                *)
(* (sound/core/pcm_native.c, with the interrupt half of pcm_lib.c and the  *)
(* disconnect handler of pcm.c).                                           *)
(*                                                                         *)
(* A substream has a state (SNDRV_PCM_STATE_xxx), a hardware DMA engine    *)
(* that its driver's trigger callback turns on and off, and a fill level.  *)
(* Substreams may be linked into a group; starting, stopping, pausing,     *)
(* suspending, resuming or draining one member applies to all of them      *)
(* under the group lock, which is taken by try-lock while the substream's  *)
(* own lock is held, and otherwise only after that lock was dropped.       *)
(*                                                                         *)
(* Data are abstracted to the number of frames in the ring buffer; the     *)
(* pointer arithmetic behind that number is module PcmRing.                *)
(***************************************************************************)
EXTENDS Naturals, Sequences, FiniteSets

CONSTANTS
    Streams,       \* the substreams of the card
    Playback,      \* those of them that play (the others capture)
    Threads,       \* application threads that issue ioctls
    Driver,        \* the task that suspends, resumes or unplugs the card
    BufferSize,    \* frames in the ring buffer of each substream
    HasPause,      \* the hardware has SNDRV_PCM_INFO_PAUSE
    HasResume,     \* the hardware has SNDRV_PCM_INFO_RESUME
    Fallible,      \* the actions whose trigger callback may report an error
    Features       \* which optional parts of the environment take part

AllFeatures == {"link", "pm", "unplug", "close", "signal", "anyresume"}

ASSUME StreamsAssumption  == IsFiniteSet(Streams) /\ Streams # {} /\ Playback \subseteq Streams
ASSUME AgentsAssumption   == /\ Threads \cap Streams = {}
                             /\ Driver \notin Threads \cup Streams
ASSUME BufferAssumption   == BufferSize \in Nat \ {0}
ASSUME HardwareAssumption == /\ HasPause \in BOOLEAN /\ HasResume \in BOOLEAN
                             /\ Fallible \subseteq {"start", "push", "release", "resume"}
                             /\ Features \subseteq AllFeatures

VARIABLES
    rt,        \* rt[s]: the runtime of substream s and the hardware behind it
    grp,       \* grp[s]: the substreams linked with s, s included
    pc,        \* pc[a]: where agent a is in the call it is executing
    power,     \* the card's power state
    shutdown   \* card->shutdown: the card is being disconnected

vars == <<rt, grp, pc, power, shutdown>>

(***************************************************************************)
(* An agent is an application thread, the driver task, or the interrupt    *)
(* handler of a substream, which is named by the substream itself.         *)
(***************************************************************************)
Agents == Threads \cup {Driver} \cup Streams

States == {"OPEN", "SETUP", "PREPARED", "RUNNING", "XRUN", "DRAINING",
           "PAUSED", "SUSPENDED", "DISCONNECTED"}

Acts == {"start", "stop", "push", "release", "suspend", "resume", "drain"}

Do(act)   == [act |-> act, to |-> "RUNNING"]
Stop(to)  == [act |-> "stop", to |-> to]
Call      == [act : Acts, to : States]

\* state and suspended_state are the fields of that name; dma says that the
\* hardware moves; level is what snd_pcm_playback_hw_avail (playback) or
\* snd_pcm_capture_avail (capture) returns; setup says that ops->hw_params
\* succeeded and ops->hw_free has not been called since.
Runtime == [state : States, suspended_state : States, dma : BOOLEAN,
            level : 0..BufferSize, setup : BOOLEAN]

Places == {"idle",
           "self",    \* holds the substream's own lock
           "wait",    \* holds no spin lock, wants the group lock
           "group",   \* holds the group lock
           "both",    \* holds the group lock and the substream's own lock
           "stuck",   \* holds the group lock and waits for it
           "checked", \* passed an unlocked or released check, before the lock
           "work",    \* inside hw_params, hw_free or a transfer, unlocked
           "prepare", \* inside snd_pcm_prepare, with link_rwsem read-held
           "queued", "asleep", "woken", "timedout",  \* drain's wait
           "each",    \* walks over all substreams of the card
           "close"}   \* the tail of snd_pcm_release_substream

Ops == {"none", "irq", "start", "pause", "drop", "close", "drain", "xrun", "resume",
        "hw_params", "hw_free", "prepare", "write", "read", "suspend", "unplug"}

Task == [at : Places, op : Ops, s : Streams, todo : Seq(Call), rest : SUBSET Streams]

Idle == [at |-> "idle", op |-> "none", s |-> CHOOSE s \in Streams : TRUE,
         todo |-> <<>>, rest |-> {}]

(***************************************************************************)
(* Helpers on one substream.                                               *)
(***************************************************************************)
Linked(s) == grp[s] # {s}

RunningForgetsDraining(s, r) == r.state = "RUNNING"      \* a faulty variant

Running(s, r) == r.state = "RUNNING" \/ (r.state = "DRAINING" /\ s \in Playback)

\* The position reported by ops->pointer moved by n frames: the fill level
\* falls for playback and rises for capture, up to an underrun or overrun.
Advance(s, r, n) ==
    [r EXCEPT !.level = IF s \in Playback THEN (IF r.level > n THEN r.level - n ELSE 0)
                        ELSE (IF r.level + n < BufferSize THEN r.level + n ELSE BufferSize)]

\* avail >= stop_threshold, with the default stop_threshold = buffer_size.
Exhausted(s, r) == r.level = IF s \in Playback THEN 0 ELSE BufferSize

(***************************************************************************)
(* The action_ops tables: pre_action, do_action and post_action of each.   *)
(***************************************************************************)
Pre(c, s, r) ==
    CASE c.act = "start"   -> r.state = "PREPARED" /\ (s \in Playback => r.level > 0)
      [] c.act = "stop"    -> r.state # "OPEN"
      [] c.act = "push"    -> HasPause /\ r.state = "RUNNING"
      [] c.act = "release" -> HasPause /\ r.state = "PAUSED"
      [] c.act = "suspend" -> r.state # "SUSPENDED"
      [] c.act = "resume"  -> HasResume
      [] c.act = "drain"   -> r.state \notin {"OPEN", "DISCONNECTED", "SUSPENDED"}

\* Does do_action call the driver's trigger callback?
Triggers(c, s, r) ==
    CASE c.act \in {"start", "push", "release"} -> TRUE
      [] c.act \in {"stop", "suspend"} -> Running(s, r)
      [] c.act = "resume" -> Running(s, [r EXCEPT !.state = r.suspended_state])
      [] c.act = "drain"  -> IF s \in Playback THEN r.state = "PREPARED" /\ r.level > 0
                             ELSE r.state = "RUNNING"

\* The command it passes: TRUE for START, PAUSE_RELEASE and RESUME, FALSE for
\* STOP, PAUSE_PUSH and SUSPEND.
TriggerOn(c, s) == c.act \in {"start", "release", "resume"} \/ (c.act = "drain" /\ s \in Playback)

DmaAfter(c, s, r) == IF Triggers(c, s, r) THEN TriggerOn(c, s) ELSE r.dma

DrainTarget(s, r) ==
    IF s \in Playback
    THEN CASE r.state = "PREPARED" /\ r.level > 0 -> "DRAINING"
           [] r.state = "RUNNING" -> "DRAINING"
           [] r.state = "XRUN"    -> "SETUP"
           [] OTHER               -> r.state
    ELSE IF r.state = "RUNNING" THEN (IF r.level > 0 THEN "DRAINING" ELSE "SETUP")
    ELSE r.state

StateAfter(c, s, r) ==
    CASE c.act \in {"start", "release"} -> "RUNNING"
      [] c.act = "stop"    -> c.to
      [] c.act = "push"    -> "PAUSED"
      [] c.act = "suspend" -> "SUSPENDED"
      [] c.act = "resume"  -> r.suspended_state
      [] c.act = "drain"   -> DrainTarget(s, r)

Done(c, s, r) ==
    [r EXCEPT !.state = StateAfter(c, s, r),
              !.dma = DmaAfter(c, s, r) /\ ~shutdown,
              !.suspended_state = IF c.act = "suspend" THEN r.state ELSE @]

UndoneNothing(c, s, r) ==                                \* a faulty variant
    [r EXCEPT !.dma = DmaAfter(c, s, r)]

\* do_action followed by undo_action, which for resume only acts when the
\* substream is already running.
Undone(c, s, r) ==
    [r EXCEPT !.dma = (IF Triggers(c, s, r) /\ (c.act = "resume" => Running(s, r))
                       THEN ~TriggerOn(c, s) ELSE DmaAfter(c, s, r)) /\ ~shutdown]

(***************************************************************************)
(* snd_pcm_action_single and snd_pcm_action_group, applied to the          *)
(* substreams G.  A trigger failure on f leaves any subset of the others   *)
(* triggered and undone, which is what the list order of the group decides.*)
(***************************************************************************)
Refused(c, G) == \E s \in G : ~Pre(c, s, rt[s])

ActionRefused(c, G) == Refused(c, G) /\ rt' = rt

\* frames[s]: how far the hardware had moved when do_pause looked.
Looked(c, s, r, n) == IF c.act = "push" /\ n > 0 /\ r.dma THEN Advance(s, r, n) ELSE r

ActionDone(c, G, frames) ==
    /\ ~Refused(c, G)
    /\ rt' = [s \in Streams |-> IF s \in G THEN Done(c, s, Looked(c, s, rt[s], frames[s]))
                                ELSE rt[s]]

\* The position that a failing push has looked at before is left as it was: an interrupt
\* of that member just before the action has the same effect.
ActionFailed(c, G) ==
    /\ ~Refused(c, G)
    /\ c.act \in Fallible
    /\ \E f \in G : /\ Triggers(c, f, rt[f])
                    /\ \E D \in SUBSET (G \ {f}) :
                         rt' = [s \in Streams |-> IF s \in D THEN Undone(c, s, rt[s]) ELSE rt[s]]

\* drain's do_action ignores what the trigger callback returns.
DrainWithoutStart(c, G) ==
    /\ ~Refused(c, G)
    /\ c.act = "drain" /\ "start" \in Fallible
    /\ \E F \in (SUBSET {s \in G : s \in Playback /\ Triggers(c, s, rt[s])}) \ {{}} :
         rt' = [s \in Streams |-> IF s \notin G THEN rt[s]
                                  ELSE IF s \in F THEN [Done(c, s, rt[s]) EXCEPT !.dma = rt[s].dma]
                                  ELSE Done(c, s, rt[s])]

\* wake_up(&runtime->sleep) in the post_action
WokenBy(c, G) == IF c.act \in {"stop", "push", "suspend"} THEN G ELSE {}

(***************************************************************************)
(* Locks.  A stream lock is the substream's own spin lock, taken with      *)
(* snd_pcm_link_rwlock read-held.                                          *)
(***************************************************************************)
Holds(a, s) == pc[a].s = s /\ pc[a].at \in {"self", "both"}

HoldsGroup(a, s) == pc[a].s \in grp[s] /\ pc[a].at \in {"group", "both", "stuck"}

\* A stuck agent waits with every member locked but the one it stops.
SelfFree(s) == \A a \in Agents : /\ ~Holds(a, s)
                                 /\ ~(pc[a].at = "stuck" /\ s \in grp[pc[a].s] \ pc[a].rest)

GroupFree(s) == \A a \in Agents : ~HoldsGroup(a, s)

\* snd_pcm_link and snd_pcm_unlink take both link locks for writing.
LinksFree == \A a \in Agents :
                pc[a].at \notin {"self", "wait", "group", "both", "stuck", "prepare"}

(***************************************************************************)
(* Agent a moves on to task; the drainers that sleep on a substream of W   *)
(* are woken.  A wake-up finds only those that are asleep already.         *)
(***************************************************************************)
Become(a, task, W) ==
    pc' = [b \in Agents |->
             IF b = a THEN task
             ELSE IF pc[b].at = "asleep" /\ pc[b].rest \subseteq W
                  THEN [pc[b] EXCEPT !.at = "woken"]
             ELSE pc[b]]

\* What follows once the calls of a task are done, or one that counts failed.
AfterCalls(a) ==
    CASE pc[a].op = "suspend" -> [pc[a] EXCEPT !.at = "each", !.todo = <<>>]
      [] pc[a].op = "close"   -> [pc[a] EXCEPT !.at = "close", !.todo = <<>>]
      [] OTHER -> Idle

\* After one call of snd_pcm_action: drop ignores results, drain goes on to
\* wait unless drain_init was refused, a transfer goes on after an xrun.
AfterCall(a, ok) ==
    LET more == Tail(pc[a].todo)
    IN  CASE pc[a].op \in {"drop", "close"} /\ more # <<>> ->
                [pc[a] EXCEPT !.at = "self", !.todo = more]
          [] pc[a].op = "drain" /\ (more # <<>> \/ (ok /\ Head(pc[a].todo).act = "drain")) ->
                [pc[a] EXCEPT !.at = "self", !.todo = more]
          [] pc[a].op \in {"write", "read"} /\ Head(pc[a].todo) = Stop("XRUN") ->
                [pc[a] EXCEPT !.at = "work", !.todo = more]
          [] OTHER -> AfterCalls(a)

MembersAlone(a) == {pc[a].s}                             \* a faulty variant

Members(a) == IF pc[a].at = "self" THEN {pc[a].s} ELSE grp[pc[a].s]

\* The positions do_pause may find: the hardware moved by some frames, but a
\* linked substream did not run into an underrun (see PauseMeetsXrun).
Positions(c, G) ==
    {frames \in [G -> IF c.act = "push" THEN 0..BufferSize ELSE {0}] :
        Cardinality(G) > 1 =>
            \A s \in G : Looked(c, s, rt[s], frames[s]) # rt[s]
                           => ~Exhausted(s, Looked(c, s, rt[s], frames[s]))}

Perform(a) ==
    LET c == Head(pc[a].todo)
        G == Members(a)
    IN  \/ ActionRefused(c, G) /\ Become(a, AfterCall(a, FALSE), {})
        \/ ActionFailed(c, G)  /\ Become(a, AfterCall(a, FALSE), {})
        \/ /\ \/ \E frames \in Positions(c, G) : ActionDone(c, G, frames)
              \/ DrainWithoutStart(c, G)
           /\ Become(a, AfterCall(a, TRUE), WokenBy(c, G))

(***************************************************************************)
(* snd_pcm_action: the substream's own lock is held.                       *)
(***************************************************************************)
ActSingle(a) ==
    /\ pc[a].at = "self" /\ pc[a].todo # <<>>
    /\ ~Linked(pc[a].s)
    /\ Perform(a)
    /\ UNCHANGED <<grp, power, shutdown>>

TryGroupLock(a) ==
    /\ pc[a].at = "self" /\ pc[a].todo # <<>>
    /\ Linked(pc[a].s)
    /\ Become(a, [pc[a] EXCEPT !.at = IF GroupFree(pc[a].s) THEN "both" ELSE "wait"], {})
    /\ UNCHANGED <<rt, grp, power, shutdown>>

TakeGroupLock(a) ==
    /\ pc[a].at = "wait"
    /\ GroupFree(pc[a].s)
    /\ Become(a, [pc[a] EXCEPT !.at = "group"], {})
    /\ UNCHANGED <<rt, grp, power, shutdown>>

\* All members' own locks are taken, one after the other, before do_action.
OthersFree(a) == \A b \in Agents \ {a} : \A s \in grp[pc[a].s] : ~Holds(b, s)

ActGroup(a) ==
    /\ pc[a].at \in {"group", "both"}
    /\ OthersFree(a)
    /\ Perform(a)
    /\ UNCHANGED <<grp, power, shutdown>>

\* do_pause finds an underrun on a linked substream: snd_pcm_stop is called
\* with the group lock held, fails to take it, and waits for it for ever.
PauseMeetsXrun(a) ==
    /\ pc[a].at \in {"group", "both"}
    /\ OthersFree(a)
    /\ Head(pc[a].todo) = Do("push")
    /\ ~Refused(Do("push"), grp[pc[a].s])
    /\ \E f \in grp[pc[a].s] : rt[f].dma /\ Become(a, [pc[a] EXCEPT !.at = "stuck", !.rest = {f}], {})
    /\ UNCHANGED <<rt, grp, power, shutdown>>

(***************************************************************************)
(* snd_pcm_period_elapsed, called by the interrupt handler of s after the  *)
(* hardware moved by n frames, and the hw_ptr update at the head of a read *)
(* or a write.                                                             *)
(***************************************************************************)
\* snd_pcm_update_state with the lock of s held by agent a, whose other
\* business afterwards is task.
UpdateState(a, s, n, task, onXrun) ==
    LET r == Advance(s, rt[s], n)
    IN  \/ /\ r.state = "DRAINING" /\ Exhausted(s, r)
           /\ rt' = [rt EXCEPT ![s] = Done(Stop("SETUP"), s, r)]
           /\ Become(a, task, {s})
        \/ /\ r.state = "RUNNING" /\ Exhausted(s, r)
           /\ rt' = [rt EXCEPT ![s] = r]
           /\ Become(a, onXrun, {})
        \/ /\ ~Exhausted(s, r)
           /\ rt' = [rt EXCEPT ![s] = r]
           /\ Become(a, task, {s})

XrunTaskForgotten(s) == Idle                             \* a faulty variant

\* xrun: stop the group.
XrunTask(s) == [Idle EXCEPT !.at = "self", !.op = "irq", !.s = s, !.todo = <<Stop("XRUN")>>]

PeriodElapsed(s) ==
    /\ pc[s] = Idle
    /\ SelfFree(s)
    /\ rt[s].dma /\ Running(s, rt[s])
    /\ \E n \in 1..BufferSize : UpdateState(s, s, n, Idle, XrunTask(s))
    /\ UNCHANGED <<grp, power, shutdown>>

(***************************************************************************)
(* The ioctls.  A thread issues one at a time, and none while the card is  *)
(* powered down (tasks are frozen) or disconnected (its file operations    *)
(* have been replaced).                                                    *)
(***************************************************************************)
MayCall(a) == pc[a] = Idle /\ power = "D0" /\ ~shutdown

Enter(a, s, at, op, todo) ==
    Become(a, [Idle EXCEPT !.at = at, !.op = op, !.s = s, !.todo = todo], {})

\* snd_pcm_action_lock_irq takes the group lock first when s is linked.
LockGroupFirst(a, s, op, c) ==
    /\ MayCall(a)
    /\ \/ Linked(s) /\ Enter(a, s, "wait", op, <<c>>)
       \/ ~Linked(s) /\ SelfFree(s) /\ Enter(a, s, "self", op, <<c>>)
    /\ UNCHANGED <<rt, grp, power, shutdown>>

IoctlStart(a, s)  == LockGroupFirst(a, s, "start", Do("start"))

\* Applications resume a substream they found SUSPENDED; pre_resume itself does
\* not ask for that ("anyresume").
IoctlResume(a, s) ==
    /\ rt[s].state = "SUSPENDED" \/ "anyresume" \in Features
    /\ LockGroupFirst(a, s, "resume", Do("resume"))


IoctlPause(a, s) ==
    /\ MayCall(a) /\ SelfFree(s)
    /\ \E act \in {"push", "release"} : Enter(a, s, "self", "pause", <<Do(act)>>)
    /\ UNCHANGED <<rt, grp, power, shutdown>>

IoctlXrun(a, s) ==
    /\ MayCall(a) /\ SelfFree(s)
    /\ rt[s].state = "RUNNING"
    /\ Enter(a, s, "self", "xrun", <<Stop("XRUN")>>)
    /\ UNCHANGED <<rt, grp, power, shutdown>>

\* The state is read before the lock is taken.
IoctlDrop(a, s) ==
    /\ MayCall(a)
    /\ rt[s].state \notin {"OPEN", "DISCONNECTED", "SUSPENDED"}
    /\ Enter(a, s, "checked", "drop", <<>>)
    /\ UNCHANGED <<rt, grp, power, shutdown>>

DropCallsEither(s) ==                                    \* a faulty variant
    IF rt[s].state = "PAUSED" THEN <<Do("release")>> ELSE <<Stop("SETUP")>>

DropCalls(s) ==
    (IF rt[s].state = "PAUSED" THEN <<Do("release")>> ELSE <<>>) \o <<Stop("SETUP")>>

DropLock(a) ==
    /\ pc[a].at = "checked" /\ pc[a].op \in {"drop", "close"}
    /\ SelfFree(pc[a].s)
    /\ Become(a, [pc[a] EXCEPT !.at = "self", !.todo = DropCalls(pc[a].s)], {})
    /\ UNCHANGED <<rt, grp, power, shutdown>>

\* set_state keeps DISCONNECTED.
SetState(r, to) == [r EXCEPT !.state = IF r.state = "DISCONNECTED" THEN r.state ELSE to]

\* snd_pcm_hw_params and snd_pcm_hw_free check the state under the lock, work
\* without it (ops->hw_params, ops->hw_free), and set the state under it again.
MayFreeAlways(s) == TRUE                                 \* a faulty variant

MayFree(s) == rt[s].state \in {"SETUP", "PREPARED"}

IoctlHwParams(a, s) ==
    /\ MayCall(a) /\ SelfFree(s)
    /\ rt[s].state \in {"OPEN", "SETUP", "PREPARED"}
    /\ \E ok \in BOOLEAN :
         /\ rt' = [rt EXCEPT ![s].setup = ok \/ rt[s].setup]
         /\ Become(a, [Idle EXCEPT !.at = "work", !.op = "hw_params", !.s = s,
                                   !.todo = IF ok THEN <<Stop("SETUP")>> ELSE <<Stop("OPEN")>>], {})
    /\ UNCHANGED <<grp, power, shutdown>>

IoctlHwFree(a, s) ==
    /\ MayCall(a) /\ SelfFree(s) /\ MayFree(s)
    /\ rt' = [rt EXCEPT ![s].setup = FALSE]
    /\ Enter(a, s, "work", "hw_free", <<Stop("OPEN")>>)
    /\ UNCHANGED <<grp, power, shutdown>>

\* The final set_state; a failed hw_params calls ops->hw_free after it.
HwSetState(a) ==
    LET s == pc[a].s  to == Head(pc[a].todo).to
    IN  /\ pc[a].at = "work" /\ pc[a].op \in {"hw_params", "hw_free"}
        /\ SelfFree(s)
        /\ rt' = [rt EXCEPT ![s] = [SetState(rt[s], to) EXCEPT !.setup = rt[s].setup /\ to # "OPEN"]]
        /\ Become(a, Idle, {})
        /\ UNCHANGED <<grp, power, shutdown>>

\* snd_pcm_prepare: no spin lock is held while pre_prepare looks at the
\* members and ops->prepare and the position reset run on them.  ops->prepare
\* does not fail.
MayPrepareIdle(m) == ~Running(m, rt[m])                  \* a faulty variant

MayPrepare(m) == rt[m].state \notin {"OPEN", "DISCONNECTED"} /\ ~Running(m, rt[m])

IoctlPrepare(a, s) ==
    /\ MayCall(a)
    /\ \A m \in grp[s] : MayPrepare(m)
    /\ Become(a, [Idle EXCEPT !.at = "prepare", !.op = "prepare", !.s = s, !.rest = grp[s]], {})
    /\ UNCHANGED <<rt, grp, power, shutdown>>

\* post_prepare of member m: appl_ptr := hw_ptr, then set_state(PREPARED).
PostPrepare(a) ==
    /\ pc[a].at = "prepare"
    /\ \E m \in pc[a].rest :
         /\ SelfFree(m)
         /\ rt' = [rt EXCEPT ![m] = [SetState(rt[m], "PREPARED") EXCEPT !.level = 0]]
         /\ Become(a, IF pc[a].rest = {m} THEN Idle
                      ELSE [pc[a] EXCEPT !.rest = @ \ {m}], {})
    /\ UNCHANGED <<grp, power, shutdown>>

(***************************************************************************)
(* One round of snd_pcm_lib_write1 and snd_pcm_lib_read1 (the waiting for  *)
(* room or data is in PcmRing): check and look at the position, transfer   *)
(* one frame unlocked, lock again, and commit it unless the state is now   *)
(* XRUN or SUSPENDED.                                                      *)
(***************************************************************************)
Transfer(a, s) == [Idle EXCEPT !.at = "work", !.op = IF s \in Playback THEN "write" ELSE "read",
                               !.s = s]

IoctlTransfer(a, s) ==
    /\ MayCall(a) /\ SelfFree(s)
    /\ IF s \in Playback
       THEN rt[s].state \in {"PREPARED", "RUNNING", "PAUSED"} /\ rt[s].level < BufferSize
       ELSE rt[s].state \in {"DRAINING", "RUNNING", "PAUSED"} /\ rt[s].level > 0
    /\ \/ rt' = rt /\ Become(a, Transfer(a, s), {})
       \/ /\ rt[s].state = "RUNNING" /\ rt[s].dma
          /\ \E n \in 1..BufferSize :
               UpdateState(a, s, n, Transfer(a, s),
                           [Transfer(a, s) EXCEPT !.at = "self", !.todo = <<Stop("XRUN")>>])
    /\ UNCHANGED <<grp, power, shutdown>>

\* The first write starts a prepared playback substream (start_threshold is 1).
CommitTransfer(a) ==
    LET s == pc[a].s  r == rt[s]
        moved == [r EXCEPT !.level = IF s \in Playback THEN (IF @ < BufferSize THEN @ + 1 ELSE @)
                                     ELSE (IF @ > 0 THEN @ - 1 ELSE @)]
    IN  /\ pc[a].at = "work" /\ pc[a].op \in {"write", "read"}
        /\ SelfFree(s)
        /\ IF r.state \in {"XRUN", "SUSPENDED"}
           THEN rt' = rt /\ Become(a, Idle, {})
           ELSE /\ rt' = [rt EXCEPT ![s] = moved]
                /\ Become(a, IF s \in Playback /\ r.state = "PREPARED"
                             THEN [pc[a] EXCEPT !.at = "self", !.todo = <<Do("start")>>]
                             ELSE Idle, {})
        /\ UNCHANGED <<grp, power, shutdown>>

\* A read starts a prepared capture substream, and ends the draining of an
\* empty one.
IoctlReadStart(a, s) ==
    /\ MayCall(a) /\ SelfFree(s) /\ s \notin Playback
    /\ \/ rt[s].state = "PREPARED" /\ Enter(a, s, "self", "read", <<Do("start")>>)
       \/ /\ rt[s].state = "DRAINING" /\ rt[s].level = 0
          /\ Enter(a, s, "self", "read", <<Stop("SETUP")>>)
    /\ UNCHANGED <<rt, grp, power, shutdown>>

(***************************************************************************)
(* snd_pcm_drain.                                                          *)
(***************************************************************************)
IoctlDrain(a, s) ==
    /\ MayCall(a) /\ SelfFree(s)
    /\ rt[s].state # "OPEN"
    /\ Enter(a, s, "self", "drain",
             (IF rt[s].state = "PAUSED" THEN <<Do("release")>> ELSE <<>>) \o <<Do("drain")>>)
    /\ UNCHANGED <<rt, grp, power, shutdown>>

Draining(s) == {t \in grp[s] : t \in Playback /\ rt[t].state = "DRAINING"}

\* The loop of drain, with the lock of the substream held: finished, left by
\* a non-blocking caller or for a pending signal, or queued on a member that
\* still drains, and unlocked.
DrainRound(a) ==
    /\ pc[a].at = "self" /\ pc[a].op = "drain" /\ pc[a].todo = <<>>
    /\ \/ (Draining(pc[a].s) = {} \/ "signal" \in Features) /\ Become(a, Idle, {})
       \/ \E t \in Draining(pc[a].s) : Become(a, [pc[a] EXCEPT !.at = "queued", !.rest = {t}], {})
    /\ UNCHANGED <<rt, grp, power, shutdown>>

\* schedule_timeout_interruptible sets the task state; no wake-up counted before.
DrainSleep(a) ==
    /\ pc[a].at = "queued"
    /\ Become(a, [pc[a] EXCEPT !.at = "asleep"], {})
    /\ UNCHANGED <<rt, grp, power, shutdown>>

DrainTimeoutNever(a) == FALSE /\ UNCHANGED vars          \* a faulty variant

\* The timeout, two periods and at least ten seconds, is long: it runs out
\* only when no more interrupt comes for the substream that is waited for.
DrainTimeout(a) ==
    /\ pc[a].at = "asleep"
    /\ \A t \in pc[a].rest : ~rt[t].dma
    /\ Become(a, [pc[a] EXCEPT !.at = "timedout"], {})
    /\ UNCHANGED <<rt, grp, power, shutdown>>

\* A signal; rest = {} marks the interrupted wait.
DrainSignal(a) ==
    /\ "signal" \in Features
    /\ pc[a].at = "asleep"
    /\ Become(a, [pc[a] EXCEPT !.at = "woken", !.rest = {}], {})
    /\ UNCHANGED <<rt, grp, power, shutdown>>

DrainWake(a) ==
    /\ pc[a].at \in {"woken", "timedout"} /\ power = "D0"
    /\ SelfFree(pc[a].s)
    /\ CASE shutdown \/ pc[a].rest = {} -> Become(a, Idle, {})
         [] ~shutdown /\ pc[a].at = "woken" /\ pc[a].rest # {} ->
                Become(a, [pc[a] EXCEPT !.at = "self", !.rest = {}], {})
         [] ~shutdown /\ pc[a].at = "timedout" ->
                IF rt[pc[a].s].state = "SUSPENDED" THEN Become(a, Idle, {})
                ELSE Become(a, [pc[a] EXCEPT !.at = "self", !.rest = {},
                                             !.todo = <<Stop("SETUP")>>], {})
    /\ UNCHANGED <<rt, grp, power, shutdown>>

(***************************************************************************)
(* Linking, and the open and close of a substream.                         *)
(***************************************************************************)
IoctlLink(a, s, s1) ==
    /\ "link" \in Features
    /\ MayCall(a) /\ LinksFree
    /\ s # s1 /\ ~Linked(s1)
    /\ rt[s].state # "OPEN" /\ rt[s].state = rt[s1].state
    /\ grp' = [t \in Streams |-> IF t \in grp[s] \cup {s1} THEN grp[s] \cup {s1} ELSE grp[t]]
    /\ UNCHANGED <<rt, pc, power, shutdown>>

Unlinked(s) == [t \in Streams |-> IF t = s THEN {s} ELSE grp[t] \ {s}]

IoctlUnlink(a, s) ==
    /\ "link" \in Features
    /\ MayCall(a) /\ LinksFree
    /\ Linked(s)
    /\ grp' = Unlinked(s)
    /\ UNCHANGED <<rt, pc, power, shutdown>>

\* snd_pcm_release: a drop, which the states it refuses skip, ...
Close(a, s) ==
    /\ "close" \in Features
    /\ pc[a] = Idle /\ power = "D0"
    /\ Enter(a, s, IF rt[s].state \in {"OPEN", "DISCONNECTED", "SUSPENDED"} THEN "close"
                   ELSE "checked", "close", <<>>)
    /\ UNCHANGED <<rt, grp, power, shutdown>>

NewRuntime == [state |-> "OPEN", suspended_state |-> "OPEN", dma |-> FALSE,
               level |-> 0, setup |-> FALSE]

\* ... then ops->hw_free, ops->close and the unlink; opening the substream
\* again gives it a new runtime.
CloseFinish(a) ==
    /\ pc[a].at = "close"
    /\ LinksFree
    /\ rt' = [rt EXCEPT ![pc[a].s] = NewRuntime]
    /\ grp' = Unlinked(pc[a].s)
    /\ Become(a, Idle, {})
    /\ UNCHANGED <<power, shutdown>>

(***************************************************************************)
(* Power management and unplugging.  The driver's suspend handler runs     *)
(* while the tasks are frozen outside the kernel; unplugging is not        *)
(* synchronised with anything.                                             *)
(***************************************************************************)
SuspendCard ==
    /\ "pm" \in Features /\ power = "D0" /\ ~shutdown
    /\ pc[Driver] = Idle
    /\ \A a \in Threads : pc[a] = Idle
    /\ power' = "D3hot"
    /\ Become(Driver, [Idle EXCEPT !.at = "each", !.op = "suspend", !.rest = Streams], {})
    /\ UNCHANGED <<rt, grp, shutdown>>

\* snd_pcm_suspend_all ignores -EBUSY, the only error pre_suspend has.
SuspendOne ==
    /\ pc[Driver].at = "each" /\ pc[Driver].op = "suspend"
    /\ \E s \in pc[Driver].rest :
         /\ SelfFree(s)
         /\ Become(Driver, [pc[Driver] EXCEPT !.at = "self", !.s = s, !.rest = @ \ {s},
                                              !.todo = <<Do("suspend")>>], {})
    /\ UNCHANGED <<rt, grp, power, shutdown>>

SuspendedAll ==
    /\ pc[Driver].at = "each" /\ pc[Driver].op = "suspend" /\ pc[Driver].rest = {}
    /\ Become(Driver, Idle, {})
    /\ UNCHANGED <<rt, grp, power, shutdown>>

ResumeCard ==
    /\ power = "D3hot" /\ pc[Driver] = Idle
    /\ power' = "D0"
    /\ UNCHANGED <<rt, grp, pc, shutdown>>

\* snd_card_disconnect: new calls are refused from here on, and then
\* snd_pcm_dev_disconnect visits every substream.  The hardware is gone.
Unplug ==
    /\ "unplug" \in Features /\ ~shutdown /\ power = "D0"
    /\ pc[Driver] = Idle
    /\ shutdown' = TRUE
    /\ rt' = [s \in Streams |-> [rt[s] EXCEPT !.dma = FALSE]]
    /\ Become(Driver, [Idle EXCEPT !.at = "each", !.op = "unplug", !.rest = Streams], {})
    /\ UNCHANGED <<grp, power>>

DisconnectOne ==
    /\ pc[Driver].at = "each" /\ pc[Driver].op = "unplug"
    /\ \E s \in pc[Driver].rest :
         /\ SelfFree(s)
         /\ rt' = [rt EXCEPT ![s].state = "DISCONNECTED"]
         /\ Become(Driver, IF pc[Driver].rest = {s} THEN Idle
                           ELSE [pc[Driver] EXCEPT !.rest = @ \ {s}], {s})
    /\ UNCHANGED <<grp, power, shutdown>>

---------------------------------------------------------------------------
Init ==
    /\ rt = [s \in Streams |-> NewRuntime]
    /\ grp = [s \in Streams |-> {s}]
    /\ pc = [a \in Agents |-> Idle]
    /\ power = "D0"
    /\ shutdown = FALSE

\* A step inside a call that has begun, by its agent.
Continue(a) ==
    \/ ActSingle(a) \/ TryGroupLock(a) \/ TakeGroupLock(a) \/ ActGroup(a) \/ PauseMeetsXrun(a)
    \/ DropLock(a) \/ HwSetState(a) \/ PostPrepare(a) \/ CommitTransfer(a)
    \/ DrainRound(a) \/ DrainSleep(a) \/ DrainTimeout(a) \/ DrainWake(a)
    \/ CloseFinish(a)

\* A new call by an application thread.
Ioctl(a, s) ==
    \/ IoctlStart(a, s) \/ IoctlResume(a, s) \/ IoctlPause(a, s) \/ IoctlXrun(a, s)
    \/ IoctlDrop(a, s) \/ IoctlHwParams(a, s) \/ IoctlHwFree(a, s) \/ IoctlPrepare(a, s)
    \/ IoctlTransfer(a, s) \/ IoctlReadStart(a, s) \/ IoctlDrain(a, s)
    \/ IoctlUnlink(a, s) \/ Close(a, s)
    \/ \E s1 \in Streams : IoctlLink(a, s, s1)

DriverStep == SuspendOne \/ SuspendedAll \/ DisconnectOne

Next ==
    \/ \E a \in Agents : Continue(a)
    \/ \E a \in Threads, s \in Streams : Ioctl(a, s)
    \/ \E a \in Threads : DrainSignal(a)
    \/ \E s \in Streams : PeriodElapsed(s)
    \/ SuspendCard \/ ResumeCard \/ Unplug \/ DriverStep

Spec == Init /\ [][Next]_vars

\* A call that holds or awaits a lock goes on, the kernel's spin locks serve
\* their waiters in order, and running hardware interrupts.
Fairness ==
    /\ \A a \in Agents : WF_vars(Continue(a)) /\ SF_vars(TakeGroupLock(a))
    /\ \A s \in Streams : WF_vars(PeriodElapsed(s))

FairSpec == Spec /\ Fairness

---------------------------------------------------------------------------
TypeOK ==
    /\ rt \in [Streams -> Runtime]
    /\ grp \in [Streams -> SUBSET Streams]
    /\ pc \in [Agents -> Task]
    /\ power \in {"D0", "D3hot"}
    /\ shutdown \in BOOLEAN

(***************************************************************************)
(* Safety.                                                                 *)
(***************************************************************************)
\* The hardware of a substream moves only in a running state, and moves in
\* state RUNNING unless it was unplugged: every start, stop, pause, failed
\* start with its undo, drain and prepare keeps trigger and state in step.
HardwareFollowsState ==
    \A s \in Streams : /\ rt[s].dma => Running(s, rt[s])
                       /\ rt[s].state = "RUNNING" => rt[s].dma \/ shutdown

\* The hardware moves only between ops->hw_params and ops->hw_free: it never
\* touches a buffer that is not there.
DmaHasBuffer == \A s \in Streams : rt[s].dma => rt[s].setup

BeingSetUp(s) == \E a \in Threads : /\ pc[a].at = "work" /\ pc[a].s = s
                                    /\ pc[a].op \in {"hw_params", "hw_free"}

\* A substream that is ready to start, started or paused has been set up
\* (outside the window in which hw_params or hw_free works unlocked).
PreparedIsSetUp ==
    \A s \in Streams : rt[s].state \in {"PREPARED", "RUNNING", "DRAINING", "PAUSED"}
                         => rt[s].setup \/ BeingSetUp(s)

\* Linked substreams run together: start, stop and pause reach all or none.
RunningTogether ==
    \A s \in Streams : rt[s].state = "RUNNING" => \A m \in grp[s] : rt[m].state = "RUNNING"

\* Once snd_pcm_suspend_all is through, and until the card is powered up again, no
\* hardware moves.  SNDRV_PCM_STATE_SUSPENDED means "hardware is suspended" at any
\* time, also when the resume of a group has failed half way.
SuspendQuiets ==
    /\ power = "D3hot" /\ pc[Driver] = Idle => \A s \in Streams : ~rt[s].dma
    /\ \A s \in Streams : rt[s].state = "SUSPENDED" => ~rt[s].dma

\* No agent waits for a group lock that it holds itself.
NeverStuck == \A a \in Agents : pc[a].at # "stuck"

(***************************************************************************)
(* Action properties.                                                      *)
(***************************************************************************)
Ends(a) == pc[a] # Idle /\ pc'[a] = Idle

\* When the stop that follows an underrun or overrun is over, no member of
\* the group moves, whatever happened while its locks were dropped.
XrunQuiets ==
    [][\A a \in Agents :
         pc[a].op = "irq" /\ Ends(a) => \A m \in grp[pc[a].s] : ~rt'[m].dma]_vars

\* When drop returns, no member of the group moves any more.
DropQuiets ==
    [][\A a \in Threads :
         pc[a].op = "drop" /\ Ends(a) => \A m \in grp[pc[a].s] : ~rt'[m].dma]_vars

\* A substream enters XRUN only when its group was running.
XrunIsFromRunning ==
    [][\A s \in Streams : rt[s].state # "XRUN" /\ rt'[s].state = "XRUN"
                            => \E m \in grp[s] : rt[m].state = "RUNNING"]_vars

\* drain's timeout runs out only for a substream that still drains.
DrainTimeoutIsTrouble ==
    [][\A a \in Threads : pc[a].at = "asleep" /\ pc'[a].at = "timedout"
                            => \E t \in pc[a].rest : rt[t].state = "DRAINING"]_vars

\* A drain that ran to its end leaves every member in SETUP, or in DRAINING
\* if it captures.
DrainEndsInSetup ==
    [][\A a \in Threads :
         pc[a].op = "drain" /\ pc[a].todo = <<>> /\ Ends(a)
           => \A m \in grp[pc[a].s] : \/ rt'[m].state = "SETUP"
                                      \/ m \notin Playback /\ rt'[m].state = "DRAINING"]_vars

\* A substream of an unplugged card stays DISCONNECTED until it is closed.
DisconnectedIsFinal ==
    [][\A s \in Streams : rt[s].state = "DISCONNECTED" /\ rt'[s] # NewRuntime
                            => rt'[s].state = "DISCONNECTED"]_vars

(***************************************************************************)
(* Liveness, under FairSpec.                                               *)
(***************************************************************************)
\* Every drain returns, although a wake-up may come before it sleeps.
DrainReturns == \A a \in Threads : pc[a].op = "drain" ~> pc[a].op # "drain"

\* An underrun or overrun does not go unnoticed: the substream is stopped, or
\* the application catches up.
XrunIsHandled ==
    \A s \in Streams : rt[s].state = "RUNNING" /\ Exhausted(s, rt[s])
                         ~> rt[s].state # "RUNNING" \/ ~Exhausted(s, rt[s])

===========================================================================
