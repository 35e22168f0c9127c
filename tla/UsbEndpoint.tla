---------------------------- MODULE UsbEndpoint ----------------------------
(***************************************************************************)
(* The endpoints of a USB audio card: src/sound/usb/endpoint.c with the    *)
(* PCM callbacks of src/sound/usb/pcm.c that start and stop them and the   *)
(* disconnect handler of src/sound/usb/card.c.                             *)
(*                                                                         *)
(* A playback substream feeds the data endpoint "out".  It may be clocked  *)
(* by a sync endpoint: "fb", or, with implicit feedback, the data endpoint *)
(* "in" of the capture substream, which the two then share.  A thread per  *)
(* substream makes PCM calls, the host controller gives URBs back one      *)
(* after the other, and the hub unplugs the device.  What a call or a      *)
(* handler has still to do is its todo list; between two entries everyone  *)
(* else may run.                                                           *)
(***************************************************************************)
EXTENDS Naturals, Sequences, FiniteSets

CONSTANTS
    Feedback,    \* how playback is clocked: "none", "explicit", "implicit"
    NUrbs,       \* the number of URBs of an endpoint (nurbs)
    AtOnce,      \* how many substreams may be open at the same time
    Faulty,      \* endpoints whose URBs the host may refuse
    Unplug,      \* is the device unplugged: "never", "at rest", "any time"
    Grow,        \* may hw_params replace the buffer of a configured substream?
    None

ASSUME SizesAssumption ==
    /\ Feedback \subseteq {"none", "explicit", "implicit"} /\ Grow \in BOOLEAN
    /\ Unplug \in {"never", "at rest", "any time"}
    /\ NUrbs \in Nat /\ NUrbs >= 2
    /\ AtOnce \in Nat

VARIABLES
    ep,     \* the endpoints
    urb,    \* the place of each URB
    subs,   \* the substreams
    chip,   \* the card: gone, shutdown, the endpoints freed
    todo,   \* what every agent has still to do
    irq     \* the completion handler

vars == <<ep, urb, subs, chip, todo, irq>>

Urbs == 1..NUrbs
Subs == {"play", "capt"}
Eps == {"out", "fb", "in"}
Agents == Subs \cup {"hcd", "hub"}

DataEp(s) == IF s = "play" THEN "out" ELSE "in"
IsOut(e) == e = "out"

\* snd_usb_endpoint_implicit_feedback_sink
Sink(e) == chip.feedback = "implicit" /\ e = "out"

\* The endpoints of a substream in the order in which they are stopped.
EpsOf(s, feedback) ==
    IF s = "capt" THEN <<"in">>
    ELSE CASE feedback = "none"     -> <<"out">>
           [] feedback = "explicit" -> <<"fb", "out">>
           [] feedback = "implicit" -> <<"in", "out">>

Places == {"none", "idle", "bus", "unlinked", "handler"}
OnBus(e) == {u \in Urbs : urb[e][u] \in {"bus", "unlinked"}}
AtHost(e) == {u \in Urbs : urb[e][u] \in {"bus", "unlinked", "handler"}}

UrbSeq == [u \in Urbs |-> u]

-----------------------------------------------------------------------------
(* The todo lists *)

Op(name, e, s, v) == [op |-> name, ep |-> e, s |-> s, v |-> v]

Due(a, name) == todo[a] # <<>> /\ Head(todo[a]).op = name

\* Agent a has done its first entry, and what it called for comes first.
Then(a, calls) == todo' = [todo EXCEPT ![a] = calls \o Tail(@)]

\* Agent a leaves the rest of its call by an error path.
Abort(a, calls) == todo' = [todo EXCEPT ![a] = calls]

ForEach(es, name, s) == [i \in 1..Len(es) |-> Op(name, es[i], s, 0)]

\* stop_endpoints
StopEndpoints(s, wait) ==
    ForEach(subs[s].eps, "stop", s)
        \o IF wait THEN ForEach(subs[s].eps, "sync", s) ELSE <<>>

\* start_endpoints: the data endpoint comes first.
StartEndpoints(s) ==
    LET n == Len(subs[s].eps)
    IN  [i \in 1..n |-> Op("start", subs[s].eps[n + 1 - i], s, 0)]

\* The part of deactivate_urbs before the loop over the URBs.
Deactivated(r) == [r EXCEPT !.running = FALSE, !.ready = <<>>, !.packets = 0]

Muted(r) == [r EXCEPT !.retire = FALSE, !.prepare = FALSE]

-----------------------------------------------------------------------------
(* Starting and stopping an endpoint *)

\* start_endpoints for one endpoint, up to the increment of use_count in
\* snd_usb_endpoint_start, which is a read and a write.
StartEp(a) ==
    /\ Due(a, "start")
    /\ LET o == Head(todo[a]) IN
       IF o.ep \in subs[o.s].started
       THEN Then(a, <<>>) /\ UNCHANGED <<ep, subs>>
       ELSE /\ ep' = [ep EXCEPT ![o.ep] =
                        IF o.ep = DataEp(o.s) THEN [@ EXCEPT !.user = o.s]
                                              ELSE [@ EXCEPT !.slave = "out"]]
            /\ IF chip.shutdown
               THEN Abort(a, <<Op("end", None, o.s, subs[o.s].state)>>) /\ UNCHANGED subs
               ELSE /\ subs' = [subs EXCEPT ![o.s].started = @ \cup {o.ep}]
                    /\ Then(a, <<Op("inc", o.ep, o.s, ep[o.ep].use + 1)>>)
    /\ UNCHANGED <<urb, chip, irq>>

\* The first user goes on to submit; a trigger must not sleep in between.
IncUse(a) ==
    /\ Due(a, "inc")
    /\ LET o == Head(todo[a]) IN
       IF o.v # 1
       THEN Then(a, <<>>) /\ ep' = [ep EXCEPT ![o.ep].use = o.v]
       ELSE /\ ep' = [ep EXCEPT ![o.ep] =
                        [(IF chip.shutdown THEN @ ELSE Deactivated(@)) EXCEPT !.use = 1]]
            /\ Then(a, (IF chip.shutdown THEN <<>> ELSE <<Op("unlink", o.ep, o.s, 0)>>)
                       \o (IF o.s = "play" THEN <<Op("wait", o.ep, o.s, 0)>> ELSE <<>>)
                       \o <<Op("go", o.ep, o.s, 0)>>)
    /\ UNCHANGED <<urb, subs, chip, irq>>

\* The masks are reset, and a sink only lists its URBs as ready.
Go(a) ==
    /\ Due(a, "go")
    /\ LET o == Head(todo[a])
           r == ep[o.ep] IN
       /\ ep' = [ep EXCEPT ![o.ep] =
                    [r EXCEPT !.active = {}, !.unlinked = {}, !.running = TRUE,
                              !.ready = IF Sink(o.ep) THEN @ \o UrbSeq ELSE @]]
       /\ Then(a, IF Sink(o.ep) THEN <<>>
                  ELSE [i \in 1..(2 * NUrbs) |->
                          Op(IF i % 2 = 1 THEN "submit" ELSE "bit", o.ep, o.s, (i + 1) \div 2)])
    /\ UNCHANGED <<urb, subs, chip, irq>>

\* usb_submit_urb refuses an URB that the host still has, and any URB once
\* the device is gone.
Accepts(e, u, place) == ~chip.gone /\ urb[e][u] = place
Refuses(e, u, place) == chip.gone \/ urb[e][u] # place \/ e \in Faulty

Submit(a) ==
    /\ Due(a, "submit")
    /\ LET o == Head(todo[a]) IN
       /\ Accepts(o.ep, o.v, "idle")
       /\ urb' = [urb EXCEPT ![o.ep][o.v] = "bus"]
       /\ Then(a, <<>>)
    /\ UNCHANGED <<ep, subs, chip, irq>>

\* The error path of snd_usb_endpoint_start.
SubmitFails(a) ==
    /\ Due(a, "submit")
    /\ LET o == Head(todo[a])
           r == ep[o.ep] IN
       /\ Refuses(o.ep, o.v, "idle")
       /\ ep' = [ep EXCEPT ![o.ep] =
                    [(IF chip.shutdown THEN [r EXCEPT !.running = FALSE]
                                       ELSE Deactivated(r)) EXCEPT !.use = @ - 1]]
       /\ subs' = [subs EXCEPT ![o.s].started = @ \ {o.ep}]
       /\ Abort(a, (IF chip.shutdown THEN <<>> ELSE <<Op("unlink", o.ep, o.s, 0)>>)
                   \o <<Op("end", None, o.s, subs[o.s].state)>>)
    /\ UNCHANGED <<urb, chip, irq>>

\* set_bit in active_mask, after the submission.
SetBit(a) ==
    /\ Due(a, "bit")
    /\ LET o == Head(todo[a]) IN ep' = [ep EXCEPT ![o.ep].active = @ \cup {o.v}]
    /\ Then(a, <<>>)
    /\ UNCHANGED <<urb, subs, chip, irq>>

\* stop_endpoints for one endpoint, up to the decrement of use_count in
\* snd_usb_endpoint_stop.
StopEp(a) ==
    /\ Due(a, "stop")
    /\ LET o == Head(todo[a]) IN
       /\ subs' = [subs EXCEPT ![o.s].started = @ \ {o.ep}]
       /\ Then(a, IF o.ep \in subs[o.s].started /\ ep[o.ep].use # 0
                  THEN <<Op("dec", o.ep, o.s, ep[o.ep].use - 1)>> ELSE <<>>)
    /\ UNCHANGED <<ep, urb, chip, irq>>

\* The last user stops the URBs.
DecUse(a) ==
    /\ Due(a, "dec")
    /\ LET o == Head(todo[a])
           stops == o.v = 0 /\ ~chip.shutdown IN
       /\ ep' = [ep EXCEPT ![o.ep] =
                    [(IF stops THEN Deactivated(@) ELSE @) EXCEPT !.use = o.v]]
       /\ Then(a, (IF stops THEN <<Op("unlink", o.ep, o.s, 0)>> ELSE <<>>)
                  \o IF o.v = 0 THEN <<Op("detach", o.ep, o.s, 0), Op("mute", o.ep, o.s, 0)>>
                                ELSE <<>>)
    /\ UNCHANGED <<urb, subs, chip, irq>>

\* The loop of deactivate_urbs: usb_unlink_urb does nothing to an URB in its handler.
Unlink(a) ==
    /\ Due(a, "unlink")
    /\ LET e == Head(todo[a]).ep
           hit == ep[e].active \ ep[e].unlinked IN
       /\ ep' = [ep EXCEPT ![e].unlinked = @ \cup hit]
       /\ urb' = [urb EXCEPT ![e] = [u \in Urbs |->
                    IF u \in hit /\ @[u] = "bus" THEN "unlinked" ELSE @[u]]]
    /\ Then(a, <<>>)
    /\ UNCHANGED <<subs, chip, irq>>

\* The end of snd_usb_endpoint_stop: the user is forgotten before the callbacks are.
Detach(a) ==
    /\ Due(a, "detach")
    /\ ep' = [ep EXCEPT ![Head(todo[a]).ep] = [@ EXCEPT !.user = None, !.slave = None]]
    /\ Then(a, <<>>)
    /\ UNCHANGED <<urb, subs, chip, irq>>

Mute(a) ==
    /\ Due(a, "mute")
    /\ ep' = [ep EXCEPT ![Head(todo[a]).ep] = [Muted(@) EXCEPT !.stopping = TRUE]]
    /\ Then(a, <<>>)
    /\ UNCHANGED <<urb, subs, chip, irq>>

\* snd_usb_endpoint_sync_pending_stop
SyncStop(a) ==
    /\ Due(a, "sync")
    /\ LET o == Head(todo[a]) IN
       Then(a, IF ep[o.ep].stopping THEN <<Op("wait", o.ep, o.s, 0)>> ELSE <<>>)
    /\ UNCHANGED <<ep, urb, subs, chip, irq>>

\* wait_clear_urbs.  The host gives every URB back within the second that the
\* code waits: only a bit that no handler will clear lets it run out.
Waited(a, timeout) ==
    /\ Due(a, "wait")
    /\ LET o == Head(todo[a]) IN
       /\ IF timeout THEN ep[o.ep].active # {} /\ ep[o.ep].active \cap AtHost(o.ep) = {}
                     ELSE ep[o.ep].active = {}
       /\ ep' = [ep EXCEPT ![o.ep].stopping = FALSE]
       /\ Then(a, <<>>)
    /\ UNCHANGED <<urb, subs, chip, irq>>

\* A faulty variant: the wait is content with one URB that is still out.
WaitForMost(a) ==
    /\ Due(a, "wait")
    /\ LET o == Head(todo[a]) IN
       /\ Cardinality(ep[o.ep].active) <= 1
       /\ ep' = [ep EXCEPT ![o.ep].stopping = FALSE]
       /\ Then(a, <<>>)
    /\ UNCHANGED <<urb, subs, chip, irq>>

Wait(a) == Waited(a, FALSE)
WaitTimeout(a) == Waited(a, TRUE)

-----------------------------------------------------------------------------
(* Configuring, deactivating and freeing an endpoint *)

\* snd_usb_endpoint_set_params up to the wait in release_urbs.
SetParams(a) ==
    /\ Due(a, "params")
    /\ LET o == Head(todo[a]) IN
       IF ep[o.ep].use # 0
       THEN Abort(a, <<Op("end", None, o.s, subs[o.s].state)>>) /\ UNCHANGED ep
       ELSE /\ ep' = [ep EXCEPT ![o.ep] = Deactivated(Muted(@))]
            /\ Then(a, <<Op("unlink", o.ep, o.s, 0), Op("wait", o.ep, o.s, 0),
                         Op("realloc", o.ep, o.s, 0)>>)
    /\ UNCHANGED <<urb, subs, chip, irq>>

\* The old URBs are freed and new ones allocated, for which there is memory.
Realloc(a) ==
    /\ Due(a, "realloc")
    /\ urb' = [urb EXCEPT ![Head(todo[a]).ep] = [u \in Urbs |-> "idle"]]
    /\ Then(a, <<>>)
    /\ UNCHANGED <<ep, subs, chip, irq>>

\* snd_usb_endpoint_deactivate
DeactivateEp(a) ==
    /\ Due(a, "deact")
    /\ LET o == Head(todo[a]) IN
       /\ ep' = [ep EXCEPT ![o.ep] = Deactivated(@)]
       /\ Then(a, <<Op("unlink", o.ep, o.s, 0), Op("wait", o.ep, o.s, 0)>>)
    /\ UNCHANGED <<urb, subs, chip, irq>>

\* snd_usb_endpoint_free up to the wait.
FreeEp(a) ==
    /\ Due(a, "free")
    /\ LET o == Head(todo[a]) IN
       /\ ep' = [ep EXCEPT ![o.ep] = Deactivated(Muted(@))]
       /\ Then(a, <<Op("unlink", o.ep, None, 0), Op("wait", o.ep, None, 0),
                    Op("kfree", o.ep, None, 0)>>)
    /\ UNCHANGED <<urb, subs, chip, irq>>

Kfree(a) ==
    /\ Due(a, "kfree")
    /\ LET e == Head(todo[a]).ep IN
       /\ urb' = [urb EXCEPT ![e] = [u \in Urbs |-> "none"]]
       /\ chip' = [chip EXCEPT !.freed = @ \cup {e}]
    /\ Then(a, <<>>)
    /\ UNCHANGED <<ep, subs, irq>>

EndpointStep(a) ==
    \/ StartEp(a) \/ IncUse(a) \/ Go(a) \/ Submit(a) \/ SubmitFails(a) \/ SetBit(a)
    \/ StopEp(a) \/ DecUse(a) \/ Unlink(a) \/ Detach(a) \/ Mute(a)
    \/ SyncStop(a) \/ Wait(a) \/ WaitTimeout(a)
    \/ SetParams(a) \/ Realloc(a) \/ DeactivateEp(a) \/ FreeEp(a) \/ Kfree(a)

-----------------------------------------------------------------------------
(* The calls of an application *)

\* A call begins when the last one of the thread is over, and looks at the
\* state with the lock of the stream held.
CanCall(s, states) ==
    todo[s] = <<>> /\ ~subs[s].locked /\ ~chip.disconnected /\ subs[s].state \in states

Call(s, calls, state) == todo' = [todo EXCEPT ![s] = calls \o <<Op("end", None, s, state)>>]

Open(s) ==
    /\ CanCall(s, {"closed"})
    /\ Cardinality({t \in Subs : subs[t].state # "closed"}) < AtOnce
    /\ subs' = [subs EXCEPT ![s].state = "open"]
    /\ UNCHANGED <<ep, urb, chip, todo, irq>>

\* snd_usb_hw_params.  A buffer that is large enough is kept, another is freed
\* before the new one is allocated.  There is memory for it, and set_format succeeds
\* on a device that is plugged in when the call begins.
HwParams(s) ==
    /\ CanCall(s, {"open", "setup", "prepared"})
    /\ ~chip.shutdown
    /\ LET keep == subs[s].buffer /\ ~Grow IN
       /\ subs' = [subs EXCEPT ![s].buffer = keep]
       /\ Call(s, <<Op("alloc", None, s, 0)>>, "setup")
    /\ UNCHANGED <<ep, urb, chip, irq>>

AllocBuffer(s) ==
    /\ Due(s, "alloc")
    /\ subs' = [subs EXCEPT ![s] = [@ EXCEPT !.buffer = TRUE, !.need_setup = TRUE]]
    /\ Then(s, <<>>)
    /\ UNCHANGED <<ep, urb, chip, irq>>

\* A faulty variant: hw_free frees the buffer and stops the endpoints afterwards.
HwFreeBufferFirst(s) ==
    /\ CanCall(s, {"setup", "prepared"})
    /\ subs' = [subs EXCEPT ![s].reading = ~chip.shutdown, ![s].buffer = FALSE]
    /\ Call(s, IF chip.shutdown THEN <<>>
               ELSE StopEndpoints(s, TRUE) \o ForEach(subs[s].eps, "deact", s), "open")
    /\ UNCHANGED <<ep, urb, chip, irq>>

\* snd_usb_hw_free; with the card gone only the buffer is freed.
HwFree(s) ==
    /\ CanCall(s, {"setup", "prepared"})
    /\ subs' = [subs EXCEPT ![s].reading = ~chip.shutdown]
    /\ Call(s, IF chip.shutdown THEN <<Op("vfree", None, s, 0)>>
               ELSE StopEndpoints(s, TRUE) \o ForEach(subs[s].eps, "deact", s)
                        \o <<Op("vfree", None, s, 0)>>, "open")
    /\ UNCHANGED <<ep, urb, chip, irq>>

\* shutdown_rwsem is given back, and the buffer is freed.
FreeBuffer(s) ==
    /\ Due(s, "vfree")
    /\ subs' = [subs EXCEPT ![s] = [@ EXCEPT !.buffer = FALSE, !.reading = FALSE]]
    /\ Then(s, <<>>)
    /\ UNCHANGED <<ep, urb, chip, irq>>

\* A faulty variant: prepare does not wait for the stop that is pending.
PrepareUnsynced(s) ==
    /\ CanCall(s, {"setup", "prepared"})
    /\ ~chip.shutdown
    /\ subs' = [subs EXCEPT ![s].reading = TRUE]
    /\ LET n == Len(subs[s].eps) IN
       Call(s, (IF subs[s].need_setup
                THEN StopEndpoints(s, FALSE)
                       \o [i \in 1..n |-> Op("params", subs[s].eps[n + 1 - i], s, 0)]
                       \o <<Op("ready", None, s, 0)>>
                ELSE <<>>)
               \o (IF s = "play" THEN StartEndpoints(s) ELSE <<>>), "prepared")
    /\ UNCHANGED <<ep, urb, chip, irq>>

\* snd_usb_pcm_prepare, configure_endpoint included.
Prepare(s) ==
    /\ CanCall(s, {"setup", "prepared"})
    /\ ~chip.shutdown
    /\ subs' = [subs EXCEPT ![s].reading = TRUE]
    /\ LET n == Len(subs[s].eps)
           configure ==
               StopEndpoints(s, TRUE)
                   \o [i \in 1..n |-> Op("params", subs[s].eps[n + 1 - i], s, 0)]
                   \o <<Op("ready", None, s, 0)>>
       IN  Call(s, ForEach(subs[s].eps, "sync", s)
                       \o (IF subs[s].need_setup THEN configure ELSE <<>>)
                       \o (IF s = "play" THEN StartEndpoints(s) ELSE <<>>), "prepared")
    /\ UNCHANGED <<ep, urb, chip, irq>>

\* need_setup_ep is cleared once both endpoints are configured.
SetupDone(s) ==
    /\ Due(s, "ready")
    /\ subs' = [subs EXCEPT ![s].need_setup = FALSE]
    /\ Then(s, <<>>)
    /\ UNCHANGED <<ep, urb, chip, irq>>

\* The start trigger: the capture endpoint is started here, the playback
\* endpoint is only given its data.
StartPlayback ==
    /\ CanCall("play", {"prepared"})
    /\ ep' = [ep EXCEPT !["out"] = [@ EXCEPT !.prepare = TRUE, !.retire = TRUE]]
    /\ subs' = [subs EXCEPT !["play"].state = "running"]
    /\ UNCHANGED <<urb, chip, todo, irq>>

StartCapture ==
    /\ CanCall("capt", {"prepared"})
    /\ subs' = [subs EXCEPT !["capt"].locked = TRUE]
    /\ Call("capt", StartEndpoints("capt") \o <<Op("retire", "in", "capt", 0)>>, "running")
    /\ UNCHANGED <<ep, urb, chip, irq>>

SetRetire(s) ==
    /\ Due(s, "retire")
    /\ ep' = [ep EXCEPT ![DataEp(s)].retire = TRUE]
    /\ Then(s, <<>>)
    /\ UNCHANGED <<urb, subs, chip, irq>>

\* The pause triggers.
Pause(s, push) ==
    /\ CanCall(s, {IF push THEN "running" ELSE "paused"})
    /\ ep' = [ep EXCEPT ![DataEp(s)] = IF s = "play" THEN [@ EXCEPT !.prepare = ~push, !.retire = TRUE]
                                                     ELSE [@ EXCEPT !.retire = ~push]]
    /\ subs' = [subs EXCEPT ![s].state = IF push THEN "paused" ELSE "running"]
    /\ UNCHANGED <<urb, chip, todo, irq>>

\* A drop: the stop trigger reaches a running substream only.
Drop(s) ==
    /\ CanCall(s, {"running", "prepared"})
    /\ subs' = [subs EXCEPT ![s].locked = TRUE]
    /\ Call(s, IF subs[s].state = "running" THEN StopEndpoints(s, FALSE) ELSE <<>>, "setup")
    /\ UNCHANGED <<ep, urb, chip, irq>>

\* snd_usb_pcm_close, after the hw_free that snd_pcm_release_substream calls.  On a
\* disconnected card the stream is not dropped first and hw_free only frees.
Close(s) ==
    /\ todo[s] = <<>> /\ ~subs[s].locked
    /\ subs[s].state = "open" \/ (chip.disconnected /\ subs[s].state # "closed")
    /\ subs' = [subs EXCEPT ![s].buffer = FALSE]
    /\ Call(s, StopEndpoints(s, TRUE), "closed")
    /\ UNCHANGED <<ep, urb, chip, irq>>

\* A call or a trigger is over, and its locks are given back.
End(a) ==
    /\ Due(a, "end")
    /\ LET o == Head(todo[a]) IN
       subs' = [subs EXCEPT ![o.s] = [@ EXCEPT !.state = o.v, !.locked = FALSE, !.reading = FALSE]]
    /\ Then(a, <<>>)
    /\ UNCHANGED <<ep, urb, chip, irq>>

CallStep(s) ==
    \/ AllocBuffer(s) \/ FreeBuffer(s) \/ SetupDone(s) \/ SetRetire(s) \/ End(s)

AppCall(s) ==
    \/ Open(s) \/ HwParams(s) \/ HwFree(s) \/ Prepare(s) \/ Drop(s) \/ Close(s)
    \/ \E push \in BOOLEAN : Pause(s, push)

-----------------------------------------------------------------------------
(* The completion handler *)

At(place) == irq.at = place /\ todo["hcd"] = <<>>
GoTo(place) == irq' = [irq EXCEPT !.at = place]
Resting == [at |-> "idle", ep |-> "out", urb |-> 1, user |-> None, slot |-> 0, return |-> "clear"]

\* snd_complete_urb is entered: an unlinked URB and one of a device that is
\* gone come back with an error.
Complete(e, u) ==
    /\ At("idle") /\ u \in OnBus(e)
    /\ urb' = [urb EXCEPT ![e][u] = "handler"]
    /\ irq' = [irq EXCEPT !.ep = e, !.urb = u,
                          !.at = IF urb[e][u] = "unlinked" \/ chip.gone \/ chip.shutdown
                                 THEN "clear" ELSE "retire"]
    /\ UNCHANGED <<ep, subs, chip, todo>>

\* snd_usb_handle_sync_urb: with implicit feedback a packet that is not empty
\* is announced to the sink.  The ring of announcements is empty when it is full.
HandleSync(empty) ==
    /\ At("retire")
    /\ IF ep[irq.ep].slave # None /\ Sink(ep[irq.ep].slave)
              /\ ep[ep[irq.ep].slave].use # 0 /\ ~empty
       THEN /\ ep' = [ep EXCEPT ![ep[irq.ep].slave].packets = (@ + 1) % NUrbs]
            /\ irq' = [irq EXCEPT !.at = "queue", !.return = "test retire"]
       ELSE GoTo("test retire") /\ UNCHANGED ep
    /\ UNCHANGED <<urb, subs, chip, todo>>

\* retire_data_urb is looked at and then data_subs, and so for prepare_data_urb.
Callback(at, test, fetch, skip) ==
    /\ At(at)
    /\ GoTo(IF test THEN fetch ELSE skip)
    /\ UNCHANGED <<ep, urb, subs, chip, todo>>

Fetch(at, e, inside) ==
    /\ At(at)
    /\ irq' = [irq EXCEPT !.at = inside, !.user = ep[e].user]
    /\ UNCHANGED <<ep, urb, subs, chip, todo>>

TestRetire == Callback("test retire", ep[irq.ep].retire, "fetch retire", "test running")
FetchRetire == Fetch("fetch retire", irq.ep, "retiring")

\* The endpoint for which a playback URB is prepared.
TestPrepare == Callback("test prepare", ep["out"].prepare, "fetch prepare", "submit")
FetchPrepare == Fetch("fetch prepare", "out", "preparing")

\* The callback ends: retire_capture_urb and prepare_playback_urb report the end
\* of a period, which may find an underrun and stop the stream.
CallbackReturns(inside, next) ==
    /\ At(inside)
    /\ irq' = [irq EXCEPT !.at = next, !.user = None]
    /\ UNCHANGED <<ep, urb, subs, chip, todo>>

CallbackStops(inside, s, next) ==
    /\ At(inside) /\ irq.user = s
    /\ ~subs[s].locked /\ subs[s].state = "running"
    /\ irq' = [irq EXCEPT !.at = next, !.user = None]
    /\ subs' = [subs EXCEPT ![s].locked = TRUE]
    /\ todo' = [todo EXCEPT !["hcd"] = StopEndpoints(s, FALSE) \o <<Op("end", None, s, "setup")>>]
    /\ UNCHANGED <<ep, urb, chip>>

Retired == CallbackReturns("retiring", "test running")
CaptureOverrun == CallbackStops("retiring", "capt", "test running")
Prepared == CallbackReturns("preparing", "submit")
PlaybackUnderrun == CallbackStops("preparing", "play", "submit")

\* The endpoint may have been stopped in the callback.  The URB of a sink becomes ready.
TestRunning ==
    /\ At("test running")
    /\ IF ~ep[irq.ep].running
       THEN GoTo("clear") /\ UNCHANGED ep
       ELSE IF Sink(irq.ep)
       THEN /\ ep' = [ep EXCEPT ![irq.ep].ready = Append(@, irq.urb)]
            /\ irq' = [irq EXCEPT !.at = "queue", !.return = "clear"]
       ELSE GoTo(IF IsOut(irq.ep) THEN "test prepare" ELSE "submit") /\ UNCHANGED ep
    /\ UNCHANGED <<urb, subs, chip, todo>>

\* A faulty variant: a completion that has submitted its URB again falls through
\* to exit_clear.
ResubmitFallsThrough ==
    /\ At("submit") /\ irq.slot = 0
    /\ Accepts(irq.ep, irq.urb, "handler")
    /\ urb' = [urb EXCEPT ![irq.ep][irq.urb] = "bus"]
    /\ ep' = [ep EXCEPT ![irq.ep].active = @ \ {irq.urb}]
    /\ irq' = Resting
    /\ UNCHANGED <<subs, chip, todo>>

\* The URB is submitted again, or its bit is cleared.
Resubmit ==
    /\ At("submit") /\ irq.slot = 0
    /\ \/ /\ Accepts(irq.ep, irq.urb, "handler")
          /\ urb' = [urb EXCEPT ![irq.ep][irq.urb] = "bus"]
          /\ irq' = Resting
       \/ /\ Refuses(irq.ep, irq.urb, "handler")
          /\ GoTo("clear")
          /\ UNCHANGED urb
    /\ UNCHANGED <<ep, subs, chip, todo>>

ClearBit ==
    /\ At("clear")
    /\ ep' = [ep EXCEPT ![irq.ep].active = @ \ {irq.urb}]
    /\ urb' = [urb EXCEPT ![irq.ep][irq.urb] = IF @ = "handler" THEN "idle" ELSE @]
    /\ irq' = Resting
    /\ UNCHANGED <<subs, chip, todo>>

\* queue_pending_output_urbs: one round of its loop.  list_del_init, which comes
\* just after the unlock, is part of it: no other handler runs meanwhile ...
QueueRound ==
    /\ At("queue")
    /\ LET o == ep["out"]
           take == o.running /\ o.packets > 0
           found == take /\ o.ready # <<>> IN
       /\ ep' = [ep EXCEPT !["out"].packets = IF take THEN @ - 1 ELSE @,
                           !["out"].ready = IF found THEN Tail(@) ELSE @]
       /\ irq' = [irq EXCEPT !.slot = IF found THEN Head(o.ready) ELSE 0,
                             !.at = IF found THEN "test prepare" ELSE irq.return]
    /\ UNCHANGED <<urb, subs, chip, todo>>

\* ... which submits an URB, and sets its bit afterwards.
QueueSubmit ==
    /\ At("submit") /\ irq.slot # 0
    /\ LET place == IF irq.ep = "out" /\ irq.slot = irq.urb THEN "handler" ELSE "idle" IN
       \/ /\ Accepts("out", irq.slot, place)
          /\ urb' = [urb EXCEPT !["out"][irq.slot] = "bus"]
          /\ GoTo("set bit")
       \/ /\ Refuses("out", irq.slot, place)
          /\ irq' = [irq EXCEPT !.at = "queue", !.slot = 0]
          /\ UNCHANGED urb
    /\ UNCHANGED <<ep, subs, chip, todo>>

QueueSetBit ==
    /\ At("set bit")
    /\ ep' = [ep EXCEPT !["out"].active = @ \cup {irq.slot}]
    /\ irq' = [irq EXCEPT !.at = "queue", !.slot = 0]
    /\ UNCHANGED <<urb, subs, chip, todo>>

Queueing == QueueRound \/ QueueSubmit \/ QueueSetBit

Handler ==
    \/ \E empty \in BOOLEAN : HandleSync(empty)
    \/ TestRetire \/ FetchRetire \/ Retired \/ CaptureOverrun
    \/ TestPrepare \/ FetchPrepare \/ Prepared \/ PlaybackUnderrun
    \/ TestRunning \/ Resubmit \/ ClearBit \/ Queueing

-----------------------------------------------------------------------------
(* Unplugging: snd_usb_audio_disconnect.  With Unplug = "at rest" the device  *)
(* does not vanish while URBs are being submitted, and the handlers that were *)
(* under way are over before the hub driver calls the disconnect handler.     *)

Gone ==
    /\ Unplug # "never" /\ ~chip.gone
    /\ Unplug = "at rest" =>
          \A a \in Agents : \A i \in DOMAIN todo[a] : todo[a][i].op # "submit"
    /\ chip' = [chip EXCEPT !.gone = TRUE]
    /\ UNCHANGED <<ep, urb, subs, todo, irq>>

\* The writer of shutdown_rwsem waits for its readers.
Shutdown ==
    /\ chip.gone /\ ~chip.shutdown
    /\ \A s \in Subs : ~subs[s].reading
    /\ Unplug = "at rest" => irq.at \in {"idle", "clear"}
    /\ chip' = [chip EXCEPT !.shutdown = TRUE]
    /\ UNCHANGED <<ep, urb, subs, todo, irq>>

\* The USB core has taken every URB back.  The PCM core takes the lock of each
\* stream, and the streams forget their endpoints before those are freed.
Disconnect ==
    /\ chip.shutdown /\ ~chip.disconnected
    /\ \A e \in Eps : OnBus(e) = {}
    /\ \A s \in Subs : ~subs[s].locked
    /\ chip' = [chip EXCEPT !.disconnected = TRUE]
    /\ subs' = [s \in Subs |-> [subs[s] EXCEPT !.eps = <<>>]]
    /\ todo' = [todo EXCEPT !["hub"] = ForEach(<<"out", "fb", "in">>, "free", None)]
    /\ UNCHANGED <<ep, urb, irq>>

-----------------------------------------------------------------------------
Init ==
    /\ ep = [e \in Eps |->
               [use |-> 0, running |-> FALSE, stopping |-> FALSE, active |-> {}, unlinked |-> {},
                user |-> None, slave |-> None, retire |-> FALSE, prepare |-> FALSE,
                ready |-> <<>>, packets |-> 0]]
    /\ urb = [e \in Eps |-> [u \in Urbs |-> "none"]]
    /\ \E f \in Feedback : chip =
                [feedback |-> f, gone |-> FALSE, shutdown |-> FALSE, disconnected |-> FALSE, freed |-> {}]
    /\ subs = [s \in Subs |->
                 [state |-> "closed", buffer |-> FALSE, need_setup |-> FALSE, started |-> {},
                  eps |-> EpsOf(s, chip.feedback), locked |-> FALSE, reading |-> FALSE]]
    /\ todo = [a \in Agents |-> <<>>]
    /\ irq = Resting

Next ==
    \/ \E a \in Agents : EndpointStep(a)
    \/ \E s \in Subs : AppCall(s) \/ CallStep(s)
    \/ End("hcd")
    \/ StartPlayback \/ StartCapture
    \/ \E e \in Eps, u \in Urbs : Complete(e, u)
    \/ Handler
    \/ Gone \/ Shutdown \/ Disconnect

Spec == Init /\ [][Next]_vars

-----------------------------------------------------------------------------
(* Properties *)

TypeOK ==
    /\ ep \in [Eps -> [use : Nat, running : BOOLEAN, stopping : BOOLEAN,
                      active : SUBSET Urbs, unlinked : SUBSET Urbs,
                      user : Subs \cup {None}, slave : {"out", None},
                      retire : BOOLEAN, prepare : BOOLEAN,
                      ready : Seq(Urbs), packets : 0..(NUrbs - 1)]]
    /\ urb \in [Eps -> [Urbs -> Places]]
    /\ subs \in [Subs -> [state : {"closed", "open", "setup", "prepared", "running", "paused"},
                          buffer : BOOLEAN, need_setup : BOOLEAN, started : SUBSET Eps,
                          eps : Seq(Eps), locked : BOOLEAN, reading : BOOLEAN]]
    /\ chip.freed \subseteq Eps
    /\ irq.urb \in Urbs /\ irq.slot \in Urbs \cup {0} /\ irq.user \in Subs \cup {None}

\* The URBs of an endpoint are freed, by release_urbs for a new configuration or
\* with the card, when the host has none of them any more: active_mask, which is
\* all that wait_clear_urbs looks at, has forgotten none.
FreedWhenIdle ==
    \A a \in Agents : Due(a, "realloc") \/ Due(a, "kfree") => AtHost(Head(todo[a]).ep) = {}

\* A completion that is inside retire_capture_urb or prepare_playback_urb copies
\* to or from a buffer that snd_usb_hw_free has not freed yet.
CallbackHasBuffer ==
    irq.at \in {"retiring", "preparing"} /\ irq.user # None => subs[irq.user].buffer

\* An URB the host has is in active_mask, from which deactivate_urbs and
\* wait_clear_urbs know of it, but for the moment between its submission and the
\* set_bit of the one who submitted it.
AtHostIsActive ==
    \A e \in Eps : \A u \in AtHost(e) :
        \/ u \in ep[e].active
        \/ \E a \in Agents : Due(a, "bit") /\ Head(todo[a]).ep = e /\ Head(todo[a]).v = u
        \/ irq.at = "set bit" /\ irq.slot = u

\* snd_usb_endpoint_start forgets the masks of the last run, without sleeping if
\* it is a trigger: by then every URB of the last run has come back.
RestartsFromRest ==
    \A a \in Agents : Due(a, "go") => AtHost(Head(todo[a]).ep) = {}

\* "In case of any active users, this functions does nothing", says the comment of
\* snd_usb_endpoint_deactivate.
DeactivateSparesUsers ==
    [][\A a \in Agents : DeactivateEp(a) =>
          LET e == Head(todo[a]).ep IN ep[e].use # 0 => ep'[e].running = ep[e].running]_vars

\* A callback that is called has a substream: snd_usb_endpoint_stop clears data_subs
\* before retire_data_urb, and another processor may be between the two.
CallbackHasSubstream == irq.at \in {"retiring", "preparing"} => irq.user # None

\* No bit stays in active_mask for an URB that nobody has, to let a later
\* wait_clear_urbs run into its timeout.
NoStaleBit ==
    \A a \in Agents : Due(a, "wait") =>
        LET e == Head(todo[a]).ep IN ep[e].active # {} => ep[e].active \cap AtHost(e) # {}

=============================================================================
