--------------------------- MODULE ScarlettMixer ---------------------------
(***************************************************************************)
(* The mixer controls of a Focusrite Scarlett in use: several applications *)
(* read and write them (sound/core/control.c), the driver keeps a cache of *)
(* what the device holds and sends a USB message for what differs          *)
(* (sound/usb/scarlettmixer.c), and the device may be unplugged at any     *)
(* moment (sound/usb/card.c).                                              *)
(*                                                                         *)
(* The controls exist (module ScarlettSetup made them) and the probe of    *)
(* the device has ended.  The card is not suspended.                       *)
(***************************************************************************)
EXTENDS Integers, FiniteSets

CONSTANTS
    Threads,       \* application threads
    Ioctls,        \* those that hold card->power_lock during a call: ioctls
                   \* do, with CONFIG_PM; the OSS mixer does not
    Volumes, Switches, Enums, Saves,     \* the controls, by kind
    Channels,      \* the channels of a volume and of a switch
    Levels,        \* what the applications write to a volume
    Attempts,      \* how often a message that sets a value is tried
    Faults,        \* whether messages may fail
    MaxUnpaid      \* bound: how far pm may fall below what is held

Controls == Volumes \cup Switches \cup Enums \cup Saves
None == 65536      \* not a value of a register; power is free if it is None
NoThread == "none"

ASSUME ThreadsAssumption  ==
    IsFiniteSet(Threads) /\ Ioctls \subseteq Threads /\ NoThread \notin Threads
ASSUME ControlsAssumption == Channels \in Nat \ {0} /\ Attempts \in Nat \ {0} /\ Levels \subseteq Nat
ASSUME FaultsAssumption   == Faults \in BOOLEAN /\ MaxUnpaid \in Nat

VARIABLES
    dev,           \* dev[<<c, ch>>]: the device's register for channel ch of c
    cache,         \* elem->cache_val, None where elem->cached has no bit
    saved,         \* whether the device was told to save its settings
    shutdown,      \* chip->shutdown
    gone,          \* the device has left the bus, of which the driver is told later
    pm,            \* the references held on the interface's power
    power,         \* the thread that holds card->power_lock
    untold,        \* controls changed on the device since their last event, and
                   \* whether a write that changed one has returned an error
    call           \* call[t]: what thread t does

vars == <<dev, cache, saved, shutdown, gone, pm, power, untold, call>>

ChannelsOf(c) == 1..(IF c \in Volumes \cup Switches THEN Channels ELSE 1)

\* What an application may write: the value of a volume is not looked at by
\* the control core or by the driver.
Wishes(c) == CASE c \in Volumes  -> Levels
               [] c \in Switches -> {0, 1}
               [] c \in Enums    -> {0, 1}
               [] c \in Saves    -> {0, 1}

(***************************************************************************)
(* Conversions.                                                            *)
(***************************************************************************)
Clamp(x, lo, hi) == IF x < lo THEN lo ELSE IF x > hi THEN hi ELSE x

\* Of a control value to the value the driver sends and caches.
Raw(c, v) == CASE c \in Volumes  -> 256 * (v - 128)
               [] c \in Switches -> IF v = 0 THEN 1 ELSE 0
               [] c \in Enums    -> v

\* A message carries two bytes.
Sent(x) == ((x + 32768) % 65536) - 32768

\* Back, with the range of a volume, -128 to 6 dB, and of a two-item enum.
Shown(c, x) == CASE c \in Volumes  -> Clamp(x \div 256, -128, 6) + 128
                 [] c \in Switches -> IF x = 0 THEN 1 ELSE 0
                 [] c \in Enums    -> Clamp(x, 0, 1)

\* The registers behind the controls, and what they can hold at first.
Registers == {r \in (Controls \ Saves) \X (1..Channels) : r[2] \in ChannelsOf(r[1])}
Settings(c) == IF c \in Volumes THEN {0} ELSE {Raw(c, v) : v \in Wishes(c)}

(***************************************************************************)
(* A call: thread t is at channel ch of control c.  value is what it has   *)
(* read or is about to set, ok whether the message went through, result    *)
(* what the call will return; inside: it holds shutdown_rwsem.             *)
(***************************************************************************)
Places == {"idle", "lock", "look", "get", "ask", "asking", "got",
           "set", "send", "sending", "sent", "end"}
Idle == [at |-> "idle", c |-> "none", op |-> "none", want |-> <<>>, ch |-> 1, value |-> 0,
         tries |-> 0, inside |-> FALSE, ok |-> TRUE, result |-> "ok"]

At(t, place) == call[t].at = place
Register(r) == <<r.c, r.ch>>
Finished(r, result) == [r EXCEPT !.at = "end", !.result = result]

\* The calls between snd_usb_autoresume and snd_usb_autosuspend.
Holding == {"ask", "asking", "got", "send", "sending", "sent"}
Held == Cardinality({t \in Threads : call[t].at \in Holding})

\* ScarlettSetup has initialised the volumes, which leaves them cached; the
\* other settings are the device's own and are read when they are needed.
Init ==
    /\ dev \in {d \in [Registers -> UNION {Settings(c) : c \in Controls \ Saves}] :
                  \A r \in Registers : d[r] \in Settings(r[1])}
    /\ cache = [r \in Registers |-> IF r[1] \in Volumes THEN dev[r] ELSE None]
    /\ saved = FALSE /\ shutdown = FALSE /\ gone = FALSE
    /\ pm = 0 /\ power = NoThread /\ untold = {}
    /\ call = [t \in Threads |-> Idle]

\* An application reads or writes a control.  What it writes, and what the
\* buffer that it reads into holds, is in want.
Request(c, op) == IF op = "read" /\ c \notin Saves THEN {<<>>} ELSE [ChannelsOf(c) -> Wishes(c)]

Begin(t, c, op) ==
    /\ At(t, "idle")
    /\ \E want \in Request(c, op) :
          call' = [call EXCEPT ![t] = [Idle EXCEPT !.at = IF t \in Ioctls THEN "lock" ELSE "look",
                                                   !.c = c, !.op = op, !.want = want]]
    /\ UNCHANGED <<dev, cache, saved, shutdown, gone, pm, power, untold>>

PowerLock(t) ==
    /\ At(t, "lock") /\ power = NoThread
    /\ power' = t
    /\ call' = [call EXCEPT ![t].at = "look"]
    /\ UNCHANGED <<dev, cache, saved, shutdown, gone, pm, untold>>

Onward(r) == IF r.ch + 1 \in ChannelsOf(r.c) THEN [r EXCEPT !.at = "look", !.ch = r.ch + 1]
                                             ELSE [r EXCEPT !.at = "end"]

\* The call once the value x of its channel is known: it goes on to the next
\* channel unless it has something to change.
WithValue(r, x) ==
    IF r.op = "write" /\ x # Raw(r.c, r.want[r.ch])
    THEN [r EXCEPT !.at = "set", !.value = Raw(r.c, r.want[r.ch])]
    ELSE Onward(r)

\* get_ctl_value, as long as it is only about the cache.
Look(t) ==
    /\ At(t, "look") /\ call[t].c \notin Saves
    /\ LET x == cache[Register(call[t])]
       IN call' = [call EXCEPT ![t] = IF x # None THEN WithValue(call[t], x)
                                                  ELSE [call[t] EXCEPT !.at = "get"]]
    /\ UNCHANGED <<dev, cache, saved, shutdown, gone, pm, power, untold>>

\* usb_scarlett_ctl_save names scarlett_ctl_save_put as .get and has no .put.
Save(t) ==
    /\ At(t, "look") /\ call[t].c \in Saves
    /\ call' = [call EXCEPT ![t] =
                  IF call[t].op = "write" THEN Finished(call[t], "EPERM")
                  ELSE IF call[t].want[1] > 0 THEN [call[t] EXCEPT !.at = "set"]
                  ELSE Finished(call[t], "ok")]
    /\ UNCHANGED <<dev, cache, saved, shutdown, gone, pm, power, untold>>

\* snd_usb_autoresume takes a reference, unless chip->shutdown is set.  For a device
\* that has left the bus usb_autopm_get_interface may answer -ENODEV and take none;
\* get_ctl_urb2 and set_ctl_urb2 take that for a shutdown and go on as well.
Autoresume(t) ==
    /\ At(t, "get") \/ At(t, "set")
    /\ pm' \in IF shutdown THEN {pm}
               ELSE {pm + 1} \cup {x \in {pm} : gone /\ x > Held - MaxUnpaid}
    /\ call' = [call EXCEPT ![t].at = IF At(t, "get") THEN "ask" ELSE "send"]
    /\ UNCHANGED <<dev, cache, saved, shutdown, gone, power, untold>>

\* A faulty variant: the refused go where the messages that fail go.
RefusedGoesOn(r) == [r EXCEPT !.at = IF r.at = "get" THEN "got" ELSE "sent", !.ok = FALSE]
\* -EIO, before there is anything to give back.
Refused(r) == Finished(r, "error")

\* Any other error of usb_autopm_get_interface, which keeps no reference then.
AutoresumeFails(t) ==
    /\ Faults /\ ~ shutdown
    /\ At(t, "get") \/ At(t, "set")
    /\ call' = [call EXCEPT ![t] = Refused(call[t])]
    /\ UNCHANGED <<dev, cache, saved, shutdown, gone, pm, power, untold>>

\* down_read(&chip->shutdown_rwsem), and the look at chip->shutdown before
\* each try.
Enter(t) ==
    /\ At(t, "ask") \/ At(t, "send")
    /\ call' = [call EXCEPT ![t] = [call[t] EXCEPT
                  !.at = IF At(t, "ask") THEN IF shutdown THEN "got" ELSE "asking"
                                         ELSE IF shutdown THEN "sent" ELSE "sending",
                  !.ok = ~ shutdown, !.inside = ~ shutdown]]
    /\ UNCHANGED <<dev, cache, saved, shutdown, gone, pm, power, untold>>

\* get_ctl_urb2 tries once.  A message to a device that has left the bus fails.
Reply(t) ==
    /\ At(t, "asking")
    /\ \E ok \in IF gone THEN {FALSE} ELSE IF Faults THEN BOOLEAN ELSE {TRUE} :
          call' = [call EXCEPT ![t] = [call[t] EXCEPT
                      !.at = "got", !.inside = FALSE, !.ok = ok,
                      !.value = IF ok THEN dev[Register(call[t])] ELSE 0]]
    /\ UNCHANGED <<dev, cache, saved, shutdown, gone, pm, power, untold>>

\* snd_usb_autosuspend.
AfterAutosuspend == IF shutdown THEN pm ELSE pm - 1

Got(t) ==
    /\ At(t, "got")
    /\ pm' = AfterAutosuspend
    /\ IF call[t].ok
       THEN /\ cache' = [cache EXCEPT ![Register(call[t])] = call[t].value]
            /\ call' = [call EXCEPT ![t] = WithValue(call[t], call[t].value)]
       ELSE /\ call' = [call EXCEPT ![t] = Finished(call[t], "error")]
            /\ UNCHANGED cache
    /\ UNCHANGED <<dev, saved, shutdown, gone, power, untold>>

\* set_ctl_urb2 holds shutdown_rwsem from its first try to its last.
Send(t) ==
    /\ At(t, "sending") /\ ~ gone
    /\ IF call[t].c \in Saves
       THEN saved' = TRUE /\ UNCHANGED <<dev, untold>>
       ELSE /\ dev' = [dev EXCEPT ![Register(call[t])] = Sent(call[t].value)]
            /\ untold' = untold \cup {<<call[t].c, FALSE>>}
            /\ UNCHANGED saved
    /\ call' = [call EXCEPT ![t] = [call[t] EXCEPT !.at = "sent", !.inside = FALSE]]
    /\ UNCHANGED <<cache, shutdown, gone, pm, power>>

LastTry(r) == r.tries + 1 = Attempts

\* A faulty variant: the tries are not counted.
SendTriesOn(t) ==
    /\ Faults \/ gone
    /\ At(t, "sending")
    /\ call' = [call EXCEPT ![t].at = "send"]
    /\ UNCHANGED <<dev, cache, saved, shutdown, gone, pm, power, untold>>

SendFails(t) ==
    /\ Faults \/ gone
    /\ At(t, "sending")
    /\ LET r == call[t]
       IN call' = [call EXCEPT ![t] = IF LastTry(r) THEN [r EXCEPT !.at = "sent", !.ok = FALSE, !.inside = FALSE]
                                      ELSE [r EXCEPT !.at = "send", !.tries = r.tries + 1]]
    /\ UNCHANGED <<dev, cache, saved, shutdown, gone, pm, power, untold>>

CachedAnyway(r) == r.c \notin Saves                           \* a faulty variant
\* set_ctl_value caches what has been sent, and only that.
Cached(r) == r.ok /\ r.c \notin Saves

SentDone(t) ==
    /\ At(t, "sent")
    /\ pm' = AfterAutosuspend
    /\ cache' = IF Cached(call[t]) THEN [cache EXCEPT ![Register(call[t])] = call[t].value] ELSE cache
    /\ call' = [call EXCEPT ![t] =
                  IF ~ call[t].ok THEN Finished(call[t], "error")
                  ELSE IF call[t].c \in Saves THEN Finished(call[t], "ok")
                  ELSE Onward([call[t] EXCEPT !.result = "changed", !.tries = 0])]
    /\ UNCHANGED <<dev, saved, shutdown, gone, power, untold>>

ToldOfReads(r) == r.op = "read"                               \* a faulty variant
\* snd_ctl_elem_write sends an event for a put that returns 1.
Told(r) == r.op = "write" /\ r.result = "changed"
Failed(r) == r.op = "write" /\ r.result = "error"

PowerUnlocked(t) == IF power = t THEN NoThread ELSE power

End(t) ==
    /\ At(t, "end")
    /\ untold' = IF Told(call[t]) THEN {x \in untold : x[1] # call[t].c}
                 ELSE IF Failed(call[t]) THEN {<<x[1], x[2] \/ x[1] = call[t].c>> : x \in untold}
                 ELSE untold
    /\ power' = PowerUnlocked(t)
    /\ call' = [call EXCEPT ![t] = Idle]
    /\ UNCHANGED <<dev, cache, saved, shutdown, gone, pm>>

\* The device is pulled out.  Its driver may be unbound without that.
Detach ==
    /\ ~ gone
    /\ gone' = TRUE
    /\ UNCHANGED <<dev, cache, saved, shutdown, pm, power, untold, call>>

DisconnectAtOnce == TRUE                                      \* a faulty variant
\* snd_usb_audio_disconnect waits for shutdown_rwsem.
MayDisconnect == \A t \in Threads : ~ call[t].inside

Disconnect ==
    /\ ~ shutdown /\ MayDisconnect
    /\ shutdown' = TRUE
    /\ UNCHANGED <<dev, cache, saved, gone, pm, power, untold, call>>

Step(t) == \/ Look(t) \/ Save(t) \/ Autoresume(t) \/ AutoresumeFails(t) \/ Enter(t)
           \/ Reply(t) \/ Got(t) \/ Send(t) \/ SendFails(t) \/ SentDone(t) \/ End(t)

Next ==
    \/ \E t \in Threads :
          \/ \E c \in Controls, op \in {"read", "write"} : Begin(t, c, op)
          \/ PowerLock(t)
          \/ Step(t)
    \/ Detach
    \/ Disconnect

Spec == Init /\ [][Next]_vars

\* A thread in a call runs, a message succeeds or fails within its timeout,
\* and a mutex is given to whoever waits for it.
Fairness == \A t \in Threads : WF_vars(Step(t)) /\ SF_vars(PowerLock(t))

FairSpec == Spec /\ Fairness

(***************************************************************************)
(* Properties.                                                             *)
(***************************************************************************)
Words == {x \in Int : -32768 <= x /\ x <= 32767}

\* Every variable keeps its type; a message is tried at most Attempts times.
TypeOK ==
    /\ dev \in [Registers -> Words]
    /\ cache \in [Registers -> Int]
    /\ saved \in BOOLEAN /\ shutdown \in BOOLEAN /\ gone \in BOOLEAN
    /\ pm \in Int
    /\ power \in Threads \cup {NoThread}
    /\ untold \subseteq Controls \X BOOLEAN
    /\ \A t \in Threads : /\ call[t].at \in Places /\ call[t].c \in Controls \cup {"none"}
                          /\ call[t].tries \in 0..Attempts - 1
                          /\ call[t].result \in {"ok", "changed", "error", "EPERM"}

\* "only cache works" (scarlettmixer.c:322): what a control reports from the
\* cache is what the device has, whoever wrote it last and whatever failed.
CacheIsDevice ==
    \A r \in Registers :
        /\ cache[r] # None
        /\ \A t \in Threads : call[t].c = r[1] => At(t, "lock")
        => Shown(r[1], cache[r]) = Shown(r[1], dev[r])

\* A change of the device that no event has told the applications of belongs to a
\* write that is still under way (scarlett_ctl_put and the functions like it), or to
\* one that has told its caller of an error: changes by a message that was tried again,
\* of one channel of several and by callers that overtake each other included.
EveryChangeIsReported ==
    \A x \in untold : x[2] \/ shutdown \/ \E t \in Threads : call[t].c = x[1] /\ call[t].op = "write"

\* SNDRV_CTL_EVENT_MASK_VALUE, "element value was changed" (asound.h:940): the same
\* with an event for each change.
EveryChangeIsTold ==
    \A x \in untold : shutdown \/ \E t \in Threads : call[t].c = x[1] /\ call[t].op = "write"

\* Once snd_usb_audio_disconnect has set shutdown (card.c:593-595) no message
\* changes the device any more: none was under way and none is begun.
SilentAfterShutdown == [][shutdown => UNCHANGED <<dev, saved>>]_vars

\* autoresume and autosuspend are paired on every path of get_ctl_urb2 and set_ctl_urb2
\* (scarlettmixer.c:228-246 and 267-289), the return of -EIO when autoresume is refused
\* and the failing messages included: the interface is held exactly while a message is
\* under way.  Once the device has left the bus the -ENODEV of usb_autopm_get_interface
\* is followed by an autosuspend that gives back what was not taken; but no call, also
\* then, goes away without giving back what it took.
PmBalanced == ~ shutdown => pm <= Held /\ (~ gone => pm = Held)

\* The same also between the moment at which the device leaves the bus and the
\* disconnect (scarlettmixer.c:229, :268).
PmBalancedToTheEnd == ~ shutdown => pm = Held

\* "save setting to hardware" (scarlettmixer.c:68): the control that offers it
\* can be written.
SaveCanBeWritten == \A t \in Threads : At(t, "end") => call[t].result # "EPERM"

\* Every call returns, also when messages fail, the device goes away or
\* another call holds the lock.
CallsReturn == \A t \in Threads : []<>At(t, "idle")

=============================================================================
