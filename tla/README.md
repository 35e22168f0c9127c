# The Scarlett ALSA driver in TLA+

This directory holds TLA+ models of the ALSA core and the USB audio driver in
`src/sound`, the part of the kernel tree this repository carries in order to add a mixer
driver for the Focusrite Scarlett interfaces (`src/sound/usb/scarlettmixer.c`). TLC
checks the models on small instances. For instances of every size TLAPS proves invariants
of the PCM states, the ring buffer, the Scarlett mixer, the control core, the sequencer
FIFO and the life of a card, and two refinements: the control core implements what it
promises to its listeners, and the FIFO implements a queue of events. Paths below are relative to the
repository root; line numbers are those of the sources under `src/`.

| module | models | checked by |
|---|---|---|
| `PcmStream` | states, linking, locking and draining of the PCM substreams of a card | `pcm_linked`, `pcm_power`, `pcm_live` |
| `PcmStream_proofs` | theorems about `PcmStream` | `tlapm PcmStream_proofs.tla` |
| `PcmRing` | positions, writers and period interrupts of one playback ring | `ring_writer`, `ring_calls` |
| `PcmRing_proofs` | theorems about `PcmRing` | `tlapm PcmRing_proofs.tla` |
| `UsbEndpoint` | the URBs of the endpoints under two substreams, their completion and unplugging | `usb_endpoint` |
| `UsbEndpoint_proofs` | theorems about `UsbEndpoint` | `tlapm UsbEndpoint_proofs.tla` |
| `ScarlettSetup` | the control tables of the four Scarlett models and their initialisation | `setup_models`, `setup_18i20` |
| `ScarlettMixer` | the mixer controls in use: cache, USB messages, unplugging, events | `mixer` |
| `ScarlettMixer_proofs` | theorems about `ScarlettMixer` | `tlapm ScarlettMixer_proofs.tla` |
| `Control` | the control core: open files, their event queues, element locks, user-defined elements | `control` (through `MCControl`) |
| `ControlNews` | what the control core promises to those who listen; implemented by `Control` | `control` |
| `Control_proofs`, `ControlNews_proofs` | theorems about `Control`; `Control` implements `ControlNews` | `tlapm` on each |
| `SeqFifo` | the input FIFO of a sequencer client, its cells and pools | `seq_fifo` (through `MCSeqFifo`) |
| `EventQueue` | what that FIFO promises; implemented by `SeqFifo` | `seq_fifo` |
| `SeqFifo_proofs` | theorems about `SeqFifo`; it implements `EventQueue` | `tlapm SeqFifo_proofs.tla` |
| `CardLife` | probing and unplugging of the interfaces of a device, open files, references, the end of a card | `card_life` |
| `CardLife_proofs` | theorems about `CardLife` | `tlapm CardLife_proofs.tla` |

To check a configuration: `tlc -config PcmStream_linked.cfg PcmStream.tla`, and
likewise for the others; the module is the part of the file name before the
first underscore (the `MC` modules only add symmetry sets and the values of function
constants). `PROJECT.json` names the runs, says which lines of the
source every definition stands for, and gives for each property a plausible
bug in the code that the property catches. Some definitions in the modules are
marked *a faulty variant*: they are these bugs and no part of a specification.

## 1. Inventory

### 1.1 Components

**PCM substream control** (`src/sound/core/pcm_native.c`, the interrupt half of
`pcm_lib.c`, the disconnect handler of `pcm.c`). State of a substream:
`status->state`, `suspended_state`, the hardware behind the `trigger` callback,
the fill level, the buffer set up by `hw_params`; of the card: the groups of
linked substreams with one lock each, `power_state`, `shutdown`. Operations:
open, hw_params, hw_free, prepare, start, pause, resume, drop, drain, xrun, link,
unlink, read, write, release; `snd_pcm_period_elapsed` from interrupts;
`snd_pcm_suspend_all` from the power management; `snd_pcm_dev_disconnect` from
unplugging. Hard: the own lock is dropped while the group lock is awaited
(`snd_pcm_action`, :780), hw_params, hw_free, prepare and the transfers work
without a lock, draining sleeps, an action on a group may fail in the middle.
Correct when hardware and state agree, the hardware never moves without a
buffer, a group starts and stops as one, drop, suspend and underruns silence
it, drains return.

**PCM playback ring** (`src/sound/core/pcm_lib.c`, `src/include/sound/pcm.h`).
State: `hw_ptr`, `appl_ptr`, `hw_ptr_base`, `hw_ptr_interrupt` modulo
`boundary`, `twake`, `hw_ptr_jiffies`, the sleeping writers. Operations:
position updates from interrupts and from calls, blocking and non-blocking
writes, rewind, forward, hwsync, delay, reset, prepare. Hard: four positions that
wrap at different moments, interrupts that come late, a lap of the ring that
is inferred from the time, copying without the lock, wait and wake-up. Correct
when the ring is never overrun, the hardware position is never misread, no
writer sleeps on a ring with room, every write returns.

**Scarlett mixer, set-up** (`src/sound/usb/scarlettmixer.c`:
`scarlett_mixer_controls` and its tables). State: the controls made so far and
the registers of the device. Operations: add a control, send its initial
values. Hard: four tables of offsets and codes, three bits of a register for up to
sixteen mixes. Correct when every control has a register of its own, the routes
are the documented ones, and playback can be heard.

**Scarlett mixer, in use** (the `get`, `put` and `save` functions of
`scarlettmixer.c`, the messages of `src/sound/usb/helper.c`). State: the cached
values, the device's registers, the power references. Operations: read and
write of a volume, a switch, an enum, the save switch. Hard: a write is several
messages, each may fail and is retried; the device may be unplugged at any
moment; callers that hold no common lock. Correct when the cache says what the
device holds, changes are announced, references are balanced, nothing is sent
after the disconnect.

**Control core** (`src/sound/core/control.c`). State: the elements with their
numbers and owners, `user_ctl_count`, `controls_rwsem`, `power_lock`, and per open file
the subscription, the queue of events and its sleepers. Operations: open and release;
element read, write, info, lock, unlock, add, replace, remove; subscribe, read of
events, poll; notify; disconnect. Hard: the semaphore is given back before a change
is announced, events for one number merge, a file may be released, emptied or left
while others announce, readers sleep while the card is disconnected. Correct when no
event is lost and each reader is woken, a write finds the element it has looked up,
and a lock has an owner that can give it up.

**USB audio card** (`src/sound/usb/card.c`). State: the cards by slot, `num_interfaces`,
`probing`, `shutdown` with `shutdown_rwsem`, `num_suspended_intf`,
`autosuspended`. Operations: probe and disconnect of each interface, suspend,
resume, autoresume, autosuspend. Hard: several interfaces share a card, and
messages are under way meanwhile. Correct when references balance and the card
is freed exactly once.

**USB endpoints** (`src/sound/usb/endpoint.c`). State: `use_count`, `flags`
(RUNNING, STOPPING), `active_mask`, `unlink_mask`, the callbacks and the substream they
are for, the list of ready URBs and the ring of packets of implicit feedback. Operations:
start, stop, sync of a pending stop, set_params, deactivate, free, completion. Hard:
completions race every one of them, and a trigger may not sleep. Correct when no URB is
freed while the host has it, none is forgotten, a restart finds the last run over, and no
completion touches a buffer that is gone.

**USB PCM driver** (`src/sound/usb/pcm.c`, `stream.c`, `clock.c`, `format.c`): the callbacks
under the PCM core, rate and clock selection.

**Generic USB mixer** (`src/sound/usb/mixer.c`, `mixer_quirks.c`): parsed controls, the
status interrupt, the hook that calls the Scarlett set-up.

**USB MIDI** (`src/sound/usb/midi.c`): output tasklet, error timer, drain.

**Card core** (`src/sound/core/init.c`, `device.c`, `sound.c`). State of a card: its
minors, `shutdown`, `refcount`, the list of open files with their replaced operations,
`free_on_last_close`. Operations: create, register, look up a minor, add and remove a
file, refer and unrefer, disconnect, free at once or when closed. Hard: files are
opened, used and closed while the card goes, the device may come back as another card
while the old one is still open, and whoever lets go last has to free. Correct when a
card is freed once, after everyone has let go, and no file reaches the driver after the
disconnect.

**Raw MIDI** (`src/sound/core/rawmidi.c`): input and output rings between
applications and the driver's transmit callbacks; drain and drop.

**Sequencer** (`src/sound/core/seq/`): clients with a FIFO of events on a pool of
cells, ports and subscriptions, queues with a priority queue and a timer. State of a
FIFO: the linked list with its ends and count, the overflow flag, `use_lock`, the
pool; of a pool: the free cells, `closing`. Operations: deliver (from interrupts too),
read, put back, clear, resize, and the end of a pool. Hard: cells change hands between
senders, the list and readers while the pool is exchanged; short of cells, a long event
has to be given back in part. Correct when the FIFO is one, and no cell is lost, used
twice or used after its pool.

**Timers** (`src/sound/core/timer.c`): timer instances, slaves, callbacks.

**OSS emulation** (`src/sound/core/oss/`): the older interfaces on top of PCM and
control; the mixer part calls `put` without `power_lock`.

**Support code, drivers of other hardware, the compatibility tree**: proc files,
allocators, format tables; `src/sound/pci`, `isa`, `soc`, `drivers`, `firewire`;
`src/alsa`, build scripts and documentation.

### 1.2 How they interact

Applications enter through ioctls. A control ioctl takes `card->power_lock`, then
`controls_rwsem`, and calls the `put` of the mixer, which takes `shutdown_rwsem`
in the USB code, resumes the interface, and sends a message. A PCM ioctl takes the
substream's lock (`snd_pcm_link_rwlock` for reading and `self_group.lock`) and,
if the substream is linked, the group's lock; under it the `trigger` callback
starts or stops URBs. Completions of URBs count frames and call
`snd_pcm_period_elapsed`, which moves `hw_ptr`, wakes sleepers, or stops the
group on an underrun. Unplugging sets `shutdown`, waits for the holders of
`shutdown_rwsem`, replaces the file operations of open files, and puts every
substream in DISCONNECTED. Power management freezes the tasks and calls
`snd_pcm_suspend_all`, while interrupts go on.

`PcmStream` and `PcmRing` share the state machine of a substream and divide its
data: `PcmStream` has many substreams and the fill level as a number,
`PcmRing` has one substream and every pointer behind that number, with the
waiting that `PcmStream` leaves out. `UsbEndpoint` is the hardware of both: what
their `dma` stands for are URBs there, and the calls of `PcmStream` appear as the
order in which it may call the driver. `ScarlettSetup` ends where `ScarlettMixer`
begins. `ScarlettMixer` has of the control core what a read and a write of an
element do, and of the card what a message needs; `Control` has what follows the
`put` of a driver, whose result is all it knows of it. `CardLife` has the frame of all
of these: which card a file belongs to and how long there is one. The disconnects of
`PcmStream`, `ScarlettMixer`, `Control` and `UsbEndpoint` are its `Devices` and
`Disconnect`, seen from one component each. `SeqFifo` stands alone: who delivers to it and
when is left open.

## 2. How the modules correspond to the code

### 2.1 `PcmStream`

`rt[s]` is the runtime of substream `s` with the hardware behind it: `state` and
`suspended_state` are the fields of that name, `dma` says whether the hardware
moves (what the driver's `trigger` callback turned on), `level` is what
`snd_pcm_playback_hw_avail` or `snd_pcm_capture_avail` would return, `setup`
says that `ops->hw_params` has succeeded and `ops->hw_free` has not been called
since. `grp[s]` is the group of `s`. `pc[a]` is the place of agent `a`: an application
thread, the interrupt handler of a substream (an agent with the substream's
name), or the task that suspends or unplugs the card.

*Locks.* A place says which locks an agent holds: `self` the substream's own
lock, `wait` none and waiting for the group's lock, `group` the group's lock,
`both` both. `snd_pcm_action` (pcm_native.c:780) is `TryGroupLock`, which either
succeeds with the own lock held or lets go of it, `TakeGroupLock`, and
`ActGroup`; for a substream that is not linked it is `ActSingle`. Between a step
that lets go of the own lock and `TakeGroupLock` everything else may happen, as in the code.

*Actions on groups.* The tables of `pre_action`, `do_action` and `post_action` of the
seven `action_ops` are the operators `Pre`, `Triggers`, `TriggerOn`, `StateAfter`
and `Done`; `Undone` is `do_action` followed by `undo_action`. An action is
refused by any member's `Pre` (`ActionRefused`), fails at some member `f` whose trigger
reports an error (`ActionFailed`: some of the others were triggered and undone;
which, depends on the order of the list), or is done to all. `do_drain_init` does not
look at what its trigger returns (`DrainWithoutStart`).

*Calls.* `todo` of an agent is the list of `snd_pcm_action` calls it has still to
make with this lock: drop of a paused substream is a release and a stop, drain is a
release and a drain. `AfterCall` says what the caller does with a refusal: drop goes on,
drain goes on unless `drain_init` was refused, the rest return. Calls that check under a
lock and work without it are two steps: `IoctlHwParams`/`IoctlHwFree` with `HwSetState`,
`IoctlPrepare` with one `PostPrepare` per member, `IoctlTransfer` with `CommitTransfer`,
`IoctlDrop` with `DropLock`, `Close` with `CloseFinish`. `IoctlDrain`, `DrainRound`,
`DrainSleep`, `DrainTimeout`, `DrainSignal` and `DrainWake` are `snd_pcm_drain`
with its loop; the step between queueing and sleeping is its own (`DrainSleep`),
since a wake-up that comes before it is lost there.

*Interrupts.* `PeriodElapsed(s)` lets the hardware move by some frames and runs
`snd_pcm_update_state`: an empty draining substream becomes SETUP, an empty
running one is stopped through `snd_pcm_action` by the same agent.

*Data.* `level` is in `0..BufferSize`; an underrun is level 0, an overrun level
`BufferSize` (stop_threshold has its default). `Features` and `Fallible` choose
which parts of the environment take part in a run.

### 2.2 `PcmRing`

The variables have the names of the code. `hw` is the hardware and the clock: `at` the
frames played modulo the boundary (the driver's pointer callback sees it modulo
the buffer size only), `irq` a raised interrupt with the frames played since,
`age` the frame times since `hw_ptr_jiffies` was set, up to `AgeLimit`. `thr[t]`
has the place of a thread and the locals of `snd_pcm_lib_write1` that survive an
unlock.

`Update(irq)` is `snd_pcm_update_hw_ptr0`: `Lapped` the check for double
acknowledged interrupts (pcm_lib.c:361-377), `NewBase` and `NewPtr` the wrap of
the base, `Plausible` the test in front of the branch "something must be really
wrong", `NewInterrupt` the advance of `hw_ptr_interrupt` in whole periods,
`StateWith` what `snd_pcm_update_state` does to the state. `RousedBy` is its
wake-up. `Write`, `Commit`, `WriteFails`, `WakeToWrite`, `WakeToFail`,
`WaitSignal` and `WaitTimeout` cut `snd_pcm_lib_write1` and `wait_for_avail` at
the places where the lock is not held: during a copy and during a sleep.
`WaitForAvail` is one step up to `schedule_timeout`, because the thread has put
itself on the queue and has set its task state before it looks for room once
more (pcm_lib.c:1905-1912): a wake-up after that look makes the sleep return. A reset or a
prepare takes three steps, `ResetPtr` or `Prepare`, `ResetBase`, `ResetAppl`,
because only the first is under the lock.

`Ahead(p, q)` is the difference that the code computes and corrects by the boundary.
Positions are below `Boundary`, a multiple of the buffer size of at least four
buffers: `snd_pcm_hw_params` doubles the buffer size as long as it fits in a
long, which gives many more buffers; the arithmetic needs no more than four.

### 2.3 `ScarlettSetup`

A control is a record of the register it stands for, its channels and the values
it is initialised to. `TableOf(m)` is the list that `scarlett_mixer_controls`
makes for model `m`, in its order; `Info(m)` has the tables of the model (the
texts of the sources with the offsets of their banks, the sizes of the matrix,
`matrix_mux_init`). `AddNewCtl` makes the next control and `SetCtlValue` sends the
next message of the newest one; `GiveUp` is a failed allocation or message, after which the
set-up returns. `dev` has what the registers were set to. `Shown` is what the
enum shows for a code.

### 2.4 `ScarlettMixer`

`dev` are the registers, `cache` the values of `elem->cache_val` with their bits in
`elem->cached`, `pm` the references on the interface's power, `power` the holder of
`card->power_lock`, `untold` the controls changed since the last event, each with
whether a write that changed it has returned an error (history that only two properties
use). A call of a thread passes through `Look` (the cache), `Autoresume` or
`AutoresumeFails` (the early return of `-EIO`), `Enter`
(`down_read(&chip->shutdown_rwsem)` with the look at `shutdown`), `Reply` or
`Send`/`SendFails` (the message), `Got` or `SentDone` (`up_read`, autosuspend, the store
in the cache), channel by channel, and `End` (the event and the unlock). Threads in
`Ioctls` hold `power_lock` throughout; the others are the OSS mixer emulation, which
calls the same functions without it. `Raw`, `Sent` and `Shown` are the conversions of a
value: by the driver to the unit of the device, to the two bytes of a message, and back
with its clamp.

The device leaves the bus (`Detach`, `gone`) before its driver is told (`Disconnect`,
`shutdown`). In between messages fail, and `usb_autopm_get_interface` may answer
`-ENODEV` without taking a reference. `get_ctl_urb2` and `set_ctl_urb2` take this for the
`-ENODEV` that `snd_usb_autoresume` gives after a disconnect and go on to the autosuspend.

### 2.5 `UsbEndpoint`

`ep[e]` is the `snd_usb_endpoint` of the playback, capture or explicit feedback
endpoint: `use` is `use_count`, `running` and `stopping` the two flags, `active` and
`unlinked` the two masks, `user` is `data_subs`, `slave` is `sync_slave`, `retire` and
`prepare` say whether the two callbacks are set, `ready` and `packets` are the
list of ready URBs and the fill of the ring of packet sizes. `urb[e][u]` is where an URB
really is, of which the driver sees the masks only: idle, on the bus, unlinked, in its
handler. `subs[s]` is a substream, `chip` the card.

*Todo lists.* A call is a list of steps that its thread has still to do, so that a
call that is used by several others (`stop_endpoints`, `deactivate_urbs`,
`wait_clear_urbs`) is written once. Between two entries everyone else may run. The
cuts are where an unlocked read of shared state and its use are apart: the
increment and the decrement of `use_count` (`StartEp`/`IncUse`, `StopEp`/`DecUse`), a
submission and its `set_bit` (`Submit`/`SetBit`), the end of `snd_usb_endpoint_stop`
(`Detach`, `Mute`). `Then` goes on with the calls a step makes, `Abort` is an error
path that leaves the rest of the call.

*The handler.* `Complete` gives an URB back and enters `snd_complete_urb`; `HandleSync`,
`TestRetire`, `FetchRetire`, `Retired` and so on are its reads of the callback, of
`data_subs` and of RUNNING, each a step of its own; `CaptureOverrun` and
`PlaybackUnderrun` are the callbacks that find the stream broken and stop it from inside
the handler. `QueueRound`, `QueueSubmit`, `QueueSetBit` are one round of
`queue_pending_output_urbs`. The host controller runs one handler at a time.

*Restrictions*, each a constant, each with a configuration that lifts it and a
counterexample in section 6: `AtOnce` (how many substreams are open), `Unplug` ("at rest"
waits with the unplugging for submissions and handlers), `Grow` (whether `hw_params`
replaces the buffer), `Faulty` (which endpoints refuse URBs).

### 2.6 `Control` and `ControlNews`

`files` is `card->ctl_files` in its order, `events[f]` the queue of a file with one record
of number and mask per `snd_kctl_event`, `elem[n]` an element (`numid`, `vd[0].owner`, and
whether it is user-defined), `sem` is `controls_rwsem`, `pc[t]` the call of a thread
and its place, `tell[t]` the `snd_ctl_notify` it is in: the position in the list
of files, the event, and the place at which the call goes on. `hand[t]` is the event a
reader has taken out of the queue and is copying. `failures` counts the two ways in which
the code loses an event: `TellNoMemory`, when `kzalloc` fails for one file
(control.c:167-174), and `CopyFails`, when the event has left the queue and `copy_to_user`
fails (control.c:1456).

A notify holds `ctl_files_rwlock` for reading throughout and each file's `read_lock` for
one file: `TellBegin`, one `TellOne` per file, `TellEnd`; `NobodyTells` is what a
writer of that lock waits for. `Write` and `Put` are the two halves of
`snd_ctl_elem_write` around the driver's `put`, which may find a change or not. A removal
keeps the semaphore while it announces (`Remove`, `Tell`, `Removed`), an addition is six
steps under several locks (`AddCheck`, `Find` or `Replace`/`Replaced`, `Add`, `Tell`,
`Count`). `Take`, `Copied`, `Empty`, `WakeUp`, `Signal` are `snd_ctl_read`; `Empty` is one
step up to `schedule`, because the reader is on the queue and has set its task state
before it gives up `read_lock` (control.c:1433-1438).

`ControlNews` has four variables: who listens, what each listener is owed, what each
reader is being told, and how often something was lost. A fact is a pair of an element's
number and VALUE or REMOVE. `Happen` adds a fact to what every listener is owed, `Give`
takes facts of one element out of it. `Lose` takes one fact from one listener and `Drop`
from one reader what it is being told; each counts as a failure, so that `Control` may
lose something in `TellNoMemory` and `CopyFails` only, and no more than that. How facts
travel is not in it. The mapping (`Listening`, `Owed`, `InHand` of
`Control`): a file listens from the subscription until its queue is emptied; it is owed
what its queue holds and what any announcement under way has still to bring it. So a
change that merges with one that is waiting, or one that is announced while the file is
read, is accounted for exactly. ADD events are left out of the facts because they carry
no number (section 6).

### 2.7 `SeqFifo` and `EventQueue`

`head`, `tail`, `cells` and `next` are the list with its pointers, not a sequence, since
what is at risk is that its ends disagree; `Chain(head)` is what a walk finds. `holds[c]`
is the event of a cell and the cells chained to it, `free[p]` and `life[p]` are the free
cells and the state of a pool, `use` those counted by `use_lock`. `Send` reads
`f->pool`, `Alloc` and `AllocFails` get one cell each (an event longer than a cell takes a
second), `Lost` is the error path of `snd_seq_event_dup`, `Enqueue` and `Wake` are the
rest of `snd_seq_fifo_event_in`. `Read`, `Take`, `Empty`, `Interrupted`, `Copied` and
`PutBack` are `snd_seq_read`; `Clear` and `Drain` the removal of all input;
`Resize`, `ReleaseCells` and `PoolDone` are `snd_seq_fifo_resize` with the end of the old
pool. `snd_seq_fifo_clear` and `snd_seq_pool_done` wait for others, but for five seconds
at most; the first wait gives no guarantee to those who enter after it and is no guard,
the second is one unless `GivesUp`.

`EventQueue` is a queue of events from which several readers take one at a time and may
put it back in front.

*Restrictions*: `PutsBack = "before others"` has a reader put an event back only when
others wait; `Resizes = "before a call"` has a resize wait for senders that have looked
up the pool and have no cell of it yet. Without either the code goes wrong (section 6).

### 2.8 `CardLife`

`card[c]` is a `snd_card`: whether it is allocated (`life`), whether its devices have
minors, `shutdown`, `refcount`, the files of `files_list` and those of them whose
operations have been replaced (`dead`), `free_on_last_close`. `chip[c]` is the
`snd_usb_audio` of the card, which goes with it; `pm` counts the references on the power
of its interface. `usb_chip` is the slot of the one device there is, `bound[i]` the card
in the data of interface `i`. `file[f]` is a file with the thread that uses it: its
place, the card of the file, the card that the thread will unrefer (`ref`), the file it
is linking to, and whether its message has taken a power reference.

*Applications.* An open is `Lookup` (`snd_lookup_minor_data`, which refers to the card),
`FileAdd` or `FileRefused`, perhaps `OpenFails`, and `Unref`; a close is `Close` and
`Unref`. Since a file refers to the card on its own, between the two steps the card has
one or two references of one thread. A call is `Enter`, which the replaced operations
refuse, and `Return`, a `Link` to another file, or a message from `Autoresume` to
`Autosuspend`. A file is not closed while another call has it (`fdget`).

*The USB core.* It probes and disconnects the interfaces of one device under the
device's lock, and both handlers hold `register_mutex`, so one thread does. `Probe`,
`Create`, `Register` and `Bind` are `snd_usb_audio_probe`; a failure goes through
`ProbeFails` to `snd_card_free` if the card has no interface, and to `Clear`.
`Disconnect` and `Leave` are the two halves of `snd_usb_audio_disconnect`; `Shutdown`,
`ReplaceFops` and `Devices` are the phases of `snd_card_disconnect`, between which the
applications go on; `Hold`, `GiveUp` and `Unhold` are `snd_card_free_when_closed`. The
wait of `snd_card_free` is the guard of `WaitAndFree`.

*Restrictions*, each with a counterexample in section 6 when it is lifted: `Spec` has
`snd_card_unref` look at `free_on_last_close` at once, `LateSpec` also in a step of its
own (`LateUnref`, `LastLook`); the constant `Replug` says whether a link may look up
another card than that of the file, `Overlap` whether an interface is probed while
messages are under way.

## 3. Runs

Most runs take from seconds to two minutes with two workers. States are
distinct states.

| run | question | properties | states |
|---|---|---|---|
| `pcm_linked` | do trigger, state and group stay together when calls fail, refuse and interleave with interrupts? | `HardwareFollowsState`, `DmaHasBuffer`, `PreparedIsSetUp`, `RunningTogether`, `XrunQuiets`, `DropQuiets` | 44 thousand |
| `pcm_power` | does a suspend silence the card whatever is under way? | `SuspendQuiets` | 2.2 million |
| `pcm_live` | do drains return, and are underruns acted upon? | `DrainReturns`, `XrunIsHandled` | 56 thousand |
| `ring_writer` | is the ring sound with one sequential application, and do its writes return? | `RingNotOverrun`, `ChunkIsFree`, `PointerFollows`, `NothingReallyWrong`, `NoLostWakeup`, `WriteReturns` | 87 thousand |
| `ring_calls` | what survives when a second thread makes the other calls? | `TwakeWhileWriting`, `NoEmptyChunk` | 5 million |
| `setup_models` | are the 8i6, 18i6 and 18i8 set up as documented? | `OwnRegister`, `RoutesAsCommented`, `PcmReachesOutputs` | 2 thousand |
| `mixer` | do cache, device, power and events agree through failures and unplugging, and do calls return? | `CacheIsDevice`, `PmBalanced`, `EveryChangeIsReported`, `SilentAfterShutdown`, `CallsReturn` | 1.1 million |
| `usb_endpoint` | is no URB, buffer or endpoint let go of while the host or a handler has it? | `FreedWhenIdle`, `CallbackHasBuffer`, `AtHostIsActive`, `RestartsFromRest` | 1.1 million |
| `control` | do locks of elements and events hold up while files, elements and the card go? | `WriterMayWrite`, `OwnerIsOpen`, `NoReaderOversleeps`, `EveryoneIsTold` | 2.4 million |
| `seq_fifo` | does the FIFO lose, double or mix up events or cells? | `CellsAccounted`, `NoReaderMissed`, `EventsInOrder` | 614 thousand |
| `card_life` | is a card there as long as anyone holds it, and freed then, while interfaces come and go? | `HeldIsAlive`, `FilesAreDead`, `PmBalanced`, `FreedAtLast` | 104 thousand |

One run shows a place where the code does not do what it says, and ends with a
counterexample: `setup_18i20` (section 6).

The type invariants of the modules with proofs are theorems and are not repeated here.
Those of `ScarlettSetup` and `UsbEndpoint` hold when `TypeOK` is added to the `INVARIANTS`
of `ScarlettSetup_models.cfg` and `UsbEndpoint_one.cfg`. `usb_endpoint` also passes with
`Feedback = {"explicit"}` and `Faulty = {"fb"}`, and `mixer` with one caller outside
`power_lock` (`Ioctls = {a}`), one channel and no save, but for `CacheIsDevice`.

What the properties mean for the code:

* `HardwareFollowsState`, `DmaHasBuffer`: no path through start, failed start with
  its undo, stop, pause, drain, prepare, unplug or close leaves the hardware moving
  in a state that nobody will stop it in, or moving without a buffer.
* `RunningTogether`: with a group that started together, no member is RUNNING
  while another is not, whichever member an interrupt or a call went to.
* `XrunQuiets`, `DropQuiets`: when the stop after an underrun is over, or a drop
  returns, no member moves, although the locks were let go of in between.
* `SuspendQuiets`: interrupts that wait for a group lock during the suspend do not
  restart anything; when the card is down, nothing moves.
* `RingNotOverrun`, `ChunkIsFree`: no frame is overwritten before it was played,
  also while a chunk is copied without the lock and when a pointer has wrapped.
* `PointerFollows`, `NothingReallyWrong`: the position that the driver reports
  modulo the buffer is never taken for one a lap earlier or later.
* `NoLostWakeup`, `WriteReturns`: no interleaving of a writer's last look with an
  interrupt leaves it asleep, neither for the moment nor for good.
* `TwakeWhileWriting`: `twake` suppresses the wake-ups of pollers, so a write that
  returns, by whatever way, must clear it.
* `CacheIsDevice`: the driver cannot read a volume back; if the cache is wrong it
  stays wrong.
* `EveryChangeIsReported`: what was changed on the device is told by an event, or the
  write that changed it has returned an error to its caller.
* `PmBalanced` (of the mixer, and of the card with several interfaces): each way out of a
  message gives back the power reference it took, and none that it was refused. For
  the mixer there is one exception, which is the code's (section 6): after the device has left the
  bus a reference may be given back that was not taken, but none is kept.
* `SilentAfterShutdown`: a message either precedes the disconnect or is not sent.
* `RoutesAsCommented`: after the set-up of the 8i6, 18i6 and 18i8 the matrix inputs have, one
  by one, the sources that the comments at `matrix_mux_init` name, and the capture channels
  the hardware inputs in the order analog, SPDIF, ADAT; the 8i6, which has two inputs fewer
  than capture channels, has two mixes in the end.
* `FreedWhenIdle`, `AtHostIsActive`: `wait_clear_urbs` looks at `active_mask` and
  nothing else; the mask never forgets an URB that the host still has, except in the
  moment before a `set_bit` that is about to come.
* `CallbackHasBuffer`: a trigger stops an endpoint without waiting for its URBs, so the
  buffer of a substream may only go after a `sync_endpoints`; no order of stop,
  close, `hw_free` and completion skips it.
* `RestartsFromRest`: `snd_usb_endpoint_start` clears the masks, also in a trigger,
  where it cannot wait; the `prepare` before it has waited for it.
* `WriterMayWrite`, `OwnerIsOpen`: the check of `vd->owner` and the `put` are not torn
  apart by a lock, a removal or a replacement, and a release gives up every lock.
* `NoReaderOversleeps`, `NoReaderMissed`: the look at the queue, the place on the wait
  queue and the task state are in the order that loses no wake-up.
* `EveryoneIsTold`, `EventsInOrder`: the two refinements: nothing that happened is lost
  by merging, by subscribing or by closing, and a failed allocation or copy loses one event
  of one file and no other; events leave the FIFO in their order,
  once, and are as long as they were.
* `CellsAccounted`: every cell of a pool that is not freed is free, in the list, or in the
  hands of exactly one thread, whichever step failed.
* `HeldIsAlive`: `refcount` is what stands between a freed card and those who use it. Every
  path of an open, a failed open, a close, a link, a failed probe and a disconnect must
  take and give back as many references, in an order in which the last one frees.
* `FilesAreDead`: an open that has looked up the card before the disconnect is added to
  the list of files before the list is walked, or not at all.
* `FreedAtLast`: nobody forgets a reference, and `snd_card_free` does not wait for ever; a
  card is freed also if its last file is closed in the middle of the disconnect.

### Bounds

`PcmStream`: two substreams are what a group of more than one needs; a third adds no new
kind of interleaving, since an action treats the others of its group as a set. One
playing and one capturing cover both halves of drain, and one thread is enough because
the interrupt handlers of both substreams are agents of their own and the driver task is
another: what interleaves is calls with interrupts, suspend and unplug. `BufferSize` 2
has empty, half full and full in `pcm_linked`; 1 keeps the runs with the power
management and the liveness small and loses only the half full ring. `pcm_linked` has
every trigger failure but resume's, `pcm_live` a failing start together with unplugging.

`PcmRing`: the buffer has four frames (two in `ring_calls`), the boundary is four
buffers, the least the code can choose, so that every position wraps within a few
periods; writes are of up to five frames, more than the ring. Interrupts are up to
one frame late. These are the bounds under which the position can be inferred at
all: `PeriodSize + MaxLate` is at most half the buffer, because the check
for a second lap compares the time since the last update with half a buffer
(with a period of half the buffer, section 6 tells what happens).
`AgeLimit = BufferSize` frame times stand for every longer time, because the
code compares the time with half a buffer only. `AvailMin` 3 is neither a period nor
the buffer, so that a wake-up may find room that is not enough.

`ScarlettSetup` has no bound: the tables are those of the code.

`ScarlettMixer`: two threads, one volume with two channels, one enum and the save
switch; the switches of the hardware follow the path of an enum with two values. Two
values per volume, 0 and 128 (-128 dB and 0 dB), are what a cache needs to differ from
the device. A message is tried twice instead of ten times: what matters is that there is
a try that is not the last. `MaxUnpaid` bounds how many references are given back that were
not taken: one, which any call may give back in any phase of the unplugging.

`UsbEndpoint`: two URBs per endpoint are what a mask needs in order to be partly
cleared, and two substreams, open one at a time (section 6 tells what happens with two at
once), what an endpoint needs to pass from one user to the next. `usb_endpoint` covers
the alternate settings without feedback and with implicit feedback, in which the
capture endpoint is started by the playback substream and its completions queue the
playback URBs. Submissions of the playback endpoint may fail, at any URB.

`Control`: two threads, two files of which one subscribes, one user-defined element and
two numbers, so that an element may be removed and another added, and a replacement
gets a new number. `MaxNumid` bounds `last_numid` in the guard of `Add`; the code would
go on to 2^32. `MaxUsers` is 32 in the code. `MaxFailures` is 1: one allocation or one copy fails, at
any moment. The threads are exchangeable and
`AlikeThreads` makes use of it.

`SeqFifo`: two senders and two readers, exchangeable among themselves, an event of one
cell and one of two, a pool of three cells and one of a single cell, in which the long event
finds room for its first half only.

`CardLife`: two interfaces, so that the probe of the second finds the card of the first
and its failure must leave the card alone; two cards, so that the device comes back
while the old card is open; two files, so that one may be opened, closed or linked while
the other is the last. A file that was closed is opened again without a bound, on either
card. `refcount`, `num_interfaces` and `pm` are bounded by the numbers of files and
interfaces. Probes may fail while streams and mixer are made and in `snd_card_register`,
with some minors registered.

`CHECK_DEADLOCK FALSE` is set where the system may stop: an unplugged card
with all calls returned has nothing left to do (`PcmStream`, `UsbEndpoint`), a set-up ends
(`ScarlettSetup`), files and numbers are used up once (`Control`), everybody may
be asleep over an empty FIFO (`SeqFifo`), and the cards are used up (`CardLife`).

## 4. Fairness

`pcm_live` assumes weak fairness of the steps of a call that is under way (the
scheduler runs every runnable thread) and of the interrupts of running hardware, and
strong fairness of `TakeGroupLock`: the kernel's spin locks are ticket locks, and
serve their waiters in order. No new call is assumed, no signal, no wake-up; the
timeout of a drain is part of the call, and the model lets it run out only when the
hardware that is awaited does not move, since it is at least ten seconds.

`ring_writer` assumes weak fairness of the writer's own steps and of the interrupt
handler, and strong fairness of `Play` (a running substream plays frame after
frame, even though pauses in between disable the step). It assumes neither the
timeout nor a signal: the write must be ended by the ring itself. `WriteReturns`
excepts one case: after a forward has filled the ring of a PREPARED substream, a
blocking write waits for hardware that nobody has started.

`mixer` assumes weak fairness of the steps of a call, which includes that a
USB message ends one way or the other (`snd_usb_ctl_msg` has a timeout), and
strong fairness of taking `power_lock`, a kernel mutex with a queue of waiters.

`card_life` assumes weak fairness of the thread of the USB core once it is in a probe or
a disconnect, and of the steps with which each call ends. Nobody has to open, call or
close anything: `FreedAtLast` excepts a card of which a file stays open. A probe that
failed waits in `snd_card_free` for files that were opened meanwhile, and gets there
only because they are closed; if one stays open it waits on, with `register_mutex` held,
which is the same exception.

The other runs check safety and refinements of safety specifications, which need no
fairness. That a reader which is owed an event is not asleep (`NoReaderOversleeps`,
`NoReaderMissed`) is stated as an invariant, which is stronger.

## 5. Proofs

Every theorem is about the specification of a module as TLC checks it. Hypotheses of a
theorem are those that section 6 has a counterexample for, and those that its argument
rests on and that are said here. An invariant that a run checks is seldom inductive; what
follows says for each module what it has to be joined with, and why.

`PcmStream_proofs` proves about `PcmStream`, for any number of substreams and any
`BufferSize`:

* `TypeCorrect`: `Spec => [](TypeOK /\ Forms)`, for any number of threads and all
  `Features`;
* `StateIsHardware`: `Spec => []HardwareFollowsState`, and `SuspendedIsQuiet`:
  `Spec => []SuspendQuiets`, for an application with one thread (`OneThread`);
* `HardwareHasBuffer`: `Spec => []DmaHasBuffer`, and `ReadyIsSetUp`:
  `Spec => []PreparedIsSetUp`, for the same without suspend (`pm`);
* `GroupsRunTogether`: `Spec => []RunningTogether`, for the same without suspend and
  unplugging;
* `UnderrunQuietsGroup`: `Spec => XrunQuiets`, and `DropQuietsGroup`: `Spec => DropQuiets`,
  for the same without suspend, unplugging and signals; `PcmStream_drop_open.cfg` shows a
  signal breaking `DropQuiets` (section 6).

`OneThread` says that there is at most one thread, that it resumes only substreams it found
SUSPENDED, and that the resume trigger does not fail. The interrupt handlers of all
substreams and the driver task are agents beside it, so that what interleaves is one
thread with any number of interrupts, a suspend or an unplugging. A second thread is
excluded because `hw_params`, `hw_free` and `prepare` check the state under the lock and
work without it: a second thread may start the substream in between.

*Forms.* `TypeOK` is not inductive, since `Head(pc[a].todo)` needs a call that is still to
be made. `Forms` says which calls an agent has yet to make at every place of every
operation (`IrqTask`, `DriverTask`, `ThreadTask`). With it every step of `Next` is of one of
fifteen kinds (`NextKinds`): a call of `snd_pcm_action` (`Performs`), a step between
locks (`Relocks`), one that at most ends a draining (`Settles`), the beginnings and ends
of the calls that set up or prepare, the link, the close, and the steps of the driver. The
other proofs have one lemma for each kind.

*Sound.* `HardwareFollowsState` is kept by an action on a whole group (`OutcomeGood`, with
`DoneGood` and `UndoneGood` for one member), but `hw_params`, `hw_free`, `prepare` and
`resume` set a state or start the hardware after they let go of the lock. What they found
must still hold then (`Promises`), and it does because interrupts and the driver only
stop hardware. A resume starts the members from the states they were suspended in, so that
none may move: a group is suspended as a whole (`Uniform`), except while a prepare is on
its way through it. While the card is powered down, what still moves is what the driver
has yet to visit (`Frozen`), from which `SuspendQuiets` follows.

*SetUp* adds what is set up: `hw_params` and `prepare` rely on what they did or found
(`HasSetUp`), and every substream beyond OPEN is set up or being set up (`Configured`); a
suspend of an OPEN substream breaks it (section 6). *Together* is `RunningTogether` on a
card that is plugged in: an action moves all members of a group to RUNNING or out of it,
or leaves their states (`PerformSetUp`), and a link joins equal states.

*Quiet* is what makes a refused stop harmless. `snd_pcm_pre_stop` refuses a whole group for
one member in OPEN, so that in a group with such a member nothing may move (`OpenRests`). A
member gets to OPEN through `hw_free` or a failing `hw_params`, which find it at rest (and
through `close`, which takes it out of its group), and where no drain is under way the
members that move are RUNNING, all of them or none (`Together`). While a
drain is under way its thread is busy with it and makes no such call: whatever moves is
RUNNING or belongs to a group that a drain works on (`Attended`), and a drain leaves only
when no member drains any more (`WaitingLasts`), unless its call was refused or stopped the
group. A signal lets it leave before.

`PcmRing_proofs` proves about `PcmRing`, for every value of the constants that its named
assumptions allow:

* `TypeCorrect`: `Spec => []TypeOK`, for any number of threads making any calls, in
  any order. In particular all four positions stay below the boundary: what
  `snd_pcm_update_hw_ptr0`, `snd_pcm_lib_write1`, rewind and forward wrap, they
  wrap in time and once.
* `NoOverrun`: `Spec => []RingNotOverrun`, and `CopiesIntoRoom`:
  `Spec => []ChunkIsFree`, for an application with one thread that does not pause
  or reset (`Sequential`), for any lateness of the interrupts, and any period, buffer,
  boundary, avail_min and start threshold;
* `ChunksAreNotEmpty`: `Spec => []NoEmptyChunk`, and `TwakeMarksWrite`:
  `Spec => []TwakeWhileWriting`, for one writer (`OneWriter`) and any number of threads
  making the other calls;
* `WritersAreWoken`: `Spec => []NoLostWakeup`, for one thread (`OneThread`) making any
  calls, pause and reset included;
* `PositionFollows`: `Spec => []PointerFollows`, and `InterruptsArePlausible`:
  `Spec => NothingReallyWrong`, for `Sequential` and interrupts that are handled before half
  the ring is played again (`WellTimed`). The period need not divide the buffer.

*Type correctness.* `TypeOK` is not inductive. `hw_ptr_base + Position` stays below the
boundary only if the base is a multiple of the buffer size and at least a buffer below
the boundary (`Aligned`; `NextBaseAligned` shows that the wrap of the base keeps it,
which needs the boundary to be a multiple of the buffer). `appl_ptr + frames` wraps once
only if the chunk a thread copies is at most a buffer and the `appl_ptr` it remembers is
below the boundary (`Good`). `TypeInv` is `TypeOK` with these two. `NewPtrType`,
`NewInterruptType` and `UpdateType` prove what a position update returns, for an
interrupt and for a call; `WriterStepType` and `CallerStepType` have one step per
action.

*No overrun.* `RingInv` adds to `TypeInv` that what a thread remembers during a copy is
still so: the `appl_ptr` it read before the copy is the present one, and the room it
knew is at most the room there is (`Current`). The first needs that nobody else moves
`appl_ptr`; the second follows because an update only moves `hw_ptr` forward,
and either the room remains at most a buffer or the update ends in XRUN or SETUP
(`UpdateRoom`, `SyncRoom`). `RoomAfterAdvance`, `RoomAfterWrite` and
`RoomAfterRewind` are the arithmetic modulo the boundary behind it: a sum
below the boundary, a write into the room, a rewind over queued frames.

`Sequential` is needed and not for convenience: a second thread may move
`appl_ptr` during a copy, a pause push updates `hw_ptr` and then overwrites the
XRUN that the update may have set with PAUSED, and a reset moves `hw_ptr` back in steps.

*Writers and wake-ups.* `Writing` joins `NoEmptyChunk` and `TwakeWhileWriting` with what a
writer under way knows: it has frames left to write. Two writers share `twake`, and the
first to return clears that of the other (section 6). For `WritersAreWoken`, a
thread that sleeps makes no call, so that only interrupts move the substream; each of
them that finds `twake` frames of room or ends the stream wakes it in the same step, and a
writer looks for both before it sleeps. A second thread can make room without waking
anybody, by a drop (section 6) or a prepare that was on its way when the writer went to sleep.

*Position.* The driver reports the place in the ring, and the code infers the turn of it
from the last position it knew. `PointerFollows` does not say when that goes well;
`FollowInv`, joined to `RingInv` as `FollowsRing`, does. While the substream runs
(`Clock`), `hw_ptr` lies in the turn of the ring that starts at `hw_ptr_base`, the time
since it was updated is the number of frames played since (`Played`), and there is a bound
on that: what was played since the end of the last period, or since the end of the one
before if its interrupt still waits for its handler (`Bound`). A prepared substream and
its hardware are at the start of the ring (`AtStart`), and so they are in the middle of a
prepare. With less than a turn played, a place behind `hw_ptr` is in the next turn and any
other in the present one, also where the boundary is crossed (`TurnFound`). So whoever asks,
`hw_ptr` becomes where the hardware is (`UpdateFinds`), and every update keeps `Clock`
(`UpdateClock`). `Lapped`, the guess for an interrupt that comes late, is made after half
a buffer only, and `WellTimed` says that no interrupt is so late; without it the guess
may be wrong (`PcmRing_wrap.cfg`). `Play` is the only step that loses ground, by a frame,
and the end of a period is where the bound makes up for it, by the interrupt
(`PlayFollows`); `NextRemainder` is the arithmetic of it. A pause and a reset are
excluded because either breaks `Clock` (section 6).

`ScarlettMixer_proofs` proves about `ScarlettMixer`, for any finite number of threads and
any controls, channels, levels and attempts:

* `TypeCorrect`: `Spec => []TypeOK`;
* `PowerIsBalanced`: `Spec => []PmBalanced`, refused resumes and failing messages included;
* `ChangesAreReported`: `Spec => []EveryChangeIsReported`;
* `SilentOnceShutdown`: `Spec => SilentAfterShutdown`, an action property;
* `CacheIsTrue`: `Spec => []CacheIsDevice`, if every thread is an ioctl (`Ioctls = Threads`)
  and no level exceeds 255; section 6 has a counterexample for each.

*The inductive invariant* `Inv` says what a call knows at every place (`Whole`), that nobody
is inside `shutdown_rwsem` once `shutdown` is set (`NobodyInside`, which alone gives
`SilentAfterShutdown`), that `pm` is the number of the calls between autoresume and
autosuspend, or less once the device has left the bus (`Balanced`), and that a change nobody was told of has a put function that owes
the event or returned an error (`Owed`). `CacheInv` adds that `power_lock` makes the calls
of ioctls follow one another (`OneAtATime`), that what a message was answered or sent is what
the device has (`GotIsDevice`, `SentIsDevice`), and that the cache of a channel is out of date
only between a message that arrived and the assignment after it (`CacheFresh`).

`Control_proofs` proves about `Control`, for any numbers of threads, files, elements,
user-defined elements and any `MaxUsers`, `MaxNumid` and `MaxFailures`
(`ControlAssumption`: the fixed elements are finitely many and fit below `MaxNumid`):

* `TypeCorrect`: `Spec => []TypeOK`; in particular no element has a number past `last_numid`;
* `WritesAreAllowed`: `Spec => []WriterMayWrite`;
* `NoOrphanedLock`: `Spec => []OwnerIsOpen`;
* `NoOversleeping`: `Spec => []NoReaderOversleeps`.

*The inductive invariant* `Inv` joins `WriterMayWrite`, `OwnerIsOpen` and
`NoReaderOversleeps` to what their steps need: the types in a form that does not depend
on the number of files (`TypeInv`), every call belongs to a file that is in the list, or
is its release, and knows the element it is about (`CallsAreOpen`), a thread in the
`put` of a write has `controls_rwsem` for reading (`WritersHoldSem`), and an
announcement is at one of the files or before or behind them all (`TellersInList`).
`WriterMayWrite` is then kept, because whatever locks, removes or replaces an element
waits for the readers of the semaphore; `OwnerIsOpen`, because only a file in the list
locks and the release that takes it off the list is the one that gives its locks up;
`NoReaderOversleeps`, because an event is queued and its readers woken in one hold of
`read_lock`, and a reader goes to sleep over an empty queue only. Beside it `Bounded`, the
numerical part of `TypeOK`, is inductive: `last_numid` never falls, and an element gets
its number when it is counted up (`NumbersAreGiven`). There is one lemma per
action (`StepOpen`, ..., `StepDisconnect`), most of them short by `GoesOn`, the lemma
about the place a thread goes to.

`ControlNews_proofs` proves `EveryoneIsToldOfAll`: `Spec => EveryoneIsTold`, that is,
`Control` with the mapping of section 2.6 implements `ControlNews`, for the same
constants. `failures` maps to itself, so that what an implementation step loses is what the
abstract one counts. `NewsInv` adds to `Inv` what the mapping rests on: no file is in the list
twice (`FilesDiffer`), one that is being released is out of it (`ReleasedIsOut`), a
subscriber is in it or being released (`SubscribedIsKnown`), only a reader that copies
has something in hand (`HandsEmpty`), and what is announced has a number
(`TellersKnow`). Fourteen of the actions touch nothing that the mapping looks at
(`Quiet`). Of the others, a `Put` that changed something, a `Remove` and a `Replace`
make a fact happen, since from then on their announcement is on its way to everyone who
listens (`ComesAbout`); `TellBegin` and `TellEnd` are stutters; `TellOne` moves the fact
into a queue, merged with what waits there or not (`FactsOfMerged`), and is a stutter,
too; `Take` gives a reader what the first event of the queue carries (`FactsOfTail`), of
which something may be owed once more, if an announcement still brings the same.
`TellNoMemory` is a `Lose` of the fact announced, unless another announcement still brings
the same (`IsTellNoMemory`), and `CopyFails` a `Drop` (`IsCopyFails`).

`SeqFifo_proofs` proves about `SeqFifo`, for any number of senders, readers, cells and
events and any finite number of pools:

* `TypeCorrect`: `Spec => []TypeOK`;
* `ListIsWhole`: `Spec => []Linked`;
* `NoCellIsLost`: `Spec => []CellsAccounted`;
* `NoReaderIsMissed`: `Spec => []NoReaderMissed`;
* `FifoIsAQueue`: `Spec => EventsInOrder`, that is, `SeqFifo` with the mapping of section 2.7
  implements `EventQueue`.

All are for `PutsBack # "any time"` and `GivesUp = FALSE`: a cell put back into an empty
FIFO, and a resize that does not wait for the readers of the old pool, are two of the
places in section 6.

*The inductive invariant* `Inv` says that there is a sequence of different cells that the
pointers link from `head` to `tail` (`IsList`), as many as `cells` says (`Counted`), that
the hands of the threads and the list have no cell in common (`Apart`), and that these cells,
those chained to them and the free ones are all cells of the pools in use, each once
(`Accounted`); beside it what a thread has in its hands at every place (`PlacesHold`), and
which pools a resize has replaced (`PoolsHold`). `Chain`, the list that is reached from the
head, is a recursive function of the pointers, and that it is the sequence of `IsList` is an
induction on its length. The library states induction with an operator parameter, which
cannot be used here; `Induction` is the same principle for a set of numbers, derived from
`NatLessThanWellFounded` and the existence of a least element (`WFMin`). For
the refinement, the steps that link, take and put back a cell change the queue at one end,
and a sender or reader changes no event of a cell that is not its own (`OthersKeep`), so that
all other steps are stutters (`QueueStays`).

`CardLife_proofs` proves about `CardLife`, for any numbers of files, interfaces and
cards (the first two finite, `CardLifeAssumption`) and any `Faults`:

* `TypeCorrect`: `Spec => []TypeOK`;
* `FilesDie`: `Spec => []FilesAreDead`, for every value of `Replug` and `Overlap`;
* `NobodyIsLeft`: `Spec => []HeldIsAlive`, for every value of `Overlap`, without
  `Replug`, with which it is false, as it is for `LateSpec` (section 6);
* `PowerIsBalanced`: `Spec => []PmBalanced`, for every value of `Replug`, without
  `Overlap`, with which it is false (section 6).

`FilesAreDead` is inductive beside `TypeOK`: a file is added only while `shutdown` is
not set, and the operations of all files are replaced after it was set. `HeldIsAlive` is
not, and `Inv` joins to it what its steps need. `FileInv`: a place tells which card a
file has and which its thread will unrefer (`FilePlaces`), a file is in the list of its
card from the step that adds it to the one that removes it (`ListsAreRight`), and
`refcount` is the number of the references (`RefsAreCounted`): one for each file in the
list, one for each thread that has yet to unrefer the card, one of
`snd_card_free_when_closed`. `UsbInv`: `num_interfaces` is the number of interfaces
bound to the card but for the one that is leaving for good, a card with an interface, or
with a minor, is in the slot or in the hands of the USB thread, what that thread may
rely on at each of its places, and that a card that was given up has neither slot nor
minor. A card is freed in three places only: by the `Unref` or the `Unhold` that gives
back the last reference of a card that was given up, and by `WaitAndFree`. In each of
them the count is zero, so that no file has the card (`NobodyUses`). `UsesCounted` and
`ListCounted` say by how much a step of one file changes the two cardinalities; then
there is one lemma per action.

`PmBalanced` needs less (`PmInv`): a file has a reference on the power exactly while it is in
a message, and no interface of its card is being probed then (`MessageHolds`). An
autoresume and an autosuspend look at `probing` and `shutdown` separately; that the second
gives back what the first took follows because neither a probe begins while the message
is under way (`~Overlap`) nor does a message begin during a probe, and because a
disconnected card is excepted: the USB core forgets the references on an interface that
is gone. Steps of the other files and of the core do not touch what the two count
(`SilentKeepsPm`, `CoreKeepsPm`).

`UsbEndpoint_proofs` proves about `UsbEndpoint`, for any number of URBs, with one or both
substreams in use:

* `TypeCorrect`: `Spec => []TypeOK`;
* `HostUrbsAreKnown`: `Spec => []AtHostIsActive`;
* `StartsFromRest`: `Spec => []RestartsFromRest`;
* `UrbsFreedWhenIdle`: `Spec => []FreedWhenIdle`;
* `CallbacksHaveBuffers`: `Spec => []CallbackHasBuffer`, if `hw_params` keeps the buffer of a
  configured substream (`~Grow`).

All are for `Lone`: no implicit feedback, no refused submission of a capture, and no
unplugging between the submissions of a start. The first is needed because two open
substreams with one endpoint break `FreedWhenIdle`, the second because a start trigger
that fails at a later URB breaks `RestartsFromRest` (section 6). The third is an
assumption of the argument: a device that goes while a capture is started makes a later
submission fail, as in the second. `~Grow` is needed because an `hw_params` that replaces
the buffer does not wait for the URBs of a stream that was dropped (section 6).
`usb_endpoint` is the same question for implicit feedback
with one substream at a time, which the theorems leave out.

*The inductive invariant* `IInv` says what may be on a todo list and in which order: a list
is whole calls and ends with their end (`Lists`, `Owned`), memory is freed and a playback
endpoint started right after a wait for the same endpoint (`Ordered`), and who is in the
middle of a start holds `shutdown_rwsem` or the stream lock (`Starting`), so that neither the
handler (`Alone`) nor the disconnect (`Plug`) has anything to do for the same substream. That is
why `use_count`, which is read and written in two steps, is 1 when the endpoint is in the
substream's flags and 0 when it is not, except between the two (`Uses`). `Masks` is
`AtHostIsActive`, and with it a `wait_clear_urbs` that returns, even by its timeout, leaves no
URB at the host (`WaitQuiet`); `QuietDue` says that this is still so at the step after it. The
start trigger of a capture does not wait. It is at rest because in PREPARED it is
(`Capture`): a stop that did not wait has left STOPPING, or is about to, and `prepare` waits
for that (`CaptList`); from its first submission on, every URB of its list is submitted once
and is idle until then. Most entries keep all of this for reasons that only depend on what
they put on the list (`CalmStep`, `EpStep`, `UseStep`), a call begins with a list of known
parts (`BeginStep`, `BodyJoin`), and the steps of the handler and the hub leave the lists alone
(`RestStep`, `MoveStep`, `PlugStep`); there is one lemma per action.

*The buffers.* `Buffers` rests on `IInv` and is inductive beside it. A substream
without a buffer is still (`Held`): the host has no URB of its data endpoint, or the card is
shut down. What a call leaves behind depends on what is on its list (`Ends`): an end in OPEN
or CLOSED, and the freeing itself, have a wait for the data endpoint ahead, or nothing
to wait for, and what sets up or starts an endpoint has a buffer and does not end there.
`hw_free` frees right before its end (`Frees`), so that no step comes between that
relies on the buffer. The handler is in a callback of the substream whose data the URB
carries (`Users`), so that an URB in its hands means that the substream is not still.

Only model-checked:

* `ScarlettSetup`, whose properties are about the tables of the four models: there is no
  constant to prove them for, and TLC looks at all of them;
* the properties of `UsbEndpoint` with implicit feedback: `use_count` then counts two
  substreams that may read it at once, and section 6 has what becomes of that;
* every liveness property, which is out of the prover's reach.

## 6. Where the code does not do what it says

Each of these is a counterexample that TLC finds with the configuration named.
`ScarlettSetup_18i20.cfg` is a run of the project; the others are kept beside it and can
be run the same way. Where a configuration shows more than one of them, a comment in it
names the other properties, to be put in the place of the one it has.

* **`ScarlettSetup_18i20.cfg`, `PcmReachesOutputs`.** The node of input `i` and mix `o` is
  `8 * i + (o % 8)` (scarlettmixer.c:1249), but the 18i20 has sixteen mixes: the
  silence of mixes I and J is written over the gains that were opened for "PCM 1 / 2
  on Mix A / B" (:1252), and the device starts silent.
* **`PcmStream_drain.cfg`, `DrainTimeoutIsTrouble`.** `snd_pcm_drain` queues
  itself, lets go of the locks, and only then sets its task state
  (pcm_native.c:1520). An interrupt in between ends the draining, its wake-up finds a
  running task, and the drain sleeps out its timeout and reports "DMA or IRQ trouble".
* **`ScarlettMixer_partial.cfg`, `EveryChangeIsTold`.** A write that changes the left
  channel and fails at the right one returns the error, and no event tells of the left one.
* `PcmStream_pause_xrun.cfg`, `XrunIsFromRunning`. An interrupt has seen an underrun and
  waits for the group lock (pcm_native.c:792) while a drop finishes; then its stop turns
  SETUP into XRUN.
* `PcmStream_unplug_drop.cfg`, `DisconnectedIsFinal`. `snd_pcm_post_stop` (:938)
  assigns its state without the care that `snd_pcm_set_state` takes, and takes an unplugged
  substream out of DISCONNECTED.
* `PcmStream_pause_xrun.cfg`, `NeverStuck`. `snd_pcm_do_pause` (:1005) updates the
  position with the group lock held; an underrun it finds wants that lock.
* `PcmStream_drop_open.cfg`, `DropQuiets`. With a second playback substream in the group
  that finished draining first and went through hw_free to OPEN, `snd_pcm_pre_stop`
  (:916) refuses the whole group, and drop returns 0 while the other plays.
* `PcmStream_drain.cfg`, `DrainEndsInSetup`. A drain of a PREPARED substream
  without data returns with the substream PREPARED (:1402), which the comment at
  :1446-1447 excludes.
* `PcmStream_suspend_open.cfg`, `PreparedIsSetUp`. A suspend takes an OPEN substream to
  SUSPENDED (:1066), and prepare accepts that (:1322).
* `PcmStream_resume_fails.cfg`, `SuspendQuiets`. `snd_pcm_undo_resume` (:1185)
  looks at the state, which is still SUSPENDED, and leaves the members it triggered moving.
* `PcmRing_wrap.cfg`, `NothingReallyWrong`. With periods of half the buffer, an
  interrupt whose position a call has already seen does not advance `hw_ptr_interrupt`
  (pcm_lib.c:505 returns first); near the boundary the next one is taken for a second lap.
* `PcmRing_pause.cfg`, `NothingReallyWrong`. The old time stamp a pause leaves on
  purpose (pcm_native.c:1006-1010) satisfies the check for a second lap.
* `PcmRing_reset.cfg`, `NothingReallyWrong`. An interrupt between the two halves of
  a reset of a running substream combines the new `hw_ptr` with the old base
  (pcm_native.c:1286).
* `PcmRing_two_writers.cfg`, `NoEmptyChunk`. Two writers share `twake`; the first to
  finish clears it (pcm_lib.c:2073) and the other leaves its wait without room.
* `PcmRing_drop.cfg`, `NoLostWakeup`. After a copy, only XRUN and
  SUSPENDED are looked for (pcm_lib.c:2044): a writer that was dropped meanwhile
  sleeps on the stopped substream until its timeout.
* `ScarlettMixer_race.cfg`, `CacheIsDevice`. A caller of the OSS mixer and an ioctl
  send their messages in one order and store their values in the other
  (scarlettmixer.c:312).
* `ScarlettMixer_range.cfg`, `CacheIsDevice`. A volume above its maximum is cut to two
  bytes in the message but not in the cache (:573).
* `ScarlettMixer_partial.cfg`, `PmBalancedToTheEnd`. A device that has left the bus makes
  `usb_autopm_get_interface` return `-ENODEV`, which the messages take for a
  disconnect (scarlettmixer.c:229, :268); until the disconnect comes, the autosuspend
  gives back a reference that was not taken.
* `ScarlettMixer_save.cfg`, `SaveCanBeWritten`. "Save To HW" names its put function as
  `.get`, the second time in one initialiser (:800), and cannot be written.
* **`MCSeqFifo_overflow.cfg`, `OverflowIsReported`.** `snd_seq_fifo_event_in` counts an
  overflow for `-ENOMEM` (seq_fifo.c:127), but a pool without a free cell answers
  `-EAGAIN` (seq_memory.c:228): the event is lost, and the `-ENOSPC` that the comment of
  `snd_seq_read` promises (seq_clientmgr.c:393) does not come.
* `MCSeqFifo_putback.cfg`, `Linked`. A cell put back into an empty FIFO becomes its head
  but not its tail (seq_fifo.c:217): the next event is linked behind the old tail, or behind
  nothing, and the list has lost an end. Nor does the put-back wake anybody who went to
  sleep meanwhile (`NoReaderMissed`).
* `MCSeqFifo_freed.cfg`, `NoFreedCell`. A sender has read `f->pool` and a resize
  replaces and frees the pool before the sender counts itself in or takes a cell
  (seq_fifo.c:121). With `GivesUp` the same comes of the five seconds after which
  `snd_seq_pool_done` frees the cells that are out.
* `Control_added.cfg`, `EventsHaveNumbers`. `snd_ctl_add` copies the identifier for its
  event before it gives the element its number (control.c:340, :360), so that the event
  of an added element says numid 0, "invalid" (asound.h:823).
* `Control_users.cfg`, `UsersAreFew`. The number of user-defined elements is looked at
  long before it is counted up, without a lock over both; two threads pass the limit.
  `UsersAreCounted`: a replacement removes the old element without counting down, and then
  ends in an error or counts up (:1240).
* `Control_unplug.cfg`, `NobodyWaitsForAGhost`. A reader that the disconnect has passed
  over goes to sleep after its wake-up (control.c:1438), for the loop does not look
  at `card->shutdown`, and is woken by nothing but a signal.
* `UsbEndpoint_grow.cfg`, `CallbackHasBuffer`. A second `hw_params` frees the buffer of a
  substream that was dropped, whose last URBs have not been waited for, while a completion
  copies to it. With `Unplug = "any time"` the release at a disconnect does the same.
* `UsbEndpoint_refused.cfg`, `RestartsFromRest`. A start that fails at a later URB only
  unlinks the earlier ones (endpoint.c:888-892) and leaves no STOPPING; the next trigger,
  without a prepare in between, clears the masks of URBs that are still out.
* `UsbEndpoint_stale_bit.cfg`, `NoStaleBit`. An URB completes before the bit that says
  it is active has been set (endpoint.c:883), and the bit stays.
* `UsbEndpoint_grow.cfg`, `CallbackHasSubstream`. `snd_usb_endpoint_stop` clears `data_subs`
  before the callbacks (endpoint.c:919-921), and a completion between its two reads
  passes NULL to `retire_capture_urb`.
* `UsbEndpoint_shared.cfg`, `DeactivateSparesUsers`. With implicit feedback and both
  substreams open, `snd_usb_endpoint_deactivate` unlinks the URBs of an endpoint that is in
  use (endpoint.c:945), which its comment excludes (:935).
* `UsbEndpoint_shared.cfg`, `FreedWhenIdle`. `snd_usb_endpoint_set_params` looks at
  `use_count` and then releases the URBs, while the other substream starts the endpoint.
* **`CardLife_races.cfg`, `LastLookIsSafe`.** `snd_card_unref` gives back its reference
  and then looks at `free_on_last_close` (init.c:466-468), when the card may be gone: a
  thread that gave back the last reference before the disconnect took its own looks
  after the card has been freed, or is told to free it a second time; and a waiting
  `snd_card_free` frees it while the thread is about to look.
* `CardLife_races.cfg`, `HeldIsAlive`, also with `SPECIFICATION Spec`. `is_pcm_file`
  refers to the card that has the minor of the other file's inode (pcm_native.c:1600),
  `snd_pcm_link` gives back a reference of the card the file belongs to (:1654). If that
  one has been unplugged and its minor belongs to a new card, the old one is freed with
  the file open and the new one is never freed.
* `CardLife_races.cfg`, `PmBalanced`. The probe of a further interface sets `probing`
  between the autoresume and the autosuspend of a message (card.c:507, :652, :664): a
  power reference is kept, or given back without having been taken.
* `CardLife_races.cfg`, `ClearIsSafe`. A probe that fails frees the card and with it the
  chip, and then assigns `chip->probing` (card.c:570-571). No constant matters to this
  one.

## 7. Assumptions, and what is left out

* A message that fails has had no effect on the device. If the status of an applied
  message is lost, the cache is wrong and the code cannot know.
* Hardware does what the trigger told it, reports a position that never moves back,
  and raises an interrupt at the end of each period.
* Tasks are frozen outside system calls during a suspend.
* An application resumes substreams it found SUSPENDED; the code does not ask for
  that, and `Features` has `anyresume` for it.
* Conditions in the code on fields that no modelled operation sets are taken at
  their defaults: `stop_threshold` is the buffer size, `no_period_wakeup` is off,
  `silence_size` is 0.
* Not in `PcmStream`: parameter refinement of `hw_params`, `sw_params`, mmap, async
  notification, the compat and OSS entry points, `snd_pcm_status`. `ops->prepare` does not
  fail (pcm_native.c:1334): at a substream that is not linked nothing would change; at a
  later member of a group the earlier ones would have their positions reset and keep
  their states. A pause push that fails at a later member leaves the positions it
  looked at (:1005) unchanged; the same comes of period interrupts just before it.
  A drain returns early, for a signal or for O_NONBLOCK (:1491), with the feature "signal"
  only. `pcm_power` and the theorems without that hypothesis have it; `pcm_linked` and
  `pcm_live` do not, since a drain that is left early breaks `DropQuiets`
  (`PcmStream_drop_open.cfg`) and is no drain that has to end.
* Not in `PcmRing`: capture (the same functions with the sides exchanged),
  silence filling, time stamps, pollers, non-interleaved access (the same loop).
* The host gives URBs that were unlinked back within the second that `wait_clear_urbs`
  waits, and runs one completion handler at a time.
* Not in `UsbEndpoint`: sizes and rates, the format conversion, the suspend of the card.
  Allocations succeed: a failing one in `hw_params` (pcm.c:652) or in
  `snd_usb_endpoint_set_params` (endpoint.c:696) ends the call with an error, the first
  without a buffer, the second without URBs, and a `prepare` without URBs configures again.
  `set_format` does not fail (pcm.c:672), and `hw_params` looks at `shutdown` when it
  begins. `queue_pending_output_urbs` takes an URB off the list just after it has unlocked
  (endpoint.c:317-325); the model does so in the same step, since one handler runs at a time.
* Not in `Control`: TLVs, the other fields of an identifier, elements of more than one
  value, poll and SIGIO, layers that add ioctls, and `put` functions that fail (they end as
  those that changed nothing). The events that an out-of-memory or an -EFAULT loses are in
  the model; what a read returns afterwards, the bytes before or the error, is not.
* Not in `CardLife`: numbers and ids of cards, failures of `snd_card_create` itself
  (nothing is left of them but a free slot), the order of the devices of a card, whose
  release is one step, several devices, suspend and resume. A disconnected interface may
  be probed again at once; that the device was plugged out and in or only the driver
  unbound makes no difference. The autoresume of a message does not fail there:
  `ScarlettMixer` has the failures, on every path of a message.
* Not in `SeqFifo`: who is allowed to deliver, the bounce of an undeliverable event, the
  other uses of pools (output, queues).
* Not in the Scarlett modules: the sync status, which is only read and never cached,
  the level meters, which are compiled out, and the dB tables. The card is not suspended.
* The proofs about finite sets assume what a machine has: finitely many threads
  (`ScarlettMixer`), pools (`SeqFifo`), files and interfaces (`CardLife`), and at least one
  substream (`PcmStream`).
* Other components as the inventory says: not yet modelled (raw and USB MIDI, ports and
  queues of the sequencer, timers) or out of scope (drivers of other hardware,
  descriptor parsing, sample conversion, the compatibility tree, build scripts).

## 8. Plan

In this order, most important behaviour first:

1. `PcmStream`, `PcmRing`, `ScarlettSetup`, `ScarlettMixer` and the theorems about
   `PcmRing`: done.
2. `UsbEndpoint`: done.
3. `Control` with the abstract `ControlNews`, its invariants and the refinement proved:
   done.
4. `SeqFifo`, refining the abstract `EventQueue`: done.
5. `CardLife`, with its invariants proved: done. Left of it: suspend and resume of several
   interfaces (`num_suspended_intf`, `autosuspended`).
6. `PcmRing` as an implementation of an abstract queue of frames (the written, the
   played and the room between them), by a refinement mapping; then capture,
   silence filling and pollers.
7. `RawMidi`: the output ring, drain and drop against the transmitting driver; then
   `UsbMidi` on top of it.
8. The queues of the sequencer: the priority queue, its timer and the delivery through
   subscriptions into the FIFOs of `SeqFifo`.
