------------------------------ MODULE CardLife ------------------------------
(***************************************************************************)
(* The life of the cards of one USB audio device: its interfaces are       *)
(* probed and disconnected one by one (src/sound/usb/card.c), applications *)
(* open, use and close files of the card meanwhile, and the card is        *)
(* disconnected and freed by the last who refers to it                     *)
(* (src/sound/core/init.c, sound.c).                                       *)
(*                                                                         *)
(* The device has one card at a time, but an old one lives on while its    *)
(* files are open.  Probe and disconnect hold the lock of the device and   *)
(* register_mutex, so that one thread of the USB core is enough.           *)
(***************************************************************************)
EXTENDS Integers, FiniteSets

CONSTANTS
    Files,        \* files of the applications, each used by a thread of its own
    Interfaces,   \* the audio control interfaces of the device
    Cards,        \* the cards that may come into being, one after another
    Faults,       \* where a probe may fail: "create", "register"
    Replug,       \* whether a file of an old card may be linked when there is a new one
    Overlap,      \* whether an interface is probed while messages are under way
    None

ASSUME CardLifeAssumption ==
    /\ IsFiniteSet(Files) /\ IsFiniteSet(Interfaces)
    /\ Faults \subseteq {"create", "register"}
    /\ Replug \in BOOLEAN /\ Overlap \in BOOLEAN
    /\ None \notin Cards \cup Files \cup Interfaces

VARIABLES
    card,      \* struct snd_card
    chip,      \* struct snd_usb_audio, which is freed with its card
    usb_chip,  \* the card in the slot of the device
    bound,     \* bound[i]: the card that interface i belongs to
    usb,       \* the thread of the USB core
    file       \* what the thread of a file does, its card, the card it will unref

vars == <<card, chip, usb_chip, bound, usb, file>>

Unborn == [life |-> "unborn", minor |-> FALSE, shutdown |-> FALSE, refcount |-> 0,
           files |-> {}, dead |-> {}, free_on_last_close |-> FALSE]
NoChip == [shutdown |-> FALSE, probing |-> FALSE, num_interfaces |-> 0, pm |-> 0]
Closed == [at |-> "closed", card |-> None, ref |-> None, peer |-> None, got |-> FALSE]
Idle == [at |-> "idle", card |-> None, intf |-> None]

Init ==
    /\ card = [c \in Cards |-> Unborn]
    /\ chip = [c \in Cards |-> NoChip]
    /\ usb_chip = None
    /\ bound = [i \in Interfaces |-> None]
    /\ usb = Idle
    /\ file = [f \in Files |-> Closed]

(***************************************************************************)
(* The applications.                                                       *)
(***************************************************************************)
\* snd_lookup_minor_data refers to the card whose minor it is ...
Refer(c) == card[c].minor /\ card' = [card EXCEPT ![c].refcount = @ + 1]

\* ... when a file is opened.
Lookup(f) ==
    \E c \in Cards :
        /\ file[f].at = "closed" /\ Refer(c)
        /\ file' = [file EXCEPT ![f] = [file[f] EXCEPT !.at = "opening", !.card = c, !.ref = c]]
        /\ UNCHANGED <<chip, usb_chip, bound, usb>>

\* A faulty variant: nobody looks at shutdown.
FileAddAlways(f) ==
    LET c == file[f].card IN
    /\ file[f].at = "opening"
    /\ card' = [card EXCEPT ![c] = [card[c] EXCEPT !.files = @ \cup {f}, !.refcount = @ + 1]]
    /\ file' = [file EXCEPT ![f].at = "added"]
    /\ UNCHANGED <<chip, usb_chip, bound, usb>>

\* snd_card_file_add
FileAdd(f) ==
    LET c == file[f].card IN
    /\ file[f].at = "opening" /\ ~card[c].shutdown
    /\ card' = [card EXCEPT ![c] = [card[c] EXCEPT !.files = @ \cup {f}, !.refcount = @ + 1]]
    /\ file' = [file EXCEPT ![f].at = "added"]
    /\ UNCHANGED <<chip, usb_chip, bound, usb>>

\* A faulty variant: the open fails without snd_card_unref.
RefusedForGood(f) ==
    /\ file[f].at = "opening" /\ card[file[f].card].shutdown
    /\ file' = [file EXCEPT ![f] = Closed]
    /\ UNCHANGED <<card, chip, usb_chip, bound, usb>>

FileRefused(f) ==
    /\ file[f].at = "opening" /\ card[file[f].card].shutdown
    /\ file' = [file EXCEPT ![f].at = "closing"]
    /\ UNCHANGED <<card, chip, usb_chip, bound, usb>>

\* The list part of snd_card_file_remove.
Removed(f, c, refs) ==
    card' = [card EXCEPT ![c] =
                [card[c] EXCEPT !.files = @ \ {f}, !.dead = @ \ {f}, !.refcount = @ - refs]]

\* An open that fails after all gives up the reference of its file, which is not the
\* last since it has its own.
OpenFails(f) ==
    /\ file[f].at = "added"
    /\ Removed(f, file[f].card, 1)
    /\ file' = [file EXCEPT ![f].at = "closing"]
    /\ UNCHANGED <<chip, usb_chip, bound, usb>>

\* The release of a file that no call uses, of the dead ones by snd_disconnect_release.
Close(f) ==
    /\ file[f].at = "open"
    /\ \A g \in Files : file[g].peer # f
    /\ Removed(f, file[f].card, 0)
    /\ file' = [file EXCEPT ![f] = [file[f] EXCEPT !.at = "closing", !.ref = file[f].card]]
    /\ UNCHANGED <<chip, usb_chip, bound, usb>>

\* A call, which reaches the driver unless the operations of the file are replaced ...
Enter(f) ==
    /\ file[f].at = "open" /\ f \notin card[file[f].card].dead
    /\ file' = [file EXCEPT ![f].at = "called"]
    /\ UNCHANGED <<card, chip, usb_chip, bound, usb>>

\* A faulty variant: a message that fails returns without snd_usb_autosuspend.
ReturnEarly(f) ==
    /\ file[f].at \in {"called", "message"}
    /\ file' = [file EXCEPT ![f] = [file[f] EXCEPT !.at = "open", !.got = FALSE]]
    /\ UNCHANGED <<card, chip, usb_chip, bound, usb>>

\* ... and may have ended before it does any of the following.
Return(f) ==
    /\ file[f].at = "called"
    /\ file' = [file EXCEPT ![f].at = "open"]
    /\ UNCHANGED <<card, chip, usb_chip, bound, usb>>

\* snd_pcm_link with the substream behind file g: is_pcm_file looks at the minor of g, but
\* what is given back in the end is the card of g.
Link(f, g) ==
    \E c \in Cards :
        /\ file[f].at = "called"
        /\ file[g].at \in {"open", "called", "linking", "message"}
        /\ Replug \/ c = file[g].card
        /\ Refer(c)
        /\ file' = [file EXCEPT ![f] =
                [file[f] EXCEPT !.at = "linking", !.ref = file[g].card, !.peer = g]]
        /\ UNCHANGED <<chip, usb_chip, bound, usb>>

\* What snd_card_unref leaves of a card: the last reference frees it, if it is given up.
Unreferred(c) ==
    [c EXCEPT !.refcount = @ - 1,
              !.life = IF c.refcount = 1 /\ c.free_on_last_close THEN "freed" ELSE @]

\* snd_card_unref, at the end of an open, a link and a close.
Unref(f) ==
    /\ \/ /\ file[f].at \in {"added", "linking"}
          /\ file' = [file EXCEPT ![f] =
                [file[f] EXCEPT !.at = "open", !.ref = None, !.peer = None]]
       \/ /\ file[f].at = "closing"
          /\ file' = [file EXCEPT ![f] = Closed]
    /\ card' = [card EXCEPT ![file[f].ref] = Unreferred(card[file[f].ref])]
    /\ UNCHANGED <<chip, usb_chip, bound, usb>>

\* The same in two steps for the last reference of a card: it is given back, ...
LateUnref(f) ==
    LET c == file[f].ref IN
    /\ file[f].at = "closing" /\ card[c].refcount = 1
    /\ card' = [card EXCEPT ![c].refcount = 0]
    /\ file' = [file EXCEPT ![f] = [Closed EXCEPT !.at = "last", !.card = c]]
    /\ UNCHANGED <<chip, usb_chip, bound, usb>>

\* ... and after that the thread wakes the sleeper and looks at free_on_last_close.
LastLook(f) ==
    LET c == file[f].card IN
    /\ file[f].at = "last"
    /\ card' = [card EXCEPT ![c].life = IF card[c].free_on_last_close THEN "freed" ELSE @]
    /\ file' = [file EXCEPT ![f] = Closed]
    /\ UNCHANGED <<chip, usb_chip, bound, usb>>

\* snd_usb_autoresume, at the beginning of a message; without effect in a probe.
Autoresume(f) ==
    LET c == file[f].card IN
    /\ file[f].at = "called"
    /\ Overlap \/ ~chip[c].probing
    /\ chip[c].probing \/ ~chip[c].shutdown
    /\ chip' = [chip EXCEPT ![c].pm = IF chip[c].probing THEN @ ELSE @ + 1]
    /\ file' = [file EXCEPT ![f] = [file[f] EXCEPT !.at = "message", !.got = ~chip[c].probing]]
    /\ UNCHANGED <<card, usb_chip, bound, usb>>

\* snd_usb_autosuspend, at its end.
Autosuspend(f) ==
    LET c == file[f].card IN
    /\ file[f].at = "message"
    /\ chip' = [chip EXCEPT ![c].pm = IF chip[c].shutdown \/ chip[c].probing THEN @ ELSE @ - 1]
    /\ file' = [file EXCEPT ![f] = [file[f] EXCEPT !.at = "open", !.got = FALSE]]
    /\ UNCHANGED <<card, usb_chip, bound, usb>>

(***************************************************************************)
(* The USB core.                                                           *)
(***************************************************************************)
Unbind == usb' = Idle /\ bound' = [bound EXCEPT ![usb.intf] = None]
UsbGoes(place) == usb' = [usb EXCEPT !.at = place]

\* snd_usb_audio_probe finds the card of the device, or creates one.
Probe(i) ==
    \E c \in Cards :
        /\ usb.at = "idle" /\ bound[i] = None
        /\ IF usb_chip # None THEN c = usb_chip /\ ~chip[c].shutdown ELSE card[c].life = "unborn"
        /\ Overlap \/ \A f \in Files : file[f].at # "message"
        /\ card' = [card EXCEPT ![c].life = "there"]
        /\ chip' = [chip EXCEPT ![c].probing = TRUE]
        /\ usb' = [at |-> "create", card |-> c, intf |-> i]
        /\ UNCHANGED <<usb_chip, bound, file>>

Create ==
    /\ usb.at = "create"
    /\ \/ UsbGoes("register")
       \/ "create" \in Faults /\ UsbGoes("error")
    /\ UNCHANGED <<card, chip, usb_chip, bound, file>>

\* snd_card_register, which may fail with the minors of some devices registered.
Register ==
    /\ usb.at = "register"
    /\ card' = [card EXCEPT ![usb.card].minor = TRUE]
    /\ \/ UsbGoes("bind")
       \/ "register" \in Faults /\ UsbGoes("error")
    /\ UNCHANGED <<chip, usb_chip, bound, file>>

Bind ==
    LET c == usb.card IN
    /\ usb.at = "bind"
    /\ usb_chip' = c
    /\ chip' = [chip EXCEPT ![c] = [chip[c] EXCEPT !.num_interfaces = @ + 1, !.probing = FALSE]]
    /\ bound' = [bound EXCEPT ![usb.intf] = c]
    /\ usb' = Idle
    /\ UNCHANGED <<card, file>>

\* A probe that fails disconnects and frees a card without interfaces.
ProbeFails ==
    LET c == usb.card IN
    /\ usb.at = "error"
    /\ UsbGoes(IF chip[c].num_interfaces = 0 THEN "shutdown" ELSE "clear")
    /\ UNCHANGED <<card, chip, usb_chip, bound, file>>

\* It ends with an assignment to the chip, which may be gone with the card.
Clear ==
    /\ usb.at = "clear"
    /\ chip' = [chip EXCEPT ![usb.card].probing = FALSE]
    /\ usb' = Idle
    /\ UNCHANGED <<card, usb_chip, bound, file>>

\* snd_usb_audio_disconnect: nobody is in snd_usb_autoresume, and then nobody gets in.
Disconnect(i) ==
    /\ usb.at = "idle" /\ bound[i] # None
    /\ chip' = [chip EXCEPT ![bound[i]].shutdown = TRUE]
    /\ usb' = [at |-> "leave", card |-> bound[i], intf |-> i]
    /\ UNCHANGED <<card, usb_chip, bound, file>>

Leave ==
    LET c == usb.card IN
    /\ usb.at = "leave"
    /\ chip' = [chip EXCEPT ![c].num_interfaces = @ - 1]
    /\ IF chip[c].num_interfaces > 1
       THEN Unbind
       ELSE UsbGoes("shutdown") /\ UNCHANGED bound
    /\ UNCHANGED <<card, usb_chip, file>>

\* snd_card_disconnect: no more files, ...
Shutdown ==
    /\ usb.at = "shutdown"
    /\ card' = [card EXCEPT ![usb.card].shutdown = TRUE]
    /\ UsbGoes("fops")
    /\ UNCHANGED <<chip, usb_chip, bound, file>>

\* ... no more calls of those there are, ...
ReplaceFops ==
    /\ usb.at = "fops"
    /\ card' = [card EXCEPT ![usb.card].dead = card[usb.card].files]
    /\ UsbGoes("devices")
    /\ UNCHANGED <<chip, usb_chip, bound, file>>

\* ... and no more minors.  A card that had interfaces leaves its slot.
Devices ==
    /\ usb.at = "devices"
    /\ card' = [card EXCEPT ![usb.card].minor = FALSE]
    /\ UsbGoes(IF usb_chip = usb.card THEN "hold" ELSE "wait")
    /\ usb_chip' = None
    /\ UNCHANGED <<chip, bound, file>>

\* snd_card_free waits for the last reference.
WaitAndFree ==
    /\ usb.at = "wait" /\ card[usb.card].refcount = 0
    /\ card' = [card EXCEPT ![usb.card].life = "freed"]
    /\ UsbGoes("clear")
    /\ UNCHANGED <<chip, usb_chip, bound, file>>

\* snd_card_free_when_closed takes a reference, gives the card up and gives the
\* reference back.
Hold ==
    /\ usb.at = "hold"
    /\ card' = [card EXCEPT ![usb.card].refcount = @ + 1]
    /\ UsbGoes("give up")
    /\ UNCHANGED <<chip, usb_chip, bound, file>>

GiveUp ==
    /\ usb.at = "give up"
    /\ card' = [card EXCEPT ![usb.card].free_on_last_close = TRUE]
    /\ UsbGoes("unhold")
    /\ UNCHANGED <<chip, usb_chip, bound, file>>

\* A faulty variant: who else refers to the card is not asked.
UnholdAndFree ==
    /\ usb.at = "unhold"
    /\ card' = [card EXCEPT ![usb.card] =
                  [card[usb.card] EXCEPT !.refcount = @ - 1, !.life = "freed"]]
    /\ Unbind
    /\ UNCHANGED <<chip, usb_chip, file>>

Unhold ==
    LET c == usb.card IN
    /\ usb.at = "unhold"
    /\ card' = [card EXCEPT ![c] = [card[c] EXCEPT !.refcount = @ - 1,
                                             !.life = IF card[c].refcount = 1 THEN "freed" ELSE @]]
    /\ Unbind
    /\ UNCHANGED <<chip, usb_chip, file>>

(***************************************************************************)
(* The specification.                                                      *)
(***************************************************************************)
InCall(f) == FileAdd(f) \/ FileRefused(f) \/ Return(f) \/ Unref(f) \/ Autosuspend(f)

OfFile(f) ==
    \/ Lookup(f) \/ OpenFails(f) \/ Close(f) \/ Enter(f) \/ Autoresume(f)
    \/ \E g \in Files : Link(f, g)
    \/ InCall(f)

InProbe == Create \/ Register \/ Bind \/ ProbeFails \/ Clear
InDisconnect ==
    Leave \/ Shutdown \/ ReplaceFops \/ Devices \/ WaitAndFree \/ Hold \/ GiveUp \/ Unhold

Next ==
    \/ \E f \in Files : OfFile(f)
    \/ \E i \in Interfaces : Probe(i) \/ Disconnect(i)
    \/ InProbe \/ InDisconnect

Spec == Init /\ [][Next]_vars

\* With an unref that may be late with its look, as it is in the code; Spec has none that is.
LateNext == Next \/ \E f \in Files : LateUnref(f) \/ LastLook(f)
LateSpec == Init /\ [][LateNext]_vars

\* Calls and the thread of the USB core go on; nobody has to open or to close a file.
FairSpec == Spec /\ WF_vars(InProbe \/ InDisconnect) /\ \A f \in Files : WF_vars(InCall(f))

(***************************************************************************)
(* Properties.                                                             *)
(***************************************************************************)
Places == {"closed", "opening", "added", "open", "called", "linking", "message", "closing", "last"}
UsbPlaces == {"idle", "create", "register", "bind", "error", "clear", "leave", "shutdown", "fops",
              "devices", "wait", "hold", "give up", "unhold"}

CardType == [life : {"unborn", "there", "freed"}, minor : BOOLEAN, shutdown : BOOLEAN,
             refcount : Int, files : SUBSET Files, dead : SUBSET Files,
             free_on_last_close : BOOLEAN]
ChipType == [shutdown : BOOLEAN, probing : BOOLEAN, num_interfaces : Int, pm : Int]
UsbType == [at : UsbPlaces, card : Cards \cup {None}, intf : Interfaces \cup {None}]
FileType == [at : Places, card : Cards \cup {None}, ref : Cards \cup {None},
             peer : Files \cup {None}, got : BOOLEAN]

\* Every variable keeps its type.
TypeOK ==
    /\ card \in [Cards -> CardType]
    /\ chip \in [Cards -> ChipType]
    /\ usb_chip \in Cards \cup {None}
    /\ bound \in [Interfaces -> Cards \cup {None}]
    /\ usb \in UsbType
    /\ file \in [Files -> FileType]

\* Nobody is left with a freed card: not an open file, not a call that looked it up, not
\* an interface, and not the slot that the next probe looks into.
HeldIsAlive ==
    \A c \in Cards : card[c].life = "freed" =>
        /\ \A f \in Files : file[f].card # c /\ file[f].ref # c
        /\ \A i \in Interfaces : bound[i] # c
        /\ usb_chip # c /\ ~card[c].minor

\* Once snd_card_disconnect has replaced their operations, no open file reaches the
\* driver any more, and none comes late.
FilesAreDead ==
    \A c \in Cards :
        card[c].shutdown /\ ~(usb.card = c /\ usb.at = "fops") => card[c].files \subseteq card[c].dead

\* A card that is disconnected is freed in the end, unless a file stays open.
FreedAtLast ==
    \A c \in Cards :
        card[c].shutdown ~>
            \/ card[c].life = "freed"
            \/ \E f \in Files : file[f].card = c /\ file[f].at = "open"

\* A reference on the power of the interface is held for each message under way.
PmBalanced ==
    \A c \in Cards : ~chip[c].shutdown =>
        chip[c].pm = Cardinality({f \in Files : file[f].got /\ file[f].card = c})

\* A thread that has given back the last reference still finds the card there.
LastLookIsSafe == \A f \in Files : file[f].at = "last" => card[file[f].card].life # "freed"

\* A probe that fails does not write to a chip that it has freed.
ClearIsSafe == usb.at = "clear" => card[usb.card].life # "freed"
=============================================================================
