--------------------------- MODULE CardLife_proofs ---------------------------
(***************************************************************************)
(* Theorems about CardLife: its types, that no file outlives the           *)
(* disconnection of its card alive, and, when an unref looks at once at    *)
(* free_on_last_close and only files of one card are linked, that nobody   *)
(* is left with a freed card; and that power references are balanced, when *)
(* no interface is probed while a message is under way.                    *)
(***************************************************************************)
EXTENDS CardLife, FiniteSetTheorems, TLAPS

(***************************************************************************)
(* The invariant.                                                          *)
(***************************************************************************)
Listed == {"added", "open", "called", "linking", "message"}

\* What a file refers to at each place.
FilePlaces ==
    \A f \in Files :
        /\ file[f].at # "last"
        /\ file[f].at = "closed" => file[f].card = None /\ file[f].ref = None
        /\ file[f].at # "closed" => file[f].card \in Cards
        /\ file[f].at \in {"opening", "added", "closing"} => file[f].ref = file[f].card
        /\ file[f].at \in {"open", "called", "message"} => file[f].ref = None
        /\ file[f].at = "linking" => file[f].ref \in Cards

\* The list of a card holds its files from the time they are added to their release.
ListsAreRight ==
    \A c \in Cards : \A f \in Files :
        f \in card[c].files <=> file[f].card = c /\ file[f].at \in Listed

\* Each reference is the one of a file, of a call, or of snd_card_free_when_closed.
Uses(c) == {f \in Files : file[f].ref = c}
Holds(c) == IF usb.card = c /\ usb.at \in {"give up", "unhold"} THEN 1 ELSE 0

RefsAreCounted ==
    \A c \in Cards :
        card[c].refcount = Cardinality(card[c].files) + Cardinality(Uses(c)) + Holds(c)

FileInv == FilePlaces /\ ListsAreRight /\ RefsAreCounted

\* The interfaces of a card; the last one that leaves is not counted any more.
BoundTo(c) == {i \in Interfaces : bound[i] = c}
Leaving == {"shutdown", "fops", "devices", "hold", "give up", "unhold"}
Gone(c) == IF usb.card = c /\ usb.at \in Leaving THEN {usb.intf} ELSE {}

InterfacesAreCounted ==
    \A c \in Cards : chip[c].num_interfaces = Cardinality(BoundTo(c) \ Gone(c))

\* A card with an interface is in the slot, or its last interface is leaving.
BoundIsInSlot ==
    \A c \in Cards : BoundTo(c) # {} =>
        usb_chip = c \/ (usb.card = c /\ usb.at \in {"hold", "give up", "unhold"})

LastLeaves == usb.at \in Leaving => BoundTo(usb.card) \subseteq {usb.intf}

\* What the thread of the USB core knows at each place.
UsbPlace ==
    /\ usb.at # "idle" => usb.card \in Cards /\ usb.intf \in Interfaces
    /\ usb.at \notin {"idle", "clear"} => card[usb.card].life = "there"
    /\ usb.at \notin {"idle", "clear", "unhold"} => ~card[usb.card].free_on_last_close
    /\ usb.at = "unhold" => card[usb.card].free_on_last_close
    /\ usb.at \in {"create", "register", "bind", "error", "leave", "shutdown", "fops", "devices"} =>
          usb_chip \in {None, usb.card}
    /\ usb.at \in {"create", "register", "bind", "error"} => bound[usb.intf] = None
    /\ usb.at = "leave" => bound[usb.intf] = usb.card
    /\ usb.at \in {"wait", "hold", "give up", "unhold"} =>
          usb_chip = None /\ ~card[usb.card].minor

\* Who may be found: the card in the slot, and the one that is probed or disconnected.
MinorIsThere ==
    \A c \in Cards : card[c].minor =>
        usb_chip = c \/ (usb.card = c /\ usb.at \in {"bind", "error", "shutdown", "fops", "devices"})

SlotIsThere ==
    \A c \in Cards : usb_chip = c => card[c].life = "there" /\ ~card[c].free_on_last_close

GivenUpIsGone ==
    \A c \in Cards : card[c].free_on_last_close =>
        card[c].life # "unborn" /\ ~card[c].minor /\ usb_chip # c

UsbInv ==
    /\ InterfacesAreCounted /\ BoundIsInSlot /\ LastLeaves
    /\ UsbPlace /\ MinorIsThere /\ SlotIsThere /\ GivenUpIsGone

Inv == TypeOK /\ FileInv /\ UsbInv /\ HeldIsAlive

(***************************************************************************)
(* Type correctness.  First what the actions write is of the right type,   *)
(* then, with the types folded, each action.                               *)
(***************************************************************************)
LEMMA CardReferred ==
  ASSUME NEW r \in CardType
  PROVE  [r EXCEPT !.refcount = @ + 1] \in CardType
  <1>1. r.refcount + 1 \in Int
    BY DEF CardType
  <1> QED
    BY <1>1 DEF CardType

LEMMA CardUnreferred ==
  ASSUME NEW r \in CardType
  PROVE  /\ [r EXCEPT !.refcount = @ - 1, !.life = "freed"] \in CardType
         /\ [r EXCEPT !.refcount = @ - 1, !.life = @] \in CardType
  <1>1. r.refcount - 1 \in Int
    BY DEF CardType
  <1>2. [r EXCEPT !.refcount = @ - 1, !.life = "freed"] \in CardType
    BY <1>1 DEF CardType
  <1>3. [r EXCEPT !.refcount = @ - 1, !.life = @] \in CardType
    BY <1>1 DEF CardType
  <1> QED
    BY <1>2, <1>3

LEMMA CardAdded ==
  ASSUME NEW r \in CardType, NEW f \in Files
  PROVE  [r EXCEPT !.files = @ \cup {f}, !.refcount = @ + 1] \in CardType
  <1>1. r.files \cup {f} \in SUBSET Files /\ r.refcount + 1 \in Int
    BY DEF CardType
  <1> QED
    BY <1>1 DEF CardType

LEMMA CardRemoved ==
  ASSUME NEW r \in CardType, NEW f \in Files, NEW n \in Int
  PROVE  [r EXCEPT !.files = @ \ {f}, !.dead = @ \ {f}, !.refcount = @ - n] \in CardType
  <1>1. /\ r.files \ {f} \in SUBSET Files /\ r.dead \ {f} \in SUBSET Files
        /\ r.refcount - n \in Int
    BY DEF CardType
  <1> QED
    BY <1>1 DEF CardType

LEMMA CardMarked ==
  ASSUME NEW r \in CardType
  PROVE  /\ [r EXCEPT !.life = "there"] \in CardType
         /\ [r EXCEPT !.life = "freed"] \in CardType
         /\ [r EXCEPT !.minor = TRUE] \in CardType
         /\ [r EXCEPT !.minor = FALSE] \in CardType
         /\ [r EXCEPT !.shutdown = TRUE] \in CardType
         /\ [r EXCEPT !.dead = r.files] \in CardType
         /\ [r EXCEPT !.free_on_last_close = TRUE] \in CardType
  BY DEF CardType

LEMMA ChipKeepsType ==
  ASSUME NEW r \in ChipType, NEW b \in BOOLEAN
  PROVE  /\ [r EXCEPT !.probing = b] \in ChipType
         /\ [r EXCEPT !.shutdown = b] \in ChipType
         /\ [r EXCEPT !.num_interfaces = @ + 1, !.probing = b] \in ChipType
         /\ [r EXCEPT !.num_interfaces = @ - 1] \in ChipType
         /\ [r EXCEPT !.pm = @] \in ChipType
         /\ [r EXCEPT !.pm = @ + 1] \in ChipType
         /\ [r EXCEPT !.pm = @ - 1] \in ChipType
  <1>1. r.num_interfaces + 1 \in Int
    BY DEF ChipType
  <1>2. [r EXCEPT !.probing = b] \in ChipType
    BY <1>1 DEF ChipType
  <1>3. [r EXCEPT !.shutdown = b] \in ChipType
    BY DEF ChipType
  <1>4. [r EXCEPT !.num_interfaces = @ + 1, !.probing = b] \in ChipType
    BY <1>1 DEF ChipType
  <1>5. [r EXCEPT !.num_interfaces = @ - 1] \in ChipType
    BY DEF ChipType
  <1>6. [r EXCEPT !.pm = @] \in ChipType
    BY DEF ChipType
  <1>7. [r EXCEPT !.pm = @ + 1] \in ChipType
    BY DEF ChipType
  <1>8. [r EXCEPT !.pm = @ - 1] \in ChipType
    BY DEF ChipType
  <1> QED
    BY <1>2, <1>3, <1>4, <1>5, <1>6, <1>7, <1>8, ZenonT(60)

LEMMA FileKeepsType ==
  ASSUME NEW r \in FileType, NEW c \in Cards \cup {None}, NEW g \in Files, NEW b \in BOOLEAN,
         NEW a \in Places
  PROVE  /\ [r EXCEPT !.at = a] \in FileType
         /\ [r EXCEPT !.at = a, !.card = c, !.ref = c] \in FileType
         /\ [r EXCEPT !.at = a, !.ref = c] \in FileType
         /\ [r EXCEPT !.at = a, !.ref = c, !.peer = g] \in FileType
         /\ [r EXCEPT !.at = a, !.ref = None, !.peer = None] \in FileType
         /\ [r EXCEPT !.at = a, !.got = b] \in FileType
         /\ Closed \in FileType
         /\ [Closed EXCEPT !.at = a, !.card = c] \in FileType
  <1>1. [r EXCEPT !.at = a] \in FileType
    BY DEF FileType
  <1>2. [r EXCEPT !.at = a, !.card = c, !.ref = c] \in FileType
    BY DEF FileType
  <1>3. [r EXCEPT !.at = a, !.ref = c] \in FileType
    BY DEF FileType
  <1>4. [r EXCEPT !.at = a, !.ref = c, !.peer = g] \in FileType
    BY DEF FileType
  <1>5. [r EXCEPT !.at = a, !.ref = None, !.peer = None] \in FileType
    BY DEF FileType
  <1>6. [r EXCEPT !.at = a, !.got = b] \in FileType
    BY DEF FileType
  <1>7. Closed \in FileType
    BY DEF FileType, Closed, Places
  <1>8. [Closed EXCEPT !.at = a, !.card = c] \in FileType
    BY DEF FileType, Closed
  <1> QED
    BY <1>1, <1>2, <1>3, <1>4, <1>5, <1>6, <1>7, <1>8, ZenonT(60)

LEMMA TypeOfFileStep ==
  ASSUME TypeOK, NEW f \in Files, OfFile(f)
  PROVE  TypeOK'
  <1>1. file[f] \in FileType /\ \A c \in Cards : card[c] \in CardType /\ chip[c] \in ChipType
    BY DEF TypeOK
  <1>2. \A a \in Places : [file[f] EXCEPT !.at = a] \in FileType
    BY <1>1, FileKeepsType
  <1>3. \A g \in Files : file[g].card \in Cards \cup {None} /\ file[g].ref \in Cards \cup {None}
    BY DEF TypeOK, FileType
  <1>4. CASE Lookup(f)
    <2> PICK c \in Cards : Lookup(f)!(c)
      BY <1>4 DEF Lookup
    <2>1. [card[c] EXCEPT !.refcount = @ + 1] \in CardType
      BY <1>1, CardReferred
    <2>2. [file[f] EXCEPT !.at = "opening", !.card = c, !.ref = c] \in FileType
      BY <1>1, FileKeepsType DEF Places
    <2> QED
      BY <2>1, <2>2 DEF TypeOK, Refer
  <1>5. CASE FileAdd(f)
    <2>1. file[f].card \in Cards =>
             [card[file[f].card] EXCEPT !.files = @ \cup {f}, !.refcount = @ + 1] \in CardType
      BY <1>1, CardAdded
    <2>2. card' \in [Cards -> CardType]
      BY <1>5, <2>1 DEF TypeOK, FileAdd
    <2>3. file' \in [Files -> FileType]
      BY <1>2, <1>5 DEF TypeOK, FileAdd, Places
    <2> QED
      BY <1>5, <2>2, <2>3 DEF TypeOK, FileAdd
  <1>6. CASE FileRefused(f) \/ Enter(f) \/ Return(f)
    BY <1>2, <1>6 DEF TypeOK, FileRefused, Enter, Return, Places
  <1>7. CASE OpenFails(f) \/ Close(f)
    <2> DEFINE c == file[f].card
    <2>1. ASSUME NEW n \in Int, Removed(f, c, n) PROVE card' \in [Cards -> CardType]
      <3>1. c \in Cards =>
               [card[c] EXCEPT !.files = @ \ {f}, !.dead = @ \ {f}, !.refcount = @ - n] \in CardType
        BY <1>1, CardRemoved
      <3> QED
        BY <2>1, <3>1 DEF TypeOK, Removed
    <2>2. [file[f] EXCEPT !.at = "closing", !.ref = c] \in FileType
      BY <1>1, <1>3, FileKeepsType DEF Places
    <2>3. file' \in [Files -> FileType]
      BY <1>2, <1>7, <2>2 DEF TypeOK, OpenFails, Close, Places
    <2> QED
      BY <1>7, <2>1, <2>3 DEF TypeOK, OpenFails, Close
  <1>8. ASSUME NEW g \in Files, Link(f, g) PROVE TypeOK'
    <2> PICK c \in Cards : Link(f, g)!(c)
      BY <1>8 DEF Link
    <2>1. [card[c] EXCEPT !.refcount = @ + 1] \in CardType
      BY <1>1, CardReferred
    <2>2. [file[f] EXCEPT !.at = "linking", !.ref = file[g].card, !.peer = g] \in FileType
      BY <1>1, <1>3, FileKeepsType DEF Places
    <2> QED
      BY <2>1, <2>2 DEF TypeOK, Refer
  <1>9. CASE Unref(f)
    <2> DEFINE c == file[f].ref
    <2>1. c \in Cards => Unreferred(card[c]) \in CardType
      BY <1>1, CardUnreferred DEF Unreferred
    <2>2. card' \in [Cards -> CardType]
      BY <1>9, <2>1 DEF TypeOK, Unref
    <2>3. /\ [file[f] EXCEPT !.at = "open", !.ref = None, !.peer = None] \in FileType
          /\ Closed \in FileType
      BY <1>1, <1>3, FileKeepsType DEF Places
    <2>4. file' \in [Files -> FileType]
      BY <1>9, <2>3 DEF TypeOK, Unref
    <2> QED
      BY <1>9, <2>2, <2>4 DEF TypeOK, Unref
  <1>10. CASE Autoresume(f)
    <2> DEFINE c == file[f].card
    <2>1. c \in Cards => /\ [chip[c] EXCEPT !.pm = @] \in ChipType
                         /\ [chip[c] EXCEPT !.pm = @ + 1] \in ChipType
      BY <1>1, ChipKeepsType
    <2>2. chip' \in [Cards -> ChipType]
      BY <1>10, <2>1 DEF TypeOK, Autoresume
    <2>3. [file[f] EXCEPT !.at = "message", !.got = ~chip[c].probing] \in FileType
      <3>1. \A b \in BOOLEAN : [file[f] EXCEPT !.at = "message", !.got = b] \in FileType
        BY <1>1, FileKeepsType DEF Places
      <3>2. (~chip[c].probing) \in BOOLEAN
        OBVIOUS
      <3> QED
        BY <3>1, <3>2
    <2> QED
      BY <1>10, <2>2, <2>3 DEF TypeOK, Autoresume
  <1>11. CASE Autosuspend(f)
    <2> DEFINE c == file[f].card
    <2>1. c \in Cards => /\ [chip[c] EXCEPT !.pm = @] \in ChipType
                         /\ [chip[c] EXCEPT !.pm = @ - 1] \in ChipType
      BY <1>1, ChipKeepsType
    <2>2. chip' \in [Cards -> ChipType]
      BY <1>11, <2>1 DEF TypeOK, Autosuspend
    <2>3. [file[f] EXCEPT !.at = "open", !.got = FALSE] \in FileType
      BY <1>1, FileKeepsType DEF Places
    <2> QED
      BY <1>11, <2>2, <2>3 DEF TypeOK, Autosuspend
  <1> QED
    BY <1>4, <1>5, <1>6, <1>7, <1>8, <1>9, <1>10, <1>11 DEF OfFile, InCall

LEMMA TypeOfUsbStep ==
  ASSUME TypeOK,
         (\E i \in Interfaces : Probe(i) \/ Disconnect(i)) \/ InProbe \/ InDisconnect
  PROVE  TypeOK'
  <1> DEFINE c == usb.card
  <1>1. usb \in UsbType /\ \A d \in Cards : card[d] \in CardType /\ chip[d] \in ChipType
    BY DEF TypeOK
  <1>2. \A a \in UsbPlaces : [usb EXCEPT !.at = a] \in UsbType
    BY <1>1 DEF UsbType
  <1>3. usb.card \in Cards \cup {None} /\ usb.intf \in Interfaces \cup {None} /\ Idle \in UsbType
    BY <1>1 DEF UsbType, Idle, UsbPlaces
  <1>4. ASSUME NEW i \in Interfaces, Probe(i) PROVE TypeOK'
    <2> PICK d \in Cards : Probe(i)!(d)
      BY <1>4 DEF Probe
    <2>1. [card[d] EXCEPT !.life = "there"] \in CardType /\ [chip[d] EXCEPT !.probing = TRUE] \in ChipType
      BY <1>1, CardMarked, ChipKeepsType
    <2>2. [at |-> "create", card |-> d, intf |-> i] \in UsbType
      BY DEF UsbType, UsbPlaces
    <2> QED
      BY <2>1, <2>2 DEF TypeOK
  <1>5. ASSUME NEW i \in Interfaces, Disconnect(i) PROVE TypeOK'
    <2>1. bound[i] \in Cards
      BY <1>5 DEF Disconnect, TypeOK
    <2>2. [chip[bound[i]] EXCEPT !.shutdown = TRUE] \in ChipType
      BY <1>1, <2>1, ChipKeepsType
    <2>3. [at |-> "leave", card |-> bound[i], intf |-> i] \in UsbType
      BY <2>1 DEF UsbType, UsbPlaces
    <2> QED
      BY <1>5, <2>2, <2>3 DEF TypeOK, Disconnect
  <1>6. CASE Create \/ ProbeFails
    BY <1>2, <1>6 DEF TypeOK, Create, ProbeFails, UsbGoes, UsbPlaces
  <1>7. CASE Register \/ Shutdown \/ ReplaceFops \/ Devices \/ GiveUp
    <2>1. c \in Cards => /\ [card[c] EXCEPT !.minor = TRUE] \in CardType
                         /\ [card[c] EXCEPT !.minor = FALSE] \in CardType
                         /\ [card[c] EXCEPT !.shutdown = TRUE] \in CardType
                         /\ [card[c] EXCEPT !.dead = card[c].files] \in CardType
                         /\ [card[c] EXCEPT !.free_on_last_close = TRUE] \in CardType
      BY <1>1, CardMarked
    <2>2. card' \in [Cards -> CardType]
      BY <1>7, <2>1 DEF TypeOK, Register, Shutdown, ReplaceFops, Devices, GiveUp
    <2>3. usb' \in UsbType /\ usb_chip' \in Cards \cup {None}
      BY <1>2, <1>7 DEF TypeOK, Register, Shutdown, ReplaceFops, Devices, GiveUp, UsbGoes, UsbPlaces
    <2> QED
      BY <1>7, <2>2, <2>3 DEF TypeOK, Register, Shutdown, ReplaceFops, Devices, GiveUp
  <1>8. CASE WaitAndFree \/ Hold \/ Unhold
    <2>1. c \in Cards => /\ [card[c] EXCEPT !.life = "freed"] \in CardType
                         /\ [card[c] EXCEPT !.refcount = @ + 1] \in CardType
                         /\ [card[c] EXCEPT !.refcount = @ - 1, !.life = "freed"] \in CardType
                         /\ [card[c] EXCEPT !.refcount = @ - 1, !.life = @] \in CardType
      BY <1>1, CardMarked, CardReferred, CardUnreferred
    <2>2. card' \in [Cards -> CardType]
      BY <1>8, <2>1 DEF TypeOK, WaitAndFree, Hold, Unhold
    <2>3. usb' \in UsbType /\ bound' \in [Interfaces -> Cards \cup {None}]
      BY <1>2, <1>3, <1>8 DEF TypeOK, WaitAndFree, Hold, Unhold, UsbGoes, Unbind, UsbPlaces
    <2> QED
      BY <1>8, <2>2, <2>3 DEF TypeOK, WaitAndFree, Hold, Unhold
  <1>9. CASE Bind
    <2>1. c \in Cards => [chip[c] EXCEPT !.num_interfaces = @ + 1, !.probing = FALSE] \in ChipType
      BY <1>1, ChipKeepsType
    <2>2. chip' \in [Cards -> ChipType]
      BY <1>9, <2>1 DEF TypeOK, Bind
    <2> QED
      BY <1>3, <1>9, <2>2 DEF TypeOK, Bind
  <1>10. CASE Clear \/ Leave
    <2>1. c \in Cards => /\ [chip[c] EXCEPT !.probing = FALSE] \in ChipType
                         /\ [chip[c] EXCEPT !.num_interfaces = @ - 1] \in ChipType
      BY <1>1, ChipKeepsType
    <2>2. chip' \in [Cards -> ChipType]
      BY <1>10, <2>1 DEF TypeOK, Clear, Leave
    <2>3. usb' \in UsbType /\ bound' \in [Interfaces -> Cards \cup {None}]
      BY <1>2, <1>3, <1>10 DEF TypeOK, Clear, Leave, UsbGoes, Unbind, UsbPlaces
    <2> QED
      BY <1>10, <2>2, <2>3 DEF TypeOK, Clear, Leave
  <1> QED
    BY <1>4, <1>5, <1>6, <1>7, <1>8, <1>9, <1>10 DEF InProbe, InDisconnect

LEMMA TypeInit == Init => TypeOK
  <1> SUFFICES ASSUME Init PROVE TypeOK
    OBVIOUS
  <1>1. Unborn \in CardType /\ NoChip \in ChipType
    BY DEF Unborn, NoChip, CardType, ChipType
  <1>2. Closed \in FileType /\ Idle \in UsbType
    BY DEF Closed, FileType, Places, Idle, UsbType, UsbPlaces
  <1> QED
    BY <1>1, <1>2 DEF Init, TypeOK

LEMMA TypeStep == TypeOK /\ [Next]_vars => TypeOK'
  BY TypeOfFileStep, TypeOfUsbStep DEF Next, vars, TypeOK

\* Every variable keeps its type, whatever is late, linked or overlaps.
THEOREM TypeCorrect == Spec => []TypeOK
  BY TypeInit, TypeStep, PTL DEF Spec

(***************************************************************************)
(* The files of a card that is disconnected are dead.                      *)
(***************************************************************************)
LEMMA DeadAfterFileStep ==
  ASSUME TypeOK, FilesAreDead, NEW f \in Files, OfFile(f)
  PROVE  FilesAreDead'
  <1>1. ASSUME usb' = usb,
               \A c \in Cards : /\ card'[c].shutdown = card[c].shutdown
                                /\ \/ card'[c].files = card[c].files /\ card'[c].dead = card[c].dead
                                   \/ /\ card'[c].files = card[c].files \ {f}
                                      /\ card'[c].dead = card[c].dead \ {f}
                                   \/ ~card[c].shutdown
        PROVE  FilesAreDead'
    BY <1>1 DEF FilesAreDead
  <1>2. CASE FileRefused(f) \/ Enter(f) \/ Return(f) \/ Autoresume(f) \/ Autosuspend(f)
    BY <1>1, <1>2 DEF FileRefused, Enter, Return, Autoresume, Autosuspend
  <1>3. CASE Lookup(f) \/ \E g \in Files : Link(f, g)
    <2>1. PICK c \in Cards : Refer(c) /\ usb' = usb
      BY <1>3 DEF Lookup, Link
    <2> QED
      BY <1>1, <2>1 DEF Refer, TypeOK, CardType
  <1>4. CASE FileAdd(f)
    BY <1>1, <1>4 DEF FileAdd, TypeOK, CardType
  <1>5. CASE OpenFails(f) \/ Close(f)
    <2>1. PICK n \in Int : Removed(f, file[f].card, n) /\ usb' = usb
      BY <1>5 DEF OpenFails, Close
    <2> QED
      BY <1>1, <2>1 DEF Removed, TypeOK, CardType
  <1>6. CASE Unref(f)
    BY <1>1, <1>6 DEF Unref, Unreferred, TypeOK, CardType
  <1> QED
    BY <1>2, <1>3, <1>4, <1>5, <1>6 DEF OfFile, InCall

LEMMA DeadAfterUsbStep ==
  ASSUME TypeOK, FilesAreDead,
         (\E i \in Interfaces : Probe(i) \/ Disconnect(i)) \/ InProbe \/ InDisconnect
  PROVE  FilesAreDead'
  <1>1. ASSUME usb.at # "fops",
               \A c \in Cards : /\ card'[c].files = card[c].files /\ card'[c].dead = card[c].dead
                                /\ card'[c].shutdown = card[c].shutdown
        PROVE  FilesAreDead'
    BY <1>1 DEF FilesAreDead
  <1>2. CASE \E i \in Interfaces : Probe(i) \/ Disconnect(i)
    BY <1>1, <1>2 DEF Probe, Disconnect, TypeOK, CardType
  <1>3. CASE InProbe
    BY <1>1, <1>3 DEF InProbe, Create, Register, Bind, ProbeFails, Clear, TypeOK, CardType
  <1>4. CASE Leave
    BY <1>1, <1>4 DEF Leave
  <1>5. CASE Devices
    BY <1>1, <1>5 DEF Devices, TypeOK, CardType
  <1>6. CASE WaitAndFree
    BY <1>1, <1>6 DEF WaitAndFree, TypeOK, CardType
  <1>7. CASE Hold
    BY <1>1, <1>7 DEF Hold, TypeOK, CardType
  <1>8. CASE GiveUp
    BY <1>1, <1>8 DEF GiveUp, TypeOK, CardType
  <1>9. CASE Unhold
    BY <1>1, <1>9 DEF Unhold, TypeOK, CardType
  <1>10. CASE Shutdown
    BY <1>10 DEF Shutdown, UsbGoes, FilesAreDead, TypeOK, CardType, UsbType
  <1>11. CASE ReplaceFops
    BY <1>11 DEF ReplaceFops, UsbGoes, FilesAreDead, TypeOK, CardType, UsbType
  <1> QED
    BY <1>2, <1>3, <1>4, <1>5, <1>6, <1>7, <1>8, <1>9, <1>10, <1>11 DEF InDisconnect

\* Once snd_card_disconnect has replaced their operations, no file of the card reaches the
\* driver any more, and no open that began before adds one.
THEOREM FilesDie == Spec => []FilesAreDead
  <1>1. Init => FilesAreDead
    BY DEF Init, FilesAreDead, Unborn
  <1>2. TypeOK /\ FilesAreDead /\ [Next]_vars => FilesAreDead'
    BY DeadAfterFileStep, DeadAfterUsbStep DEF Next, vars, FilesAreDead
  <1> QED
    BY <1>1, <1>2, TypeCorrect, PTL DEF Spec

(***************************************************************************)
(* Counting.                                                               *)
(***************************************************************************)
LEMMA Finite ==
  ASSUME TypeOK, NEW c \in Cards
  PROVE  /\ IsFiniteSet(card[c].files) /\ Cardinality(card[c].files) \in Nat
         /\ IsFiniteSet(Uses(c)) /\ Cardinality(Uses(c)) \in Nat
         /\ IsFiniteSet(BoundTo(c)) /\ Cardinality(BoundTo(c)) \in Nat
  <1>1. card[c].files \subseteq Files
    BY DEF TypeOK, CardType
  <1>2. Uses(c) \subseteq Files /\ BoundTo(c) \subseteq Interfaces
    BY DEF Uses, BoundTo
  <1>3. IsFiniteSet(card[c].files) /\ IsFiniteSet(Uses(c)) /\ IsFiniteSet(BoundTo(c))
    BY <1>1, <1>2, CardLifeAssumption, FS_Subset
  <1> QED
    BY <1>3, FS_CardinalityType

LEMMA WithAndWithout ==
  ASSUME NEW S, IsFiniteSet(S), NEW x
  PROVE  /\ Cardinality(S \cup {x}) = Cardinality(S) + (IF x \in S THEN 0 ELSE 1)
         /\ Cardinality(S \ {x}) = Cardinality(S) - (IF x \in S THEN 1 ELSE 0)
  <1>1. Cardinality(S) \in Nat
    BY FS_CardinalityType
  <1>2. CASE x \in S
    <2>1. S \cup {x} = S
      BY <1>2
    <2> QED
      BY <1>1, <1>2, <2>1, FS_RemoveElement, SMTT(30)
  <1>3. CASE x \notin S
    <2>1. S \ {x} = S
      BY <1>3
    <2> QED
      BY <1>1, <1>3, <2>1, FS_AddElement
  <1> QED
    BY <1>2, <1>3

One(b) == IF b THEN 1 ELSE 0

LEMMA UsesCounted ==
  ASSUME TypeOK, NEW f \in Files, \A g \in Files : g # f => file'[g] = file[g], NEW c \in Cards
  PROVE  Cardinality(Uses(c))' =
            Cardinality(Uses(c)) - One(file[f].ref = c) + One(file'[f].ref = c)
  <1>1. IsFiniteSet(Uses(c)) /\ Cardinality(Uses(c)) \in Nat
    BY Finite
  <1>2. f \in Uses(c) <=> file[f].ref = c
    BY DEF Uses
  <1>3. Uses(c)' = IF file'[f].ref = c THEN Uses(c) \cup {f} ELSE Uses(c) \ {f}
    BY DEF Uses
  <1>4. /\ Cardinality(Uses(c) \cup {f}) = Cardinality(Uses(c)) + 1 - One(file[f].ref = c)
        /\ Cardinality(Uses(c) \ {f}) = Cardinality(Uses(c)) - One(file[f].ref = c)
    <2>1. /\ Cardinality(Uses(c) \cup {f}) = Cardinality(Uses(c)) + (IF f \in Uses(c) THEN 0 ELSE 1)
          /\ Cardinality(Uses(c) \ {f}) = Cardinality(Uses(c)) - (IF f \in Uses(c) THEN 1 ELSE 0)
      BY <1>1, WithAndWithout
    <2> QED
      BY <1>1, <1>2, <2>1 DEF One
  <1> QED
    BY <1>1, <1>3, <1>4 DEF One

LEMMA ListCounted ==
  ASSUME TypeOK, TypeOK', NEW f \in Files, NEW c \in Cards,
         card'[c].files \ {f} = card[c].files \ {f}
  PROVE  Cardinality(card'[c].files) =
            Cardinality(card[c].files) - One(f \in card[c].files) + One(f \in card'[c].files)
  <1> DEFINE F == card[c].files
             G == card'[c].files
  <1>1. IsFiniteSet(F) /\ Cardinality(F) \in Nat
    BY Finite
  <1>2. G = IF f \in G THEN F \cup {f} ELSE F \ {f}
    OBVIOUS
  <1>3. /\ Cardinality(F \cup {f}) = Cardinality(F) + 1 - One(f \in F)
        /\ Cardinality(F \ {f}) = Cardinality(F) - One(f \in F)
    <2>1. /\ Cardinality(F \cup {f}) = Cardinality(F) + (IF f \in F THEN 0 ELSE 1)
          /\ Cardinality(F \ {f}) = Cardinality(F) - (IF f \in F THEN 1 ELSE 0)
      BY <1>1, WithAndWithout
    <2> QED
      BY <1>1, <2>1 DEF One
  <1> QED
    BY <1>1, <1>2, <1>3 DEF One

(***************************************************************************)
(* The invariant after a step of a file.                                   *)
(***************************************************************************)
LEMMA FileInvKept ==
  ASSUME TypeOK, FileInv, TypeOK', NEW f \in Files, \A g \in Files : g # f => file'[g] = file[g],
         usb' = usb,
         \A c \in Cards :
            /\ card'[c].files \ {f} = card[c].files \ {f}
            /\ f \in card'[c].files <=> file'[f].card = c /\ file'[f].at \in Listed
            /\ card'[c].refcount =
                 card[c].refcount - One(f \in card[c].files) + One(f \in card'[c].files)
                                  - One(file[f].ref = c) + One(file'[f].ref = c),
         FilePlaces'
  PROVE  FileInv'
  <1>1. ListsAreRight'
    BY DEF FileInv, ListsAreRight
  <1>2. RefsAreCounted'
    <2> SUFFICES ASSUME NEW c \in Cards
                 PROVE  card'[c].refcount =
                           Cardinality(card'[c].files) + Cardinality(Uses(c))' + Holds(c)'
      BY DEF RefsAreCounted
    <2>1. card[c].refcount = Cardinality(card[c].files) + Cardinality(Uses(c)) + Holds(c)
      BY DEF FileInv, RefsAreCounted
    <2>2. Holds(c)' = Holds(c) /\ Holds(c) \in Nat
      BY DEF Holds
    <2>3. Cardinality(Uses(c)) \in Nat /\ Cardinality(card[c].files) \in Nat
      BY Finite
    <2>4. Cardinality(Uses(c))' =
             Cardinality(Uses(c)) - One(file[f].ref = c) + One(file'[f].ref = c)
      BY UsesCounted
    <2>5. Cardinality(card'[c].files) =
             Cardinality(card[c].files) - One(f \in card[c].files) + One(f \in card'[c].files)
      BY ListCounted
    <2>6. /\ One(file[f].ref = c) \in Int /\ One(file'[f].ref = c) \in Int
          /\ One(f \in card[c].files) \in Int /\ One(f \in card'[c].files) \in Int
      BY DEF One
    <2> QED
      BY <2>1, <2>2, <2>3, <2>4, <2>5, <2>6
  <1> QED
    BY <1>1, <1>2 DEF FileInv

LEMMA UsbKept ==
  ASSUME UsbInv, UNCHANGED <<usb_chip, bound, usb>>,
         \A c \in Cards : /\ card'[c].life = card[c].life
                          /\ card'[c].minor = card[c].minor
                          /\ card'[c].free_on_last_close = card[c].free_on_last_close
                          /\ chip'[c].num_interfaces = chip[c].num_interfaces
  PROVE  UsbInv'
  <1>1. InterfacesAreCounted'
    BY DEF UsbInv, InterfacesAreCounted, BoundTo, Gone
  <1>2. BoundIsInSlot'
    BY DEF UsbInv, BoundIsInSlot, BoundTo
  <1>3. LastLeaves'
    BY DEF UsbInv, LastLeaves, BoundTo
  <1>4. UsbPlace'
    BY DEF UsbInv, UsbPlace
  <1>5. MinorIsThere' /\ SlotIsThere' /\ GivenUpIsGone'
    BY DEF UsbInv, MinorIsThere, SlotIsThere, GivenUpIsGone
  <1> QED
    BY <1>1, <1>2, <1>3, <1>4, <1>5 DEF UsbInv

LEMMA FileStepKeeps ==
  ASSUME Inv, TypeOK', NEW f \in Files, \A g \in Files : g # f => file'[g] = file[g],
         UNCHANGED <<usb_chip, bound, usb>>,
         \A c \in Cards : /\ card'[c].life = card[c].life
                          /\ card'[c].minor = card[c].minor
                          /\ card'[c].free_on_last_close = card[c].free_on_last_close
                          /\ chip'[c].num_interfaces = chip[c].num_interfaces,
         \A c \in Cards :
            /\ card'[c].files \ {f} = card[c].files \ {f}
            /\ f \in card'[c].files <=> file'[f].card = c /\ file'[f].at \in Listed
            /\ card'[c].refcount =
                 card[c].refcount - One(f \in card[c].files) + One(f \in card'[c].files)
                                  - One(file[f].ref = c) + One(file'[f].ref = c),
         FilePlaces',
         \A c \in Cards : file'[f].card = c \/ file'[f].ref = c => card[c].life # "freed"
  PROVE  Inv'
  <1>1. UsbInv'
    BY UsbKept DEF Inv
  <1>2. HeldIsAlive'
    BY DEF Inv, HeldIsAlive
  <1>3. FileInv'
    BY FileInvKept DEF Inv
  <1> QED
    BY <1>1, <1>2, <1>3 DEF Inv

LEMMA LookupKeeps ==
  ASSUME Inv, NEW f \in Files, Lookup(f), TypeOK'
  PROVE  Inv'
  <1> USE DEF Inv
  <1>1. PICK c \in Cards : Lookup(f)!(c)
    BY DEF Lookup
  <1>2. /\ file'[f].at = "opening" /\ file'[f].card = c /\ file'[f].ref = c
        /\ \A g \in Files : g # f => file'[g] = file[g]
    BY <1>1 DEF TypeOK, FileType
  <1>3. /\ card'[c].refcount = card[c].refcount + 1
        /\ \A d \in Cards : d # c => card'[d].refcount = card[d].refcount
        /\ \A d \in Cards : /\ card'[d].life = card[d].life
                            /\ card'[d].minor = card[d].minor
                            /\ card'[d].free_on_last_close = card[d].free_on_last_close
                            /\ card'[d].files = card[d].files
    BY <1>1 DEF Refer, TypeOK, CardType
  <1>4. file[f].at = "closed" /\ file[f].card = None /\ file[f].ref = None
    BY <1>1 DEF FileInv, FilePlaces
  <1>5. FilePlaces'
    BY <1>2 DEF FileInv, FilePlaces
  <1>6. \A d \in Cards : f \notin card[d].files /\ "opening" \notin Listed
    BY <1>4 DEF FileInv, ListsAreRight, Listed
  <1>7. \A d \in Cards : card'[d].refcount = card[d].refcount + One(file'[f].ref = d) /\ None # d
    BY <1>2, <1>3, CardLifeAssumption DEF One, TypeOK, CardType
  <1>8. card[c].life # "freed"
    BY <1>1 DEF Refer, HeldIsAlive
  <1>9. \A d \in Cards :
           card'[d].refcount =
                 card[d].refcount - One(f \in card[d].files) + One(f \in card'[d].files)
                                  - One(file[f].ref = d) + One(file'[f].ref = d)
    BY <1>2, <1>3, <1>4, <1>6, <1>7 DEF One, TypeOK, CardType
  <1> QED
    BY <1>1, <1>2, <1>3, <1>5, <1>6, <1>8, <1>9, FileStepKeeps

LEMMA FileAddKeeps ==
  ASSUME Inv, NEW f \in Files, FileAdd(f), TypeOK'
  PROVE  Inv'
  <1> USE DEF Inv
  <1> DEFINE c == file[f].card
  <1>1. file[f].at = "opening" /\ c \in Cards /\ file[f].ref = c
    BY DEF FileAdd, FileInv, FilePlaces
  <1>2. /\ file'[f].at = "added" /\ file'[f].card = c /\ file'[f].ref = c
        /\ \A g \in Files : g # f => file'[g] = file[g]
    BY <1>1, SMTT(30) DEF FileAdd, TypeOK, FileType
  <1>3. /\ card'[c].refcount = card[c].refcount + 1 /\ card'[c].files = card[c].files \cup {f}
        /\ \A d \in Cards : d # c => card'[d] = card[d]
        /\ \A d \in Cards : /\ card'[d].life = card[d].life
                            /\ card'[d].minor = card[d].minor
                            /\ card'[d].free_on_last_close = card[d].free_on_last_close
    <2> DEFINE w == [card[c] EXCEPT !.files = @ \cup {f}, !.refcount = @ + 1]
    <2>1. card \in [Cards -> CardType] /\ card[c] \in CardType
      BY <1>1 DEF TypeOK
    <2>2. card' = [card EXCEPT ![c] = w]
      BY DEF FileAdd
    <2>3. /\ w.refcount = card[c].refcount + 1 /\ w.files = card[c].files \cup {f}
          /\ w.life = card[c].life /\ w.minor = card[c].minor
          /\ w.free_on_last_close = card[c].free_on_last_close
      BY <1>1, <2>1 DEF CardType
    <2> HIDE DEF w
    <2> QED
      BY <1>1, <2>1, <2>2, <2>3
  <1>4. FilePlaces'
    BY <1>1, <1>2 DEF FileInv, FilePlaces
  <1>5. "added" \in Listed /\ \A d \in Cards : f \notin card[d].files
    BY <1>1 DEF FileInv, ListsAreRight, Listed
  <1>6. \A d \in Cards :
           /\ card'[d].files \ {f} = card[d].files \ {f}
           /\ f \in card'[d].files <=> d = c
           /\ card'[d].refcount = card[d].refcount + One(d = c)
    BY <1>1, <1>3, <1>5 DEF One, TypeOK, CardType
  <1>7. \A d \in Cards :
           card'[d].refcount =
                 card[d].refcount - One(f \in card[d].files) + One(f \in card'[d].files)
                                  - One(file[f].ref = d) + One(file'[f].ref = d)
    BY <1>1, <1>2, <1>5, <1>6 DEF One, TypeOK, CardType
  <1>8. card[c].life # "freed"
    BY <1>1 DEF HeldIsAlive
  <1>9. UNCHANGED <<chip, usb_chip, bound, usb>>
    BY DEF FileAdd
  <1> QED
    BY <1>2, <1>3, <1>4, <1>5, <1>6, <1>7, <1>8, <1>9, FileStepKeeps

LEMMA QuietKeeps ==
  ASSUME Inv, NEW f \in Files, TypeOK',
         FileRefused(f) \/ Enter(f) \/ Return(f) \/ Autoresume(f) \/ Autosuspend(f)
  PROVE  Inv'
  <1> USE DEF Inv
  <1>1. /\ file'[f].card = file[f].card /\ file'[f].ref = file[f].ref
        /\ \/ file[f].at = "opening" /\ file'[f].at = "closing"
           \/ /\ file[f].at \in {"open", "called", "message"}
              /\ file'[f].at \in {"open", "called", "message"}
        /\ \A g \in Files : g # f => file'[g] = file[g]
    <2> USE DEF TypeOK, FileType
    <2>1. CASE FileRefused(f)
      BY <2>1 DEF FileRefused
    <2>2. CASE Enter(f)
      BY <2>2 DEF Enter
    <2>3. CASE Return(f)
      BY <2>3 DEF Return
    <2>4. CASE Autoresume(f)
      BY <2>4 DEF Autoresume
    <2>5. CASE Autosuspend(f)
      BY <2>5 DEF Autosuspend
    <2> QED
      BY <2>1, <2>2, <2>3, <2>4, <2>5
  <1>2. UNCHANGED <<card, usb_chip, bound, usb>>
    BY DEF FileRefused, Enter, Return, Autoresume, Autosuspend
  <1>3. \A d \in Cards : chip'[d].num_interfaces = chip[d].num_interfaces
    <2>1. CASE Autoresume(f)
      BY <2>1 DEF Autoresume, TypeOK, ChipType
    <2>2. CASE Autosuspend(f)
      BY <2>2 DEF Autosuspend, TypeOK, ChipType
    <2>3. CASE FileRefused(f) \/ Enter(f) \/ Return(f)
      BY <2>3 DEF FileRefused, Enter, Return
    <2> QED
      BY <2>1, <2>2, <2>3
  <1>4. FilePlaces'
    BY <1>1 DEF FileInv, FilePlaces
  <1>5. \A d \in Cards : f \in card[d].files <=> file'[f].card = d /\ file'[f].at \in Listed
    BY <1>1 DEF FileInv, ListsAreRight, Listed
  <1>6. \A d \in Cards :
           card[d].refcount =
                 card[d].refcount - One(f \in card[d].files) + One(f \in card[d].files)
                                  - One(file[f].ref = d) + One(file[f].ref = d)
    <2>1. \A d \in Cards : card[d].refcount \in Int
      BY DEF TypeOK, CardType
    <2> QED
      BY <2>1 DEF One
  <1>7. \A d \in Cards : file'[f].card = d \/ file'[f].ref = d => card[d].life # "freed"
    BY <1>1 DEF HeldIsAlive
  <1> QED
    BY <1>1, <1>2, <1>3, <1>4, <1>5, <1>6, <1>7, FileStepKeeps

LEMMA RemovedKeeps ==
  ASSUME Inv, NEW f \in Files, OpenFails(f) \/ Close(f), TypeOK'
  PROVE  Inv'
  <1> USE DEF Inv
  <1> DEFINE c == file[f].card
             n == One(file[f].at = "added")
  <1>1. /\ c \in Cards /\ file[f].at \in Listed
        /\ \/ file[f].at = "added" /\ file[f].ref = c
           \/ file[f].at = "open" /\ file[f].ref = None
    BY DEF OpenFails, Close, FileInv, FilePlaces, Listed
  <1>2. /\ file'[f].at = "closing" /\ file'[f].card = c /\ file'[f].ref = c
        /\ \A g \in Files : g # f => file'[g] = file[g]
    <2>1. CASE OpenFails(f)
      BY <1>1, <2>1 DEF OpenFails, TypeOK, FileType
    <2>2. CASE Close(f)
      BY <1>1, <2>2 DEF Close, TypeOK, FileType
    <2> QED
      BY <2>1, <2>2
  <1>3. Removed(f, c, n) /\ n \in Int /\ UNCHANGED <<chip, usb_chip, bound, usb>>
    BY SMTT(30) DEF OpenFails, Close, One
  <1>4. /\ card'[c].refcount = card[c].refcount - n /\ card'[c].files = card[c].files \ {f}
        /\ \A d \in Cards : d # c => card'[d] = card[d]
        /\ \A d \in Cards : /\ card'[d].life = card[d].life
                            /\ card'[d].minor = card[d].minor
                            /\ card'[d].free_on_last_close = card[d].free_on_last_close
    <2> HIDE DEF n
    <2> DEFINE w == [card[c] EXCEPT !.files = @ \ {f}, !.dead = @ \ {f}, !.refcount = @ - n]
    <2>1. card \in [Cards -> CardType] /\ card[c] \in CardType
      BY <1>1 DEF TypeOK
    <2>2. card' = [card EXCEPT ![c] = w]
      BY <1>3 DEF Removed
    <2>3. /\ w.refcount = card[c].refcount - n /\ w.files = card[c].files \ {f}
          /\ w.life = card[c].life /\ w.minor = card[c].minor
          /\ w.free_on_last_close = card[c].free_on_last_close
      BY <1>1, <2>1 DEF CardType
    <2> HIDE DEF w
    <2> QED
      BY <1>1, <2>1, <2>2, <2>3
  <1>5. FilePlaces'
    BY <1>1, <1>2 DEF FileInv, FilePlaces
  <1>6. "closing" \notin Listed /\ \A d \in Cards : f \in card[d].files <=> d = c
    BY <1>1 DEF FileInv, ListsAreRight, Listed
  <1>7. \A d \in Cards : card'[d].files \ {f} = card[d].files \ {f} /\ f \notin card'[d].files
    BY <1>1, <1>4, <1>6
  <1>8. \A d \in Cards :
           card'[d].refcount =
                 card[d].refcount - One(f \in card[d].files) + One(f \in card'[d].files)
                                  - One(file[f].ref = d) + One(file'[f].ref = d)
    <2> SUFFICES ASSUME NEW d \in Cards
                 PROVE  card'[d].refcount =
                           card[d].refcount - One(f \in card[d].files) + One(f \in card'[d].files)
                                            - One(file[f].ref = d) + One(file'[f].ref = d)
      OBVIOUS
    <2>1. card[d].refcount \in Int /\ None # d
      BY CardLifeAssumption DEF TypeOK, CardType
    <2> QED
      BY <1>1, <1>2, <1>4, <1>6, <1>7, <2>1 DEF One
  <1>9. card[c].life # "freed"
    BY <1>1 DEF HeldIsAlive
  <1> QED
    BY <1>2, <1>3, <1>4, <1>5, <1>6, <1>7, <1>8, <1>9, FileStepKeeps

LEMMA LinkKeeps ==
  ASSUME Inv, NEW f \in Files, NEW g \in Files, Link(f, g), ~Replug, TypeOK'
  PROVE  Inv'
  <1> USE DEF Inv
  <1> DEFINE c == file[g].card
  <1>1. /\ c \in Cards /\ Refer(c) /\ file[f].at = "called" /\ file[f].ref = None
        /\ UNCHANGED <<chip, usb_chip, bound, usb>>
    BY DEF Link, FileInv, FilePlaces
  <1>2. /\ file'[f].at = "linking" /\ file'[f].card = file[f].card /\ file'[f].ref = c
        /\ \A h \in Files : h # f => file'[h] = file[h]
    BY DEF Link, TypeOK, FileType
  <1>3. /\ card'[c].refcount = card[c].refcount + 1
        /\ \A d \in Cards : d # c => card'[d] = card[d]
        /\ \A d \in Cards : /\ card'[d].life = card[d].life
                            /\ card'[d].minor = card[d].minor
                            /\ card'[d].free_on_last_close = card[d].free_on_last_close
                            /\ card'[d].files = card[d].files
    BY <1>1 DEF Refer, TypeOK, CardType
  <1>4. FilePlaces'
    BY <1>1, <1>2 DEF FileInv, FilePlaces
  <1>5. \A d \in Cards : f \in card'[d].files <=> file'[f].card = d /\ file'[f].at \in Listed
    BY <1>1, <1>2, <1>3 DEF FileInv, ListsAreRight, Listed
  <1>6. \A d \in Cards :
           card'[d].refcount =
                 card[d].refcount - One(f \in card[d].files) + One(f \in card'[d].files)
                                  - One(file[f].ref = d) + One(file'[f].ref = d)
    <2> SUFFICES ASSUME NEW d \in Cards
                 PROVE  card'[d].refcount =
                           card[d].refcount - One(f \in card[d].files) + One(f \in card'[d].files)
                                            - One(file[f].ref = d) + One(file'[f].ref = d)
      OBVIOUS
    <2>1. card[d].refcount \in Int /\ None # d
      BY CardLifeAssumption DEF TypeOK, CardType
    <2> QED
      BY <1>1, <1>2, <1>3, <2>1 DEF One
  <1>7. \A d \in Cards : file'[f].card = d \/ file'[f].ref = d => card[d].life # "freed"
    BY <1>1, <1>2 DEF HeldIsAlive
  <1> QED
    BY <1>1, <1>2, <1>3, <1>4, <1>5, <1>6, <1>7, FileStepKeeps

LEMMA UnrefKeeps ==
  ASSUME Inv, NEW f \in Files, Unref(f), TypeOK'
  PROVE  Inv'
  <1> USE DEF Inv
  <1> DEFINE c == file[f].ref
             last == card[c].refcount = 1 /\ card[c].free_on_last_close
  <1>1. /\ c \in Cards /\ file[f].at \in {"added", "linking", "closing"}
        /\ file[f].at = "closing" => file[f].card = c
        /\ UNCHANGED <<chip, usb_chip, bound, usb>>
    BY DEF Unref, FileInv, FilePlaces
  <1>2. /\ file'[f].ref = None
        /\ \/ file[f].at # "closing" /\ file'[f].at = "open" /\ file'[f].card = file[f].card
           \/ file[f].at = "closing" /\ file'[f].at = "closed" /\ file'[f].card = None
        /\ \A g \in Files : g # f => file'[g] = file[g]
    <2>1. CASE file[f].at = "closing"
      <3>1. file' = [file EXCEPT ![f] = Closed]
        BY <2>1 DEF Unref
      <3> QED
        BY <2>1, <3>1 DEF Closed, TypeOK
    <2>2. CASE file[f].at # "closing"
      <3>1. file' = [file EXCEPT ![f] = [file[f] EXCEPT !.at = "open", !.ref = None, !.peer = None]]
        BY <2>2, SMTT(30) DEF Unref
      <3> QED
        BY <2>2, <3>1 DEF TypeOK, FileType
    <2> QED
      BY <2>1, <2>2
  <1>3. /\ card'[c].refcount = card[c].refcount - 1 /\ card'[c].files = card[c].files
        /\ card'[c].life = IF last THEN "freed" ELSE card[c].life
        /\ card'[c].minor = card[c].minor
        /\ card'[c].free_on_last_close = card[c].free_on_last_close
        /\ \A d \in Cards : d # c => card'[d] = card[d]
    <2> DEFINE l == IF last THEN "freed" ELSE card[c].life
               w == [card[c] EXCEPT !.refcount = @ - 1, !.life = l]
    <2>1. card \in [Cards -> CardType] /\ card[c] \in CardType
      BY <1>1 DEF TypeOK
    <2>2. card' = [card EXCEPT ![c] = w]
      BY DEF Unref, Unreferred
    <2>3. l = IF last THEN "freed" ELSE card[c].life
      OBVIOUS
    <2> HIDE DEF l, last
    <2>4. /\ w.refcount = card[c].refcount - 1 /\ w.files = card[c].files
          /\ w.life = l /\ w.minor = card[c].minor
          /\ w.free_on_last_close = card[c].free_on_last_close
      BY <2>1 DEF CardType
    <2> HIDE DEF w
    <2> QED
      BY <1>1, <2>1, <2>2, <2>3, <2>4
  <1>4. FilePlaces'
    BY <1>1, <1>2 DEF FileInv, FilePlaces
  <1>5. \A d \in Cards : f \in card'[d].files <=> file'[f].card = d /\ file'[f].at \in Listed
    <2>1. \A d \in Cards : f \in card[d].files <=> file[f].card = d /\ file[f].at \in Listed
      BY DEF FileInv, ListsAreRight
    <2>2. \A d \in Cards : card'[d].files = card[d].files
      BY <1>3
    <2> QED
      BY <1>1, <1>2, <2>1, <2>2 DEF Listed
  <1>6. \A d \in Cards :
           card'[d].refcount =
                 card[d].refcount - One(f \in card[d].files) + One(f \in card'[d].files)
                                  - One(file[f].ref = d) + One(file'[f].ref = d)
    <2> SUFFICES ASSUME NEW d \in Cards
                 PROVE  card'[d].refcount =
                           card[d].refcount - One(f \in card[d].files) + One(f \in card'[d].files)
                                            - One(file[f].ref = d) + One(file'[f].ref = d)
      OBVIOUS
    <2>1. card[d].refcount \in Int /\ None # d
      BY CardLifeAssumption DEF TypeOK, CardType
    <2> QED
      BY <1>1, <1>2, <1>3, <2>1 DEF One
  <1>7. FileInv'
    BY <1>1, <1>2, <1>3, <1>4, <1>5, <1>6, FileInvKept
  <1>8. \A d \in Cards : file'[f].card = d => card[d].life # "freed"
    BY <1>2, CardLifeAssumption DEF HeldIsAlive
  <1>9. CASE ~last
    <2>1. UsbInv'
      BY <1>1, <1>3, <1>9, UsbKept
    <2>2. HeldIsAlive'
      BY <1>1, <1>2, <1>3, <1>8, <1>9, CardLifeAssumption DEF HeldIsAlive
    <2> QED
      BY <1>7, <2>1, <2>2
  <1>10. CASE last
    <2>1. card[c].files = {} /\ Uses(c) = {f} /\ Holds(c) = 0
      <3>1. 1 = Cardinality(card[c].files) + Cardinality(Uses(c)) + Holds(c)
        BY <1>1, <1>10 DEF FileInv, RefsAreCounted
      <3>2. Cardinality(card[c].files) \in Nat /\ Cardinality(Uses(c)) \in Nat /\ Holds(c) \in Nat
        BY <1>1, Finite DEF Holds
      <3>3. Cardinality(Uses(c) \ {f}) = Cardinality(Uses(c)) - 1
        BY <1>1, Finite, FS_RemoveElement DEF Uses
      <3>4. IsFiniteSet(Uses(c) \ {f}) /\ Cardinality(Uses(c) \ {f}) \in Nat
        BY <1>1, Finite, FS_RemoveElement, FS_CardinalityType
      <3>5. Cardinality(card[c].files) = 0 /\ Holds(c) = 0 /\ Cardinality(Uses(c) \ {f}) = 0
        BY <3>1, <3>2, <3>3, <3>4
      <3>6. card[c].files = {} /\ Uses(c) \ {f} = {}
        BY <1>1, <3>4, <3>5, Finite, FS_EmptySet
      <3>7. f \in Uses(c)
        BY DEF Uses
      <3> QED
        BY <3>5, <3>6, <3>7
    <2>2. usb.at \notin {"idle", "clear"} => usb.card # c
      <3>1. usb.at \notin {"idle", "clear", "unhold"} => usb.card # c
        BY <1>10 DEF UsbInv, UsbPlace
      <3>2. usb.at = "unhold" => usb.card # c
        BY <2>1 DEF Holds
      <3> QED
        BY <3>1, <3>2
    <2>3. usb_chip # c /\ ~card[c].minor
      BY <1>1, <1>10 DEF UsbInv, GivenUpIsGone
    <2>4. BoundTo(c) = {}
      BY <1>1, <2>2, <2>3 DEF UsbInv, BoundIsInSlot
    <2>5. \A g \in Files : file'[g].card # c /\ file'[g].ref # c
      <3> SUFFICES ASSUME NEW g \in Files PROVE file'[g].card # c /\ file'[g].ref # c
        OBVIOUS
      <3>1. g # f => file[g].ref # c
        BY <2>1 DEF Uses
      <3>2. g # f => file[g].card # c
        BY <1>1, <2>1, <3>1, CardLifeAssumption DEF FileInv, FilePlaces, ListsAreRight, Listed, TypeOK, FileType, Places
      <3>3. file[f].at # "closing" => file[f].card # c
        BY <1>1, <2>1 DEF FileInv, ListsAreRight, FilePlaces, Listed
      <3> QED
        BY <1>1, <1>2, <3>1, <3>2, <3>3, CardLifeAssumption
    <2>6. HeldIsAlive'
      BY <1>1, <1>2, <1>3, <1>8, <2>3, <2>4, <2>5, CardLifeAssumption DEF HeldIsAlive, BoundTo
    <2>7. UsbInv'
      <3>1. InterfacesAreCounted'
        BY <1>1 DEF UsbInv, InterfacesAreCounted, BoundTo, Gone
      <3>2. BoundIsInSlot' /\ LastLeaves'
        BY <1>1 DEF UsbInv, BoundIsInSlot, LastLeaves, BoundTo
      <3>3. UsbPlace'
        BY <1>1, <1>3, <2>2 DEF UsbInv, UsbPlace
      <3>4. MinorIsThere' /\ SlotIsThere'
        BY <1>1, <1>3, <2>3 DEF UsbInv, MinorIsThere, SlotIsThere
      <3>5. GivenUpIsGone'
        BY <1>1, <1>3, <2>3 DEF UsbInv, GivenUpIsGone
      <3> QED
        BY <3>1, <3>2, <3>3, <3>4, <3>5 DEF UsbInv
    <2> QED
      BY <1>7, <2>6, <2>7
  <1> QED
    BY <1>9, <1>10

(***************************************************************************)
(* The invariant after a step of the USB core.                             *)
(***************************************************************************)
LEMMA FilesKept ==
  ASSUME TypeOK, FileInv, file' = file,
         \A c \in Cards : /\ card'[c].files = card[c].files
                          /\ card'[c].refcount = card[c].refcount - Holds(c) + Holds(c)'
  PROVE  FileInv'
  <1>1. FilePlaces' /\ ListsAreRight'
    BY DEF FileInv, FilePlaces, ListsAreRight
  <1>2. RefsAreCounted'
    <2> SUFFICES ASSUME NEW c \in Cards
                 PROVE  card'[c].refcount =
                           Cardinality(card'[c].files) + Cardinality(Uses(c))' + Holds(c)'
      BY DEF RefsAreCounted
    <2>1. card[c].refcount = Cardinality(card[c].files) + Cardinality(Uses(c)) + Holds(c)
      BY DEF FileInv, RefsAreCounted
    <2>2. Holds(c)' \in {0, 1} /\ Holds(c) \in {0, 1}
      BY DEF Holds
    <2>3. Cardinality(Uses(c)) \in Nat /\ Cardinality(card[c].files) \in Nat
      BY Finite
    <2>4. Uses(c)' = Uses(c)
      BY DEF Uses
    <2> QED
      BY <2>1, <2>2, <2>3, <2>4
  <1> QED
    BY <1>1, <1>2 DEF FileInv

\* Who has a card is on its list or holds a reference.
LEMMA NobodyUses ==
  ASSUME TypeOK, FileInv, NEW c \in Cards, card[c].files = {}, Uses(c) = {}
  PROVE  \A f \in Files : file[f].card # c /\ file[f].ref # c
  <1> SUFFICES ASSUME NEW f \in Files PROVE file[f].card # c /\ file[f].ref # c
    OBVIOUS
  <1>1. file[f].ref # c
    BY DEF Uses
  <1>2. file[f].card # c
    BY <1>1, CardLifeAssumption
       DEF FileInv, FilePlaces, ListsAreRight, Listed, TypeOK, FileType, Places
  <1> QED
    BY <1>1, <1>2

LEMMA ProbeKeeps ==
  ASSUME Inv, NEW i \in Interfaces, Probe(i), TypeOK'
  PROVE  Inv'
  <1> USE DEF Inv
  <1>1. PICK c \in Cards : Probe(i)!(c)
    BY DEF Probe
  <1>2. usb.at = "idle" /\ usb'.at = "create" /\ usb'.card = c /\ usb'.intf = i
    BY <1>1
  <1>3. /\ card'[c].life = "there"
        /\ \A d \in Cards : d # c => card'[d] = card[d]
        /\ \A d \in Cards : /\ card'[d].minor = card[d].minor
                            /\ card'[d].free_on_last_close = card[d].free_on_last_close
                            /\ card'[d].refcount = card[d].refcount
                            /\ card'[d].files = card[d].files
    BY <1>1 DEF TypeOK, CardType
  <1>4. \A d \in Cards : chip'[d].num_interfaces = chip[d].num_interfaces
    BY <1>1 DEF TypeOK, ChipType
  <1>5. UNCHANGED <<usb_chip, bound, file>>
    BY <1>1
  <1>6. ~card[c].free_on_last_close /\ card[c].life # "freed" /\ usb_chip \in {None, c}
    BY <1>1 DEF UsbInv, SlotIsThere, GivenUpIsGone
  <1>7. FileInv'
    <2>1. \A d \in Cards : Holds(d) = 0 /\ Holds(d)' = 0
      BY <1>2 DEF Holds
    <2>2. \A d \in Cards : card'[d].refcount = card[d].refcount - Holds(d) + Holds(d)'
      BY <1>3, <2>1 DEF TypeOK, CardType
    <2> QED
      BY <1>3, <1>5, <2>2, FilesKept
  <1>8. HeldIsAlive'
    BY <1>3, <1>5, <1>6 DEF HeldIsAlive
  <1>9. InterfacesAreCounted'
    BY <1>2, <1>4, <1>5 DEF UsbInv, InterfacesAreCounted, BoundTo, Gone, Leaving
  <1>10. BoundIsInSlot' /\ LastLeaves'
    BY <1>2, <1>5 DEF UsbInv, BoundIsInSlot, LastLeaves, BoundTo, Leaving
  <1>11. UsbPlace'
    BY <1>1, <1>2, <1>3, <1>5, <1>6 DEF UsbPlace
  <1>12. MinorIsThere' /\ SlotIsThere' /\ GivenUpIsGone'
    BY <1>2, <1>3, <1>5, <1>6 DEF UsbInv, MinorIsThere, SlotIsThere, GivenUpIsGone
  <1> QED
    BY <1>7, <1>8, <1>9, <1>10, <1>11, <1>12 DEF UsbInv

LEMMA DisconnectKeeps ==
  ASSUME Inv, NEW i \in Interfaces, Disconnect(i), TypeOK'
  PROVE  Inv'
  <1> USE DEF Inv
  <1> DEFINE c == bound[i]
  <1>1. usb.at = "idle" /\ usb'.at = "leave" /\ usb'.card = c /\ usb'.intf = i
    BY DEF Disconnect
  <1>2. c \in Cards /\ UNCHANGED <<card, usb_chip, bound, file>>
    BY DEF Disconnect, TypeOK
  <1>3. \A d \in Cards : chip'[d].num_interfaces = chip[d].num_interfaces
    BY <1>2 DEF Disconnect, TypeOK, ChipType
  <1>4. usb_chip = c /\ card[c].life = "there" /\ ~card[c].free_on_last_close
    BY <1>1, <1>2 DEF UsbInv, BoundIsInSlot, BoundTo, SlotIsThere
  <1>5. FileInv'
    <2>1. \A d \in Cards : Holds(d) = 0 /\ Holds(d)' = 0
      BY <1>1 DEF Holds
    <2>2. \A d \in Cards : card'[d].refcount = card[d].refcount - Holds(d) + Holds(d)'
      BY <1>2, <2>1 DEF TypeOK, CardType
    <2> QED
      BY <1>2, <2>2, FilesKept
  <1>6. HeldIsAlive'
    BY <1>2 DEF HeldIsAlive
  <1>7. InterfacesAreCounted'
    BY <1>1, <1>2, <1>3 DEF UsbInv, InterfacesAreCounted, BoundTo, Gone, Leaving
  <1>8. BoundIsInSlot' /\ LastLeaves'
    BY <1>1, <1>2 DEF UsbInv, BoundIsInSlot, LastLeaves, BoundTo, Leaving
  <1>9. UsbPlace'
    BY <1>1, <1>2, <1>4 DEF UsbPlace
  <1>10. MinorIsThere' /\ SlotIsThere' /\ GivenUpIsGone'
    BY <1>1, <1>2 DEF UsbInv, MinorIsThere, SlotIsThere, GivenUpIsGone
  <1> QED
    BY <1>5, <1>6, <1>7, <1>8, <1>9, <1>10 DEF UsbInv

LEMMA ProbingKeeps ==
  ASSUME Inv, Create \/ Register \/ ProbeFails \/ Clear, TypeOK'
  PROVE  Inv'
  <1> USE DEF Inv
  <1> DEFINE c == usb.card
  <1>1. /\ UNCHANGED <<usb_chip, bound, file>>
        /\ \A d \in Cards : chip'[d].num_interfaces = chip[d].num_interfaces
    BY DEF Create, Register, ProbeFails, Clear, TypeOK, ChipType
  <1>2. /\ \A d \in Cards : /\ card'[d].life = card[d].life
                            /\ card'[d].free_on_last_close = card[d].free_on_last_close
                            /\ card'[d].refcount = card[d].refcount
                            /\ card'[d].files = card[d].files
        /\ \A d \in Cards : card'[d].minor = card[d].minor \/ (d = c /\ usb.at = "register")
    BY DEF Create, Register, ProbeFails, Clear, TypeOK, CardType
  <1>3. /\ usb.at \in {"create", "register", "error", "clear"}
        /\ \/ /\ usb'.card = c /\ usb'.intf = usb.intf
              /\ \/ usb.at = "create" /\ usb'.at \in {"register", "error"}
                 \/ usb.at = "register" /\ usb'.at \in {"bind", "error"}
                 \/ usb.at = "error" /\ usb'.at = "shutdown" /\ chip[c].num_interfaces = 0
                 \/ usb.at = "error" /\ usb'.at = "clear" /\ chip[c].num_interfaces # 0
           \/ usb.at = "clear" /\ usb'.at = "idle"
    BY DEF Create, Register, ProbeFails, Clear, UsbGoes, Idle, TypeOK, UsbType
  <1>4. c \in Cards /\ usb.intf \in Interfaces
    BY <1>3 DEF UsbInv, UsbPlace
  <1>5. usb.at # "clear" =>
           /\ card[c].life = "there" /\ ~card[c].free_on_last_close
           /\ usb_chip \in {None, c} /\ bound[usb.intf] = None
    BY <1>3 DEF UsbInv, UsbPlace
  <1>6. BoundTo(c) = {} <=> chip[c].num_interfaces = 0
    <2>1. chip[c].num_interfaces = Cardinality(BoundTo(c))
      <3>1. BoundTo(c) \ Gone(c) = BoundTo(c)
        BY <1>3 DEF Gone, Leaving
      <3> QED
        BY <1>4, <3>1 DEF UsbInv, InterfacesAreCounted
    <2> QED
      BY <1>4, <2>1, Finite, FS_EmptySet
  <1>7. FileInv'
    <2>1. \A d \in Cards : Holds(d) = 0 /\ Holds(d)' = 0
      BY <1>3 DEF Holds
    <2>2. \A d \in Cards : card'[d].refcount = card[d].refcount - Holds(d) + Holds(d)'
      BY <1>2, <2>1 DEF TypeOK, CardType
    <2> QED
      BY <1>1, <1>2, <2>2, FilesKept
  <1>8. HeldIsAlive'
    BY <1>1, <1>2, <1>5 DEF HeldIsAlive
  <1>9. InterfacesAreCounted'
    <2> SUFFICES ASSUME NEW d \in Cards
                 PROVE  chip'[d].num_interfaces = Cardinality(BoundTo(d)' \ Gone(d)')
      BY DEF InterfacesAreCounted
    <2>1. BoundTo(d)' = BoundTo(d) /\ BoundTo(d) \ Gone(d) = BoundTo(d)
      BY <1>1, <1>3 DEF BoundTo, Gone, Leaving
    <2>2. BoundTo(d) \ Gone(d)' = BoundTo(d)
      BY <1>3, <1>5, <1>6 DEF Gone, Leaving
    <2> QED
      BY <1>1, <2>1, <2>2 DEF UsbInv, InterfacesAreCounted
  <1>10. BoundIsInSlot'
    BY <1>1, <1>3 DEF UsbInv, BoundIsInSlot, BoundTo
  <1>11. LastLeaves'
    BY <1>1, <1>3, <1>6 DEF UsbInv, LastLeaves, BoundTo, Leaving
  <1>12. UsbPlace'
    BY <1>1, <1>2, <1>3, <1>4, <1>5 DEF UsbPlace
  <1>13. MinorIsThere'
    <2>1. usb'.at = "clear" => usb_chip = c
      BY <1>3, <1>4, <1>6 DEF UsbInv, BoundIsInSlot
    <2> QED
      BY <1>1, <1>2, <1>3, <2>1 DEF UsbInv, MinorIsThere
  <1>14. SlotIsThere' /\ GivenUpIsGone'
    BY <1>1, <1>2, <1>5 DEF UsbInv, SlotIsThere, GivenUpIsGone
  <1> QED
    BY <1>7, <1>8, <1>9, <1>10, <1>11, <1>12, <1>13, <1>14 DEF UsbInv

LEMMA BindKeeps ==
  ASSUME Inv, Bind, TypeOK'
  PROVE  Inv'
  <1> USE DEF Inv
  <1> PICK c \in Cards, i \in Interfaces : usb.card = c /\ usb.intf = i
    BY DEF Bind, UsbInv, UsbPlace
  <1>1. /\ bound[i] = None /\ usb_chip \in {None, c}
        /\ card[c].life = "there" /\ ~card[c].free_on_last_close
    BY DEF Bind, UsbInv, UsbPlace
  <1>2. usb.at = "bind" /\ usb'.at = "idle" /\ usb_chip' = c /\ UNCHANGED <<card, file>>
    BY DEF Bind, Idle
  <1>3. /\ chip'[c].num_interfaces = chip[c].num_interfaces + 1
        /\ \A d \in Cards : d # c => chip'[d].num_interfaces = chip[d].num_interfaces
    BY <1>1 DEF Bind, TypeOK, ChipType
  <1>4. /\ BoundTo(c)' = BoundTo(c) \cup {i} /\ i \notin BoundTo(c)
        /\ \A d \in Cards : d # c => BoundTo(d)' = BoundTo(d)
    <2>1. bound'[i] = c /\ \A j \in Interfaces : j # i => bound'[j] = bound[j]
      BY <1>1 DEF Bind, TypeOK
    <2>2. None # c
      BY <1>1, CardLifeAssumption
    <2>3. BoundTo(c)' = BoundTo(c) \cup {i} /\ i \notin BoundTo(c)
      BY <1>1, <2>1, <2>2 DEF BoundTo
    <2>4. ASSUME NEW d \in Cards, d # c PROVE BoundTo(d)' = BoundTo(d)
      <3>1. None # d
        BY CardLifeAssumption
      <3> QED
        BY <1>1, <2>1, <2>4, <3>1 DEF BoundTo
    <2> QED
      BY <2>3, <2>4
  <1>5. FileInv'
    <2>1. \A d \in Cards : Holds(d) = 0 /\ Holds(d)' = 0
      BY <1>2 DEF Holds
    <2>2. \A d \in Cards : card'[d].refcount = card[d].refcount - Holds(d) + Holds(d)'
      BY <1>2, <2>1 DEF TypeOK, CardType
    <2> QED
      BY <1>2, <2>2, FilesKept
  <1>6. HeldIsAlive'
    BY <1>1, <1>2 DEF Bind, HeldIsAlive, TypeOK
  <1>7. InterfacesAreCounted'
    <2>1. \A d \in Cards : Gone(d) = {} /\ Gone(d)' = {}
      BY <1>2 DEF Gone, Leaving
    <2>2. \A d \in Cards : chip[d].num_interfaces = Cardinality(BoundTo(d))
      BY <2>1 DEF UsbInv, InterfacesAreCounted
    <2>3. Cardinality(BoundTo(c) \cup {i}) = Cardinality(BoundTo(c)) + 1
      BY <1>1, <1>4, Finite, FS_AddElement
    <2>4. \A d \in Cards : chip'[d].num_interfaces = Cardinality(BoundTo(d)')
      <3>1. chip'[c].num_interfaces = Cardinality(BoundTo(c)')
        BY <1>1, <1>3, <1>4, <2>2, <2>3
      <3>2. \A d \in Cards : d # c => chip'[d].num_interfaces = Cardinality(BoundTo(d)')
        BY <1>3, <1>4, <2>2
      <3> QED
        BY <3>1, <3>2
    <2>5. \A d \in Cards : BoundTo(d)' \ Gone(d)' = BoundTo(d)'
      BY <2>1
    <2> QED
      BY <2>4, <2>5 DEF InterfacesAreCounted
  <1>8. BoundIsInSlot'
    BY <1>1, <1>2, <1>4, CardLifeAssumption DEF UsbInv, BoundIsInSlot
  <1>9. LastLeaves' /\ UsbPlace'
    BY <1>2 DEF LastLeaves, UsbPlace, Leaving
  <1>10. MinorIsThere' /\ SlotIsThere' /\ GivenUpIsGone'
    BY <1>1, <1>2, CardLifeAssumption DEF UsbInv, MinorIsThere, SlotIsThere, GivenUpIsGone
  <1> QED
    BY <1>5, <1>6, <1>7, <1>8, <1>9, <1>10 DEF UsbInv

LEMMA LeaveKeeps ==
  ASSUME Inv, Leave, TypeOK'
  PROVE  Inv'
  <1> USE DEF Inv
  <1> PICK c \in Cards, i \in Interfaces : usb.card = c /\ usb.intf = i
    BY DEF Leave, UsbInv, UsbPlace
  <1>1. /\ usb.at = "leave" /\ bound[i] = c /\ usb_chip \in {None, c}
        /\ card[c].life = "there" /\ ~card[c].free_on_last_close
        /\ UNCHANGED <<card, usb_chip, file>>
    BY DEF Leave, UsbInv, UsbPlace
  <1>2. /\ chip'[c].num_interfaces = chip[c].num_interfaces - 1
        /\ \A d \in Cards : d # c => chip'[d].num_interfaces = chip[d].num_interfaces
    BY DEF Leave, TypeOK, ChipType
  <1>3. \A d \in Cards : chip[d].num_interfaces = Cardinality(BoundTo(d))
    <2>1. \A d \in Cards : BoundTo(d) \ Gone(d) = BoundTo(d)
      BY <1>1 DEF Gone, Leaving
    <2> QED
      BY <2>1 DEF UsbInv, InterfacesAreCounted
  <1>4. i \in BoundTo(c) /\ Cardinality(BoundTo(c) \ {i}) = Cardinality(BoundTo(c)) - 1
    <2>1. i \in BoundTo(c)
      BY <1>1 DEF BoundTo
    <2> QED
      BY <2>1, Finite, FS_RemoveElement
  <1>5. FileInv'
    <2>1. usb'.at \in {"idle", "shutdown"}
      <3>1. CASE chip[c].num_interfaces > 1
        BY <3>1 DEF Leave, Unbind, Idle
      <3>2. CASE ~(chip[c].num_interfaces > 1)
        BY <3>2 DEF Leave, UsbGoes, TypeOK, UsbType
      <3> QED
        BY <3>1, <3>2
    <2>2. \A d \in Cards : Holds(d) = 0 /\ Holds(d)' = 0
      BY <1>1, <2>1 DEF Holds
    <2>3. \A d \in Cards : card'[d].refcount = card[d].refcount - Holds(d) + Holds(d)'
      BY <1>1, <2>2 DEF TypeOK, CardType
    <2> QED
      BY <1>1, <2>3, FilesKept
  <1>6. CASE chip[c].num_interfaces > 1
    <2>1. usb'.at = "idle" /\ bound'[i] = None /\ \A j \in Interfaces : j # i => bound'[j] = bound[j]
      BY <1>6 DEF Leave, Unbind, Idle, TypeOK
    <2>2. BoundTo(c)' = BoundTo(c) \ {i}
      BY <1>1, <2>1, CardLifeAssumption DEF BoundTo
    <2>3. \A d \in Cards : d # c => BoundTo(d)' = BoundTo(d)
      BY <1>1, <2>1, CardLifeAssumption DEF BoundTo
    <2>4. InterfacesAreCounted'
      <3>1. \A d \in Cards : BoundTo(d)' \ Gone(d)' = BoundTo(d)'
        BY <2>1 DEF Gone, Leaving
      <3>2. \A d \in Cards : chip'[d].num_interfaces = Cardinality(BoundTo(d)')
        BY <1>2, <1>3, <1>4, <2>2, <2>3
      <3> QED
        BY <3>1, <3>2 DEF InterfacesAreCounted
    <2>5. BoundIsInSlot'
      BY <1>1, <2>1, <2>2, <2>3 DEF UsbInv, BoundIsInSlot
    <2>6. LastLeaves' /\ UsbPlace'
      BY <2>1 DEF LastLeaves, UsbPlace, Leaving
    <2>7. MinorIsThere' /\ SlotIsThere' /\ GivenUpIsGone'
      BY <1>1 DEF UsbInv, MinorIsThere, SlotIsThere, GivenUpIsGone
    <2>8. HeldIsAlive'
      BY <1>1, <2>1, CardLifeAssumption DEF HeldIsAlive
    <2> QED
      BY <1>5, <2>4, <2>5, <2>6, <2>7, <2>8 DEF UsbInv
  <1>7. CASE ~(chip[c].num_interfaces > 1)
    <2>1. /\ usb'.at = "shutdown" /\ usb'.card = c /\ usb'.intf = i /\ bound' = bound
      BY <1>7 DEF Leave, UsbGoes, TypeOK, UsbType
    <2>2. \A d \in Cards : BoundTo(d)' = BoundTo(d) /\ Gone(d)' = IF d = c THEN {i} ELSE {}
      BY <2>1 DEF BoundTo, Gone, Leaving
    <2>3. InterfacesAreCounted'
      <3>1. chip'[c].num_interfaces = Cardinality(BoundTo(c)' \ Gone(c)')
        BY <1>2, <1>3, <1>4, <2>2
      <3>2. \A d \in Cards : d # c => chip'[d].num_interfaces = Cardinality(BoundTo(d)' \ Gone(d)')
        BY <1>2, <1>3, <2>2, SMTT(30)
      <3> QED
        BY <3>1, <3>2 DEF InterfacesAreCounted
    <2>4. BoundTo(c) \subseteq {i}
      <3>1. Cardinality(BoundTo(c) \ {i}) = 0
        <4>1. IsFiniteSet(BoundTo(c) \ {i}) /\ Cardinality(BoundTo(c) \ {i}) \in Nat
          BY <1>4, Finite, FS_RemoveElement, FS_CardinalityType
        <4>2. Cardinality(BoundTo(c)) \in Nat /\ chip[c].num_interfaces = Cardinality(BoundTo(c))
          BY <1>3, Finite
        <4> QED
          BY <1>4, <1>7, <4>1, <4>2
      <3>2. BoundTo(c) \ {i} = {}
        BY <1>4, <3>1, Finite, FS_RemoveElement, FS_EmptySet
      <3> QED
        BY <3>2
    <2>5. LastLeaves'
      BY <2>1, <2>2, <2>4 DEF LastLeaves
    <2>6. BoundIsInSlot'
      BY <1>1, <2>1, <2>2 DEF UsbInv, BoundIsInSlot
    <2>7. UsbPlace'
      BY <1>1, <2>1 DEF UsbPlace
    <2>8. MinorIsThere' /\ SlotIsThere' /\ GivenUpIsGone'
      BY <1>1, <2>1 DEF UsbInv, MinorIsThere, SlotIsThere, GivenUpIsGone
    <2>9. HeldIsAlive'
      BY <1>1, <2>1 DEF HeldIsAlive
    <2> QED
      BY <1>5, <2>3, <2>5, <2>6, <2>7, <2>8, <2>9 DEF UsbInv
  <1> QED
    BY <1>6, <1>7

LEMMA ShutdownKeeps ==
  ASSUME Inv, Shutdown \/ ReplaceFops, TypeOK'
  PROVE  Inv'
  <1> USE DEF Inv
  <1>1. /\ usb.at \in {"shutdown", "fops"} /\ usb'.at \in {"fops", "devices"}
        /\ usb'.card = usb.card /\ usb'.intf = usb.intf
        /\ UNCHANGED <<chip, usb_chip, bound, file>>
    BY DEF Shutdown, ReplaceFops, UsbGoes, TypeOK, UsbType
  <1>2. \A d \in Cards : /\ card'[d].life = card[d].life
                         /\ card'[d].minor = card[d].minor
                         /\ card'[d].free_on_last_close = card[d].free_on_last_close
                         /\ card'[d].refcount = card[d].refcount
                         /\ card'[d].files = card[d].files
    BY DEF Shutdown, ReplaceFops, TypeOK, CardType
  <1>3. usb.card \in Cards /\ usb.intf \in Interfaces
    BY <1>1 DEF UsbInv, UsbPlace
  <1>4. FileInv'
    <2>1. \A d \in Cards : Holds(d) = 0 /\ Holds(d)' = 0
      BY <1>1 DEF Holds
    <2>2. \A d \in Cards : card'[d].refcount = card[d].refcount - Holds(d) + Holds(d)'
      BY <1>2, <2>1 DEF TypeOK, CardType
    <2> QED
      BY <1>1, <1>2, <2>2, FilesKept
  <1>5. InterfacesAreCounted' /\ LastLeaves'
    BY <1>1 DEF UsbInv, InterfacesAreCounted, LastLeaves, BoundTo, Gone, Leaving
  <1>6. BoundIsInSlot'
    BY <1>1 DEF UsbInv, BoundIsInSlot, BoundTo
  <1>7. UsbPlace'
    BY <1>1, <1>2, <1>3 DEF UsbInv, UsbPlace
  <1>8. MinorIsThere' /\ SlotIsThere' /\ GivenUpIsGone'
    BY <1>1, <1>2 DEF UsbInv, MinorIsThere, SlotIsThere, GivenUpIsGone
  <1>9. HeldIsAlive'
    BY <1>1, <1>2 DEF HeldIsAlive
  <1> QED
    BY <1>4, <1>5, <1>6, <1>7, <1>8, <1>9 DEF UsbInv

LEMMA DevicesKeeps ==
  ASSUME Inv, Devices, TypeOK'
  PROVE  Inv'
  <1> USE DEF Inv
  <1> PICK c \in Cards, i \in Interfaces : usb.card = c /\ usb.intf = i
    BY DEF Devices, UsbInv, UsbPlace
  <1>1. /\ usb.at = "devices" /\ usb_chip \in {None, c} /\ usb_chip' = None
        /\ card[c].life = "there" /\ ~card[c].free_on_last_close
        /\ UNCHANGED <<chip, bound, file>>
    BY DEF Devices, UsbInv, UsbPlace
  <1>2. /\ usb'.at = (IF usb_chip = c THEN "hold" ELSE "wait") /\ usb'.card = c /\ usb'.intf = i
    BY DEF Devices, UsbGoes, TypeOK, UsbType
  <1>3. /\ ~card'[c].minor
        /\ \A d \in Cards : d # c => card'[d].minor = card[d].minor
        /\ \A d \in Cards : /\ card'[d].life = card[d].life
                            /\ card'[d].free_on_last_close = card[d].free_on_last_close
                            /\ card'[d].refcount = card[d].refcount
                            /\ card'[d].files = card[d].files
    BY DEF Devices, TypeOK, CardType
  <1>4. /\ \A d \in Cards : BoundTo(d)' = BoundTo(d)
        /\ \A d \in Cards : d # c => BoundTo(d) = {}
        /\ usb_chip # c => BoundTo(c) = {}
        /\ BoundTo(c) \subseteq {i}
    <2>1. \A d \in Cards : BoundTo(d) # {} => usb_chip = d /\ d = c
      BY <1>1, CardLifeAssumption DEF UsbInv, BoundIsInSlot
    <2>2. \A d \in Cards : BoundTo(d)' = BoundTo(d)
      BY <1>1 DEF BoundTo
    <2>3. BoundTo(c) \subseteq {i}
      BY <1>1 DEF UsbInv, LastLeaves, Leaving
    <2> QED
      BY <2>1, <2>2, <2>3
  <1>5. FileInv'
    <2>1. \A d \in Cards : Holds(d) = 0 /\ Holds(d)' = 0
      BY <1>1, <1>2 DEF Holds
    <2>2. \A d \in Cards : card'[d].refcount = card[d].refcount - Holds(d) + Holds(d)'
      BY <1>3, <2>1 DEF TypeOK, CardType
    <2> QED
      BY <1>1, <1>3, <2>2, FilesKept
  <1>6. InterfacesAreCounted'
    <2> SUFFICES ASSUME NEW d \in Cards
                 PROVE  chip'[d].num_interfaces = Cardinality(BoundTo(d)' \ Gone(d)')
      BY DEF InterfacesAreCounted
    <2>1. BoundTo(d) \ Gone(d)' = BoundTo(d) \ Gone(d)
      BY <1>1, <1>2, <1>4 DEF Gone, Leaving
    <2> QED
      BY <1>1, <1>4, <2>1 DEF UsbInv, InterfacesAreCounted
  <1>7. BoundIsInSlot' /\ LastLeaves'
    BY <1>1, <1>2, <1>4 DEF BoundIsInSlot, LastLeaves, Leaving
  <1>8. UsbPlace'
    BY <1>1, <1>2, <1>3 DEF UsbPlace
  <1>9. MinorIsThere'
    BY <1>1, <1>3, CardLifeAssumption DEF UsbInv, MinorIsThere
  <1>10. SlotIsThere' /\ GivenUpIsGone'
    BY <1>1, <1>3, CardLifeAssumption DEF UsbInv, SlotIsThere, GivenUpIsGone
  <1>11. HeldIsAlive'
    BY <1>1, <1>3, CardLifeAssumption DEF HeldIsAlive
  <1> QED
    BY <1>5, <1>6, <1>7, <1>8, <1>9, <1>10, <1>11 DEF UsbInv

LEMMA WaitKeeps ==
  ASSUME Inv, WaitAndFree, TypeOK'
  PROVE  Inv'
  <1> USE DEF Inv
  <1> PICK c \in Cards, i \in Interfaces : usb.card = c /\ usb.intf = i
    BY DEF WaitAndFree, UsbInv, UsbPlace
  <1>1. /\ usb.at = "wait" /\ usb_chip = None /\ ~card[c].minor /\ card[c].refcount = 0
        /\ ~card[c].free_on_last_close
        /\ UNCHANGED <<chip, usb_chip, bound, file>>
    BY DEF WaitAndFree, UsbInv, UsbPlace
  <1>2. usb'.at = "clear" /\ usb'.card = c /\ usb'.intf = i
    BY DEF WaitAndFree, UsbGoes, TypeOK, UsbType
  <1>3. /\ card'[c].life = "freed"
        /\ \A d \in Cards : d # c => card'[d].life = card[d].life
        /\ \A d \in Cards : /\ card'[d].minor = card[d].minor
                            /\ card'[d].free_on_last_close = card[d].free_on_last_close
                            /\ card'[d].refcount = card[d].refcount
                            /\ card'[d].files = card[d].files
    BY DEF WaitAndFree, TypeOK, CardType
  <1>4. \A d \in Cards : BoundTo(d) = {} /\ BoundTo(d)' = {}
    <2>1. \A d \in Cards : BoundTo(d)' = BoundTo(d)
      BY <1>1 DEF BoundTo
    <2>2. \A d \in Cards : BoundTo(d) = {}
      BY <1>1, CardLifeAssumption DEF UsbInv, BoundIsInSlot
    <2> QED
      BY <2>1, <2>2
  <1>5. \A d \in Cards : Holds(d) = 0 /\ Holds(d)' = 0
    BY <1>1, <1>2 DEF Holds
  <1>6. FileInv'
    <2>1. \A d \in Cards : card'[d].refcount = card[d].refcount - Holds(d) + Holds(d)'
      BY <1>3, <1>5 DEF TypeOK, CardType
    <2> QED
      BY <1>1, <1>3, <2>1, FilesKept
  <1>7. card[c].files = {} /\ Uses(c) = {}
    <2>1. 0 = Cardinality(card[c].files) + Cardinality(Uses(c))
      BY <1>1, <1>5, Finite DEF FileInv, RefsAreCounted
    <2> QED
      BY <2>1, Finite, FS_EmptySet
  <1>8. \A f \in Files : file[f].card # c /\ file[f].ref # c
    BY <1>7, NobodyUses
  <1>9. HeldIsAlive'
    BY <1>1, <1>3, <1>4, <1>8, CardLifeAssumption DEF HeldIsAlive, BoundTo
  <1>10. InterfacesAreCounted'
    BY <1>1, <1>2, <1>4 DEF UsbInv, InterfacesAreCounted, Gone, Leaving
  <1>11. BoundIsInSlot' /\ LastLeaves' /\ UsbPlace'
    BY <1>2, <1>4 DEF BoundIsInSlot, LastLeaves, UsbPlace, Leaving
  <1>12. MinorIsThere' /\ SlotIsThere' /\ GivenUpIsGone'
    BY <1>1, <1>3, CardLifeAssumption DEF UsbInv, MinorIsThere, SlotIsThere, GivenUpIsGone
  <1> QED
    BY <1>6, <1>9, <1>10, <1>11, <1>12 DEF UsbInv

LEMMA HoldKeeps ==
  ASSUME Inv, Hold \/ GiveUp, TypeOK'
  PROVE  Inv'
  <1> USE DEF Inv
  <1> PICK c \in Cards, i \in Interfaces : usb.card = c /\ usb.intf = i
    BY DEF Hold, GiveUp, UsbInv, UsbPlace
  <1>1. /\ usb_chip = None /\ ~card[c].minor /\ ~card[c].free_on_last_close
        /\ card[c].life = "there"
        /\ UNCHANGED <<chip, usb_chip, bound, file>>
    BY DEF Hold, GiveUp, UsbInv, UsbPlace
  <1>2. /\ usb'.card = c /\ usb'.intf = i
        /\ \/ usb.at = "hold" /\ usb'.at = "give up"
           \/ usb.at = "give up" /\ usb'.at = "unhold"
    BY DEF Hold, GiveUp, UsbGoes, TypeOK, UsbType
  <1>3. /\ usb.at = "hold" => ~card'[c].free_on_last_close
        /\ usb.at = "give up" => card'[c].free_on_last_close
        /\ \A d \in Cards : d # c => card'[d] = card[d]
        /\ \A d \in Cards : /\ card'[d].life = card[d].life
                            /\ card'[d].minor = card[d].minor
                            /\ card'[d].files = card[d].files
    <2>1. CASE Hold
      BY <1>1, <2>1 DEF Hold, TypeOK, CardType
    <2>2. CASE GiveUp
      BY <1>1, <2>2 DEF GiveUp, TypeOK, CardType
    <2> QED
      BY <2>1, <2>2
  <1>4. FileInv'
    <2>0. card \in [Cards -> CardType]
      BY DEF TypeOK
    <2>1. \A d \in Cards : card[d].refcount \in Int
      BY <2>0 DEF CardType
    <2>2. \A d \in Cards : d # c => Holds(d) = 0 /\ Holds(d)' = 0
      BY <1>2 DEF Holds
    <2>3. CASE Hold
      <3>1. card'[c].refcount = card[c].refcount + 1
        <4>1. card' = [card EXCEPT ![c] = [card[c] EXCEPT !.refcount = card[c].refcount + 1]]
          BY <2>3 DEF Hold
        <4>2. card[c] \in CardType
          BY <2>0
        <4> QED
          BY <2>0, <4>1, <4>2 DEF CardType
      <3>2. Holds(c) = 0 /\ Holds(c)' = 1
        BY <1>2, <2>3 DEF Hold, Holds
      <3>3. \A d \in Cards : card'[d].refcount = card[d].refcount - Holds(d) + Holds(d)'
        <4>1. card'[c].refcount = card[c].refcount - Holds(c) + Holds(c)'
          BY <2>1, <3>1, <3>2
        <4>2. ASSUME NEW d \in Cards, d # c
              PROVE  card'[d].refcount = card[d].refcount - Holds(d) + Holds(d)'
          <5>1. card'[d] = card[d] /\ card[d].refcount \in Int
            BY <1>3, <2>1, <4>2
          <5>2. Holds(d) = 0 /\ Holds(d)' = 0
            BY <2>2, <4>2
          <5> QED
            BY <5>1, <5>2
        <4> QED
          BY <4>1, <4>2
      <3>4. \A d \in Cards : /\ card'[d].files = card[d].files
                            /\ card'[d].refcount = card[d].refcount - Holds(d) + Holds(d)'
        BY <1>3, <3>3
      <3>5. file' = file
        BY <1>1
      <3> QED
        BY <3>4, <3>5, FilesKept, ZenonT(60)
    <2>4. CASE GiveUp
      <3>1. card'[c].refcount = card[c].refcount
        BY <2>0, <2>4 DEF GiveUp, CardType
      <3>2. Holds(c) = 1 /\ Holds(c)' = 1
        BY <1>2, <2>4 DEF GiveUp, Holds
      <3>3. \A d \in Cards : card'[d].refcount = card[d].refcount - Holds(d) + Holds(d)'
        <4>1. card'[c].refcount = card[c].refcount - Holds(c) + Holds(c)'
          BY <2>1, <3>1, <3>2
        <4>2. ASSUME NEW d \in Cards, d # c
              PROVE  card'[d].refcount = card[d].refcount - Holds(d) + Holds(d)'
          <5>1. card'[d] = card[d] /\ card[d].refcount \in Int
            BY <1>3, <2>1, <4>2
          <5>2. Holds(d) = 0 /\ Holds(d)' = 0
            BY <2>2, <4>2
          <5> QED
            BY <5>1, <5>2
        <4> QED
          BY <4>1, <4>2
      <3>4. \A d \in Cards : /\ card'[d].files = card[d].files
                            /\ card'[d].refcount = card[d].refcount - Holds(d) + Holds(d)'
        BY <1>3, <3>3
      <3>5. file' = file
        BY <1>1
      <3> QED
        BY <3>4, <3>5, FilesKept, ZenonT(60)
    <2> QED
      BY <2>3, <2>4
  <1>5. InterfacesAreCounted'
    BY <1>1, <1>2 DEF UsbInv, InterfacesAreCounted, BoundTo, Gone, Leaving
  <1>6. BoundIsInSlot' /\ LastLeaves'
    BY <1>1, <1>2 DEF UsbInv, BoundIsInSlot, LastLeaves, BoundTo, Leaving
  <1>7. UsbPlace'
    BY <1>1, <1>2, <1>3 DEF UsbPlace
  <1>8. MinorIsThere' /\ SlotIsThere' /\ GivenUpIsGone'
    <2>1. \A d \in Cards : usb_chip # d /\ usb_chip' # d
      BY <1>1, CardLifeAssumption
    <2>2. usb.at \notin {"bind", "error", "shutdown", "fops", "devices"}
      BY <1>2
    <2>3. \A d \in Cards : ~card[d].minor
      BY <2>1, <2>2 DEF UsbInv, MinorIsThere
    <2>4. \A d \in Cards : ~card'[d].minor
      BY <1>3, <2>3
    <2>5. MinorIsThere' /\ SlotIsThere'
      BY <2>1, <2>4 DEF MinorIsThere, SlotIsThere
    <2>6. ASSUME NEW d \in Cards, card'[d].free_on_last_close
          PROVE  card'[d].life # "unborn"
      <3>1. CASE d = c
        BY <1>1, <1>3, <3>1
      <3>2. CASE d # c
        BY <1>3, <2>6, <3>2 DEF UsbInv, GivenUpIsGone
      <3> QED
        BY <3>1, <3>2
    <2> QED
      BY <2>1, <2>4, <2>5, <2>6 DEF GivenUpIsGone
  <1>9. HeldIsAlive'
    BY <1>1, <1>3 DEF HeldIsAlive
  <1> QED
    BY <1>4, <1>5, <1>6, <1>7, <1>8, <1>9 DEF UsbInv

LEMMA UnholdKeeps ==
  ASSUME Inv, Unhold, TypeOK'
  PROVE  Inv'
  <1> USE DEF Inv
  <1> PICK c \in Cards, i \in Interfaces : usb.card = c /\ usb.intf = i
    BY DEF Unhold, UsbInv, UsbPlace
  <1>1. /\ usb.at = "unhold" /\ usb_chip = None /\ ~card[c].minor /\ card[c].free_on_last_close
        /\ card[c].life = "there"
        /\ UNCHANGED <<chip, usb_chip, file>>
    BY DEF Unhold, UsbInv, UsbPlace
  <1>2. /\ usb'.at = "idle" /\ bound'[i] = None
        /\ \A j \in Interfaces : j # i => bound'[j] = bound[j]
    BY DEF Unhold, Unbind, Idle, TypeOK
  <1>3. /\ card'[c].life = (IF card[c].refcount = 1 THEN "freed" ELSE "there")
        /\ card'[c].refcount = card[c].refcount - 1
        /\ \A d \in Cards : d # c => card'[d] = card[d]
        /\ \A d \in Cards : /\ card'[d].minor = card[d].minor
                            /\ card'[d].free_on_last_close = card[d].free_on_last_close
                            /\ card'[d].files = card[d].files
    BY <1>1 DEF Unhold, TypeOK, CardType
  <1>4. \A d \in Cards : BoundTo(d)' = BoundTo(d) \ {i}
    BY <1>2, CardLifeAssumption DEF BoundTo
  <1>5. \A d \in Cards : BoundTo(d)' = {}
    <2>1. \A d \in Cards : BoundTo(d) # {} => d = c
      BY <1>1, CardLifeAssumption DEF UsbInv, BoundIsInSlot
    <2>2. BoundTo(c) \subseteq {i}
      BY <1>1 DEF UsbInv, LastLeaves, Leaving
    <2> QED
      BY <1>4, <2>1, <2>2
  <1>6. FileInv'
    <2>1. \A d \in Cards : Holds(d)' = 0 /\ Holds(d) = IF d = c THEN 1 ELSE 0
      BY <1>1, <1>2 DEF Holds
    <2>2. \A d \in Cards : card[d].refcount \in Int
      BY DEF TypeOK, CardType
    <2>3. card'[c].refcount = card[c].refcount - Holds(c) + Holds(c)'
      BY <1>3, <2>1, <2>2
    <2>4. \A d \in Cards : d # c => card'[d].refcount = card[d].refcount - Holds(d) + Holds(d)'
      BY <1>3, <2>1, <2>2
    <2> QED
      BY <1>1, <1>3, <2>3, <2>4, FilesKept
  <1>7. card[c].refcount = 1 => \A f \in Files : file[f].card # c /\ file[f].ref # c
    <2> SUFFICES ASSUME card[c].refcount = 1
                 PROVE  \A f \in Files : file[f].card # c /\ file[f].ref # c
      OBVIOUS
    <2>1. Holds(c) = 1
      BY <1>1 DEF Holds
    <2>2. 1 = Cardinality(card[c].files) + Cardinality(Uses(c)) + 1
      BY <2>1 DEF FileInv, RefsAreCounted
    <2>3. card[c].files = {} /\ Uses(c) = {}
      BY <2>2, Finite, FS_EmptySet
    <2> QED
      BY <2>3, NobodyUses
  <1>8. HeldIsAlive'
    <2> SUFFICES ASSUME NEW d \in Cards, card'[d].life = "freed"
                 PROVE  /\ \A f \in Files : file[f].card # d /\ file[f].ref # d
                        /\ \A j \in Interfaces : bound'[j] # d
                        /\ usb_chip # d /\ ~card'[d].minor
      BY <1>1 DEF HeldIsAlive
    <2>1. \A j \in Interfaces : bound'[j] # d
      BY <1>5 DEF BoundTo
    <2>2. CASE d = c
      BY <1>1, <1>3, <1>7, <2>1, <2>2, CardLifeAssumption
    <2>3. CASE d # c
      BY <1>3, <2>1, <2>3 DEF HeldIsAlive
    <2> QED
      BY <2>2, <2>3
  <1>9. InterfacesAreCounted'
    <2> SUFFICES ASSUME NEW d \in Cards
                 PROVE  chip'[d].num_interfaces = Cardinality(BoundTo(d)' \ Gone(d)')
      BY DEF InterfacesAreCounted
    <2>1. BoundTo(d)' \ Gone(d)' = {}
      BY <1>5
    <2>2. BoundTo(d) \ Gone(d) = {}
      <3>1. d # c => BoundTo(d) = {}
        BY <1>1, CardLifeAssumption DEF UsbInv, BoundIsInSlot
      <3>2. BoundTo(c) \ Gone(c) = {}
        BY <1>1 DEF UsbInv, LastLeaves, Gone, Leaving
      <3> QED
        BY <3>1, <3>2
    <2> QED
      BY <1>1, <2>1, <2>2 DEF UsbInv, InterfacesAreCounted
  <1>10. BoundIsInSlot' /\ LastLeaves' /\ UsbPlace'
    BY <1>2, <1>5 DEF BoundIsInSlot, LastLeaves, UsbPlace, Leaving
  <1>11. MinorIsThere' /\ SlotIsThere' /\ GivenUpIsGone'
    BY <1>1, <1>2, <1>3, CardLifeAssumption DEF UsbInv, MinorIsThere, SlotIsThere, GivenUpIsGone
  <1> QED
    BY <1>6, <1>8, <1>9, <1>10, <1>11 DEF UsbInv

(***************************************************************************)
(* Nobody is left with a freed card.                                       *)
(***************************************************************************)
LEMMA InvInit == Init => Inv
  <1> SUFFICES ASSUME Init PROVE Inv
    OBVIOUS
  <1> USE DEF Init
  <1>1. /\ \A f \in Files : file[f] = Closed
        /\ \A c \in Cards : card[c] = Unborn /\ chip[c] = NoChip /\ None # c
        /\ \A i \in Interfaces : bound[i] = None
    BY CardLifeAssumption
  <1>2. \A c \in Cards : Uses(c) = {} /\ BoundTo(c) = {} /\ Gone(c) = {} /\ Holds(c) = 0
    BY <1>1, CardLifeAssumption DEF Uses, BoundTo, Gone, Holds, Leaving, Closed, Idle
  <1>3. Cardinality({}) = 0
    BY FS_EmptySet
  <1>4. FileInv
    <2>1. FilePlaces /\ ListsAreRight
      BY <1>1 DEF FilePlaces, ListsAreRight, Listed, Closed, Unborn
    <2>2. RefsAreCounted
      BY <1>1, <1>2, <1>3 DEF RefsAreCounted, Unborn
    <2> QED
      BY <2>1, <2>2 DEF FileInv
  <1>5. UsbInv
    <2>1. InterfacesAreCounted
      BY <1>1, <1>2, <1>3 DEF InterfacesAreCounted, NoChip
    <2>2. BoundIsInSlot /\ LastLeaves /\ UsbPlace
      BY <1>2 DEF BoundIsInSlot, LastLeaves, UsbPlace, Leaving, Idle
    <2>3. MinorIsThere /\ SlotIsThere /\ GivenUpIsGone
      BY <1>1 DEF MinorIsThere, SlotIsThere, GivenUpIsGone, Unborn
    <2> QED
      BY <2>1, <2>2, <2>3 DEF UsbInv
  <1>6. HeldIsAlive
    BY <1>1 DEF HeldIsAlive, Unborn
  <1> QED
    BY <1>4, <1>5, <1>6, TypeInit DEF Inv

LEMMA InvStep ==
  ASSUME ~Replug, Inv, [Next]_vars
  PROVE  Inv'
  <1>1. TypeOK'
    BY TypeStep DEF Inv
  <1>2. ASSUME NEW f \in Files, OfFile(f) PROVE Inv'
    BY <1>1, <1>2, LookupKeeps, FileAddKeeps, QuietKeeps, RemovedKeeps, LinkKeeps, UnrefKeeps
       DEF OfFile, InCall
  <1>3. ASSUME NEW i \in Interfaces, Probe(i) \/ Disconnect(i) PROVE Inv'
    BY <1>1, <1>3, ProbeKeeps, DisconnectKeeps
  <1>4. CASE InProbe
    BY <1>1, <1>4, ProbingKeeps, BindKeeps DEF InProbe
  <1>5. CASE InDisconnect
    BY <1>1, <1>5, LeaveKeeps, ShutdownKeeps, DevicesKeeps, WaitKeeps, HoldKeeps, UnholdKeeps
       DEF InDisconnect
  <1>6. CASE UNCHANGED vars
    <2>1. FileInv'
      <3>1. \A c \in Cards : card'[c].refcount = card[c].refcount - Holds(c) + Holds(c)'
        <4>1. card' = card /\ \A c \in Cards : card[c].refcount \in Int
          BY <1>6 DEF vars, Inv, TypeOK, CardType
        <4>2. \A c \in Cards : Holds(c) \in {0, 1} /\ Holds(c)' = Holds(c)
          BY <1>6 DEF vars, Holds
        <4> QED
          BY <4>1, <4>2
      <3> QED
        BY <1>6, <3>1, FilesKept DEF vars, Inv
    <2>2. UsbInv'
      BY <1>6, UsbKept DEF vars, Inv
    <2>3. HeldIsAlive'
      BY <1>6 DEF vars, Inv, HeldIsAlive
    <2> QED
      BY <1>1, <2>1, <2>2, <2>3 DEF Inv
  <1> QED
    BY <1>2, <1>3, <1>4, <1>5, <1>6 DEF Next

\* For any number of files, interfaces and cards: when an unref looks at once at
\* free_on_last_close and only files of the card that is there are linked, no open file, no
\* call under way, no interface and not the slot of the device is left with a card that
\* snd_card_do_free has freed.
THEOREM NobodyIsLeft ==
  ASSUME ~Replug
  PROVE  Spec => []HeldIsAlive
  <1>1. Inv /\ [Next]_vars => Inv'
    BY InvStep
  <1>2. Inv => HeldIsAlive
    BY DEF Inv
  <1> QED
    BY <1>1, <1>2, InvInit, PTL DEF Spec

(***************************************************************************)
(* The power of the interface, if no interface is probed while messages    *)
(* are under way: probing then does not change between the two ends of a   *)
(* message, each of which looks at it.                                     *)
(***************************************************************************)
Powered(c) == {f \in Files : file[f].got /\ file[f].card = c}

\* Who is in a message holds a reference, and its card is not being probed.
MessageHolds ==
    \A f \in Files :
        /\ file[f].at # "closed" => file[f].card \in Cards
        /\ file[f].got <=> file[f].at = "message"
        /\ file[f].at = "message" => ~chip[file[f].card].probing

PmInv == MessageHolds /\ PmBalanced

LEMMA PoweredFinite ==
  ASSUME NEW c
  PROVE  IsFiniteSet(Powered(c)) /\ Cardinality(Powered(c)) \in Nat
  <1>1. Powered(c) \subseteq Files
    BY DEF Powered
  <1> QED
    BY <1>1, CardLifeAssumption, FS_Subset, FS_CardinalityType

\* A step of a file that begins and ends no message.
LEMMA SilentKeepsPm ==
  ASSUME TypeOK, PmInv, NEW f \in Files, chip' = chip,
         \A g \in Files : g # f => file'[g] = file[g],
         ~file[f].got, ~file'[f].got, file'[f].at # "message",
         file'[f].at # "closed" => file'[f].card \in Cards
  PROVE  PmInv'
  <1>1. MessageHolds'
    BY DEF PmInv, MessageHolds
  <1>2. \A c \in Cards : Powered(c)' = Powered(c)
    BY DEF Powered
  <1>3. PmBalanced'
    BY <1>2 DEF PmInv, PmBalanced, Powered
  <1> QED
    BY <1>1, <1>3 DEF PmInv

\* A step of the USB core that neither probes nor resumes.
LEMMA CoreKeepsPm ==
  ASSUME PmInv, file' = file,
         \A c \in Cards : /\ chip'[c].pm = chip[c].pm
                          /\ ~chip'[c].shutdown => ~chip[c].shutdown
                          /\ (chip'[c].probing => chip[c].probing)
                                \/ \A f \in Files : file[f].at # "message"
  PROVE  PmInv'
  <1>1. MessageHolds'
    BY DEF PmInv, MessageHolds
  <1>2. PmBalanced'
    BY DEF PmInv, PmBalanced
  <1> QED
    BY <1>1, <1>2 DEF PmInv

LEMMA PmAfterResume ==
  ASSUME TypeOK, PmInv, ~Overlap, NEW f \in Files, Autoresume(f)
  PROVE  PmInv'
  <1> DEFINE c == file[f].card
  <1>1. c \in Cards /\ ~file[f].got /\ ~chip[c].probing /\ ~chip[c].shutdown
    BY DEF Autoresume, PmInv, MessageHolds, TypeOK, FileType
  <1>2. /\ file'[f].at = "message" /\ file'[f].card = c /\ file'[f].got
        /\ \A g \in Files : g # f => file'[g] = file[g]
    BY <1>1 DEF Autoresume, TypeOK, FileType
  <1>3. /\ chip'[c].pm = chip[c].pm + 1
        /\ \A d \in Cards : d # c => chip'[d] = chip[d]
        /\ \A d \in Cards : chip'[d].probing = chip[d].probing /\ chip'[d].shutdown = chip[d].shutdown
    BY <1>1 DEF Autoresume, TypeOK, ChipType
  <1>4. MessageHolds'
    BY <1>1, <1>2, <1>3 DEF PmInv, MessageHolds
  <1>5. ASSUME NEW d \in Cards, ~chip'[d].shutdown
        PROVE  chip'[d].pm = Cardinality(Powered(d)')
    <2>1. chip[d].pm = Cardinality(Powered(d))
      BY <1>3, <1>5 DEF PmInv, PmBalanced, Powered
    <2>2. CASE d = c
      <3>1. Powered(d)' = Powered(d) \cup {f} /\ f \notin Powered(d)
        BY <1>1, <1>2, <2>2 DEF Powered
      <3>2. Cardinality(Powered(d)') = Cardinality(Powered(d)) + 1
        BY <3>1, PoweredFinite, FS_AddElement
      <3> QED
        BY <1>3, <2>1, <2>2, <3>2
    <2>3. CASE d # c
      <3>1. Powered(d)' = Powered(d)
        BY <1>1, <1>2, <2>3 DEF Powered
      <3> QED
        BY <1>3, <2>1, <2>3, <3>1
    <2> QED
      BY <2>2, <2>3
  <1>6. PmBalanced'
    BY <1>5 DEF PmBalanced, Powered
  <1> QED
    BY <1>4, <1>6 DEF PmInv

LEMMA PmAfterSuspend ==
  ASSUME TypeOK, PmInv, NEW f \in Files, Autosuspend(f)
  PROVE  PmInv'
  <1> DEFINE c == file[f].card
  <1>1. c \in Cards /\ file[f].got /\ ~chip[c].probing
    BY DEF Autosuspend, PmInv, MessageHolds
  <1>2. /\ file'[f].at = "open" /\ file'[f].card = c /\ ~file'[f].got
        /\ \A g \in Files : g # f => file'[g] = file[g]
    BY <1>1 DEF Autosuspend, TypeOK, FileType
  <1>3. /\ ~chip[c].shutdown => chip'[c].pm = chip[c].pm - 1
        /\ \A d \in Cards : d # c => chip'[d] = chip[d]
        /\ \A d \in Cards : chip'[d].probing = chip[d].probing /\ chip'[d].shutdown = chip[d].shutdown
    BY <1>1 DEF Autosuspend, TypeOK, ChipType
  <1>4. MessageHolds'
    BY <1>1, <1>2, <1>3 DEF PmInv, MessageHolds
  <1>5. ASSUME NEW d \in Cards, ~chip'[d].shutdown
        PROVE  chip'[d].pm = Cardinality(Powered(d)')
    <2>1. chip[d].pm = Cardinality(Powered(d)) /\ ~chip[d].shutdown
      BY <1>3, <1>5 DEF PmInv, PmBalanced, Powered
    <2>2. CASE d = c
      <3>1. Powered(d)' = Powered(d) \ {f} /\ f \in Powered(d)
        BY <1>1, <1>2, <2>2 DEF Powered
      <3>2. Cardinality(Powered(d)') = Cardinality(Powered(d)) - 1
        BY <3>1, PoweredFinite, FS_RemoveElement
      <3> QED
        BY <1>3, <2>1, <2>2, <3>2
    <2>3. CASE d # c
      <3>1. Powered(d)' = Powered(d)
        BY <1>1, <1>2, <2>3 DEF Powered
      <3> QED
        BY <1>3, <2>1, <2>3, <3>1
    <2> QED
      BY <2>2, <2>3
  <1>6. PmBalanced'
    BY <1>5 DEF PmBalanced, Powered
  <1> QED
    BY <1>4, <1>6 DEF PmInv

LEMMA PmAfterFileStep ==
  ASSUME TypeOK, PmInv, ~Overlap, NEW f \in Files, OfFile(f)
  PROVE  PmInv'
  <1>1. CASE Autoresume(f)
    BY <1>1, PmAfterResume
  <1>2. CASE Autosuspend(f)
    BY <1>2, PmAfterSuspend
  <1>3. CASE ~Autoresume(f) /\ ~Autosuspend(f)
    <2>t. /\ file \in [Files -> FileType] /\ file[f] \in FileType
          /\ file[f].at # "closed" => file[f].card \in Cards
          /\ file[f].at # "message" => ~file[f].got
      BY DEF TypeOK, PmInv, MessageHolds
    <2> DEFINE Silent == /\ chip' = chip /\ file[f].at # "message"
                         /\ \A g \in Files : g # f => file'[g] = file[g]
                         /\ file'[f].got = file[f].got \/ ~file'[f].got
                         /\ file'[f].at # "message"
                         /\ file'[f].at # "closed" => file'[f].card \in Cards
    <2>s. ASSUME Silent PROVE PmInv'
      <3>1. ~file[f].got
        BY <2>s, <2>t
      <3>2. ~file'[f].got
        BY <2>s, <3>1
      <3> QED
        BY <2>s, <3>1, <3>2, SilentKeepsPm
    <2>1. CASE Lookup(f)
      <3>1. Silent
        BY <2>t, <2>1 DEF Lookup, FileType
      <3> QED
        BY <2>s, <3>1
    <2>2. CASE FileAdd(f) \/ FileRefused(f)
      <3>1. Silent
        BY <2>t, <2>2 DEF FileAdd, FileRefused, FileType
      <3> QED
        BY <2>s, <3>1
    <2>3. CASE OpenFails(f) \/ Close(f)
      <3>1. ASSUME OpenFails(f) PROVE Silent
        BY <2>t, <3>1 DEF OpenFails, FileType
      <3>2. ASSUME Close(f) PROVE Silent
        BY <2>t, <3>2 DEF Close, FileType
      <3> QED
        BY <2>s, <2>3, <3>1, <3>2
    <2>4. CASE Enter(f) \/ Return(f)
      <3>1. Silent
        BY <2>t, <2>4 DEF Enter, Return, FileType
      <3> QED
        BY <2>s, <3>1
    <2>5. CASE \E g \in Files : Link(f, g)
      <3>1. Silent
        BY <2>t, <2>5 DEF Link, FileType
      <3> QED
        BY <2>s, <3>1
    <2>6. CASE Unref(f)
      <3>1. chip' = chip /\ file[f].at # "message" /\ file[f].at # "closed"
        BY <2>6 DEF Unref
      <3>2. CASE file[f].at \in {"added", "linking"}
        <4>1. file' = [file EXCEPT ![f] =
                     [file[f] EXCEPT !.at = "open", !.ref = None, !.peer = None]]
          BY <2>6, <3>2 DEF Unref
        <4>2. Silent
          BY <2>t, <3>1, <4>1 DEF FileType
        <4> QED
          BY <2>s, <4>2
      <3>3. CASE file[f].at = "closing"
        <4>1. file' = [file EXCEPT ![f] = Closed]
          BY <2>6, <3>3 DEF Unref
        <4>2. Closed.at = "closed" /\ ~Closed.got
          BY DEF Closed
        <4> HIDE DEF Closed
        <4>3. Silent
          BY <2>t, <3>1, <4>1, <4>2
        <4> QED
          BY <2>s, <4>3
      <3> QED
        BY <2>6, <3>2, <3>3 DEF Unref
    <2> QED
      BY <1>3, <2>1, <2>2, <2>3, <2>4, <2>5, <2>6 DEF OfFile, InCall
  <1> QED
    BY <1>1, <1>2, <1>3

LEMMA PmAfterUsbStep ==
  ASSUME TypeOK, PmInv, ~Overlap,
         (\E i \in Interfaces : Probe(i) \/ Disconnect(i)) \/ InProbe \/ InDisconnect
  PROVE  PmInv'
  <1>1. chip \in [Cards -> ChipType]
    BY DEF TypeOK
  <1>2. ASSUME NEW i \in Interfaces, Probe(i) PROVE PmInv'
    BY <1>1, <1>2, CoreKeepsPm DEF Probe, ChipType
  <1>3. ASSUME NEW i \in Interfaces, Disconnect(i) PROVE PmInv'
    BY <1>1, <1>3, CoreKeepsPm DEF Disconnect, ChipType
  <1>4. CASE Bind
    BY <1>1, <1>4, CoreKeepsPm DEF Bind, ChipType
  <1>5. CASE Clear
    BY <1>1, <1>5, CoreKeepsPm DEF Clear, ChipType
  <1>6. CASE Leave
    BY <1>1, <1>6, CoreKeepsPm DEF Leave, ChipType
  <1>7. ASSUME chip' = chip, file' = file PROVE PmInv'
    BY <1>7, CoreKeepsPm
  <1>8. CASE Create \/ Register \/ ProbeFails
    BY <1>7, <1>8 DEF Create, Register, ProbeFails
  <1>9. CASE Shutdown \/ ReplaceFops \/ Devices \/ WaitAndFree \/ Hold \/ GiveUp \/ Unhold
    BY <1>7, <1>9 DEF Shutdown, ReplaceFops, Devices, WaitAndFree, Hold, GiveUp, Unhold
  <1> QED
    BY <1>2, <1>3, <1>4, <1>5, <1>6, <1>8, <1>9 DEF InProbe, InDisconnect

\* As long as no interface is probed while a message is under way, the references on the
\* power of the interface are those of the messages, also when others are disconnected,
\* cards follow each other and probes fail.
THEOREM PowerIsBalanced == ASSUME ~Overlap PROVE Spec => []PmBalanced
  <1>1. Init => PmInv
    <2> SUFFICES ASSUME Init PROVE PmInv
      OBVIOUS
    <2>1. MessageHolds
      BY DEF Init, MessageHolds, Closed
    <2>2. \A c \in Cards : {f \in Files : file[f].got /\ file[f].card = c} = {} /\ chip[c].pm = 0
      BY DEF Init, Closed, NoChip
    <2>3. PmBalanced
      BY <2>2, FS_EmptySet DEF PmBalanced
    <2> QED
      BY <2>1, <2>3 DEF PmInv
  <1>2. TypeOK /\ PmInv /\ [Next]_vars => PmInv'
    <2> SUFFICES ASSUME TypeOK, PmInv, [Next]_vars PROVE PmInv'
      OBVIOUS
    <2>1. CASE UNCHANGED vars
      BY <2>1, CoreKeepsPm DEF vars
    <2> QED
      BY <2>1, PmAfterFileStep, PmAfterUsbStep DEF Next
  <1>3. PmInv => PmBalanced
    BY DEF PmInv
  <1> QED
    BY <1>1, <1>2, <1>3, TypeCorrect, PTL DEF Spec

=============================================================================
