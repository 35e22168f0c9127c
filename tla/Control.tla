------------------------------- MODULE Control -------------------------------
(***************************************************************************)
(* The control core, src/sound/core/control.c: the elements of a card and  *)
(* the files through which applications write, lock, add and remove them   *)
(* and hear of what the others do.  Elements are guarded by controls_rwsem,*)
(* the list of files by ctl_files_rwlock, and the queue of events of each  *)
(* file by its read_lock; none is held from a change to its announcement.  *)
(***************************************************************************)
EXTENDS Integers, Sequences, FiniteSets

CONSTANTS
    Threads,     \* application threads
    Files,       \* open files of the control device
    Subscribers, \* those of them whose application may subscribe
    Fixed,       \* the elements of the driver
    Users,       \* names for user-defined elements
    MaxUsers,    \* MAX_USER_CONTROLS
    MaxNumid,    \* bound: how many numbers are given to elements
    MaxFailures, \* bound: how often an allocation or a copy of an event fails
    None

ASSUME ControlAssumption ==
    /\ Subscribers \subseteq Files /\ MaxUsers \in Nat /\ MaxNumid \in Nat
    /\ MaxFailures \in Nat
    /\ IsFiniteSet(Fixed) /\ Cardinality(Fixed) <= MaxNumid /\ Fixed \cap Users = {}
    /\ None \notin Files \cup Threads

Names == Fixed \cup Users

VARIABLES
    files,       \* card->ctl_files
    subscribed,  \* of each file
    events,      \* of each file, the changes that it has not read yet
    elem,        \* number, lock owner and maker of each element, number 0 if absent
    last_numid,  \* the last number given to an element
    user_count,  \* card->user_ctl_count
    sem,         \* controls_rwsem
    card,        \* "up", "shutdown" once unplugged, "gone" when all are woken
    pc,          \* where each thread is, and in which call
    tell,        \* the announcement it makes
    hand,        \* the event it is copying to its application
    failures     \* how many events have been lost so far, a history

vars == <<files, subscribed, events, elem, last_numid, user_count, sem, card, pc, tell, hand, failures>>

ListOf(s) == {s[i] : i \in 1..Len(s)}

Absent == [numid |-> 0, owner |-> None, user |-> FALSE]
Present(n) == elem[n].numid # 0

-----------------------------------------------------------------------------
(* Locks and calls *)

CanRead == sem.writer = None
CanWrite == sem.writer = None /\ sem.readers = {}

\* ctl_files_rwlock is held for reading by those who announce.
NobodyTells == \A t \in Threads : pc[t].at = "tell" => tell[t].at = 0

\* After snd_card_disconnect has replaced the file operations no call begins.
Call(t, f) == pc[t].at = "idle" /\ card = "up" /\ f \in ListOf(files)

Rest == [at |-> "idle", file |-> None, name |-> None]

Begins(t, place, f, n) == pc' = [pc EXCEPT ![t] = [at |-> place, file |-> f, name |-> n]]

Goes(t, place) ==
    pc' = [pc EXCEPT ![t] = IF place = "idle" THEN Rest ELSE [@ EXCEPT !.at = place]]

NoEvent == [numid |-> 0, mask |-> {}]
Silent == [at |-> 0, mask |-> "VALUE", numid |-> 0, next |-> "idle"]

\* The call goes on at place once everyone has been told.
Tells(t, mask, numid, place) ==
    tell' = [tell EXCEPT ![t] = [at |-> 0, mask |-> mask, numid |-> numid, next |-> place]]

-----------------------------------------------------------------------------
(* Files *)

Open(t, f) ==
    /\ pc[t].at = "idle" /\ card = "up" /\ NobodyTells
    /\ f \notin ListOf(files)
    /\ \A u \in Threads : pc[u].at # "idle" => pc[u].file # f
    /\ files' = Append(files, f)
    /\ UNCHANGED <<subscribed, events, elem, last_numid, user_count, sem, card, pc, tell, hand, failures>>

\* list_del
Delisted(f) ==
    \E i \in 1..Len(files) :
        files[i] = f /\ files' = SubSeq(files, 1, i - 1) \o SubSeq(files, i + 1, Len(files))

\* snd_ctl_release, when no call is using the file any more ...
Release(t, f) ==
    /\ pc[t].at = "idle" /\ f \in ListOf(files) /\ NobodyTells
    /\ \A u \in Threads : pc[u].at # "idle" => pc[u].file # f
    /\ Delisted(f)
    /\ Begins(t, "release", f, None)
    /\ UNCHANGED <<subscribed, events, elem, last_numid, user_count, sem, card, tell, hand, failures>>

\* A faulty variant: the file is freed, and its elements are still its own.
ReleaseKeepsLocks(t) ==
    /\ pc[t].at = "release"
    /\ subscribed' = [subscribed EXCEPT ![pc[t].file] = FALSE]
    /\ events' = [events EXCEPT ![pc[t].file] = <<>>]
    /\ Goes(t, "idle")
    /\ UNCHANGED <<files, elem, last_numid, user_count, sem, card, tell, hand, failures>>

\* ... which gives up the elements it has locked and is freed with its queue.
ReleaseLocks(t) ==
    /\ pc[t].at = "release"
    /\ CanWrite
    /\ elem' = [n \in Names |-> IF elem[n].owner = pc[t].file
                                THEN [elem[n] EXCEPT !.owner = None] ELSE elem[n]]
    /\ subscribed' = [subscribed EXCEPT ![pc[t].file] = FALSE]
    /\ events' = [events EXCEPT ![pc[t].file] = <<>>]
    /\ Goes(t, "idle")
    /\ UNCHANGED <<files, last_numid, user_count, sem, card, tell, hand, failures>>

Subscribe(t, f) ==
    /\ Call(t, f) /\ f \in Subscribers
    /\ subscribed' = [subscribed EXCEPT ![f] = TRUE]
    /\ UNCHANGED <<files, events, elem, last_numid, user_count, sem, card, pc, tell, hand, failures>>

\* The queue is emptied, and only then is the subscription taken back.
Unsubscribe(t, f) ==
    /\ Call(t, f) /\ subscribed[f]
    /\ events' = [events EXCEPT ![f] = <<>>]
    /\ Begins(t, "unsubscribe", f, None)
    /\ UNCHANGED <<files, subscribed, elem, last_numid, user_count, sem, card, tell, hand, failures>>

Unsubscribed(t) ==
    /\ pc[t].at = "unsubscribe"
    /\ subscribed' = [subscribed EXCEPT ![pc[t].file] = FALSE]
    /\ Goes(t, "idle")
    /\ UNCHANGED <<files, events, elem, last_numid, user_count, sem, card, tell, hand, failures>>

-----------------------------------------------------------------------------
(* Announcing: snd_ctl_notify *)

TellBegin(t) ==
    /\ pc[t].at = "tell" /\ tell[t].at = 0
    /\ tell' = [tell EXCEPT ![t].at = 1]
    /\ UNCHANGED <<files, subscribed, events, elem, last_numid, user_count, sem, card, pc, hand, failures>>

\* The threads that sleep on change_sleep of one of the files wake up.
Woken(fs, p) ==
    [t \in Threads |-> IF p[t].at = "asleep" /\ p[t].file \in fs
                      THEN [p[t] EXCEPT !.at = "woken"] ELSE p[t]]

\* A faulty variant: the last change of an element takes the place of the others.
MergedOver(queue, e) ==
    IF \E i \in 1..Len(queue) : queue[i].numid = e.numid
    THEN [i \in 1..Len(queue) |-> IF queue[i].numid = e.numid THEN e ELSE queue[i]]
    ELSE Append(queue, e)

\* An event for a number that is waiting already is merged with it.
Merged(queue, e) ==
    IF \E i \in 1..Len(queue) : queue[i].numid = e.numid
    THEN [i \in 1..Len(queue) |-> IF queue[i].numid = e.numid
                                  THEN [queue[i] EXCEPT !.mask = @ \cup e.mask] ELSE queue[i]]
    ELSE Append(queue, e)

\* A faulty variant: only an event for which others wait already wakes the readers.
TellQuietly(t) ==
    /\ pc[t].at = "tell" /\ tell[t].at \in 1..Len(files)
    /\ LET f == files[tell[t].at]
           e == [numid |-> tell[t].numid, mask |-> {tell[t].mask}] IN
       IF subscribed[f]
       THEN /\ events' = [events EXCEPT ![f] = Merged(@, e)]
            /\ pc' = IF events[f] # <<>> THEN Woken({f}, pc) ELSE pc
       ELSE UNCHANGED <<events, pc>>
    /\ tell' = [tell EXCEPT ![t].at = @ + 1]
    /\ UNCHANGED <<files, subscribed, elem, last_numid, user_count, sem, card, hand, failures>>

TellOne(t) ==
    /\ pc[t].at = "tell" /\ tell[t].at \in 1..Len(files)
    /\ LET f == files[tell[t].at]
           e == [numid |-> tell[t].numid, mask |-> {tell[t].mask}] IN
       IF subscribed[f]
       THEN /\ events' = [events EXCEPT ![f] = Merged(@, e)]
            /\ pc' = Woken({f}, pc)
       ELSE UNCHANGED <<events, pc>>
    /\ tell' = [tell EXCEPT ![t].at = @ + 1]
    /\ UNCHANGED <<files, subscribed, elem, last_numid, user_count, sem, card, hand, failures>>

\* kzalloc(GFP_ATOMIC) finds no memory for an event of a number that is not waiting:
\* this file never hears of the change.  Its readers are woken all the same.
TellNoMemory(t) ==
    /\ pc[t].at = "tell" /\ tell[t].at \in 1..Len(files)
    /\ failures < MaxFailures            \* the bound
    /\ failures' = failures + 1
    /\ LET f == files[tell[t].at] IN
       /\ subscribed[f]
       /\ \A i \in 1..Len(events[f]) : events[f][i].numid # tell[t].numid
       /\ pc' = Woken({f}, pc)
    /\ tell' = [tell EXCEPT ![t].at = @ + 1]
    /\ UNCHANGED <<files, subscribed, events, elem, last_numid, user_count, sem, card, hand>>

TellEnd(t) ==
    /\ pc[t].at = "tell" /\ tell[t].at > Len(files)
    /\ Goes(t, tell[t].next)
    /\ tell' = [tell EXCEPT ![t] = Silent]
    /\ UNCHANGED <<files, subscribed, events, elem, last_numid, user_count, sem, card, hand, failures>>

Tell(t) == TellBegin(t) \/ TellOne(t) \/ TellNoMemory(t) \/ TellEnd(t)

-----------------------------------------------------------------------------
(* Writing and locking an element *)

MayWrite(f, n) == Present(n) /\ elem[n].owner \in {None, f}

\* snd_ctl_elem_write up to the put callback ...
Write(t, f, n) ==
    /\ Call(t, f) /\ CanRead /\ MayWrite(f, n)
    /\ sem' = [sem EXCEPT !.readers = @ \cup {t}]
    /\ Begins(t, "put", f, n)
    /\ UNCHANGED <<files, subscribed, events, elem, last_numid, user_count, card, tell, hand, failures>>

\* ... which says whether the value has changed.  The semaphore is given back first.
Put(t, changed) ==
    /\ pc[t].at = "put"
    /\ sem' = [sem EXCEPT !.readers = @ \ {t}]
    /\ IF changed THEN Goes(t, "tell") /\ Tells(t, "VALUE", elem[pc[t].name].numid, "idle")
                  ELSE Goes(t, "idle") /\ UNCHANGED tell
    /\ UNCHANGED <<files, subscribed, events, elem, last_numid, user_count, card, hand, failures>>

\* A faulty variant: the owner is set without waiting for those who write.
LockAtOnce(t, f, n) ==
    /\ Call(t, f)
    /\ Present(n) /\ elem[n].owner = None
    /\ elem' = [elem EXCEPT ![n].owner = f]
    /\ UNCHANGED <<files, subscribed, events, last_numid, user_count, sem, card, pc, tell, hand, failures>>

Lock(t, f, n) ==
    /\ Call(t, f) /\ CanWrite
    /\ Present(n) /\ elem[n].owner = None
    /\ elem' = [elem EXCEPT ![n].owner = f]
    /\ UNCHANGED <<files, subscribed, events, last_numid, user_count, sem, card, pc, tell, hand, failures>>

Unlock(t, f, n) ==
    /\ Call(t, f) /\ CanWrite
    /\ Present(n) /\ elem[n].owner = f
    /\ elem' = [elem EXCEPT ![n].owner = None]
    /\ UNCHANGED <<files, subscribed, events, last_numid, user_count, sem, card, pc, tell, hand, failures>>

-----------------------------------------------------------------------------
(* User-defined elements *)

\* snd_ctl_remove: the semaphore stays taken while everyone is told.
Removes(t, f, n, place) ==
    /\ elem' = [elem EXCEPT ![n] = Absent]
    /\ sem' = [sem EXCEPT !.writer = t]
    /\ Begins(t, "tell", f, n) /\ Tells(t, "REMOVE", elem[n].numid, place)

\* snd_ctl_remove_user_ctl
Remove(t, f, n) ==
    /\ Call(t, f) /\ CanWrite
    /\ elem[n].user /\ MayWrite(f, n)
    /\ Removes(t, f, n, "removed")
    /\ UNCHANGED <<files, subscribed, events, last_numid, user_count, card, hand, failures>>

Removed(t) ==
    /\ pc[t].at = "removed"
    /\ user_count' = user_count - 1
    /\ sem' = [sem EXCEPT !.writer = None]
    /\ Goes(t, "idle")
    /\ UNCHANGED <<files, subscribed, events, elem, last_numid, card, tell, hand, failures>>

\* snd_ctl_elem_add looks at the count without a lock.
AddCheck(t, f, n) ==
    /\ Call(t, f)
    /\ user_count < MaxUsers
    /\ Begins(t, "find", f, n)
    /\ UNCHANGED <<files, subscribed, events, elem, last_numid, user_count, sem, card, tell, hand, failures>>

Find(t) ==
    /\ pc[t].at = "find" /\ CanWrite
    /\ Goes(t, IF Present(pc[t].name) THEN "idle" ELSE "add")
    /\ UNCHANGED <<files, subscribed, events, elem, last_numid, user_count, sem, card, tell, hand, failures>>

\* To replace an element the old one is removed, whoever has locked it, and
\* whoever has made it.
Replace(t, f, n) ==
    /\ Call(t, f) /\ CanWrite
    /\ Present(n)
    /\ Removes(t, f, n, "replaced")
    /\ UNCHANGED <<files, subscribed, events, last_numid, user_count, card, hand, failures>>

\* Only now does the code look whether the description of the new one is valid.
Replaced(t, valid) ==
    /\ pc[t].at = "replaced"
    /\ sem' = [sem EXCEPT !.writer = None]
    /\ Goes(t, IF valid THEN "add" ELSE "idle")
    /\ UNCHANGED <<files, subscribed, events, elem, last_numid, user_count, card, tell, hand, failures>>

\* snd_ctl_add, for an element that its maker has locked.  The id of the
\* announcement is copied before the element gets its number.
Add(t) ==
    /\ pc[t].at = "add" /\ CanWrite
    /\ LET n == pc[t].name IN
       IF Present(n)
       THEN Goes(t, "idle") /\ UNCHANGED <<elem, last_numid, tell>>
       ELSE /\ last_numid < MaxNumid     \* the bound
            /\ elem' = [elem EXCEPT ![n] =
                          [numid |-> last_numid + 1, owner |-> pc[t].file, user |-> TRUE]]
            /\ last_numid' = last_numid + 1
            /\ Goes(t, "tell") /\ Tells(t, "ADD", 0, "count")
    /\ UNCHANGED <<files, subscribed, events, user_count, sem, card, hand, failures>>

Count(t) ==
    /\ pc[t].at = "count" /\ CanWrite
    /\ user_count' = user_count + 1
    /\ Goes(t, "idle")
    /\ UNCHANGED <<files, subscribed, events, elem, last_numid, sem, card, tell, hand, failures>>

-----------------------------------------------------------------------------
(* Reading events: snd_ctl_read *)

Read(t, f) ==
    /\ Call(t, f) /\ subscribed[f]
    /\ Begins(t, "read", f, None)
    /\ UNCHANGED <<files, subscribed, events, elem, last_numid, user_count, sem, card, tell, hand, failures>>

\* An event is taken out of the queue, and copied without the lock.
Take(t) ==
    /\ pc[t].at \in {"read", "got"}
    /\ LET f == pc[t].file IN
       /\ events[f] # <<>>
       /\ events' = [events EXCEPT ![f] = Tail(@)]
       /\ hand' = [hand EXCEPT ![t] = Head(events[f])]
    /\ Goes(t, "copy")
    /\ UNCHANGED <<files, subscribed, elem, last_numid, user_count, sem, card, tell, failures>>

\* More are taken as long as there are any and they fit.
Copied(t, more) ==
    /\ pc[t].at = "copy"
    /\ hand' = [hand EXCEPT ![t] = NoEvent]
    /\ Goes(t, IF more THEN "got" ELSE "idle")
    /\ UNCHANGED <<files, subscribed, events, elem, last_numid, user_count, sem, card, tell, failures>>

\* -EFAULT: the event has left the queue already, and no read returns it.
CopyFails(t) ==
    /\ pc[t].at = "copy"
    /\ failures < MaxFailures            \* the bound
    /\ failures' = failures + 1
    /\ hand' = [hand EXCEPT ![t] = NoEvent]
    /\ Goes(t, "idle")
    /\ UNCHANGED <<files, subscribed, events, elem, last_numid, user_count, sem, card, tell>>

\* With nothing to read the reader sleeps, unless it has something to return.
Empty(t) ==
    /\ pc[t].at \in {"read", "got"} /\ events[pc[t].file] = <<>>
    /\ Goes(t, IF pc[t].at = "read" THEN "asleep" ELSE "idle")
    /\ UNCHANGED <<files, subscribed, events, elem, last_numid, user_count, sem, card, tell, hand, failures>>

\* The card is looked at after the sleep only.
WakeUp(t) ==
    /\ pc[t].at = "woken"
    /\ Goes(t, IF card = "up" THEN "read" ELSE "idle")
    /\ UNCHANGED <<files, subscribed, events, elem, last_numid, user_count, sem, card, tell, hand, failures>>

\* A signal, or O_NONBLOCK.
Signal(t) ==
    /\ pc[t].at = "asleep"
    /\ Goes(t, "idle")
    /\ UNCHANGED <<files, subscribed, events, elem, last_numid, user_count, sem, card, tell, hand, failures>>

Reading(t) == Take(t) \/ Empty(t) \/ WakeUp(t) \/ CopyFails(t) \/ \E more \in BOOLEAN : Copied(t, more)

-----------------------------------------------------------------------------
(* Unplugging *)

\* snd_card_disconnect sets card->shutdown and replaces the file operations ...
Shutdown ==
    /\ card = "up" /\ card' = "shutdown"
    /\ UNCHANGED <<files, subscribed, events, elem, last_numid, user_count, sem, pc, tell, hand, failures>>

\* ... and snd_ctl_dev_disconnect wakes the readers.
Disconnect ==
    /\ card = "shutdown" /\ card' = "gone"
    /\ pc' = Woken(ListOf(files), pc)
    /\ UNCHANGED <<files, subscribed, events, elem, last_numid, user_count, sem, tell, hand, failures>>

-----------------------------------------------------------------------------
Init ==
    /\ files = <<>>
    /\ subscribed = [f \in Files |-> FALSE]
    /\ events = [f \in Files |-> <<>>]
    /\ last_numid = Cardinality(Fixed)
    /\ \E number \in [Fixed -> 1..Cardinality(Fixed)] :
          /\ \A m, n \in Fixed : number[m] = number[n] => m = n
          /\ elem = [n \in Names |-> IF n \in Fixed
                                 THEN [numid |-> number[n], owner |-> None, user |-> FALSE]
                                 ELSE Absent]
    /\ user_count = 0
    /\ sem = [writer |-> None, readers |-> {}]
    /\ card = "up"
    /\ pc = [t \in Threads |-> Rest]
    /\ tell = [t \in Threads |-> Silent]
    /\ hand = [t \in Threads |-> NoEvent]
    /\ failures = 0

FileCall(t, f) ==
    \/ Open(t, f) \/ Release(t, f) \/ Subscribe(t, f) \/ Unsubscribe(t, f) \/ Read(t, f)

ElementCall(t, f, n) ==
    \/ Write(t, f, n) \/ Lock(t, f, n) \/ Unlock(t, f, n)
    \/ Remove(t, f, n) \/ AddCheck(t, f, n) \/ Replace(t, f, n)

Step(t) ==
    \/ ReleaseLocks(t) \/ Unsubscribed(t)
    \/ \E changed \in BOOLEAN : Put(t, changed)
    \/ \E valid \in BOOLEAN : Replaced(t, valid)
    \/ Removed(t) \/ Find(t) \/ Add(t) \/ Count(t)

Next ==
    \/ \E t \in Threads :
          \/ Step(t) \/ Tell(t) \/ Reading(t) \/ Signal(t)
          \/ \E f \in Files : FileCall(t, f) \/ \E n \in Names : ElementCall(t, f, n)
    \/ Shutdown \/ Disconnect

Spec == Init /\ [][Next]_vars

-----------------------------------------------------------------------------
(* Properties *)

Masks == {"VALUE", "ADD", "REMOVE"}

\* Every variable keeps its type, and no element has a number past the last one given.
TypeOK ==
    /\ files \in Seq(Files) /\ subscribed \in [Files -> BOOLEAN]
    /\ events \in [Files -> Seq([numid : 0..MaxNumid, mask : SUBSET Masks])]
    /\ elem \in [Names -> [numid : 0..MaxNumid, owner : Files \cup {None}, user : BOOLEAN]]
    /\ last_numid \in 0..MaxNumid /\ \A n \in Names : elem[n].numid <= last_numid
    /\ failures \in 0..MaxFailures
    /\ sem.writer \in Threads \cup {None} /\ sem.readers \subseteq Threads
    /\ \A t \in Threads : pc[t].file \in Files \cup {None} /\ tell[t].at \in 0..(Len(files) + 1)

\* The element that snd_ctl_elem_write is about to change is still there, and nobody
\* has locked it since the owner was looked at.
WriterMayWrite == \A t \in Threads : pc[t].at = "put" => MayWrite(pc[t].file, pc[t].name)

\* The owner of a locked element is a file that is open: snd_ctl_release leaves none
\* behind, not even one of an element that was made while it ran.
OwnerIsOpen ==
    \A n \in Names : elem[n].owner # None =>
        \/ elem[n].owner \in ListOf(files)
        \/ \E t \in Threads : pc[t].at = "release" /\ pc[t].file = elem[n].owner

\* No reader sleeps with an event in the queue of its file: the check and the sleep
\* of snd_ctl_read and the merge and the wake-up of snd_ctl_notify exclude each other.
NoReaderOversleeps == \A t \in Threads : pc[t].at = "asleep" => events[pc[t].file] = <<>>

\* The facts that wait in the queue of a file, and those that a thread that is
\* announcing has still to bring it.
FactsOf(es) ==
    {x \in (1..MaxNumid) \X {"VALUE", "REMOVE"} : \E e \in es : e.numid = x[1] /\ x[2] \in e.mask}

OnTheWay(f) ==
    {<<tell[t].numid, tell[t].mask>> : t \in
        {u \in Threads : pc[u].at = "tell" /\ tell[u].mask # "ADD"
                         /\ \E i \in 1..Len(files) : i >= tell[u].at /\ files[i] = f}}

Listening ==
    {f \in ListOf(files) : subscribed[f]
        /\ \A t \in Threads : ~(pc[t].at = "unsubscribe" /\ pc[t].file = f)}

\* What ControlNews calls owed is on its way or waits in the queue; what a reader
\* has taken out of the queue is in its hand.
Owed == [f \in Files |-> IF f \in Listening THEN FactsOf(ListOf(events[f])) \cup OnTheWay(f) ELSE {}]
InHand == [t \in Threads |-> FactsOf({hand[t]})]

News == INSTANCE ControlNews WITH
    Readers <- Threads, Elements <- 1..MaxNumid, Kinds <- {"VALUE", "REMOVE"},
    listening <- Listening, owed <- Owed, hand <- InHand

\* Whatever is merged, whoever subscribes, closes or reads meanwhile: every change and
\* every removal is owed to every file that is subscribed when it comes about, until
\* a read of snd_ctl_read returns it.  The one exception is what the code itself drops:
\* one change for one file when snd_ctl_notify finds no memory for the event
\* (control.c:167-174), and one event when snd_ctl_read cannot copy it to its
\* application (control.c:1453-1458); each is counted in failures.
EveryoneIsTold == News!Spec

\* "numeric identifier, zero = invalid", says asound.h of the number in an event.
EventsHaveNumbers ==
    \A f \in Files : \A i \in 1..Len(events[f]) : events[f][i].numid # 0

\* "max number of user-defined controls", says the comment of MAX_USER_CONTROLS.
UsersAreFew == Cardinality({n \in Names : elem[n].user}) <= MaxUsers

\* user_ctl_count counts the user-defined elements when no call is under way.
UsersAreCounted ==
    (\A t \in Threads : pc[t].at = "idle") => user_count = Cardinality({n \in Names : elem[n].user})

\* The disconnect leaves no reader asleep.
NobodyWaitsForAGhost == card = "gone" => \A t \in Threads : pc[t].at # "asleep"

=============================================================================
