--------------------------- MODULE Control_proofs ---------------------------
(***************************************************************************)
(* Proofs about module Control, for any number of threads, files and       *)
(* elements: a write still may change the element that it has looked up,   *)
(* the owner of a locked element is open, and no reader sleeps over an     *)
(* event.                                                                  *)
(***************************************************************************)
EXTENDS Control, FiniteSetTheorems, SequenceTheorems, TLAPS

(***************************************************************************)
(* The invariant.                                                          *)
(***************************************************************************)
Numbers == 0..MaxNumid
Events == [numid : Numbers, mask : SUBSET Masks]

Calls ==
    {"idle", "release", "unsubscribe", "tell", "put", "removed", "find", "replaced", "add",
     "count", "read", "got", "copy", "asleep", "woken"}

Afterwards == {"idle", "removed", "replaced", "count"}

PcType == [Threads -> [at : Calls, file : Files \cup {None}, name : Names \cup {None}]]
ElemType == [Names -> [numid : Numbers, owner : Files \cup {None}, user : BOOLEAN]]
TellType == [Threads -> [at : Nat, mask : Masks, numid : Numbers, next : Afterwards]]

TypeInv ==
    /\ files \in Seq(Files)
    /\ subscribed \in [Files -> BOOLEAN]
    /\ events \in [Files -> Seq(Events)]
    /\ elem \in ElemType
    /\ last_numid \in Numbers
    /\ sem \in [writer : Threads \cup {None}, readers : SUBSET Threads]
    /\ pc \in PcType
    /\ tell \in TellType
    /\ hand \in [Threads -> Events]

\* A call is made through a file that stays open meanwhile, and knows its element.
CallsAreOpen ==
    \A t \in Threads :
        /\ pc[t].at # "idle" => pc[t].file \in Files
        /\ pc[t].at \notin {"idle", "release"} => pc[t].file \in ListOf(files)
        /\ pc[t].at \in {"put", "tell", "find", "replaced", "add"} => pc[t].name \in Names

\* Whoever changes the value of an element holds the semaphore for reading.
WritersHoldSem == \A t \in Threads : pc[t].at = "put" => t \in sem.readers

\* The announcement of a thread is at one of the files, or before or behind all of them.
TellersInList ==
    \A t \in Threads :
        /\ tell[t].at <= Len(files) + 1
        /\ pc[t].at # "tell" => tell[t].at = 0

\* The numbers of the elements have been given, and the failures counted.
Bounded == (\A n \in Names : elem[n].numid <= last_numid) /\ failures \in 0..MaxFailures

Inv == TypeInv /\ CallsAreOpen /\ WritersHoldSem /\ TellersInList
         /\ WriterMayWrite /\ OwnerIsOpen /\ NoReaderOversleeps

(***************************************************************************)
(* Lemmas about the operators.                                             *)
(***************************************************************************)
LEMMA NumberFacts == 0 \in Numbers /\ Numbers \subseteq Nat
  BY ControlAssumption DEF Numbers

\* list_del takes one file out of the list of files.
LEMMA OneLess ==
    ASSUME NEW f, files \in Seq(Files), Delisted(f)
    PROVE  /\ files' \in Seq(Files)
           /\ \A g \in ListOf(files) : g # f => g \in ListOf(files)'
           /\ \A g \in ListOf(files)' : g \in ListOf(files)
           /\ Len(files') = Len(files) - 1
           /\ \E i \in 1..Len(files) :
                /\ files[i] = f
                /\ \A j \in 1..Len(files) - 1 : files'[j] = IF j < i THEN files[j] ELSE files[j + 1]
  <1>1. PICK i \in 1..Len(files) :
           files[i] = f /\ files' = SubSeq(files, 1, i - 1) \o SubSeq(files, i + 1, Len(files))
    BY DEF Delisted
  <1> DEFINE before == SubSeq(files, 1, i - 1)
             behind == SubSeq(files, i + 1, Len(files))
  <1>0. Len(files) \in Nat /\ i \in Int /\ \A j \in 1..Len(files) : files[j] \in Files
    BY LenProperties
  <1>2. /\ before \in Seq(Files) /\ Len(before) = i - 1
        /\ \A j \in 1..i - 1 : before[j] = files[j]
    <2>1. \A j \in 1..i - 1 : files[j] \in Files
      BY <1>0
    <2> QED
      BY <1>0, <2>1, SubSeqProperties
  <1>4. /\ behind \in Seq(Files) /\ Len(behind) = Len(files) - i
        /\ \A j \in 1..Len(files) - i : behind[j] = files[i + j]
    <2>1. \A j \in i + 1..Len(files) : files[j] \in Files
      BY <1>0
    <2>2. /\ behind \in Seq(Files)
          /\ Len(behind) = IF i + 1 <= Len(files) THEN Len(files) - (i + 1) + 1 ELSE 0
          /\ \A j \in 1..Len(files) - (i + 1) + 1 : behind[j] = files[(i + 1) + j - 1]
      BY <1>0, <2>1, SubSeqProperties
    <2> QED
      BY <1>0, <2>2
  <1>3. /\ files' \in Seq(Files) /\ Len(files') = Len(files) - 1
        /\ \A j \in 1..Len(files) - 1 : files'[j] = IF j < i THEN files[j] ELSE files[j + 1]
    <2>1. files' = before \o behind
      BY <1>1
    <2> HIDE DEF before, behind
    <2>2. /\ before \o behind \in Seq(Files)
          /\ Len(before \o behind) = Len(before) + Len(behind)
          /\ \A j \in 1..Len(before) + Len(behind) : (before \o behind)[j] =
                 IF j <= Len(before) THEN before[j] ELSE behind[j - Len(before)]
      BY <1>2, <1>4, ConcatProperties
    <2>3. files' \in Seq(Files) /\ Len(files') = Len(files) - 1
      BY <2>1, <2>2, <1>0, <1>2, <1>4
    <2>4. ASSUME NEW j \in 1..Len(files) - 1
          PROVE  files'[j] = IF j < i THEN files[j] ELSE files[j + 1]
      <3>1. files'[j] = IF j <= i - 1 THEN before[j] ELSE behind[j - (i - 1)]
        BY <2>1, <2>2, <1>0, <1>2, <1>4
      <3>2. CASE j < i
        <4>1. j \in 1..i - 1 /\ j <= i - 1
          BY <1>0, <3>2
        <4> QED
          BY <1>2, <3>1, <3>2, <4>1
      <3>3. CASE j >= i
        <4>1. j - (i - 1) \in 1..Len(files) - i /\ i + (j - (i - 1)) = j + 1 /\ ~(j <= i - 1)
          BY <1>0, <3>3
        <4>2. behind[j - (i - 1)] = files[i + (j - (i - 1))]
          BY <1>4, <4>1
        <4> QED
          BY <1>0, <3>1, <3>3, <4>1, <4>2
      <3> QED
        BY <1>0, <3>2, <3>3
    <2> QED
      BY <2>3, <2>4
  <1>5. ASSUME NEW g \in ListOf(files), g # f
        PROVE  g \in ListOf(files)'
    <2>1. PICK j \in 1..Len(files) : files[j] = g
      BY DEF ListOf
    <2>2. CASE j < i
      <3>1. j \in 1..Len(files') /\ files'[j] = g
        BY <1>0, <1>3, <2>1, <2>2
      <3> QED
        BY <3>1 DEF ListOf
    <2>3. CASE j > i
      <3>1. j - 1 \in 1..Len(files') /\ files'[j - 1] = g
        BY <1>0, <1>3, <2>1, <2>3
      <3> QED
        BY <3>1 DEF ListOf
    <2> QED
      BY <1>0, <1>5, <2>1, <2>2, <2>3, <1>1
  <1>6. ASSUME NEW g \in ListOf(files)'
        PROVE  g \in ListOf(files)
    <2>1. PICK j \in 1..Len(files') : files'[j] = g
      BY DEF ListOf
    <2>2. (g = files[j] /\ j \in 1..Len(files)) \/ (g = files[j + 1] /\ j + 1 \in 1..Len(files))
      BY <1>0, <1>3, <2>1
    <2> QED
      BY <2>2 DEF ListOf
  <1> QED
    BY <1>1, <1>3, <1>5, <1>6

\* An event is added to a queue of events, or merged with one of them.
LEMMA MergedType ==
    ASSUME NEW queue \in Seq(Events), NEW e \in Events
    PROVE  Merged(queue, e) \in Seq(Events)
  <1>1. CASE \E i \in 1..Len(queue) : queue[i].numid = e.numid
    <2> DEFINE new == [i \in 1..Len(queue) |->
                         IF queue[i].numid = e.numid
                         THEN [queue[i] EXCEPT !.mask = @ \cup e.mask] ELSE queue[i]]
    <2>0. Len(queue) \in Nat /\ \A i \in 1..Len(queue) : queue[i] \in Events
      BY LenProperties
    <2>1. \A i \in 1..Len(queue) : new[i] \in Events
      BY <2>0 DEF Events
    <2>2. new \in [1..Len(queue) -> Events]
      BY <2>1
    <2>3. new \in Seq(Events)
      BY <2>0, <2>2, SeqDef
    <2> QED
      BY <1>1, <2>3 DEF Merged
  <1>2. CASE ~\E i \in 1..Len(queue) : queue[i].numid = e.numid
    BY <1>2 DEF Merged
  <1> QED
    BY <1>1, <1>2

\* A thread goes on in its call, or ends it, while the others stay where they are.
Arrives(t, place) ==
    /\ pc' \in PcType
    /\ pc'[t].at = place
    /\ place # "idle" => pc'[t].file = pc[t].file /\ pc'[t].name = pc[t].name
    /\ \A u \in Threads : u # t => pc'[u] = pc[u]

LEMMA GoesOn ==
    ASSUME TypeInv, NEW t \in Threads, NEW place \in Calls, Goes(t, place)
    PROVE  Arrives(t, place)
  <1>1. CASE place = "idle"
    <2>1. pc' = [pc EXCEPT ![t] = Rest] /\ Rest \in [at : Calls, file : Files \cup {None}, name : Names \cup {None}]
      BY <1>1 DEF Goes, Rest, Calls
    <2> QED
      BY <1>1, <2>1 DEF TypeInv, PcType, Arrives, Rest
  <1>2. CASE place # "idle"
    <2>1. pc' = [pc EXCEPT ![t].at = place]
      BY <1>2 DEF Goes
    <2> QED
      BY <1>2, <2>1 DEF TypeInv, PcType, Arrives
  <1> QED
    BY <1>1, <1>2

\* Those who sleep on one of the files are woken, and nobody else is moved.
LEMMA WokenFacts ==
    ASSUME TypeInv, NEW fs, NEW new, new = Woken(fs, pc)
    PROVE  /\ new \in PcType
           /\ \A t \in Threads :
                /\ new[t].file = pc[t].file /\ new[t].name = pc[t].name
                /\ new[t].at = pc[t].at \/ (pc[t].at = "asleep" /\ new[t].at = "woken")
                /\ new[t].at = "asleep" => pc[t].at = "asleep" /\ pc[t].file \notin fs
  <1>1. \A t \in Threads : new[t] = IF pc[t].at = "asleep" /\ pc[t].file \in fs
                                    THEN [pc[t] EXCEPT !.at = "woken"] ELSE pc[t]
    BY DEF Woken
  <1>2. new = [t \in Threads |-> new[t]]
    BY DEF Woken
  <1>3. \A t \in Threads :
           pc[t] \in [at : Calls, file : Files \cup {None}, name : Names \cup {None}]
    BY DEF TypeInv, PcType
  <1>4. ASSUME NEW t \in Threads
        PROVE  /\ new[t] \in [at : Calls, file : Files \cup {None}, name : Names \cup {None}]
               /\ new[t].file = pc[t].file /\ new[t].name = pc[t].name
               /\ new[t].at = pc[t].at \/ (pc[t].at = "asleep" /\ new[t].at = "woken")
               /\ new[t].at = "asleep" => pc[t].at = "asleep" /\ pc[t].file \notin fs
    <2>1. CASE pc[t].at = "asleep" /\ pc[t].file \in fs
      <3>1. new[t] = [pc[t] EXCEPT !.at = "woken"] /\ "woken" \in Calls
        BY <1>1, <2>1 DEF Calls
      <3> QED
        BY <3>1, <1>3, <2>1
    <2>2. CASE ~(pc[t].at = "asleep" /\ pc[t].file \in fs)
      BY <1>1, <1>3, <2>2
    <2> QED
      BY <2>1, <2>2
  <1> QED
    BY <1>2, <1>4 DEF PcType

\* Setting an owner, or making or removing an element, keeps the type.
LEMMA OwnerType ==
    ASSUME TypeInv, NEW n \in Names, NEW f \in Files \cup {None}
    PROVE  /\ [elem EXCEPT ![n].owner = f] \in ElemType
           /\ \A m \in Names : m # n => [elem EXCEPT ![n].owner = f][m] = elem[m]
           /\ [elem EXCEPT ![n].owner = f][n].owner = f
  <1>1. elem[n] \in [numid : Numbers, owner : Files \cup {None}, user : BOOLEAN] /\ elem \in ElemType
    BY DEF TypeInv, ElemType
  <1>2. [elem[n] EXCEPT !.owner = f] \in [numid : Numbers, owner : Files \cup {None}, user : BOOLEAN]
    BY <1>1
  <1> QED
    BY <1>1, <1>2 DEF ElemType

LEMMA TellsType ==
    ASSUME TypeInv, NEW t \in Threads, NEW m \in Masks, NEW k \in Numbers, NEW place \in Afterwards,
           Tells(t, m, k, place)
    PROVE  tell' \in TellType
  BY DEF TypeInv, TellType, Tells

\* A file that is opened is added to those there are.
LEMMA OneMore ==
    ASSUME NEW f \in Files, files \in Seq(Files), files' = Append(files, f)
    PROVE  /\ files' \in Seq(Files) /\ Len(files') = Len(files) + 1
           /\ \A g \in ListOf(files) : g \in ListOf(files)'
  <1>1. /\ files' \in Seq(Files) /\ Len(files') = Len(files) + 1
        /\ \A i \in 1..Len(files) : files'[i] = files[i]
    BY AppendProperties
  <1> QED
    BY <1>1, LenProperties DEF ListOf

(***************************************************************************)
(* One lemma for each action.                                              *)
(***************************************************************************)
LEMMA StepOpen ==
    ASSUME Inv, NEW t \in Threads, NEW f \in Files, Open(t, f)
    PROVE  Inv'
  <1>1. files' \in Seq(Files) /\ \A g \in ListOf(files) : g \in ListOf(files)'
        /\ Len(files') = Len(files) + 1 /\ Len(files) \in Nat
    BY OneMore, LenProperties DEF Inv, TypeInv, Open
  <1>2. TypeInv'
    BY <1>1 DEF Inv, TypeInv, PcType, ElemType, TellType, CallsAreOpen, Open, Call, Calls, Afterwards, Masks, Events
  <1>3. CallsAreOpen' /\ WritersHoldSem'
    BY <1>1 DEF Inv, TypeInv, PcType, TellType, Afterwards, CallsAreOpen, WritersHoldSem, Open, Call
  <1>4. WriterMayWrite'
    BY <1>1 DEF Inv, TypeInv, PcType, ElemType, TellType, Afterwards, CallsAreOpen, WritersHoldSem, WriterMayWrite, MayWrite, Present, Open, Call
  <1>5. TellersInList'
    BY <1>1 DEF Inv, TypeInv, PcType, TellType, TellersInList, Open, Call
  <1>6. OwnerIsOpen'
    BY <1>1 DEF Inv, TypeInv, PcType, ElemType, CallsAreOpen, OwnerIsOpen, Open, Call
  <1>7. NoReaderOversleeps'
    BY <1>1 DEF Inv, TypeInv, PcType, TellType, Afterwards, CallsAreOpen, NoReaderOversleeps, Open, Call
  <1> QED
    BY <1>2, <1>3, <1>4, <1>5, <1>6, <1>7 DEF Inv

LEMMA StepRelease ==
    ASSUME Inv, NEW t \in Threads, NEW f \in Files, Release(t, f)
    PROVE  Inv'
  <1>1. /\ files' \in Seq(Files)
        /\ \A g \in ListOf(files) : g # f => g \in ListOf(files)'
        /\ Len(files') = Len(files) - 1 /\ Len(files) \in Nat
    BY OneLess, LenProperties DEF Inv, TypeInv, Release
  <1>2. TypeInv'
    BY <1>1 DEF Inv, TypeInv, PcType, ElemType, TellType, CallsAreOpen, Release, Begins, Calls, Afterwards, Masks, Events
  <1>3. CallsAreOpen' /\ WritersHoldSem'
    BY <1>1 DEF Inv, TypeInv, PcType, TellType, Afterwards, CallsAreOpen, WritersHoldSem, Release, Begins
  <1>4. WriterMayWrite'
    BY <1>1 DEF Inv, TypeInv, PcType, ElemType, TellType, Afterwards, CallsAreOpen, WritersHoldSem, WriterMayWrite, MayWrite, Present, Release, Begins
  <1>5. TellersInList'
    BY <1>1 DEF Inv, TypeInv, TellType, TellersInList, Release, Begins, NobodyTells
  <1>6. OwnerIsOpen'
    BY <1>1 DEF Inv, TypeInv, PcType, ElemType, CallsAreOpen, OwnerIsOpen, Release, Begins
  <1>7. NoReaderOversleeps'
    BY <1>1 DEF Inv, TypeInv, PcType, TellType, Afterwards, CallsAreOpen, NoReaderOversleeps, Release, Begins
  <1> QED
    BY <1>2, <1>3, <1>4, <1>5, <1>6, <1>7 DEF Inv

LEMMA StepReleaseLocks ==
    ASSUME Inv, NEW t \in Threads, ReleaseLocks(t)
    PROVE  Inv'
  <1>1. Arrives(t, "idle")
    BY GoesOn DEF Inv, TypeInv, TellType, ReleaseLocks, Calls, Afterwards
  <1>2. elem' \in ElemType /\ \A n \in Names : elem'[n].owner \in {None, elem[n].owner} \ {pc[t].file}
                   \/ elem'[n].owner = None
    BY DEF Inv, TypeInv, ElemType, ReleaseLocks
  <1>3. events' \in [Files -> Seq(Events)]
    BY EmptySeq DEF Inv, TypeInv, ReleaseLocks
  <1>4. TypeInv'
    BY <1>1, <1>2, <1>3 DEF Inv, TypeInv, PcType, ElemType, TellType, CallsAreOpen, ReleaseLocks, CanWrite, Arrives, Calls, Afterwards, Masks, Events
  <1>5. CallsAreOpen' /\ WritersHoldSem'
    BY <1>1, <1>2, <1>3 DEF Inv, TypeInv, PcType, TellType, Afterwards, CallsAreOpen, WritersHoldSem, ReleaseLocks, CanWrite, Arrives
  <1>6. WriterMayWrite'
    BY <1>1, <1>2, <1>3 DEF Inv, TypeInv, PcType, ElemType, TellType, Afterwards, CallsAreOpen, WritersHoldSem, WriterMayWrite, MayWrite, Present, ReleaseLocks, CanWrite, Arrives
  <1>7. TellersInList'
    BY <1>1, <1>2, <1>3 DEF Inv, TypeInv, PcType, TellType, TellersInList, ReleaseLocks, CanWrite, Arrives
  <1>8. OwnerIsOpen'
    BY <1>1, <1>2, <1>3 DEF Inv, OwnerIsOpen, ReleaseLocks, CanWrite, Arrives
  <1>9. NoReaderOversleeps'
    BY <1>1, <1>2, <1>3, ZenonT(60) DEF Inv, TypeInv, PcType, TellType, Afterwards, CallsAreOpen, NoReaderOversleeps, ReleaseLocks, CanWrite, Arrives
  <1> QED
    BY <1>4, <1>5, <1>6, <1>7, <1>8, <1>9 DEF Inv

LEMMA StepSubscribe ==
    ASSUME Inv, NEW t \in Threads, NEW f \in Files, Subscribe(t, f)
    PROVE  Inv'
  <1>1. TypeInv'
    BY DEF Inv, TypeInv, PcType, ElemType, TellType, CallsAreOpen, Subscribe, Call, Calls, Afterwards, Masks, Events
  <1>2. CallsAreOpen' /\ WritersHoldSem'
    BY DEF Inv, TypeInv, PcType, TellType, Afterwards, CallsAreOpen, WritersHoldSem, Subscribe, Call
  <1>3. WriterMayWrite'
    BY DEF Inv, TypeInv, PcType, ElemType, TellType, Afterwards, CallsAreOpen, WritersHoldSem, WriterMayWrite, MayWrite, Present, Subscribe, Call
  <1>4. TellersInList'
    BY DEF Inv, TypeInv, PcType, TellType, TellersInList, Subscribe, Call
  <1>5. OwnerIsOpen'
    BY DEF Inv, TypeInv, PcType, ElemType, CallsAreOpen, OwnerIsOpen, Subscribe, Call
  <1>6. NoReaderOversleeps'
    BY DEF Inv, TypeInv, PcType, TellType, Afterwards, CallsAreOpen, NoReaderOversleeps, Subscribe, Call
  <1> QED
    BY <1>1, <1>2, <1>3, <1>4, <1>5, <1>6 DEF Inv

LEMMA StepUnsubscribe ==
    ASSUME Inv, NEW t \in Threads, NEW f \in Files, Unsubscribe(t, f)
    PROVE  Inv'
  <1>1. TypeInv'
    BY EmptySeq DEF Inv, TypeInv, PcType, ElemType, TellType, CallsAreOpen, Unsubscribe, Call, Begins, Calls, Afterwards, Masks, Events
  <1>2. CallsAreOpen' /\ WritersHoldSem'
    BY DEF Inv, TypeInv, PcType, TellType, Afterwards, CallsAreOpen, WritersHoldSem, Unsubscribe, Call, Begins
  <1>3. WriterMayWrite'
    BY DEF Inv, TypeInv, PcType, ElemType, TellType, Afterwards, CallsAreOpen, WritersHoldSem, WriterMayWrite, MayWrite, Present, Unsubscribe, Call, Begins
  <1>4. TellersInList'
    BY DEF Inv, TypeInv, PcType, TellType, TellersInList, Unsubscribe, Call, Begins
  <1>5. OwnerIsOpen'
    BY DEF Inv, TypeInv, PcType, ElemType, CallsAreOpen, OwnerIsOpen, Unsubscribe, Call, Begins
  <1>6. NoReaderOversleeps'
    BY DEF Inv, TypeInv, PcType, TellType, Afterwards, CallsAreOpen, NoReaderOversleeps, Unsubscribe, Call, Begins
  <1> QED
    BY <1>1, <1>2, <1>3, <1>4, <1>5, <1>6 DEF Inv

LEMMA StepUnsubscribed ==
    ASSUME Inv, NEW t \in Threads, Unsubscribed(t)
    PROVE  Inv'
  <1>1. Arrives(t, "idle")
    BY GoesOn DEF Inv, TypeInv, TellType, Unsubscribed, Calls, Afterwards
  <1>2. TypeInv'
    BY <1>1 DEF Inv, TypeInv, PcType, ElemType, TellType, CallsAreOpen, Unsubscribed, Arrives, Calls, Afterwards, Masks, Events
  <1>3. CallsAreOpen' /\ WritersHoldSem'
    BY <1>1 DEF Inv, TypeInv, PcType, TellType, Afterwards, CallsAreOpen, WritersHoldSem, Unsubscribed, Arrives
  <1>4. WriterMayWrite'
    BY <1>1 DEF Inv, TypeInv, PcType, ElemType, TellType, Afterwards, CallsAreOpen, WritersHoldSem, WriterMayWrite, MayWrite, Present, Unsubscribed, Arrives
  <1>5. TellersInList'
    BY <1>1 DEF Inv, TypeInv, PcType, TellType, TellersInList, Unsubscribed, Arrives
  <1>6. OwnerIsOpen'
    BY <1>1 DEF Inv, OwnerIsOpen, Unsubscribed, Arrives
  <1>7. NoReaderOversleeps'
    BY <1>1 DEF Inv, TypeInv, PcType, TellType, Afterwards, CallsAreOpen, NoReaderOversleeps, Unsubscribed, Arrives
  <1> QED
    BY <1>2, <1>3, <1>4, <1>5, <1>6, <1>7 DEF Inv

LEMMA StepTellBegin ==
    ASSUME Inv, NEW t \in Threads, TellBegin(t)
    PROVE  Inv'
  <1>1. tell' \in TellType
    BY DEF Inv, TypeInv, TellType, TellBegin
  <1>2. TypeInv'
    BY <1>1 DEF Inv, TypeInv, PcType, ElemType, TellType, CallsAreOpen, TellBegin, Calls, Afterwards, Masks, Events
  <1>3. CallsAreOpen' /\ WritersHoldSem'
    BY <1>1 DEF Inv, TypeInv, PcType, TellType, Afterwards, CallsAreOpen, WritersHoldSem, TellBegin
  <1>4. WriterMayWrite'
    BY <1>1 DEF Inv, TypeInv, PcType, ElemType, TellType, Afterwards, CallsAreOpen, WritersHoldSem, WriterMayWrite, MayWrite, Present, TellBegin
  <1>5. TellersInList'
    BY <1>1 DEF Inv, TypeInv, PcType, TellType, TellersInList, TellBegin
  <1>6. OwnerIsOpen'
    BY <1>1 DEF Inv, TypeInv, PcType, ElemType, CallsAreOpen, OwnerIsOpen, TellBegin
  <1>7. NoReaderOversleeps'
    BY <1>1 DEF Inv, TypeInv, PcType, TellType, Afterwards, CallsAreOpen, NoReaderOversleeps, TellBegin
  <1> QED
    BY <1>2, <1>3, <1>4, <1>5, <1>6, <1>7 DEF Inv

LEMMA StepTellOne ==
    ASSUME Inv, NEW t \in Threads, TellOne(t)
    PROVE  Inv'
  <1> DEFINE f == files[tell[t].at]
             e == [numid |-> tell[t].numid, mask |-> {tell[t].mask}]
  <1>1. f \in Files /\ e \in Events
    BY DEF Inv, TypeInv, TellType, TellOne, Events, Masks
  <1>2. tell' \in TellType
    <2>1. tell' = [tell EXCEPT ![t].at = @ + 1] /\ tell \in TellType
      BY DEF Inv, TypeInv, TellOne
    <2> QED
      BY <2>1 DEF TellType
  <1>5. ASSUME \A u \in Threads : pc[u].at = "tell" <=> pc'[u].at = "tell"
        PROVE  TellersInList'
    <2>1. tell' = [tell EXCEPT ![t].at = @ + 1] /\ tell[t].at \in 1..Len(files) /\ files' = files
      BY DEF TellOne
    <2>2. Len(files) \in Nat
      BY LenProperties DEF Inv, TypeInv
    <2> QED
      BY <1>5, <2>1, <2>2 DEF Inv, TypeInv, TellType, TellersInList, TellOne
  <1>3. CASE subscribed[f]
    <2>1. events' = [events EXCEPT ![f] = Merged(@, e)] /\ pc' = Woken({f}, pc)
      BY <1>3 DEF TellOne
    <2>2. Merged(events[f], e) \in Seq(Events)
      BY <1>1, MergedType DEF Inv, TypeInv
    <2>3. /\ events' \in [Files -> Seq(Events)]
          /\ \A g \in Files : g # f => events'[g] = events[g]
      BY <1>1, <2>1, <2>2 DEF Inv, TypeInv
    <2>4. /\ pc' \in PcType
          /\ \A u \in Threads :
               /\ pc'[u].file = pc[u].file /\ pc'[u].name = pc[u].name
               /\ pc'[u].at = pc[u].at \/ (pc[u].at = "asleep" /\ pc'[u].at = "woken")
               /\ pc'[u].at = "asleep" => pc[u].at = "asleep" /\ pc[u].file \notin {f}
      BY <2>1, WokenFacts DEF Inv
    <2> HIDE DEF f, e
    <2>5. TypeInv'
      BY <1>2, <2>3, <2>4 DEF Inv, TypeInv, TellOne
    <2>6. CallsAreOpen' /\ WritersHoldSem'
      BY <2>4 DEF Inv, CallsAreOpen, WritersHoldSem, TellOne
    <2>7. WriterMayWrite' /\ OwnerIsOpen'
      BY <2>4 DEF Inv, WriterMayWrite, MayWrite, Present, OwnerIsOpen, TellOne
    <2>8. NoReaderOversleeps'
      BY <2>3, <2>4 DEF Inv, CallsAreOpen, NoReaderOversleeps
    <2>9. TellersInList'
      BY <1>5, <2>4 DEF TellOne
    <2> QED
      BY <2>5, <2>6, <2>7, <2>8, <2>9 DEF Inv
  <1>4. CASE ~subscribed[f]
    <2>1. UNCHANGED <<events, pc>>
      BY <1>4 DEF TellOne
    <2> HIDE DEF f, e
    <2>2. TypeInv'
      BY <1>2, <2>1 DEF Inv, TypeInv, TellOne
    <2>3. CallsAreOpen' /\ WritersHoldSem' /\ WriterMayWrite' /\ OwnerIsOpen' /\ NoReaderOversleeps'
      BY <2>1 DEF Inv, CallsAreOpen, WritersHoldSem, WriterMayWrite, MayWrite, Present,
                  OwnerIsOpen, NoReaderOversleeps, TellOne
    <2>4. TellersInList'
      BY <1>5, <2>1 DEF TellOne
    <2> QED
      BY <2>2, <2>3, <2>4 DEF Inv
  <1> QED
    BY <1>3, <1>4

LEMMA StepTellNoMemory ==
    ASSUME Inv, NEW t \in Threads, TellNoMemory(t)
    PROVE  Inv'
  <1>1. /\ tell[t].at \in 1..Len(files)
        /\ tell' = [tell EXCEPT ![t].at = @ + 1] /\ tell \in TellType
    BY DEF TellNoMemory, Inv, TypeInv
  <1>2. /\ pc' \in PcType
        /\ \A u \in Threads :
             /\ pc'[u].file = pc[u].file /\ pc'[u].name = pc[u].name
             /\ pc'[u].at = pc[u].at \/ (pc[u].at = "asleep" /\ pc'[u].at = "woken")
    BY WokenFacts DEF Inv, TellNoMemory
  <1>3. Len(files) \in Nat /\ pc[t].at = "tell"
    BY LenProperties DEF Inv, TypeInv, TellNoMemory
  <1>4. UNCHANGED <<files, subscribed, events, elem, last_numid, sem, hand>>
    BY DEF TellNoMemory
  <1>5. tell' \in TellType
    BY <1>1 DEF TellType
  <1>6. TypeInv'
    BY <1>2, <1>4, <1>5 DEF Inv, TypeInv
  <1>7. CallsAreOpen' /\ WritersHoldSem'
    BY <1>2, <1>4 DEF Inv, CallsAreOpen, WritersHoldSem
  <1>8. WriterMayWrite' /\ OwnerIsOpen' /\ NoReaderOversleeps'
    BY <1>2, <1>4 DEF Inv, WriterMayWrite, MayWrite, Present, OwnerIsOpen, NoReaderOversleeps
  <1>9. TellersInList'
    <2>1. \A u \in Threads : tell'[u].at = IF u = t THEN tell[u].at + 1 ELSE tell[u].at
      BY <1>1 DEF TellType
    <2> QED
      <3>1. \A u \in Threads :
               tell[u].at <= Len(files) + 1 /\ tell[u].at \in Nat /\ (pc[u].at # "tell" => tell[u].at = 0)
        BY <1>1 DEF Inv, TellersInList, TellType
      <3>2. \A u \in Threads : pc'[u].at = "tell" <=> pc[u].at = "tell"
        BY <1>2
      <3> QED
        BY <1>1, <1>3, <1>4, <2>1, <3>1, <3>2 DEF TellersInList
  <1> QED
    BY <1>6, <1>7, <1>8, <1>9 DEF Inv

LEMMA StepTellEnd ==
    ASSUME Inv, NEW t \in Threads, TellEnd(t)
    PROVE  Inv'
  <1>1. Arrives(t, tell[t].next)
    BY GoesOn DEF Inv, TypeInv, TellType, TellEnd, Calls, Afterwards
  <1>2. tell[t].next \in Afterwards
    BY DEF Inv, TypeInv, TellType
  <1>3. pc'[t].at \notin {"put", "asleep", "release"} /\ pc[t].at = "tell"
    BY <1>1, <1>2 DEF Arrives, Afterwards, TellEnd
  <1>4. /\ Len(files) \in Nat /\ tell'[t].at = 0
        /\ \A u \in Threads : u # t => tell'[u] = tell[u]
    BY LenProperties DEF Inv, TypeInv, TellType, TellEnd, Silent
  <1>5. tell' \in TellType
    BY NumberFacts DEF Inv, TypeInv, TellType, TellEnd, Silent, Masks, Afterwards
  <1>6. TypeInv'
    BY <1>1, <1>2, <1>3, <1>4, <1>5 DEF Inv, TypeInv, PcType, ElemType, TellType, CallsAreOpen, TellEnd, Arrives, Calls, Afterwards, Masks, Events
  <1>7. CallsAreOpen' /\ WritersHoldSem'
    BY <1>1, <1>2, <1>3, <1>4, <1>5 DEF Inv, TypeInv, PcType, TellType, Afterwards, CallsAreOpen, WritersHoldSem, TellEnd, Arrives
  <1>8. WriterMayWrite'
    BY <1>1, <1>2, <1>3, <1>4, <1>5 DEF Inv, WriterMayWrite, MayWrite, Present, TellEnd, Arrives
  <1>9. TellersInList'
    BY <1>1, <1>2, <1>3, <1>4, <1>5 DEF Inv, TellersInList, TellEnd, Arrives
  <1>10. OwnerIsOpen'
    BY <1>1, <1>2, <1>3, <1>4, <1>5 DEF Inv, OwnerIsOpen, TellEnd, Arrives
  <1>11. NoReaderOversleeps'
    BY <1>1, <1>2, <1>3, <1>4, <1>5 DEF Inv, NoReaderOversleeps, TellEnd, Arrives
  <1> QED
    BY <1>6, <1>7, <1>8, <1>9, <1>10, <1>11 DEF Inv

LEMMA StepWrite ==
    ASSUME Inv, NEW t \in Threads, NEW f \in Files, NEW n \in Names, Write(t, f, n)
    PROVE  Inv'
  <1>1. TypeInv'
    BY DEF Inv, TypeInv, PcType, ElemType, TellType, CallsAreOpen, Write, Call, Begins, CanRead, Calls, Afterwards, Masks, Events
  <1>2. CallsAreOpen' /\ WritersHoldSem'
    BY DEF Inv, TypeInv, PcType, TellType, Afterwards, CallsAreOpen, WritersHoldSem, Write, Call, Begins, CanRead
  <1>3. WriterMayWrite'
    BY DEF Inv, TypeInv, PcType, ElemType, TellType, Afterwards, CallsAreOpen, WritersHoldSem, WriterMayWrite, MayWrite, Present, Write, Call, Begins, CanRead
  <1>4. TellersInList'
    BY DEF Inv, TypeInv, PcType, TellType, TellersInList, Write, Call, Begins, CanRead
  <1>5. OwnerIsOpen'
    BY DEF Inv, TypeInv, PcType, ElemType, CallsAreOpen, OwnerIsOpen, Write, Call, Begins, CanRead
  <1>6. NoReaderOversleeps'
    BY DEF Inv, TypeInv, PcType, TellType, Afterwards, CallsAreOpen, NoReaderOversleeps, Write, Call, Begins, CanRead
  <1> QED
    BY <1>1, <1>2, <1>3, <1>4, <1>5, <1>6 DEF Inv

LEMMA StepPut ==
    ASSUME Inv, NEW t \in Threads, NEW changed \in BOOLEAN, Put(t, changed)
    PROVE  Inv'
  <1>1. Arrives(t, IF changed THEN "tell" ELSE "idle")
    BY GoesOn DEF Inv, TypeInv, TellType, Put, Calls, Afterwards
  <1>2. elem[pc[t].name].numid \in Numbers
    BY DEF Inv, TypeInv, ElemType, CallsAreOpen, Put
  <1>3. tell' \in TellType
    BY <1>2, TellsType DEF Inv, TypeInv, Put, Masks, Afterwards
  <1>4. /\ Len(files) \in Nat /\ tell'[t].at = 0
        /\ \A u \in Threads : u # t => tell'[u] = tell[u]
    BY LenProperties DEF Inv, TypeInv, TellType, TellersInList, Put, Tells
  <1>5. TypeInv'
    BY <1>1, <1>2, <1>3, <1>4 DEF Inv, TypeInv, PcType, ElemType, TellType, CallsAreOpen, Put, Arrives, Calls, Afterwards, Masks, Events
  <1>6. CallsAreOpen' /\ WritersHoldSem'
    BY <1>1, <1>2, <1>3, <1>4 DEF Inv, TypeInv, PcType, TellType, Afterwards, CallsAreOpen, WritersHoldSem, Put, Arrives
  <1>7. WriterMayWrite'
    <2>1. elem' = elem
      BY DEF Put
    <2>2. ASSUME NEW u \in Threads, pc'[u].at = "put"
          PROVE  pc'[u] = pc[u]
      BY <1>1, <2>2 DEF Inv, TypeInv, PcType, Arrives
    <2> QED
      BY <2>1, <2>2 DEF Inv, WriterMayWrite, MayWrite, Present
  <1>8. TellersInList'
    BY <1>1, <1>2, <1>3, <1>4 DEF Inv, TellersInList, Put, Arrives
  <1>9. OwnerIsOpen'
    BY <1>1, <1>2, <1>3, <1>4 DEF Inv, OwnerIsOpen, Put, Arrives
  <1>10. NoReaderOversleeps'
    BY <1>1, <1>2, <1>3, <1>4, ZenonT(60) DEF Inv, TypeInv, PcType, TellType, Afterwards, CallsAreOpen, NoReaderOversleeps, Put, Arrives
  <1> QED
    BY <1>5, <1>6, <1>7, <1>8, <1>9, <1>10 DEF Inv

LEMMA StepLock ==
    ASSUME Inv, NEW t \in Threads, NEW f \in Files, NEW n \in Names, Lock(t, f, n)
    PROVE  Inv'
  <1>1. elem' \in ElemType
    BY OwnerType DEF Inv, Lock
  <1>2. TypeInv'
    BY <1>1 DEF Inv, TypeInv, PcType, ElemType, TellType, CallsAreOpen, Lock, Call, CanWrite, Calls, Afterwards, Masks, Events
  <1>3. CallsAreOpen' /\ WritersHoldSem'
    BY <1>1 DEF Inv, TypeInv, PcType, TellType, Afterwards, CallsAreOpen, WritersHoldSem, Lock, Call, CanWrite
  <1>4. WriterMayWrite'
    BY <1>1 DEF Inv, TypeInv, PcType, ElemType, TellType, Afterwards, CallsAreOpen, WritersHoldSem, WriterMayWrite, MayWrite, Present, Lock, Call, CanWrite
  <1>5. TellersInList'
    BY <1>1 DEF Inv, TypeInv, PcType, TellType, TellersInList, Lock, Call, CanWrite
  <1>6. OwnerIsOpen'
    BY <1>1 DEF Inv, TypeInv, PcType, ElemType, CallsAreOpen, OwnerIsOpen, Lock, Call, CanWrite
  <1>7. NoReaderOversleeps'
    BY <1>1 DEF Inv, TypeInv, PcType, TellType, Afterwards, CallsAreOpen, NoReaderOversleeps, Lock, Call, CanWrite
  <1> QED
    BY <1>2, <1>3, <1>4, <1>5, <1>6, <1>7 DEF Inv

LEMMA StepUnlock ==
    ASSUME Inv, NEW t \in Threads, NEW f \in Files, NEW n \in Names, Unlock(t, f, n)
    PROVE  Inv'
  <1>1. elem' \in ElemType
    BY OwnerType DEF Inv, Unlock
  <1>2. TypeInv'
    BY <1>1 DEF Inv, TypeInv, PcType, ElemType, TellType, CallsAreOpen, Unlock, Call, CanWrite, Calls, Afterwards, Masks, Events
  <1>3. CallsAreOpen' /\ WritersHoldSem'
    BY <1>1 DEF Inv, TypeInv, PcType, TellType, Afterwards, CallsAreOpen, WritersHoldSem, Unlock, Call, CanWrite
  <1>4. WriterMayWrite'
    BY <1>1 DEF Inv, TypeInv, PcType, ElemType, TellType, Afterwards, CallsAreOpen, WritersHoldSem, WriterMayWrite, MayWrite, Present, Unlock, Call, CanWrite
  <1>5. TellersInList'
    BY <1>1 DEF Inv, TypeInv, PcType, TellType, TellersInList, Unlock, Call, CanWrite
  <1>6. OwnerIsOpen'
    BY <1>1 DEF Inv, TypeInv, PcType, ElemType, CallsAreOpen, OwnerIsOpen, Unlock, Call, CanWrite
  <1>7. NoReaderOversleeps'
    BY <1>1 DEF Inv, TypeInv, PcType, TellType, Afterwards, CallsAreOpen, NoReaderOversleeps, Unlock, Call, CanWrite
  <1> QED
    BY <1>2, <1>3, <1>4, <1>5, <1>6, <1>7 DEF Inv

LEMMA StepRemove ==
    ASSUME Inv, NEW t \in Threads, NEW f \in Files, NEW n \in Names, Remove(t, f, n)
    PROVE  Inv'
  <1>1. TypeInv'
    BY NumberFacts DEF Inv, TypeInv, PcType, ElemType, TellType, CallsAreOpen, Remove, Call, CanWrite, Removes, Begins, Tells, Absent, Calls, Afterwards, Masks, Events
  <1>2. CallsAreOpen' /\ WritersHoldSem'
    BY DEF Inv, TypeInv, PcType, TellType, Afterwards, CallsAreOpen, WritersHoldSem, Remove, Call, CanWrite, Removes, Begins, Tells, Absent
  <1>3. WriterMayWrite'
    BY DEF Inv, TypeInv, PcType, ElemType, TellType, Afterwards, CallsAreOpen, WritersHoldSem, WriterMayWrite, MayWrite, Present, Remove, Call, CanWrite, Removes, Begins, Tells, Absent
  <1>4. TellersInList'
    BY DEF Inv, TypeInv, PcType, TellType, TellersInList, Remove, Call, CanWrite, Removes, Begins, Tells, Absent
  <1>5. OwnerIsOpen'
    BY DEF Inv, TypeInv, PcType, ElemType, CallsAreOpen, OwnerIsOpen, Remove, Call, CanWrite, Removes, Begins, Tells, Absent
  <1>6. NoReaderOversleeps'
    BY DEF Inv, TypeInv, PcType, TellType, Afterwards, CallsAreOpen, NoReaderOversleeps, Remove, Call, CanWrite, Removes, Begins, Tells, Absent
  <1> QED
    BY <1>1, <1>2, <1>3, <1>4, <1>5, <1>6 DEF Inv

LEMMA StepRemoved ==
    ASSUME Inv, NEW t \in Threads, Removed(t)
    PROVE  Inv'
  <1>1. Arrives(t, "idle")
    BY GoesOn DEF Inv, TypeInv, TellType, Removed, Calls, Afterwards
  <1>2. TypeInv'
    BY <1>1 DEF Inv, TypeInv, PcType, ElemType, TellType, CallsAreOpen, Removed, Arrives, Calls, Afterwards, Masks, Events
  <1>3. CallsAreOpen' /\ WritersHoldSem'
    BY <1>1 DEF Inv, TypeInv, PcType, TellType, Afterwards, CallsAreOpen, WritersHoldSem, Removed, Arrives
  <1>4. WriterMayWrite'
    BY <1>1 DEF Inv, TypeInv, PcType, ElemType, TellType, Afterwards, CallsAreOpen, WritersHoldSem, WriterMayWrite, MayWrite, Present, Removed, Arrives
  <1>5. TellersInList'
    BY <1>1 DEF Inv, TypeInv, PcType, TellType, TellersInList, Removed, Arrives
  <1>6. OwnerIsOpen'
    BY <1>1 DEF Inv, OwnerIsOpen, Removed, Arrives
  <1>7. NoReaderOversleeps'
    BY <1>1 DEF Inv, TypeInv, PcType, TellType, Afterwards, CallsAreOpen, NoReaderOversleeps, Removed, Arrives
  <1> QED
    BY <1>2, <1>3, <1>4, <1>5, <1>6, <1>7 DEF Inv

LEMMA StepAddCheck ==
    ASSUME Inv, NEW t \in Threads, NEW f \in Files, NEW n \in Names, AddCheck(t, f, n)
    PROVE  Inv'
  <1>1. TypeInv'
    BY DEF Inv, TypeInv, PcType, ElemType, TellType, CallsAreOpen, AddCheck, Call, Begins, Calls, Afterwards, Masks, Events
  <1>2. CallsAreOpen' /\ WritersHoldSem'
    BY DEF Inv, TypeInv, PcType, TellType, Afterwards, CallsAreOpen, WritersHoldSem, AddCheck, Call, Begins
  <1>3. WriterMayWrite'
    BY DEF Inv, TypeInv, PcType, ElemType, TellType, Afterwards, CallsAreOpen, WritersHoldSem, WriterMayWrite, MayWrite, Present, AddCheck, Call, Begins
  <1>4. TellersInList'
    BY DEF Inv, TypeInv, PcType, TellType, TellersInList, AddCheck, Call, Begins
  <1>5. OwnerIsOpen'
    BY DEF Inv, TypeInv, PcType, ElemType, CallsAreOpen, OwnerIsOpen, AddCheck, Call, Begins
  <1>6. NoReaderOversleeps'
    BY DEF Inv, TypeInv, PcType, TellType, Afterwards, CallsAreOpen, NoReaderOversleeps, AddCheck, Call, Begins
  <1> QED
    BY <1>1, <1>2, <1>3, <1>4, <1>5, <1>6 DEF Inv

LEMMA StepFind ==
    ASSUME Inv, NEW t \in Threads, Find(t)
    PROVE  Inv'
  <1>1. Arrives(t, IF Present(pc[t].name) THEN "idle" ELSE "add")
    BY GoesOn DEF Inv, TypeInv, TellType, Find, Calls, Afterwards
  <1>2. TypeInv'
    BY <1>1 DEF Inv, TypeInv, PcType, ElemType, TellType, CallsAreOpen, Find, CanWrite, Arrives, Calls, Afterwards, Masks, Events
  <1>3. CallsAreOpen' /\ WritersHoldSem'
    BY <1>1 DEF Inv, TypeInv, PcType, TellType, Afterwards, CallsAreOpen, WritersHoldSem, Find, CanWrite, Arrives
  <1>4. WriterMayWrite'
    BY <1>1 DEF Inv, TypeInv, PcType, ElemType, TellType, Afterwards, CallsAreOpen, WritersHoldSem, WriterMayWrite, MayWrite, Present, Find, CanWrite, Arrives
  <1>5. TellersInList'
    BY <1>1 DEF Inv, TypeInv, PcType, TellType, TellersInList, Find, CanWrite, Arrives
  <1>6. OwnerIsOpen'
    BY <1>1 DEF Inv, OwnerIsOpen, Find, CanWrite, Arrives
  <1>7. NoReaderOversleeps'
    BY <1>1 DEF Inv, TypeInv, PcType, TellType, Afterwards, CallsAreOpen, NoReaderOversleeps, Find, CanWrite, Arrives
  <1> QED
    BY <1>2, <1>3, <1>4, <1>5, <1>6, <1>7 DEF Inv

LEMMA StepReplace ==
    ASSUME Inv, NEW t \in Threads, NEW f \in Files, NEW n \in Names, Replace(t, f, n)
    PROVE  Inv'
  <1>1. TypeInv'
    BY NumberFacts DEF Inv, TypeInv, PcType, ElemType, TellType, CallsAreOpen, Replace, Call, CanWrite, Removes, Begins, Tells, Absent, Calls, Afterwards, Masks, Events
  <1>2. CallsAreOpen' /\ WritersHoldSem'
    BY DEF Inv, TypeInv, PcType, TellType, Afterwards, CallsAreOpen, WritersHoldSem, Replace, Call, CanWrite, Removes, Begins, Tells, Absent
  <1>3. WriterMayWrite'
    BY DEF Inv, TypeInv, PcType, ElemType, TellType, Afterwards, CallsAreOpen, WritersHoldSem, WriterMayWrite, MayWrite, Present, Replace, Call, CanWrite, Removes, Begins, Tells, Absent
  <1>4. TellersInList'
    BY DEF Inv, TypeInv, PcType, TellType, TellersInList, Replace, Call, CanWrite, Removes, Begins, Tells, Absent
  <1>5. OwnerIsOpen'
    BY DEF Inv, TypeInv, PcType, ElemType, CallsAreOpen, OwnerIsOpen, Replace, Call, CanWrite, Removes, Begins, Tells, Absent
  <1>6. NoReaderOversleeps'
    BY DEF Inv, TypeInv, PcType, TellType, Afterwards, CallsAreOpen, NoReaderOversleeps, Replace, Call, CanWrite, Removes, Begins, Tells, Absent
  <1> QED
    BY <1>1, <1>2, <1>3, <1>4, <1>5, <1>6 DEF Inv

LEMMA StepReplaced ==
    ASSUME Inv, NEW t \in Threads, NEW valid \in BOOLEAN, Replaced(t, valid)
    PROVE  Inv'
  <1>1. Arrives(t, IF valid THEN "add" ELSE "idle")
    BY GoesOn DEF Inv, TypeInv, TellType, Replaced, Calls, Afterwards
  <1>2. TypeInv'
    BY <1>1 DEF Inv, TypeInv, PcType, ElemType, TellType, CallsAreOpen, Replaced, Arrives, Calls, Afterwards, Masks, Events
  <1>3. CallsAreOpen' /\ WritersHoldSem'
    BY <1>1 DEF Inv, TypeInv, PcType, TellType, Afterwards, CallsAreOpen, WritersHoldSem, Replaced, Arrives
  <1>4. WriterMayWrite'
    BY <1>1 DEF Inv, TypeInv, PcType, ElemType, TellType, Afterwards, CallsAreOpen, WritersHoldSem, WriterMayWrite, MayWrite, Present, Replaced, Arrives
  <1>5. TellersInList'
    BY <1>1 DEF Inv, TypeInv, PcType, TellType, TellersInList, Replaced, Arrives
  <1>6. OwnerIsOpen'
    BY <1>1 DEF Inv, OwnerIsOpen, Replaced, Arrives
  <1>7. NoReaderOversleeps'
    BY <1>1 DEF Inv, TypeInv, PcType, TellType, Afterwards, CallsAreOpen, NoReaderOversleeps, Replaced, Arrives
  <1> QED
    BY <1>2, <1>3, <1>4, <1>5, <1>6, <1>7 DEF Inv

LEMMA StepAdd ==
    ASSUME Inv, NEW t \in Threads, Add(t)
    PROVE  Inv'
  <1> DEFINE n == pc[t].name
             new == [numid |-> last_numid + 1, owner |-> pc[t].file, user |-> TRUE]
  <1>1. n \in Names /\ pc[t].file \in Files /\ pc[t].file \in ListOf(files) /\ pc[t].at = "add"
    BY DEF Inv, CallsAreOpen, Add
  <1>2. CASE Present(n)
    <2>1. Arrives(t, "idle")
      BY <1>2, GoesOn DEF Inv, Add, Calls
    <2>2. UNCHANGED <<elem, last_numid, tell>>
      BY <1>2 DEF Add
    <2> HIDE DEF n, new
    <2>3. TypeInv'
      BY <2>1, <2>2 DEF Inv, TypeInv, Arrives, Add
    <2>4. CallsAreOpen' /\ WritersHoldSem' /\ WriterMayWrite' /\ OwnerIsOpen' /\ NoReaderOversleeps'
      BY <1>1, <2>1, <2>2 DEF Inv, CallsAreOpen, WritersHoldSem, WriterMayWrite, MayWrite, Present,
                              OwnerIsOpen, NoReaderOversleeps, Arrives, Add
    <2>5. TellersInList'
      BY <1>1, <2>1, <2>2 DEF Inv, TellersInList, Arrives, Add
    <2> QED
      BY <2>3, <2>4, <2>5 DEF Inv
  <1>3. CASE ~Present(n)
    <2>1. Arrives(t, "tell")
      BY <1>3, GoesOn DEF Inv, Add, Calls
    <2>2. /\ elem' = [elem EXCEPT ![n] = new] /\ last_numid' = last_numid + 1
          /\ last_numid < MaxNumid /\ Tells(t, "ADD", 0, "count")
      BY <1>3 DEF Add
    <2>3. tell' \in TellType
      BY <2>2, TellsType, ControlAssumption DEF Inv, Masks, Afterwards, Numbers
    <2>4. /\ elem' \in ElemType /\ elem'[n].owner = pc[t].file
          /\ \A m \in Names : m # n => elem'[m] = elem[m]
      BY <1>1, <2>2, ControlAssumption DEF Inv, TypeInv, ElemType, Numbers
    <2>5. sem.readers = {} /\ UNCHANGED <<files, subscribed, events, sem, hand>>
      BY DEF Add, CanWrite
    <2> HIDE DEF n, new
    <2>6. TypeInv'
      BY <2>1, <2>2, <2>3, <2>4, <2>5, ControlAssumption DEF Inv, TypeInv, Numbers, Arrives
    <2>7. CallsAreOpen' /\ WritersHoldSem'
      BY <1>1, <2>1, <2>5 DEF Inv, CallsAreOpen, WritersHoldSem, Arrives
    <2>8. WriterMayWrite'
      BY <2>1, <2>5 DEF Inv, WritersHoldSem, WriterMayWrite, Arrives
    <2>9. OwnerIsOpen'
      BY <1>1, <2>1, <2>4, <2>5 DEF Inv, OwnerIsOpen, Arrives
    <2>10. NoReaderOversleeps'
      BY <2>1, <2>5 DEF Inv, NoReaderOversleeps, Arrives
    <2>11. TellersInList'
      BY <1>1, <2>1, <2>2, <2>5, LenProperties DEF Inv, TypeInv, TellType, TellersInList, Tells, Arrives
    <2> QED
      BY <2>6, <2>7, <2>8, <2>9, <2>10, <2>11 DEF Inv
  <1> QED
    BY <1>2, <1>3

LEMMA StepCount ==
    ASSUME Inv, NEW t \in Threads, Count(t)
    PROVE  Inv'
  <1>1. Arrives(t, "idle")
    BY GoesOn DEF Inv, TypeInv, TellType, Count, Calls, Afterwards
  <1>2. TypeInv'
    BY <1>1 DEF Inv, TypeInv, PcType, ElemType, TellType, CallsAreOpen, Count, CanWrite, Arrives, Calls, Afterwards, Masks, Events
  <1>3. CallsAreOpen' /\ WritersHoldSem'
    BY <1>1 DEF Inv, TypeInv, PcType, TellType, Afterwards, CallsAreOpen, WritersHoldSem, Count, CanWrite, Arrives
  <1>4. WriterMayWrite'
    BY <1>1 DEF Inv, TypeInv, PcType, ElemType, TellType, Afterwards, CallsAreOpen, WritersHoldSem, WriterMayWrite, MayWrite, Present, Count, CanWrite, Arrives
  <1>5. TellersInList'
    BY <1>1 DEF Inv, TypeInv, PcType, TellType, TellersInList, Count, CanWrite, Arrives
  <1>6. OwnerIsOpen'
    BY <1>1 DEF Inv, OwnerIsOpen, Count, CanWrite, Arrives
  <1>7. NoReaderOversleeps'
    BY <1>1 DEF Inv, TypeInv, PcType, TellType, Afterwards, CallsAreOpen, NoReaderOversleeps, Count, CanWrite, Arrives
  <1> QED
    BY <1>2, <1>3, <1>4, <1>5, <1>6, <1>7 DEF Inv

LEMMA StepRead ==
    ASSUME Inv, NEW t \in Threads, NEW f \in Files, Read(t, f)
    PROVE  Inv'
  <1>1. TypeInv'
    BY DEF Inv, TypeInv, PcType, ElemType, TellType, CallsAreOpen, Read, Call, Begins, Calls, Afterwards, Masks, Events
  <1>2. CallsAreOpen' /\ WritersHoldSem'
    BY DEF Inv, TypeInv, PcType, TellType, Afterwards, CallsAreOpen, WritersHoldSem, Read, Call, Begins
  <1>3. WriterMayWrite'
    BY DEF Inv, TypeInv, PcType, ElemType, TellType, Afterwards, CallsAreOpen, WritersHoldSem, WriterMayWrite, MayWrite, Present, Read, Call, Begins
  <1>4. TellersInList'
    BY DEF Inv, TypeInv, PcType, TellType, TellersInList, Read, Call, Begins
  <1>5. OwnerIsOpen'
    BY DEF Inv, TypeInv, PcType, ElemType, CallsAreOpen, OwnerIsOpen, Read, Call, Begins
  <1>6. NoReaderOversleeps'
    BY DEF Inv, TypeInv, PcType, TellType, Afterwards, CallsAreOpen, NoReaderOversleeps, Read, Call, Begins
  <1> QED
    BY <1>1, <1>2, <1>3, <1>4, <1>5, <1>6 DEF Inv

LEMMA StepTake ==
    ASSUME Inv, NEW t \in Threads, Take(t)
    PROVE  Inv'
  <1>1. Arrives(t, "copy")
    BY GoesOn DEF Inv, TypeInv, TellType, Take, Calls, Afterwards
  <1>2. pc[t].file \in Files /\ events[pc[t].file] \in Seq(Events) /\ events[pc[t].file] # <<>>
    BY DEF Inv, TypeInv, CallsAreOpen, Take
  <1>3. Head(events[pc[t].file]) \in Events /\ Tail(events[pc[t].file]) \in Seq(Events)
    BY <1>2, HeadTailProperties
  <1>4. /\ events' \in [Files -> Seq(Events)] /\ hand' \in [Threads -> Events]
        /\ \A g \in Files : g # pc[t].file => events'[g] = events[g]
    BY <1>2, <1>3 DEF Inv, TypeInv, Take
  <1>5. TypeInv'
    BY <1>1, <1>2, <1>3, <1>4 DEF Inv, TypeInv, PcType, ElemType, TellType, CallsAreOpen, Take, Arrives, Calls, Afterwards, Masks, Events
  <1>6. CallsAreOpen' /\ WritersHoldSem'
    BY <1>1, <1>2, <1>3, <1>4, ZenonT(60) DEF Inv, TypeInv, PcType, TellType, Afterwards, CallsAreOpen, WritersHoldSem, Take, Arrives
  <1>7. WriterMayWrite'
    BY <1>1, <1>2, <1>3, <1>4 DEF Inv, WriterMayWrite, MayWrite, Present, Take, Arrives
  <1>8. TellersInList'
    BY <1>1, <1>2, <1>3, <1>4 DEF Inv, TypeInv, PcType, TellType, TellersInList, Take, Arrives
  <1>9. OwnerIsOpen'
    BY <1>1, <1>2, <1>3, <1>4 DEF Inv, OwnerIsOpen, Take, Arrives
  <1>10. NoReaderOversleeps'
    BY <1>1, <1>2, <1>3, <1>4 DEF Inv, NoReaderOversleeps, Take, Arrives
  <1> QED
    BY <1>5, <1>6, <1>7, <1>8, <1>9, <1>10 DEF Inv

LEMMA StepCopied ==
    ASSUME Inv, NEW t \in Threads, NEW more \in BOOLEAN, Copied(t, more)
    PROVE  Inv'
  <1>1. Arrives(t, IF more THEN "got" ELSE "idle")
    BY GoesOn DEF Inv, TypeInv, TellType, Copied, Calls, Afterwards
  <1>2. TypeInv'
    BY NumberFacts, <1>1 DEF Inv, TypeInv, PcType, ElemType, TellType, CallsAreOpen, Copied, NoEvent, Arrives, Calls, Afterwards, Masks, Events
  <1>3. CallsAreOpen' /\ WritersHoldSem'
    BY <1>1 DEF Inv, TypeInv, PcType, TellType, Afterwards, CallsAreOpen, WritersHoldSem, Copied, NoEvent, Arrives
  <1>4. WriterMayWrite'
    BY <1>1 DEF Inv, TypeInv, PcType, ElemType, TellType, Afterwards, CallsAreOpen, WritersHoldSem, WriterMayWrite, MayWrite, Present, Copied, NoEvent, Arrives
  <1>5. TellersInList'
    BY <1>1 DEF Inv, TypeInv, PcType, TellType, TellersInList, Copied, NoEvent, Arrives
  <1>6. OwnerIsOpen'
    BY <1>1 DEF Inv, OwnerIsOpen, Copied, NoEvent, Arrives
  <1>7. NoReaderOversleeps'
    BY <1>1 DEF Inv, TypeInv, PcType, TellType, Afterwards, CallsAreOpen, NoReaderOversleeps, Copied, NoEvent, Arrives
  <1> QED
    BY <1>2, <1>3, <1>4, <1>5, <1>6, <1>7 DEF Inv

LEMMA StepCopyFails ==
    ASSUME Inv, NEW t \in Threads, CopyFails(t)
    PROVE  Inv'
  <1>1. Arrives(t, "idle")
    BY GoesOn DEF Inv, TypeInv, TellType, CopyFails, Calls, Afterwards
  <1>2. TypeInv'
    BY NumberFacts, <1>1 DEF Inv, TypeInv, PcType, ElemType, TellType, CallsAreOpen, CopyFails, NoEvent, Arrives, Calls, Afterwards, Masks, Events
  <1>3. CallsAreOpen' /\ WritersHoldSem'
    BY <1>1 DEF Inv, TypeInv, PcType, TellType, Afterwards, CallsAreOpen, WritersHoldSem, CopyFails, NoEvent, Arrives
  <1>4. WriterMayWrite'
    BY <1>1 DEF Inv, TypeInv, PcType, ElemType, TellType, Afterwards, CallsAreOpen, WritersHoldSem, WriterMayWrite, MayWrite, Present, CopyFails, NoEvent, Arrives
  <1>5. TellersInList'
    BY <1>1 DEF Inv, TypeInv, PcType, TellType, TellersInList, CopyFails, NoEvent, Arrives
  <1>6. OwnerIsOpen'
    BY <1>1 DEF Inv, OwnerIsOpen, CopyFails, NoEvent, Arrives
  <1>7. NoReaderOversleeps'
    BY <1>1 DEF Inv, TypeInv, PcType, TellType, Afterwards, CallsAreOpen, NoReaderOversleeps, CopyFails, NoEvent, Arrives
  <1> QED
    BY <1>2, <1>3, <1>4, <1>5, <1>6, <1>7 DEF Inv

LEMMA StepEmpty ==
    ASSUME Inv, NEW t \in Threads, Empty(t)
    PROVE  Inv'
  <1>1. Arrives(t, IF pc[t].at = "read" THEN "asleep" ELSE "idle")
    BY GoesOn DEF Inv, TypeInv, TellType, Empty, Calls, Afterwards
  <1>2. TypeInv'
    BY <1>1 DEF Inv, TypeInv, PcType, ElemType, TellType, CallsAreOpen, Empty, Arrives, Calls, Afterwards, Masks, Events
  <1>3. CallsAreOpen' /\ WritersHoldSem'
    BY <1>1 DEF Inv, TypeInv, PcType, TellType, Afterwards, CallsAreOpen, WritersHoldSem, Empty, Arrives
  <1>4. WriterMayWrite'
    BY <1>1 DEF Inv, TypeInv, PcType, ElemType, TellType, Afterwards, CallsAreOpen, WritersHoldSem, WriterMayWrite, MayWrite, Present, Empty, Arrives
  <1>5. TellersInList'
    BY <1>1 DEF Inv, TypeInv, PcType, TellType, TellersInList, Empty, Arrives
  <1>6. OwnerIsOpen'
    BY <1>1 DEF Inv, OwnerIsOpen, Empty, Arrives
  <1>7. NoReaderOversleeps'
    BY <1>1 DEF Inv, TypeInv, PcType, TellType, Afterwards, CallsAreOpen, NoReaderOversleeps, Empty, Arrives
  <1> QED
    BY <1>2, <1>3, <1>4, <1>5, <1>6, <1>7 DEF Inv

LEMMA StepWakeUp ==
    ASSUME Inv, NEW t \in Threads, WakeUp(t)
    PROVE  Inv'
  <1>1. Arrives(t, IF card = "up" THEN "read" ELSE "idle")
    BY GoesOn DEF Inv, TypeInv, TellType, WakeUp, Calls, Afterwards
  <1>2. TypeInv'
    BY <1>1 DEF Inv, TypeInv, PcType, ElemType, TellType, CallsAreOpen, WakeUp, Arrives, Calls, Afterwards, Masks, Events
  <1>3. CallsAreOpen' /\ WritersHoldSem'
    BY <1>1 DEF Inv, TypeInv, PcType, TellType, Afterwards, CallsAreOpen, WritersHoldSem, WakeUp, Arrives
  <1>4. WriterMayWrite'
    BY <1>1 DEF Inv, TypeInv, PcType, ElemType, TellType, Afterwards, CallsAreOpen, WritersHoldSem, WriterMayWrite, MayWrite, Present, WakeUp, Arrives
  <1>5. TellersInList'
    BY <1>1 DEF Inv, TypeInv, PcType, TellType, TellersInList, WakeUp, Arrives
  <1>6. OwnerIsOpen'
    BY <1>1 DEF Inv, OwnerIsOpen, WakeUp, Arrives
  <1>7. NoReaderOversleeps'
    BY <1>1 DEF Inv, TypeInv, PcType, TellType, Afterwards, CallsAreOpen, NoReaderOversleeps, WakeUp, Arrives
  <1> QED
    BY <1>2, <1>3, <1>4, <1>5, <1>6, <1>7 DEF Inv

LEMMA StepSignal ==
    ASSUME Inv, NEW t \in Threads, Signal(t)
    PROVE  Inv'
  <1>1. Arrives(t, "idle")
    BY GoesOn DEF Inv, TypeInv, TellType, Signal, Calls, Afterwards
  <1>2. TypeInv'
    BY <1>1 DEF Inv, TypeInv, PcType, ElemType, TellType, CallsAreOpen, Signal, Arrives, Calls, Afterwards, Masks, Events
  <1>3. CallsAreOpen' /\ WritersHoldSem'
    BY <1>1 DEF Inv, TypeInv, PcType, TellType, Afterwards, CallsAreOpen, WritersHoldSem, Signal, Arrives
  <1>4. WriterMayWrite'
    BY <1>1 DEF Inv, TypeInv, PcType, ElemType, TellType, Afterwards, CallsAreOpen, WritersHoldSem, WriterMayWrite, MayWrite, Present, Signal, Arrives
  <1>5. TellersInList'
    BY <1>1 DEF Inv, TypeInv, PcType, TellType, TellersInList, Signal, Arrives
  <1>6. OwnerIsOpen'
    BY <1>1 DEF Inv, OwnerIsOpen, Signal, Arrives
  <1>7. NoReaderOversleeps'
    BY <1>1 DEF Inv, TypeInv, PcType, TellType, Afterwards, CallsAreOpen, NoReaderOversleeps, Signal, Arrives
  <1> QED
    BY <1>2, <1>3, <1>4, <1>5, <1>6, <1>7 DEF Inv

LEMMA StepShutdown ==
    ASSUME Inv, Shutdown
    PROVE  Inv'
  <1>1. TypeInv'
    BY DEF Inv, TypeInv, PcType, ElemType, TellType, CallsAreOpen, Shutdown, Calls, Afterwards, Masks, Events
  <1>2. CallsAreOpen' /\ WritersHoldSem'
    BY DEF Inv, TypeInv, PcType, TellType, Afterwards, CallsAreOpen, WritersHoldSem, Shutdown
  <1>3. WriterMayWrite'
    BY DEF Inv, TypeInv, PcType, ElemType, TellType, Afterwards, CallsAreOpen, WritersHoldSem, WriterMayWrite, MayWrite, Present, Shutdown
  <1>4. TellersInList'
    BY DEF Inv, TypeInv, PcType, TellType, TellersInList, Shutdown
  <1>5. OwnerIsOpen'
    BY DEF Inv, TypeInv, PcType, ElemType, CallsAreOpen, OwnerIsOpen, Shutdown
  <1>6. NoReaderOversleeps'
    BY DEF Inv, TypeInv, PcType, TellType, Afterwards, CallsAreOpen, NoReaderOversleeps, Shutdown
  <1> QED
    BY <1>1, <1>2, <1>3, <1>4, <1>5, <1>6 DEF Inv

LEMMA StepDisconnect ==
    ASSUME Inv, Disconnect
    PROVE  Inv'
  <1>1. /\ pc' \in PcType
        /\ \A u \in Threads :
             /\ pc'[u].file = pc[u].file /\ pc'[u].name = pc[u].name
             /\ pc'[u].at = pc[u].at \/ (pc[u].at = "asleep" /\ pc'[u].at = "woken")
             /\ pc'[u].at = "asleep" => pc[u].at = "asleep" /\ pc[u].file \notin ListOf(files)
    BY WokenFacts DEF Inv, Disconnect
  <1>2. TypeInv'
    BY <1>1 DEF Inv, TypeInv, Disconnect
  <1>3. CallsAreOpen' /\ WritersHoldSem'
    BY <1>1 DEF Inv, CallsAreOpen, WritersHoldSem, Disconnect
  <1>4. WriterMayWrite' /\ OwnerIsOpen'
    BY <1>1 DEF Inv, WriterMayWrite, MayWrite, Present, OwnerIsOpen, Disconnect
  <1>5. NoReaderOversleeps'
    BY <1>1 DEF Inv, NoReaderOversleeps, Disconnect
  <1>6. TellersInList'
    BY <1>1 DEF Inv, TellersInList, Disconnect
  <1> QED
    BY <1>2, <1>3, <1>4, <1>5, <1>6 DEF Inv

(***************************************************************************)
(* The theorems.                                                           *)
(***************************************************************************)
LEMMA InvInit ==
    ASSUME Init
    PROVE  Inv
  <1>1. Cardinality(Fixed) \in Nat /\ MaxNumid \in Nat /\ Cardinality(Fixed) <= MaxNumid
    BY ControlAssumption, FS_CardinalityType
  <1>2. elem \in ElemType /\ \A n \in Names : elem[n].owner = None
    BY <1>1 DEF Init, ElemType, Absent, Numbers
  <1>3. TypeInv
    BY <1>1, <1>2, EmptySeq DEF Init, TypeInv, PcType, TellType, Rest, Silent, NoEvent, Events, Calls,
                                Afterwards, Masks, Numbers
  <1>4. CallsAreOpen /\ WritersHoldSem /\ WriterMayWrite /\ NoReaderOversleeps
    BY DEF Init, Rest, CallsAreOpen, WritersHoldSem, WriterMayWrite, NoReaderOversleeps
  <1>5. OwnerIsOpen
    BY <1>2 DEF OwnerIsOpen
  <1>6. TellersInList
    BY <1>3, LenProperties DEF TypeInv, Init, Silent, TellersInList
  <1> QED
    BY <1>3, <1>4, <1>5, <1>6 DEF Inv

LEMMA InvStep ==
    ASSUME Inv, [Next]_vars
    PROVE  Inv'
  <1>1. ASSUME NEW t \in Threads, Step(t)
        PROVE  Inv'
    BY <1>1, StepReleaseLocks, StepUnsubscribed, StepPut, StepReplaced, StepRemoved, StepFind,
       StepAdd, StepCount DEF Step
  <1>2. ASSUME NEW t \in Threads, Tell(t) \/ Reading(t) \/ Signal(t)
        PROVE  Inv'
    BY <1>2, StepTellBegin, StepTellOne, StepTellNoMemory, StepTellEnd, StepTake, StepCopied,
       StepCopyFails, StepEmpty, StepWakeUp, StepSignal DEF Tell, Reading
  <1>3. ASSUME NEW t \in Threads, NEW f \in Files, FileCall(t, f)
        PROVE  Inv'
    BY <1>3, StepOpen, StepRelease, StepSubscribe, StepUnsubscribe, StepRead DEF FileCall
  <1>4. ASSUME NEW t \in Threads, NEW f \in Files, NEW n \in Names, ElementCall(t, f, n)
        PROVE  Inv'
    BY <1>4, StepWrite, StepLock, StepUnlock, StepRemove, StepAddCheck, StepReplace DEF ElementCall
  <1>5. CASE UNCHANGED vars
    BY <1>5 DEF Inv, TypeInv, CallsAreOpen, WritersHoldSem, WriterMayWrite, MayWrite, Present,
                OwnerIsOpen, NoReaderOversleeps, TellersInList, vars
  <1> QED
    BY <1>1, <1>2, <1>3, <1>4, <1>5, StepShutdown, StepDisconnect DEF Next

THEOREM Invariance == Spec => []Inv
  <1>1. Init => Inv
    BY InvInit
  <1>2. Inv /\ [Next]_vars => Inv'
    BY InvStep
  <1> QED
    BY <1>1, <1>2, PTL DEF Spec

\* Numbers are given by snd_ctl_add alone, and no other step makes one grow.
KeepsNumbers == last_numid' = last_numid /\ \A n \in Names : elem'[n].numid <= elem[n].numid

LEMMA NumbersAreGiven ==
    ASSUME TypeInv, [Next]_vars
    PROVE  KeepsNumbers \/ \E t \in Threads : Add(t)
  <1>1. \A n \in Names : elem[n].numid \in Nat
    BY NumberFacts DEF TypeInv, ElemType
  <1>2. ASSUME UNCHANGED <<elem, last_numid>>
        PROVE  KeepsNumbers
    BY <1>1, <1>2 DEF KeepsNumbers
  <1>3. ASSUME NEW t \in Threads, ReleaseLocks(t)
        PROVE  KeepsNumbers
    BY <1>1, <1>3 DEF TypeInv, ElemType, KeepsNumbers, ReleaseLocks
  <1>4. ASSUME NEW t \in Threads, NEW f \in Files, NEW n \in Names, Lock(t, f, n) \/ Unlock(t, f, n)
        PROVE  KeepsNumbers
    <2>1. PICK g \in Files \cup {None} : elem' = [elem EXCEPT ![n].owner = g] /\ last_numid' = last_numid
      BY <1>4 DEF Lock, Unlock
    <2>2. elem'[n].numid = elem[n].numid /\ \A m \in Names : m # n => elem'[m] = elem[m]
      BY <2>1 DEF TypeInv, ElemType
    <2> QED
      BY <1>1, <2>1, <2>2 DEF KeepsNumbers
  <1>5. ASSUME NEW t \in Threads, NEW f \in Files, NEW n \in Names, Remove(t, f, n) \/ Replace(t, f, n)
        PROVE  KeepsNumbers
    <2>1. elem' = [elem EXCEPT ![n] = Absent] /\ last_numid' = last_numid
      BY <1>5 DEF Remove, Replace, Removes
    <2> QED
      BY <1>1, <2>1 DEF TypeInv, ElemType, KeepsNumbers, Absent
  <1>6. ASSUME NEW t \in Threads, Step(t), ~Add(t), ~ReleaseLocks(t)
        PROVE  UNCHANGED <<elem, last_numid>>
    BY <1>6 DEF Step, Unsubscribed, Put, Replaced, Removed, Find, Count
  <1>7. ASSUME NEW t \in Threads, Tell(t) \/ Reading(t) \/ Signal(t)
        PROVE  UNCHANGED <<elem, last_numid>>
    BY <1>7 DEF Tell, TellBegin, TellOne, TellNoMemory, TellEnd, Reading, Take, Copied, CopyFails, Empty,
                WakeUp, Signal
  <1>8. ASSUME NEW t \in Threads, NEW f \in Files, FileCall(t, f)
        PROVE  UNCHANGED <<elem, last_numid>>
    BY <1>8 DEF FileCall, Open, Release, Subscribe, Unsubscribe, Read
  <1>9. ASSUME NEW t \in Threads, NEW f \in Files, NEW n \in Names, Write(t, f, n) \/ AddCheck(t, f, n)
        PROVE  UNCHANGED <<elem, last_numid>>
    BY <1>9 DEF Write, AddCheck
  <1>10. Shutdown \/ Disconnect \/ UNCHANGED vars => UNCHANGED <<elem, last_numid>>
    BY DEF Shutdown, Disconnect, vars
  <1>11. ASSUME NEW t \in Threads, NEW f \in Files, NEW n \in Names, ElementCall(t, f, n)
         PROVE  KeepsNumbers
    BY <1>2, <1>4, <1>5, <1>9, <1>11 DEF ElementCall
  <1>12. ASSUME NEW t \in Threads, Step(t)
         PROVE  KeepsNumbers \/ Add(t)
    BY <1>2, <1>3, <1>6, <1>12
  <1> QED
    BY <1>2, <1>7, <1>8, <1>10, <1>11, <1>12 DEF Next

LEMMA FailuresAreCounted ==
    ASSUME failures \in 0..MaxFailures, [Next]_vars
    PROVE  failures' \in 0..MaxFailures
  <1>1. ASSUME NEW t \in Threads, TellNoMemory(t) \/ CopyFails(t)
        PROVE  failures' \in 0..MaxFailures
    BY <1>1, ControlAssumption DEF TellNoMemory, CopyFails
  <1>2. ASSUME NEW t \in Threads, Step(t)
        PROVE  failures' = failures
    BY <1>2 DEF Step, ReleaseLocks, Unsubscribed, Put, Replaced, Removed, Find, Add, Count
  <1>3. ASSUME NEW t \in Threads, Tell(t) \/ Reading(t) \/ Signal(t), ~TellNoMemory(t), ~CopyFails(t)
        PROVE  failures' = failures
    BY <1>3 DEF Tell, TellBegin, TellOne, TellEnd, Reading, Take, Copied, Empty, WakeUp, Signal
  <1>4. ASSUME NEW t \in Threads, NEW f \in Files, FileCall(t, f)
        PROVE  failures' = failures
    BY <1>4 DEF FileCall, Open, Release, Subscribe, Unsubscribe, Read
  <1>5. ASSUME NEW t \in Threads, NEW f \in Files, NEW n \in Names, ElementCall(t, f, n)
        PROVE  failures' = failures
    BY <1>5 DEF ElementCall, Write, Lock, Unlock, Remove, AddCheck, Replace
  <1>6. Shutdown \/ Disconnect \/ UNCHANGED vars => failures' = failures
    BY DEF Shutdown, Disconnect, vars
  <1> QED
    BY <1>1, <1>2, <1>3, <1>4, <1>5, <1>6 DEF Next

LEMMA BoundedStep ==
    ASSUME TypeInv, Bounded, [Next]_vars, TypeInv'
    PROVE  Bounded'
  <1>1. /\ \A n \in Names : elem[n].numid \in Nat /\ elem'[n].numid \in Nat
        /\ last_numid \in Nat /\ elem \in ElemType
    BY NumberFacts DEF TypeInv, ElemType
  <1>2. failures' \in 0..MaxFailures
    BY FailuresAreCounted DEF Bounded
  <1>3. CASE KeepsNumbers
    <2>1. \A n \in Names : elem'[n].numid <= elem[n].numid /\ elem[n].numid <= last_numid /\ last_numid' = last_numid
      BY <1>3 DEF KeepsNumbers, Bounded
    <2>2. \A n \in Names : elem'[n].numid <= last_numid'
      BY <1>1, <2>1
    <2> QED
      BY <1>2, <2>2 DEF Bounded
  <1>4. ASSUME NEW t \in Threads, Add(t)
        PROVE  Bounded'
    <2>1. CASE UNCHANGED <<elem, last_numid>>
      BY <1>2, <2>1 DEF Bounded
    <2>2. CASE ~UNCHANGED <<elem, last_numid>>
      <3>1. /\ elem' = [elem EXCEPT ![pc[t].name] =
                          [numid |-> last_numid + 1, owner |-> pc[t].file, user |-> TRUE]]
            /\ last_numid' = last_numid + 1
        BY <1>4, <2>2 DEF Add
      <3>2. \A n \in Names : elem'[n].numid = elem[n].numid \/ elem'[n].numid = last_numid + 1
        BY <1>1, <3>1 DEF ElemType
      <3>3. \A n \in Names : elem'[n].numid <= last_numid'
        BY <1>1, <3>1, <3>2 DEF Bounded
      <3> QED
        BY <1>2, <3>3 DEF Bounded
    <2> QED
      BY <2>1, <2>2
  <1> QED
    BY <1>3, <1>4, NumbersAreGiven

LEMMA BoundedInit ==
    ASSUME Init
    PROVE  Bounded
  <1>1. Cardinality(Fixed) \in Nat
    BY ControlAssumption, FS_CardinalityType
  <1>2. PICK number \in [Fixed -> 1..Cardinality(Fixed)] :
           elem = [n \in Names |-> IF n \in Fixed
                                   THEN [numid |-> number[n], owner |-> None, user |-> FALSE]
                                   ELSE Absent]
    BY DEF Init
  <1>3. \A n \in Names : elem[n].numid <= last_numid
    <2>1. ASSUME NEW n \in Names, n \in Fixed
          PROVE  elem[n].numid = number[n] /\ number[n] \in 1..Cardinality(Fixed)
      BY <1>2, <2>1
    <2>2. ASSUME NEW n \in Names, n \notin Fixed
          PROVE  elem[n].numid = 0
      BY <1>2, <2>2 DEF Absent
    <2>3. last_numid = Cardinality(Fixed)
      BY DEF Init
    <2> QED
      BY <1>1, <2>1, <2>2, <2>3
  <1> QED
    BY <1>3, ControlAssumption DEF Init, Bounded

\* Every variable has its type: in particular no announcement runs beyond the list of
\* files, although files are opened and released all the time, and no element has a
\* number past last_numid, whatever snd_ctl_add, snd_ctl_remove and the replacing of an
\* element do meanwhile.
THEOREM TypeCorrect == Spec => []TypeOK
  <1>1. Inv /\ Bounded => TypeOK
    <2>1. ASSUME TypeInv, TellersInList, Bounded
          PROVE  TypeOK
      <3>1. Len(files) \in Nat
        BY <2>1, LenProperties DEF TypeInv
      <3>2. \A t \in Threads : pc[t].file \in Files \cup {None} /\ tell[t].at \in 0..(Len(files) + 1)
        BY <2>1, <3>1 DEF TypeInv, TellersInList, PcType, TellType
      <3>3. sem.writer \in Threads \cup {None} /\ sem.readers \subseteq Threads
        BY <2>1 DEF TypeInv
      <3> QED
        BY <2>1, <3>2, <3>3 DEF TypeInv, Bounded, TypeOK, ElemType, Events, Numbers
    <2> QED
      BY <2>1 DEF Inv
  <1>2. Init => Inv /\ Bounded
    BY InvInit, BoundedInit
  <1>3. Inv /\ Bounded /\ [Next]_vars => Inv' /\ Bounded'
    <2>1. ASSUME Inv, Bounded, [Next]_vars
          PROVE  Inv' /\ Bounded'
      <3>1. Inv'
        BY <2>1, InvStep
      <3> QED
        BY <2>1, <3>1, BoundedStep DEF Inv
    <2> QED
      BY <2>1
  <1> QED
    BY <1>1, <1>2, <1>3, PTL DEF Spec

\* snd_ctl_elem_write: the element that the driver is asked to change is there, and
\* its owner, if it has one, is the file that writes.
THEOREM WritesAreAllowed == Spec => []WriterMayWrite
  BY Invariance, PTL DEF Inv

\* snd_ctl_release: no element is locked by a file that has been freed.
THEOREM NoOrphanedLock == Spec => []OwnerIsOpen
  BY Invariance, PTL DEF Inv

\* snd_ctl_read and snd_ctl_notify: no wake-up is lost.
THEOREM NoOversleeping == Spec => []NoReaderOversleeps
  BY Invariance, PTL DEF Inv

=============================================================================
