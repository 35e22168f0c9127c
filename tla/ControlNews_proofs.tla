------------------------- MODULE ControlNews_proofs -------------------------
(***************************************************************************)
(* Module Control implements module ControlNews: whatever a file is owed   *)
(* it is told but for what each counted failure loses, for any number of   *)
(* threads, files and elements.                                            *)
(***************************************************************************)
EXTENDS Control_proofs

(***************************************************************************)
(* What the refinement needs to know besides Inv.                          *)
(***************************************************************************)
\* No file is in the list twice.
FilesDiffer == \A i, j \in 1..Len(files) : files[i] = files[j] => i = j

\* A file that is being released is not in the list any more, and until it is freed
\* it may still be subscribed.
ReleasedIsOut == \A t \in Threads : pc[t].at = "release" => pc[t].file \notin ListOf(files)
SubscribedIsKnown ==
    \A f \in Files : subscribed[f] =>
        f \in ListOf(files) \/ \E t \in Threads : pc[t].at = "release" /\ pc[t].file = f

\* A reader has an event in its hand only while it copies it.
HandsEmpty == \A t \in Threads : pc[t].at # "copy" => hand[t] = NoEvent

\* A change or a removal is announced of an element that has a number.
TellersKnow ==
    \A t \in Threads : pc[t].at = "tell" /\ tell[t].mask # "ADD" => tell[t].numid \in 1..MaxNumid

NewsInv == FilesDiffer /\ ReleasedIsOut /\ SubscribedIsKnown /\ HandsEmpty /\ TellersKnow

(***************************************************************************)
(* Most steps leave everything alone that ControlNews knows of.            *)
(***************************************************************************)
Watched == {"release", "unsubscribe", "tell", "copy"}

Quiet ==
    /\ UNCHANGED <<files, subscribed, events, tell, hand, failures>>
    /\ \A u \in Threads :
          /\ \A place \in Watched : pc'[u].at = place <=> pc[u].at = place
          /\ pc[u].at \in Watched => pc'[u].file = pc[u].file

LEMMA QuietKeeps ==
    ASSUME NewsInv, Quiet
    PROVE  NewsInv'
  <1>1. FilesDiffer' /\ HandsEmpty'
    BY DEF NewsInv, Quiet, Watched, FilesDiffer, HandsEmpty
  <1>2. ReleasedIsOut'
    BY DEF NewsInv, Quiet, Watched, ReleasedIsOut
  <1>3. SubscribedIsKnown'
    BY DEF NewsInv, Quiet, Watched, SubscribedIsKnown
  <1>4. TellersKnow'
    BY DEF NewsInv, Quiet, Watched, TellersKnow
  <1> QED
    BY <1>1, <1>2, <1>3, <1>4 DEF NewsInv

LEMMA QuietWrite ==
    ASSUME Inv, NEW t \in Threads, NEW f \in Files, NEW n \in Names, Write(t, f, n)
    PROVE  Quiet
  BY DEF Inv, TypeInv, PcType, Quiet, Watched, Write, Call, Begins, CanRead

LEMMA QuietLock ==
    ASSUME Inv, NEW t \in Threads, NEW f \in Files, NEW n \in Names, Lock(t, f, n)
    PROVE  Quiet
  BY DEF Inv, TypeInv, PcType, Quiet, Watched, Lock, Call, CanWrite

LEMMA QuietUnlock ==
    ASSUME Inv, NEW t \in Threads, NEW f \in Files, NEW n \in Names, Unlock(t, f, n)
    PROVE  Quiet
  BY DEF Inv, TypeInv, PcType, Quiet, Watched, Unlock, Call, CanWrite

LEMMA QuietAddCheck ==
    ASSUME Inv, NEW t \in Threads, NEW f \in Files, NEW n \in Names, AddCheck(t, f, n)
    PROVE  Quiet
  BY DEF Inv, TypeInv, PcType, Quiet, Watched, AddCheck, Call, Begins

LEMMA QuietRead ==
    ASSUME Inv, NEW t \in Threads, NEW f \in Files, Read(t, f)
    PROVE  Quiet
  BY DEF Inv, TypeInv, PcType, Quiet, Watched, Read, Call, Begins

LEMMA QuietRemoved ==
    ASSUME Inv, NEW t \in Threads, Removed(t)
    PROVE  Quiet
  <1>1. Arrives(t, "idle")
    BY GoesOn DEF Inv, Removed, Calls
  <1> QED
    BY <1>1 DEF Quiet, Watched, Arrives, Removed

LEMMA QuietFind ==
    ASSUME Inv, NEW t \in Threads, Find(t)
    PROVE  Quiet
  <1>1. Arrives(t, IF Present(pc[t].name) THEN "idle" ELSE "add")
    BY GoesOn DEF Inv, Find, Calls
  <1> QED
    BY <1>1 DEF Quiet, Watched, Arrives, Find

LEMMA QuietReplaced ==
    ASSUME Inv, NEW t \in Threads, NEW valid \in BOOLEAN, Replaced(t, valid)
    PROVE  Quiet
  <1>1. Arrives(t, IF valid THEN "add" ELSE "idle")
    BY GoesOn DEF Inv, Replaced, Calls
  <1> QED
    BY <1>1 DEF Quiet, Watched, Arrives, Replaced

LEMMA QuietCount ==
    ASSUME Inv, NEW t \in Threads, Count(t)
    PROVE  Quiet
  <1>1. Arrives(t, "idle")
    BY GoesOn DEF Inv, Count, Calls
  <1> QED
    BY <1>1 DEF Quiet, Watched, Arrives, Count

LEMMA QuietEmpty ==
    ASSUME Inv, NEW t \in Threads, Empty(t)
    PROVE  Quiet
  <1>1. Arrives(t, IF pc[t].at = "read" THEN "asleep" ELSE "idle")
    BY GoesOn DEF Inv, Empty, Calls
  <1> QED
    BY <1>1 DEF Quiet, Watched, Arrives, Empty

LEMMA QuietWakeUp ==
    ASSUME Inv, NEW t \in Threads, WakeUp(t)
    PROVE  Quiet
  <1>1. Arrives(t, IF card = "up" THEN "read" ELSE "idle")
    BY GoesOn DEF Inv, WakeUp, Calls
  <1> QED
    BY <1>1 DEF Quiet, Watched, Arrives, WakeUp

LEMMA QuietSignal ==
    ASSUME Inv, NEW t \in Threads, Signal(t)
    PROVE  Quiet
  <1>1. Arrives(t, "idle")
    BY GoesOn DEF Inv, Signal, Calls
  <1> QED
    BY <1>1 DEF Quiet, Watched, Arrives, Signal

LEMMA QuietShutdown ==
    ASSUME Inv, Shutdown
    PROVE  Quiet
  BY DEF Quiet, Shutdown

LEMMA QuietDisconnect ==
    ASSUME Inv, Disconnect
    PROVE  Quiet
  <1>1. \A u \in Threads :
           /\ pc'[u].file = pc[u].file
           /\ pc'[u].at = pc[u].at \/ (pc[u].at = "asleep" /\ pc'[u].at = "woken")
    BY WokenFacts DEF Inv, Disconnect
  <1> QED
    BY <1>1 DEF Quiet, Watched, Disconnect

(***************************************************************************)
(* The others keep NewsInv.                                                *)
(***************************************************************************)
LEMMA NewsOpen ==
    ASSUME Inv, NewsInv, NEW t \in Threads, NEW f \in Files, Open(t, f)
    PROVE  NewsInv'
  <1>1. /\ files' \in Seq(Files) /\ Len(files') = Len(files) + 1 /\ Len(files) \in Nat
        /\ \A g \in ListOf(files) : g \in ListOf(files)'
    BY OneMore, LenProperties DEF Inv, TypeInv, Open
  <1>2. /\ \A i \in 1..Len(files) : files'[i] = files[i] /\ files[i] # f
        /\ files'[Len(files) + 1] = f
    BY AppendProperties DEF Inv, TypeInv, Open, ListOf
  <1>3. FilesDiffer'
    BY <1>1, <1>2 DEF NewsInv, FilesDiffer
  <1>4. ReleasedIsOut'
    <2>1. \A g \in ListOf(files)' : g \in ListOf(files) \/ g = f
      BY <1>1, <1>2 DEF ListOf
    <2> QED
      BY <2>1 DEF NewsInv, ReleasedIsOut, Open
  <1>5. SubscribedIsKnown'
    BY <1>1 DEF NewsInv, SubscribedIsKnown, Open
  <1>6. HandsEmpty' /\ TellersKnow'
    BY DEF NewsInv, HandsEmpty, TellersKnow, Open
  <1> QED
    BY <1>3, <1>4, <1>5, <1>6 DEF NewsInv

\* What is left of a list of different files when one is taken out of it.
LEMMA OneGone ==
    ASSUME NEW f, files \in Seq(Files), FilesDiffer, Delisted(f)
    PROVE  /\ \A g \in ListOf(files) : g # f => g \in ListOf(files)'
           /\ \A g \in ListOf(files)' : g \in ListOf(files) /\ g # f
           /\ FilesDiffer'
  <1>1. PICK i \in 1..Len(files) :
           /\ files[i] = f /\ Len(files') = Len(files) - 1
           /\ \A j \in 1..Len(files) - 1 : files'[j] = IF j < i THEN files[j] ELSE files[j + 1]
    BY OneLess
  <1>2. Len(files) \in Nat
    BY LenProperties
  <1>3. ASSUME NEW j \in 1..Len(files')
        PROVE  files'[j] # f
    BY <1>1, <1>2 DEF FilesDiffer
  <1>4. FilesDiffer'
    <2> SUFFICES ASSUME NEW j \in 1..Len(files'), NEW k \in 1..Len(files'), files'[j] = files'[k]
                 PROVE  j = k
      BY DEF FilesDiffer
    <2> DEFINE at(m) == IF m < i THEN m ELSE m + 1
    <2>1. at(j) \in 1..Len(files) /\ at(k) \in 1..Len(files) /\ files[at(j)] = files[at(k)]
      BY <1>1, <1>2
    <2>2. at(j) = at(k)
      BY <2>1 DEF FilesDiffer
    <2> QED
      BY <2>2, <1>1, <1>2
  <1> QED
    BY <1>3, <1>4, OneLess, ZenonT(60) DEF ListOf

LEMMA NewsRelease ==
    ASSUME Inv, NewsInv, NEW t \in Threads, NEW f \in Files, Release(t, f)
    PROVE  NewsInv'
  <1>1. /\ \A g \in ListOf(files) : g # f => g \in ListOf(files)'
        /\ \A g \in ListOf(files)' : g \in ListOf(files) /\ g # f
        /\ FilesDiffer'
    BY OneGone DEF Inv, TypeInv, NewsInv, Release
  <1>2. /\ pc[t].at = "idle" /\ pc'[t].at = "release" /\ pc'[t].file = f
        /\ \A u \in Threads : u # t => pc'[u] = pc[u]
        /\ UNCHANGED <<subscribed, tell, hand>>
    BY DEF Inv, TypeInv, PcType, Release, Begins
  <1>3. ReleasedIsOut'
    BY <1>1, <1>2 DEF NewsInv, ReleasedIsOut
  <1>4. SubscribedIsKnown'
    BY <1>1, <1>2 DEF NewsInv, SubscribedIsKnown
  <1>5. HandsEmpty' /\ TellersKnow'
    BY <1>2 DEF NewsInv, HandsEmpty, TellersKnow
  <1> QED
    BY <1>1, <1>3, <1>4, <1>5 DEF NewsInv

LEMMA NewsReleaseLocks ==
    ASSUME Inv, NewsInv, NEW t \in Threads, ReleaseLocks(t)
    PROVE  NewsInv'
  <1>1. Arrives(t, "idle") /\ pc[t].at = "release" /\ UNCHANGED <<files, tell, hand>>
    BY GoesOn DEF Inv, ReleaseLocks, Calls
  <1>2. \A f \in Files : subscribed'[f] => subscribed[f] /\ f # pc[t].file
    BY DEF Inv, TypeInv, ReleaseLocks
  <1>3. SubscribedIsKnown'
    BY <1>1, <1>2 DEF NewsInv, SubscribedIsKnown, Arrives
  <1>4. FilesDiffer' /\ ReleasedIsOut'
    BY <1>1 DEF NewsInv, FilesDiffer, ReleasedIsOut, Arrives
  <1>5. HandsEmpty' /\ TellersKnow'
    BY <1>1 DEF NewsInv, HandsEmpty, TellersKnow, Arrives
  <1> QED
    BY <1>3, <1>4, <1>5 DEF NewsInv

LEMMA NewsSubscribe ==
    ASSUME Inv, NewsInv, NEW t \in Threads, NEW f \in Files, Subscribe(t, f)
    PROVE  NewsInv'
  <1>1. f \in ListOf(files) /\ UNCHANGED <<files, tell, hand, pc>>
    BY DEF Subscribe, Call
  <1>2. \A g \in Files : subscribed'[g] => subscribed[g] \/ g = f
    BY DEF Inv, TypeInv, Subscribe
  <1>3. SubscribedIsKnown'
    BY <1>1, <1>2 DEF NewsInv, SubscribedIsKnown
  <1> QED
    BY <1>1, <1>3 DEF NewsInv, FilesDiffer, ReleasedIsOut, HandsEmpty, TellersKnow

LEMMA NewsUnsubscribe ==
    ASSUME Inv, NewsInv, NEW t \in Threads, NEW f \in Files, Unsubscribe(t, f)
    PROVE  NewsInv'
  <1>1. /\ pc[t].at = "idle" /\ pc'[t].at = "unsubscribe"
        /\ \A u \in Threads : u # t => pc'[u] = pc[u]
        /\ UNCHANGED <<files, subscribed, tell, hand>>
    BY DEF Inv, TypeInv, PcType, Unsubscribe, Call, Begins
  <1>2. FilesDiffer' /\ ReleasedIsOut'
    BY <1>1 DEF NewsInv, FilesDiffer, ReleasedIsOut
  <1>3. SubscribedIsKnown'
    BY <1>1 DEF NewsInv, SubscribedIsKnown
  <1>4. HandsEmpty'
    BY <1>1 DEF NewsInv, HandsEmpty
  <1>5. TellersKnow'
    BY <1>1 DEF NewsInv, TellersKnow
  <1> QED
    BY <1>2, <1>3, <1>4, <1>5 DEF NewsInv

LEMMA NewsUnsubscribed ==
    ASSUME Inv, NewsInv, NEW t \in Threads, Unsubscribed(t)
    PROVE  NewsInv'
  <1>0. Arrives(t, "idle")
    BY GoesOn DEF Inv, Unsubscribed, Calls
  <1>1. /\ pc[t].at = "unsubscribe" /\ pc'[t].at = "idle"
        /\ \A u \in Threads : u # t => pc'[u] = pc[u]
        /\ \A g \in Files : subscribed'[g] => subscribed[g]
        /\ UNCHANGED <<files, tell, hand>>
    BY <1>0 DEF Inv, TypeInv, Unsubscribed, Arrives
  <1>2. FilesDiffer' /\ ReleasedIsOut'
    BY <1>1 DEF NewsInv, FilesDiffer, ReleasedIsOut
  <1>3. SubscribedIsKnown'
    BY <1>1 DEF NewsInv, SubscribedIsKnown
  <1>4. HandsEmpty'
    BY <1>1 DEF NewsInv, HandsEmpty
  <1>5. TellersKnow'
    BY <1>1 DEF NewsInv, TellersKnow
  <1> QED
    BY <1>2, <1>3, <1>4, <1>5 DEF NewsInv

LEMMA NewsTellBegin ==
    ASSUME Inv, NewsInv, NEW t \in Threads, TellBegin(t)
    PROVE  NewsInv'
  <1>1. /\ \A u \in Threads : tell'[u].mask = tell[u].mask /\ tell'[u].numid = tell[u].numid
        /\ UNCHANGED <<files, subscribed, pc, hand>>
    BY DEF Inv, TypeInv, TellType, TellBegin
  <1>2. FilesDiffer' /\ ReleasedIsOut'
    BY <1>1 DEF NewsInv, FilesDiffer, ReleasedIsOut
  <1>3. SubscribedIsKnown'
    BY <1>1 DEF NewsInv, SubscribedIsKnown
  <1>4. HandsEmpty'
    BY <1>1 DEF NewsInv, HandsEmpty
  <1>5. TellersKnow'
    BY <1>1 DEF NewsInv, TellersKnow
  <1> QED
    BY <1>2, <1>3, <1>4, <1>5 DEF NewsInv

\* One announcement reaches one file.
LEMMA TellOneFacts ==
    ASSUME Inv, NEW t \in Threads, TellOne(t)
    PROVE  /\ \A u \in Threads : tell'[u].mask = tell[u].mask /\ tell'[u].numid = tell[u].numid
           /\ \A u \in Threads : tell'[u].at = IF u = t THEN tell[u].at + 1 ELSE tell[u].at
           /\ \A u \in Threads :
                /\ pc'[u].file = pc[u].file
                /\ pc'[u].at = pc[u].at \/ (pc[u].at = "asleep" /\ pc'[u].at = "woken")
           /\ UNCHANGED <<files, subscribed, hand, failures>>
  <1>1. tell' = [tell EXCEPT ![t].at = @ + 1] /\ UNCHANGED <<files, subscribed, hand, failures>>
    BY DEF TellOne
  <1>2. /\ \A u \in Threads : tell'[u].mask = tell[u].mask /\ tell'[u].numid = tell[u].numid
        /\ \A u \in Threads : tell'[u].at = IF u = t THEN tell[u].at + 1 ELSE tell[u].at
    BY <1>1 DEF Inv, TypeInv, TellType
  <1>3. PICK fs : pc' = pc \/ pc' = Woken(fs, pc)
    BY DEF TellOne
  <1>4. \A u \in Threads :
           /\ pc'[u].file = pc[u].file
           /\ pc'[u].at = pc[u].at \/ (pc[u].at = "asleep" /\ pc'[u].at = "woken")
    BY <1>3, WokenFacts DEF Inv
  <1> QED
    BY <1>1, <1>2, <1>4

LEMMA TellNoMemoryFacts ==
    ASSUME Inv, NEW t \in Threads, TellNoMemory(t)
    PROVE  /\ \A u \in Threads : tell'[u].mask = tell[u].mask /\ tell'[u].numid = tell[u].numid
           /\ \A u \in Threads : tell'[u].at = IF u = t THEN tell[u].at + 1 ELSE tell[u].at
           /\ \A u \in Threads :
                /\ pc'[u].file = pc[u].file
                /\ pc'[u].at = pc[u].at \/ (pc[u].at = "asleep" /\ pc'[u].at = "woken")
           /\ UNCHANGED <<files, subscribed, events, hand>>
  <1>1. tell' = [tell EXCEPT ![t].at = @ + 1] /\ UNCHANGED <<files, subscribed, events, hand>>
    BY DEF TellNoMemory
  <1>2. /\ \A u \in Threads : tell'[u].mask = tell[u].mask /\ tell'[u].numid = tell[u].numid
        /\ \A u \in Threads : tell'[u].at = IF u = t THEN tell[u].at + 1 ELSE tell[u].at
    BY <1>1 DEF Inv, TypeInv, TellType
  <1>3. \A u \in Threads :
           /\ pc'[u].file = pc[u].file
           /\ pc'[u].at = pc[u].at \/ (pc[u].at = "asleep" /\ pc'[u].at = "woken")
    BY WokenFacts DEF Inv, TellNoMemory
  <1> QED
    BY <1>1, <1>2, <1>3

LEMMA NewsTellOne ==
    ASSUME Inv, NewsInv, NEW t \in Threads, TellOne(t)
    PROVE  NewsInv'
  <1>1. /\ \A u \in Threads : tell'[u].mask = tell[u].mask /\ tell'[u].numid = tell[u].numid
        /\ \A u \in Threads :
             /\ pc'[u].file = pc[u].file
             /\ pc'[u].at = pc[u].at \/ (pc[u].at = "asleep" /\ pc'[u].at = "woken")
        /\ UNCHANGED <<files, subscribed, hand>>
    BY TellOneFacts DEF Inv
  <1>2. FilesDiffer' /\ ReleasedIsOut'
    BY <1>1 DEF NewsInv, FilesDiffer, ReleasedIsOut
  <1>3. SubscribedIsKnown'
    BY <1>1 DEF NewsInv, SubscribedIsKnown
  <1>4. HandsEmpty'
    BY <1>1 DEF NewsInv, HandsEmpty
  <1>5. TellersKnow'
    BY <1>1 DEF NewsInv, TellersKnow
  <1> QED
    BY <1>2, <1>3, <1>4, <1>5 DEF NewsInv

LEMMA NewsTellNoMemory ==
    ASSUME Inv, NewsInv, NEW t \in Threads, TellNoMemory(t)
    PROVE  NewsInv'
  <1>1. /\ \A u \in Threads : tell'[u].mask = tell[u].mask /\ tell'[u].numid = tell[u].numid
        /\ \A u \in Threads :
             /\ pc'[u].file = pc[u].file
             /\ pc'[u].at = pc[u].at \/ (pc[u].at = "asleep" /\ pc'[u].at = "woken")
        /\ UNCHANGED <<files, subscribed, hand>>
    BY TellNoMemoryFacts DEF Inv
  <1>2. FilesDiffer' /\ ReleasedIsOut'
    BY <1>1 DEF NewsInv, FilesDiffer, ReleasedIsOut
  <1>3. SubscribedIsKnown'
    BY <1>1 DEF NewsInv, SubscribedIsKnown
  <1>4. HandsEmpty'
    BY <1>1 DEF NewsInv, HandsEmpty
  <1>5. TellersKnow'
    BY <1>1 DEF NewsInv, TellersKnow
  <1> QED
    BY <1>2, <1>3, <1>4, <1>5 DEF NewsInv

LEMMA NewsTellEnd ==
    ASSUME Inv, NewsInv, NEW t \in Threads, TellEnd(t)
    PROVE  NewsInv'
  <1>0. Arrives(t, tell[t].next) /\ tell[t].next \in Afterwards
    BY GoesOn DEF Inv, TypeInv, TellType, TellEnd, Calls, Afterwards
  <1>1. /\ pc[t].at = "tell" /\ pc'[t].at \notin {"tell", "copy", "release"}
        /\ \A u \in Threads : u # t => pc'[u] = pc[u]
        /\ UNCHANGED <<files, subscribed, hand>>
    BY <1>0 DEF TellEnd, Arrives, Afterwards
  <1>6. \A u \in Threads : u # t => tell'[u] = tell[u]
    BY DEF Inv, TypeInv, TellType, TellEnd
  <1>2. FilesDiffer' /\ ReleasedIsOut'
    BY <1>1 DEF NewsInv, FilesDiffer, ReleasedIsOut
  <1>3. SubscribedIsKnown'
    BY <1>1 DEF NewsInv, SubscribedIsKnown
  <1>4. HandsEmpty'
    BY <1>1 DEF NewsInv, HandsEmpty
  <1>5. TellersKnow'
    BY <1>1, <1>6 DEF NewsInv, TellersKnow
  <1> QED
    BY <1>2, <1>3, <1>4, <1>5 DEF NewsInv

LEMMA NewsPut ==
    ASSUME Inv, NewsInv, NEW t \in Threads, NEW changed \in BOOLEAN, Put(t, changed)
    PROVE  NewsInv'
  <1>0. Arrives(t, IF changed THEN "tell" ELSE "idle")
    BY GoesOn DEF Inv, Put, Calls
  <1>1. /\ pc[t].at = "put" /\ pc'[t].at = (IF changed THEN "tell" ELSE "idle")
        /\ \A u \in Threads : u # t => pc'[u] = pc[u]
        /\ UNCHANGED <<files, subscribed, hand>>
    BY <1>0 DEF Put, Arrives
  <1>6. elem[pc[t].name].numid \in 1..MaxNumid
    BY <1>1 DEF Inv, TypeInv, CallsAreOpen, WriterMayWrite, MayWrite, Present, ElemType, Numbers
  <1>7. /\ \A u \in Threads : u # t => tell'[u] = tell[u]
        /\ changed => tell'[t].numid \in 1..MaxNumid
    BY <1>6 DEF Inv, TypeInv, TellType, Put, Tells
  <1>2. FilesDiffer' /\ ReleasedIsOut'
    BY <1>1 DEF NewsInv, FilesDiffer, ReleasedIsOut
  <1>3. SubscribedIsKnown'
    BY <1>1 DEF NewsInv, SubscribedIsKnown
  <1>4. HandsEmpty'
    BY <1>1 DEF NewsInv, HandsEmpty
  <1>5. TellersKnow'
    BY <1>1, <1>7 DEF NewsInv, TellersKnow
  <1> QED
    BY <1>2, <1>3, <1>4, <1>5 DEF NewsInv

LEMMA NewsRemove ==
    ASSUME Inv, NewsInv, NEW t \in Threads, NEW f \in Files, NEW n \in Names, Remove(t, f, n)
    PROVE  NewsInv'
  <1>1. /\ pc[t].at = "idle" /\ pc'[t].at = "tell"
        /\ \A u \in Threads : u # t => pc'[u] = pc[u]
        /\ UNCHANGED <<files, subscribed, hand>>
    BY DEF Inv, TypeInv, PcType, Remove, Call, Removes, Begins
  <1>6. elem[n].numid \in 1..MaxNumid
    BY DEF Inv, TypeInv, MayWrite, Present, ElemType, Numbers, Remove
  <1>7. /\ \A u \in Threads : u # t => tell'[u] = tell[u]
        /\ tell'[t].numid \in 1..MaxNumid
    BY <1>6 DEF Inv, TypeInv, TellType, Remove, Removes, Tells
  <1>2. FilesDiffer' /\ ReleasedIsOut'
    BY <1>1 DEF NewsInv, FilesDiffer, ReleasedIsOut
  <1>3. SubscribedIsKnown'
    BY <1>1 DEF NewsInv, SubscribedIsKnown
  <1>4. HandsEmpty'
    BY <1>1 DEF NewsInv, HandsEmpty
  <1>5. TellersKnow'
    BY <1>1, <1>7 DEF NewsInv, TellersKnow
  <1> QED
    BY <1>2, <1>3, <1>4, <1>5 DEF NewsInv

LEMMA NewsReplace ==
    ASSUME Inv, NewsInv, NEW t \in Threads, NEW f \in Files, NEW n \in Names, Replace(t, f, n)
    PROVE  NewsInv'
  <1>1. /\ pc[t].at = "idle" /\ pc'[t].at = "tell"
        /\ \A u \in Threads : u # t => pc'[u] = pc[u]
        /\ UNCHANGED <<files, subscribed, hand>>
    BY DEF Inv, TypeInv, PcType, Replace, Call, Removes, Begins
  <1>6. elem[n].numid \in 1..MaxNumid
    BY DEF Inv, TypeInv, MayWrite, Present, ElemType, Numbers, Replace
  <1>7. /\ \A u \in Threads : u # t => tell'[u] = tell[u]
        /\ tell'[t].numid \in 1..MaxNumid
    BY <1>6 DEF Inv, TypeInv, TellType, Replace, Removes, Tells
  <1>2. FilesDiffer' /\ ReleasedIsOut'
    BY <1>1 DEF NewsInv, FilesDiffer, ReleasedIsOut
  <1>3. SubscribedIsKnown'
    BY <1>1 DEF NewsInv, SubscribedIsKnown
  <1>4. HandsEmpty'
    BY <1>1 DEF NewsInv, HandsEmpty
  <1>5. TellersKnow'
    BY <1>1, <1>7 DEF NewsInv, TellersKnow
  <1> QED
    BY <1>2, <1>3, <1>4, <1>5 DEF NewsInv

LEMMA NewsAdd ==
    ASSUME Inv, NewsInv, NEW t \in Threads, Add(t)
    PROVE  NewsInv'
  <1>0. Arrives(t, IF Present(pc[t].name) THEN "idle" ELSE "tell")
    BY GoesOn DEF Inv, Add, Calls
  <1>1. /\ pc[t].at = "add" /\ pc'[t].at \in {"tell", "idle"}
        /\ \A u \in Threads : u # t => pc'[u] = pc[u]
        /\ UNCHANGED <<files, subscribed, hand>>
    BY <1>0 DEF Add, Arrives
  <1>7. /\ \A u \in Threads : u # t => tell'[u] = tell[u]
        /\ pc'[t].at = "tell" => tell'[t].mask = "ADD"
    BY <1>0 DEF Inv, TypeInv, TellType, Add, Tells, Arrives
  <1>2. FilesDiffer' /\ ReleasedIsOut'
    BY <1>1 DEF NewsInv, FilesDiffer, ReleasedIsOut
  <1>3. SubscribedIsKnown'
    BY <1>1 DEF NewsInv, SubscribedIsKnown
  <1>4. HandsEmpty'
    BY <1>1 DEF NewsInv, HandsEmpty
  <1>5. TellersKnow'
    BY <1>1, <1>7 DEF NewsInv, TellersKnow
  <1> QED
    BY <1>2, <1>3, <1>4, <1>5 DEF NewsInv

LEMMA NewsTake ==
    ASSUME Inv, NewsInv, NEW t \in Threads, Take(t)
    PROVE  NewsInv'
  <1>0. Arrives(t, "copy")
    BY GoesOn DEF Inv, Take, Calls
  <1>1. /\ pc[t].at \in {"read", "got"} /\ pc'[t].at = "copy"
        /\ \A u \in Threads : u # t => pc'[u] = pc[u] /\ hand'[u] = hand[u]
        /\ UNCHANGED <<files, subscribed, tell>>
    BY <1>0 DEF Inv, TypeInv, Take, Arrives
  <1>2. FilesDiffer' /\ ReleasedIsOut'
    BY <1>1 DEF NewsInv, FilesDiffer, ReleasedIsOut
  <1>3. SubscribedIsKnown'
    BY <1>1 DEF NewsInv, SubscribedIsKnown
  <1>4. HandsEmpty'
    BY <1>1 DEF NewsInv, HandsEmpty
  <1>5. TellersKnow'
    BY <1>1 DEF NewsInv, TellersKnow
  <1> QED
    BY <1>2, <1>3, <1>4, <1>5 DEF NewsInv

LEMMA NewsCopied ==
    ASSUME Inv, NewsInv, NEW t \in Threads, NEW more \in BOOLEAN, Copied(t, more)
    PROVE  NewsInv'
  <1>0. Arrives(t, IF more THEN "got" ELSE "idle")
    BY GoesOn DEF Inv, Copied, Calls
  <1>1. /\ pc[t].at = "copy" /\ pc'[t].at \in {"got", "idle"} /\ hand'[t] = NoEvent
        /\ \A u \in Threads : u # t => pc'[u] = pc[u] /\ hand'[u] = hand[u]
        /\ UNCHANGED <<files, subscribed, tell>>
    BY <1>0 DEF Inv, TypeInv, Copied, Arrives
  <1>2. FilesDiffer' /\ ReleasedIsOut'
    BY <1>1 DEF NewsInv, FilesDiffer, ReleasedIsOut
  <1>3. SubscribedIsKnown'
    BY <1>1 DEF NewsInv, SubscribedIsKnown
  <1>4. HandsEmpty'
    BY <1>1 DEF NewsInv, HandsEmpty
  <1>5. TellersKnow'
    BY <1>1 DEF NewsInv, TellersKnow
  <1> QED
    BY <1>2, <1>3, <1>4, <1>5 DEF NewsInv

LEMMA NewsCopyFails ==
    ASSUME Inv, NewsInv, NEW t \in Threads, CopyFails(t)
    PROVE  NewsInv'
  <1>0. Arrives(t, "idle")
    BY GoesOn DEF Inv, CopyFails, Calls
  <1>1. /\ pc[t].at = "copy" /\ pc'[t].at = "idle" /\ hand'[t] = NoEvent
        /\ \A u \in Threads : u # t => pc'[u] = pc[u] /\ hand'[u] = hand[u]
        /\ UNCHANGED <<files, subscribed, tell>>
    BY <1>0 DEF Inv, TypeInv, CopyFails, Arrives
  <1>2. FilesDiffer' /\ ReleasedIsOut'
    BY <1>1 DEF NewsInv, FilesDiffer, ReleasedIsOut
  <1>3. SubscribedIsKnown'
    BY <1>1 DEF NewsInv, SubscribedIsKnown
  <1>4. HandsEmpty'
    BY <1>1 DEF NewsInv, HandsEmpty
  <1>5. TellersKnow'
    BY <1>1 DEF NewsInv, TellersKnow
  <1> QED
    BY <1>2, <1>3, <1>4, <1>5 DEF NewsInv

LEMMA NewsInvStep ==
    ASSUME Inv, NewsInv, [Next]_vars
    PROVE  NewsInv'
  <1>1. ASSUME NEW t \in Threads, Step(t)
        PROVE  NewsInv'
    BY <1>1, QuietKeeps, NewsReleaseLocks, NewsUnsubscribed, NewsPut, QuietReplaced, QuietRemoved, QuietFind,
       NewsAdd, QuietCount DEF Step
  <1>2. ASSUME NEW t \in Threads, Tell(t) \/ Reading(t) \/ Signal(t)
        PROVE  NewsInv'
    BY <1>2, QuietKeeps, NewsTellBegin, NewsTellOne, NewsTellNoMemory, NewsTellEnd, NewsTake,
       NewsCopied, NewsCopyFails, QuietEmpty, QuietWakeUp, QuietSignal DEF Tell, Reading
  <1>3. ASSUME NEW t \in Threads, NEW f \in Files, FileCall(t, f)
        PROVE  NewsInv'
    BY <1>3, QuietKeeps, NewsOpen, NewsRelease, NewsSubscribe, NewsUnsubscribe, QuietRead DEF FileCall
  <1>4. ASSUME NEW t \in Threads, NEW f \in Files, NEW n \in Names, ElementCall(t, f, n)
        PROVE  NewsInv'
    BY <1>4, QuietKeeps, QuietWrite, QuietLock, QuietUnlock, NewsRemove, QuietAddCheck, NewsReplace DEF ElementCall
  <1>5. CASE UNCHANGED vars
    BY <1>5, QuietKeeps DEF vars, Quiet
  <1> QED
    BY <1>1, <1>2, <1>3, <1>4, <1>5, QuietKeeps, QuietShutdown, QuietDisconnect DEF Next

(***************************************************************************)
(* Facts in a queue, on their way and in a hand.                           *)
(***************************************************************************)
Facts == (1..MaxNumid) \X {"VALUE", "REMOVE"}

LEMMA FactsIn ==
    \A es, x : x \in FactsOf(es) <=> x \in Facts /\ \E e \in es : e.numid = x[1] /\ x[2] \in e.mask
  BY DEF FactsOf, Facts

LEMMA FactsOfOne == \A e, x : x \in FactsOf({e}) <=> x \in Facts /\ e.numid = x[1] /\ x[2] \in e.mask
  BY FactsIn

\* Merging neither loses nor invents a fact.
LEMMA FactsOfMerged ==
    ASSUME NEW queue \in Seq(Events), NEW k \in Numbers, NEW m \in Masks, NEW e,
           e = [numid |-> k, mask |-> {m}]
    PROVE  FactsOf(ListOf(Merged(queue, e))) = FactsOf(ListOf(queue)) \cup FactsOf({e})
  <1>0. Len(queue) \in Nat /\ e \in Events /\ \A i \in 1..Len(queue) : queue[i] \in Events
    BY LenProperties DEF Events
  <1>1. CASE \E i \in 1..Len(queue) : queue[i].numid = k
    <2> DEFINE new == [i \in 1..Len(queue) |->
                         IF queue[i].numid = e.numid
                         THEN [queue[i] EXCEPT !.mask = @ \cup e.mask] ELSE queue[i]]
    <2>1. Merged(queue, e) = new
      BY <1>1 DEF Merged
    <2>2. \A i \in 1..Len(queue) :
             /\ new[i].numid = queue[i].numid
             /\ new[i].mask = IF queue[i].numid = k THEN queue[i].mask \cup {m} ELSE queue[i].mask
      BY <1>0 DEF Events
    <2>3. Len(new) = Len(queue)
      BY <1>0
    <2>4. ListOf(new) = {new[i] : i \in 1..Len(queue)}
      BY <2>3 DEF ListOf
    <2> HIDE DEF new
    <2>5. ASSUME NEW x \in FactsOf(ListOf(new))
          PROVE  x \in FactsOf(ListOf(queue)) \cup FactsOf({e})
      <3>1. PICK i \in 1..Len(queue) : x \in Facts /\ new[i].numid = x[1] /\ x[2] \in new[i].mask
        BY <2>4, FactsIn
      <3>2. CASE x[2] \in queue[i].mask
        BY <3>1, <3>2, <2>2, FactsIn, ZenonT(60) DEF ListOf
      <3>3. CASE x[2] \notin queue[i].mask
        <4>1. x[1] = e.numid /\ x[2] \in e.mask
          BY <3>1, <3>3, <2>2
        <4> QED
          BY <3>1, <4>1, FactsIn
      <3> QED
        BY <3>2, <3>3
    <2>6. ASSUME NEW x \in FactsOf(ListOf(queue))
          PROVE  x \in FactsOf(ListOf(new))
      <3>1. PICK i \in 1..Len(queue) : x \in Facts /\ queue[i].numid = x[1] /\ x[2] \in queue[i].mask
        BY FactsIn DEF ListOf
      <3>2. new[i].numid = x[1] /\ x[2] \in new[i].mask /\ new[i] \in ListOf(new)
        BY <3>1, <2>2, <2>4
      <3> QED
        BY <3>1, <3>2, FactsIn
    <2>7. ASSUME NEW x \in FactsOf({e})
          PROVE  x \in FactsOf(ListOf(new))
      <3>1. x \in Facts /\ x[1] = k /\ x[2] = m
        BY FactsIn
      <3>2. PICK i \in 1..Len(queue) : queue[i].numid = k
        BY <1>1
      <3>3. new[i].numid = x[1] /\ x[2] \in new[i].mask /\ new[i] \in ListOf(new)
        BY <3>1, <3>2, <2>2, <2>4
      <3> QED
        BY <3>1, <3>3, FactsIn
    <2> QED
      BY <2>1, <2>5, <2>6, <2>7
  <1>2. CASE ~\E i \in 1..Len(queue) : queue[i].numid = k
    <2>1. Merged(queue, e) = Append(queue, e)
      BY <1>2 DEF Merged
    <2>2. ListOf(Append(queue, e)) = ListOf(queue) \cup {e}
      <3>1. /\ Len(Append(queue, e)) = Len(queue) + 1
            /\ \A i \in 1..Len(queue) : Append(queue, e)[i] = queue[i]
            /\ Append(queue, e)[Len(queue) + 1] = e
        BY <1>0, AppendProperties
      <3> QED
        BY <1>0, <3>1 DEF ListOf
    <2>3. FactsOf(ListOf(queue) \cup {e}) = FactsOf(ListOf(queue)) \cup FactsOf({e})
      BY FactsIn
    <2> QED
      BY <2>1, <2>2, <2>3
  <1> QED
    BY <1>1, <1>2

LEMMA FactsOfTail ==
    ASSUME NEW queue \in Seq(Events), queue # <<>>
    PROVE  FactsOf(ListOf(queue)) = FactsOf({Head(queue)}) \cup FactsOf(ListOf(Tail(queue)))
  <1>1. /\ Len(queue) \in Nat \ {0} /\ Head(queue) = queue[1] /\ Len(Tail(queue)) = Len(queue) - 1
        /\ \A i \in 1..Len(queue) - 1 : Tail(queue)[i] = queue[i + 1]
    BY HeadTailProperties, EmptySeq
  <1>2. ListOf(queue) = {Head(queue)} \cup ListOf(Tail(queue))
    <2>1. ASSUME NEW e \in ListOf(queue)
          PROVE  e \in {Head(queue)} \cup ListOf(Tail(queue))
      <3>1. PICK i \in 1..Len(queue) : queue[i] = e
        BY DEF ListOf
      <3>2. CASE i = 1
        BY <1>1, <3>1, <3>2
      <3>3. CASE i > 1
        <4>1. i - 1 \in 1..Len(Tail(queue)) /\ Tail(queue)[i - 1] = e
          BY <1>1, <3>1, <3>3
        <4> QED
          BY <4>1 DEF ListOf
      <3> QED
        BY <1>1, <3>2, <3>3
    <2>2. ASSUME NEW e \in ListOf(Tail(queue))
          PROVE  e \in ListOf(queue)
      <3>1. PICK i \in 1..Len(Tail(queue)) : Tail(queue)[i] = e
        BY DEF ListOf
      <3>2. i + 1 \in 1..Len(queue) /\ queue[i + 1] = e
        BY <1>1, <3>1
      <3> QED
        BY <3>2 DEF ListOf
    <2>3. Head(queue) \in ListOf(queue)
      BY <1>1 DEF ListOf
    <2> QED
      BY <2>1, <2>2, <2>3
  <1> QED
    BY <1>2, FactsIn

LEMMA NoFacts == FactsOf({NoEvent}) = {} /\ FactsOf(ListOf(<<>>)) = {}
  BY FactsIn DEF NoEvent, ListOf

\* A thread brings a file the fact that it announces.
Brings(u, f) ==
    /\ pc[u].at = "tell" /\ tell[u].mask # "ADD"
    /\ \E i \in 1..Len(files) : i >= tell[u].at /\ files[i] = f

LEMMA OnTheWayIs ==
    \A f : OnTheWay(f) = {<<tell[u].numid, tell[u].mask>> : u \in {v \in Threads : Brings(v, f)}}
  BY DEF OnTheWay, Brings

LEMMA SameWay ==
    ASSUME NEW f,
           \A u \in Threads :
              /\ Brings(u, f)' <=> Brings(u, f)
              /\ Brings(u, f) => tell'[u].numid = tell[u].numid /\ tell'[u].mask = tell[u].mask
    PROVE  OnTheWay(f)' = OnTheWay(f)
  <1>1. OnTheWay(f)' = {<<tell'[u].numid, tell'[u].mask>> : u \in {v \in Threads : Brings(v, f)'}}
    BY DEF OnTheWay, Brings
  <1> HIDE DEF Brings
  <1> QED
    BY <1>1, OnTheWayIs

\* From the first file on, an announcement is on its way to all of them.
LEMMA FromTheStart ==
    \A s \in Seq(Files) : \A f : (\E i \in 1..Len(s) : i >= 0 /\ s[i] = f) <=> f \in ListOf(s)
  BY LenProperties DEF ListOf

LEMMA FactsOnTheWay ==
    ASSUME Inv, NewsInv, NEW f
    PROVE  OnTheWay(f) \subseteq Facts
  <1>1. \A u \in Threads : Brings(u, f) => <<tell[u].numid, tell[u].mask>> \in Facts
    BY DEF Inv, TypeInv, TellType, Masks, NewsInv, TellersKnow, Brings, Facts
  <1> QED
    BY <1>1, OnTheWayIs

LEMMA ListeningIs ==
    \A f : f \in Listening <=>
        /\ f \in ListOf(files) /\ subscribed[f]
        /\ \A t \in Threads : ~(pc[t].at = "unsubscribe" /\ pc[t].file = f)
  BY DEF Listening

(***************************************************************************)
(* What the steps are for ControlNews.                                     *)
(***************************************************************************)
Same == UNCHANGED <<Listening, Owed, InHand, failures>>

LEMMA SameNews ==
    ASSUME Listening' = Listening, hand' = hand, failures' = failures,
           \A f \in Files : f \in Listening => events'[f] = events[f] /\ OnTheWay(f)' = OnTheWay(f)
    PROVE  Same
  <1>1. Owed' = Owed
    BY DEF Owed, FactsOf
  <1>2. InHand' = InHand
    BY DEF InHand, FactsOf
  <1> QED
    BY <1>1, <1>2 DEF Same

LEMMA QuietIsSame ==
    ASSUME Quiet
    PROVE  Same
  <1>1. Listening' = Listening
    BY DEF Quiet, Watched, Listening
  <1>2. \A f \in Files : OnTheWay(f)' = OnTheWay(f)
    <2> SUFFICES ASSUME NEW f \in Files
                 PROVE  OnTheWay(f)' = OnTheWay(f)
      OBVIOUS
    <2>1. \A u \in Threads : (Brings(u, f)' <=> Brings(u, f)) /\ tell'[u] = tell[u]
      BY DEF Quiet, Watched, Brings
    <2> QED
      BY <2>1, SameWay
  <1> QED
    BY <1>1, <1>2, SameNews DEF Quiet

LEMMA IsOpen ==
    ASSUME Inv, NewsInv, NEW t \in Threads, NEW f \in Files, Open(t, f)
    PROVE  Same
  <1>1. /\ files' \in Seq(Files) /\ files \in Seq(Files) /\ NobodyTells
        /\ \A g \in ListOf(files) : g \in ListOf(files)'
        /\ \A g \in ListOf(files)' : g \in ListOf(files) \/ g = f
        /\ UNCHANGED <<subscribed, events, pc, tell, hand, failures>>
    <2>1. /\ files' \in Seq(Files) /\ Len(files') = Len(files) + 1 /\ Len(files) \in Nat
          /\ \A i \in 1..Len(files) : files'[i] = files[i]
          /\ files'[Len(files) + 1] = f
      BY AppendProperties, LenProperties DEF Inv, TypeInv, Open
    <2> QED
      BY <2>1, OneMore DEF Inv, TypeInv, Open, ListOf
  <1>2. ~subscribed[f]
    BY DEF NewsInv, SubscribedIsKnown, Open
  <1>3. Listening' = Listening
    BY <1>1, <1>2 DEF Listening
  <1>4. ASSUME NEW g \in Files, g \in Listening
        PROVE  OnTheWay(g)' = OnTheWay(g)
    <2>1. g \in ListOf(files) /\ g \in ListOf(files)'
      BY <1>1, <1>4, ListeningIs
    <2>2. ASSUME NEW u \in Threads
          PROVE  (Brings(u, g)' <=> Brings(u, g)) /\ tell'[u] = tell[u]
      BY <1>1, <2>1, FromTheStart DEF Brings, NobodyTells
    <2> QED
      BY <2>2, SameWay
  <1> QED
    BY <1>1, <1>3, <1>4, SameNews

LEMMA IsRelease ==
    ASSUME Inv, NewsInv, NEW t \in Threads, NEW f \in Files, Release(t, f)
    PROVE  Same \/ News!Leave(f)
  <1>1. /\ \A g \in ListOf(files) : g # f => g \in ListOf(files)'
        /\ \A g \in ListOf(files)' : g \in ListOf(files) /\ g # f
        /\ files \in Seq(Files) /\ files' \in Seq(Files)
    BY OneGone, OneLess DEF Inv, TypeInv, NewsInv, Release
  <1>2. /\ pc[t].at = "idle" /\ pc'[t].at = "release" /\ NobodyTells
        /\ \A u \in Threads : u # t => pc'[u] = pc[u]
        /\ UNCHANGED <<subscribed, events, tell, hand, failures>>
    BY DEF Inv, TypeInv, PcType, Release, Begins
  <1>3. Listening' = Listening \ {f}
    <2>1. \A g : g \in Listening' <=> g \in Listening /\ g # f
      BY <1>1, <1>2 DEF Listening
    <2> QED
      BY <2>1
  <1>4. ASSUME NEW g \in Files, g \in Listening'
        PROVE  OnTheWay(g)' = OnTheWay(g)
    <2>1. g \in ListOf(files) /\ g \in ListOf(files)'
      BY <1>1, <1>3, <1>4, ListeningIs
    <2>2. ASSUME NEW u \in Threads
          PROVE  (Brings(u, g)' <=> Brings(u, g)) /\ tell'[u] = tell[u]
      BY <1>1, <1>2, <2>1, FromTheStart, SMTT(30) DEF Brings, NobodyTells
    <2> QED
      BY <2>2, SameWay
  <1>5. CASE f \in Listening
    <2>1. Owed' = [Owed EXCEPT ![f] = {}]
      BY <1>2, <1>3, <1>4 DEF Owed, FactsOf
    <2> QED
      BY <2>1, <1>2, <1>3, <1>5 DEF News!Leave, InHand, FactsOf
  <1>6. CASE f \notin Listening
    BY <1>2, <1>3, <1>4, <1>6, SameNews
  <1> QED
    BY <1>5, <1>6

LEMMA IsReleaseLocks ==
    ASSUME Inv, NewsInv, NEW t \in Threads, ReleaseLocks(t)
    PROVE  Same
  <1>1. Arrives(t, "idle") /\ pc[t].at = "release" /\ UNCHANGED <<files, tell, hand, failures>>
    BY GoesOn DEF Inv, ReleaseLocks, Calls
  <1>2. \A f \in Files : f # pc[t].file => subscribed'[f] = subscribed[f] /\ events'[f] = events[f]
    BY DEF Inv, TypeInv, ReleaseLocks
  <1>3. pc[t].file \notin ListOf(files) /\ \A f \in ListOf(files) : f \in Files
    BY <1>1, LenProperties DEF Inv, TypeInv, NewsInv, ReleasedIsOut, ListOf
  <1>4. Listening' = Listening
    BY <1>1, <1>2, <1>3 DEF Listening, Arrives
  <1>5. ASSUME NEW f \in Files
        PROVE  OnTheWay(f)' = OnTheWay(f)
    <2>1. \A u \in Threads : (Brings(u, f)' <=> Brings(u, f)) /\ tell'[u] = tell[u]
      BY <1>1 DEF Brings, Arrives
    <2> QED
      BY <2>1, SameWay
  <1>6. \A f \in Files : f \in Listening => events'[f] = events[f]
    BY <1>2, <1>3, ListeningIs
  <1> QED
    BY <1>1, <1>4, <1>5, <1>6, SameNews

LEMMA IsSubscribe ==
    ASSUME Inv, NewsInv, NEW t \in Threads, NEW f \in Files, Subscribe(t, f)
    PROVE  Same \/ News!Listen(f)
  <1>1. f \in ListOf(files) /\ UNCHANGED <<files, events, tell, hand, pc, failures>>
    BY DEF Subscribe, Call
  <1>2. \A g \in Files : subscribed'[g] = IF g = f THEN TRUE ELSE subscribed[g]
    BY DEF Inv, TypeInv, Subscribe
  <1>3. \A g \in ListOf(files) : g \in Files
    BY LenProperties DEF Inv, TypeInv, ListOf
  <1>4. \A g : OnTheWay(g)' = OnTheWay(g)
    BY <1>1 DEF OnTheWay
  <1>5. CASE f \in Listening \/ f \notin Listening'
    <2>1. Listening' = Listening
      BY <1>1, <1>2, <1>3, <1>5 DEF Listening
    <2> QED
      BY <1>1, <1>4, <2>1, SameNews
  <1>6. CASE f \notin Listening /\ f \in Listening'
    <2>1. Listening' = Listening \cup {f}
      BY <1>1, <1>2, <1>3, <1>6 DEF Listening
    <2> DEFINE recent == FactsOf(ListOf(events[f])) \cup OnTheWay(f)
    <2>2. recent \in SUBSET Facts
      BY FactsIn, FactsOnTheWay
    <2>3. Owed' = [Owed EXCEPT ![f] = recent]
      BY <1>1, <1>4, <1>6, <2>1 DEF Owed, FactsOf
    <2>4. InHand' = InHand
      BY <1>1 DEF InHand, FactsOf
    <2> HIDE DEF recent
    <2> QED
      BY <1>1, <1>6, <2>1, <2>2, <2>3, <2>4 DEF News!Listen, News!Facts, Facts
  <1> QED
    BY <1>5, <1>6

LEMMA IsUnsubscribe ==
    ASSUME Inv, NewsInv, NEW t \in Threads, NEW f \in Files, Unsubscribe(t, f)
    PROVE  Same \/ News!Leave(f)
  <1>1. /\ pc[t].at = "idle" /\ pc'[t].at = "unsubscribe" /\ pc'[t].file = f
        /\ \A u \in Threads : u # t => pc'[u] = pc[u]
        /\ \A g \in Files : g # f => events'[g] = events[g]
        /\ UNCHANGED <<files, subscribed, tell, hand, failures>>
    BY DEF Inv, TypeInv, PcType, Unsubscribe, Call, Begins
  <1>3. Listening' = Listening \ {f}
    BY <1>1 DEF Listening
  <1>4. ASSUME NEW g \in Files
        PROVE  OnTheWay(g)' = OnTheWay(g)
    <2>1. \A u \in Threads : (Brings(u, g)' <=> Brings(u, g)) /\ tell'[u] = tell[u]
      BY <1>1 DEF Brings
    <2> QED
      BY <2>1, SameWay
  <1>5. CASE f \in Listening
    <2>1. Owed' = [Owed EXCEPT ![f] = {}]
      BY <1>1, <1>3, <1>4 DEF Owed, FactsOf
    <2> QED
      BY <2>1, <1>1, <1>3, <1>5 DEF News!Leave, InHand, FactsOf
  <1>6. CASE f \notin Listening
    BY <1>1, <1>3, <1>4, <1>6, SameNews
  <1> QED
    BY <1>5, <1>6

LEMMA IsUnsubscribed ==
    ASSUME Inv, NewsInv, NEW t \in Threads, Unsubscribed(t)
    PROVE  Same
  <1>1. Arrives(t, "idle") /\ pc[t].at = "unsubscribe" /\ UNCHANGED <<files, events, tell, hand, failures>>
    BY GoesOn DEF Inv, Unsubscribed, Calls
  <1>2. \A f \in Files : subscribed'[f] = IF f = pc[t].file THEN FALSE ELSE subscribed[f]
    BY DEF Inv, TypeInv, Unsubscribed
  <1>3. \A f \in ListOf(files) : f \in Files
    BY LenProperties DEF Inv, TypeInv, ListOf
  <1>4. ASSUME NEW g
        PROVE  g \in Listening' <=> g \in Listening
    <2>1. ListOf(files)' = ListOf(files)
      BY <1>1
    <2>2. CASE g \notin ListOf(files)
      BY <2>1, <2>2, ListeningIs DEF Listening
    <2>3. CASE g \in ListOf(files) /\ g = pc[t].file
      <3>1. g \notin Listening
        BY <1>1, <2>3, ListeningIs
      <3>2. g \notin Listening'
        BY <1>2, <1>3, <2>3 DEF Listening
      <3> QED
        BY <3>1, <3>2
    <2>4. CASE g \in ListOf(files) /\ g # pc[t].file
      <3>1. subscribed'[g] = subscribed[g]
        BY <1>2, <1>3, <2>4
      <3>2. \A u \in Threads : (pc'[u].at = "unsubscribe" /\ pc'[u].file = g)
                                <=> (pc[u].at = "unsubscribe" /\ pc[u].file = g)
        BY <1>1, <2>4 DEF Arrives
      <3> QED
        BY <2>1, <3>1, <3>2 DEF Listening
    <2> QED
      BY <2>2, <2>3, <2>4
  <1>5. ASSUME NEW f \in Files
        PROVE  OnTheWay(f)' = OnTheWay(f)
    <2>1. \A u \in Threads : (Brings(u, f)' <=> Brings(u, f)) /\ tell'[u] = tell[u]
      BY <1>1 DEF Brings, Arrives
    <2> QED
      BY <2>1, SameWay
  <1>6. Listening' = Listening
    BY <1>4
  <1> QED
    BY <1>1, <1>6, <1>5, SameNews

LEMMA IsTellBegin ==
    ASSUME Inv, NewsInv, NEW t \in Threads, TellBegin(t)
    PROVE  Same
  <1>1. /\ pc[t].at = "tell" /\ tell[t].at = 0 /\ tell'[t].at = 1
        /\ \A u \in Threads : tell'[u].mask = tell[u].mask /\ tell'[u].numid = tell[u].numid
        /\ \A u \in Threads : u # t => tell'[u] = tell[u]
        /\ UNCHANGED <<files, subscribed, events, pc, hand, failures>>
    BY DEF Inv, TypeInv, TellType, TellBegin
  <1>2. Listening' = Listening
    BY <1>1 DEF Listening
  <1>3. ASSUME NEW f \in Files
        PROVE  OnTheWay(f)' = OnTheWay(f)
    <2>1. Len(files) \in Nat
      BY LenProperties DEF Inv, TypeInv
    <2>2. Brings(t, f)' <=> Brings(t, f)
      BY <1>1, <2>1 DEF Brings
    <2>3. \A u \in Threads : u # t => (Brings(u, f)' <=> Brings(u, f))
      BY <1>1 DEF Brings
    <2> QED
      BY <1>1, <2>2, <2>3, SameWay
  <1> QED
    BY <1>1, <1>2, <1>3, SameNews

LEMMA IsTellEnd ==
    ASSUME Inv, NewsInv, NEW t \in Threads, TellEnd(t)
    PROVE  Same
  <1>0. Arrives(t, tell[t].next) /\ tell[t].next \in Afterwards
    BY GoesOn DEF Inv, TypeInv, TellType, TellEnd, Calls, Afterwards
  <1>1. /\ pc[t].at = "tell" /\ pc'[t].at \notin {"tell", "unsubscribe"} /\ tell[t].at > Len(files)
        /\ \A u \in Threads : u # t => pc'[u] = pc[u] /\ tell'[u] = tell[u]
        /\ UNCHANGED <<files, subscribed, events, hand, failures>>
    BY <1>0 DEF Inv, TypeInv, TellType, TellEnd, Arrives, Afterwards
  <1>2. Listening' = Listening
    BY <1>1 DEF Listening
  <1>3. ASSUME NEW f \in Files
        PROVE  OnTheWay(f)' = OnTheWay(f)
    <2>1. ~Brings(t, f) /\ ~Brings(t, f)'
      BY <1>1, LenProperties DEF Inv, TypeInv, TellType, Brings
    <2>2. \A u \in Threads : u # t => (Brings(u, f)' <=> Brings(u, f))
      BY <1>1 DEF Brings
    <2> QED
      BY <1>1, <2>1, <2>2, SameWay
  <1> QED
    BY <1>1, <1>2, <1>3, SameNews

\* A change that is about to be announced comes about for all who listen.
LEMMA ComesAbout ==
    ASSUME Inv, NEW t \in Threads, NEW k \in 1..MaxNumid, NEW m \in {"VALUE", "REMOVE"},
           NEW place \in Afterwards, Tells(t, m, k, place),
           pc[t].at \notin {"tell", "unsubscribe"}, pc'[t].at = "tell",
           \A u \in Threads : u # t => pc'[u] = pc[u],
           UNCHANGED <<files, subscribed, events, hand, failures>>
    PROVE  \E x \in News!Facts : News!Happen(x)
  <1> DEFINE x == <<k, m>>
  <1>1. /\ tell'[t].at = 0 /\ tell'[t].mask = m /\ tell'[t].numid = k
        /\ \A u \in Threads : u # t => tell'[u] = tell[u]
    BY DEF Inv, TypeInv, TellType, Tells
  <1>2. Listening' = Listening
    BY DEF Listening
  <1>3. ASSUME NEW f \in Files, f \in Listening
        PROVE  OnTheWay(f)' = OnTheWay(f) \cup {x}
    <2>1. OnTheWay(f)' = {<<tell'[u].numid, tell'[u].mask>> : u \in {v \in Threads : Brings(v, f)'}}
      BY DEF OnTheWay, Brings
    <2>2. f \in ListOf(files)
      BY <1>3, ListeningIs
    <2>3. Brings(t, f)' /\ ~Brings(t, f)
      <3>1. \E i \in 1..Len(files) : i >= 0 /\ files[i] = f
        BY <2>2, FromTheStart DEF Inv, TypeInv
      <3> QED
        BY <1>1, <3>1 DEF Brings
    <2>4. \A u \in Threads : u # t => (Brings(u, f)' <=> Brings(u, f))
      BY <1>1 DEF Brings
    <2> QED
      BY <1>1, <2>1, <2>3, <2>4, OnTheWayIs
  <1>4. Owed' = [f \in Files |-> IF f \in Listening THEN Owed[f] \cup {x} ELSE Owed[f]]
    BY <1>2, <1>3 DEF Owed, FactsOf
  <1>5. InHand' = InHand
    BY DEF InHand, FactsOf
  <1>6. x \in News!Facts
    BY DEF News!Facts
  <1> HIDE DEF x
  <1> QED
    BY <1>2, <1>4, <1>5, <1>6 DEF News!Happen

LEMMA IsPut ==
    ASSUME Inv, NewsInv, NEW t \in Threads, NEW changed \in BOOLEAN, Put(t, changed)
    PROVE  Same \/ \E x \in News!Facts : News!Happen(x)
  <1>1. Arrives(t, IF changed THEN "tell" ELSE "idle") /\ pc[t].at = "put"
    BY GoesOn DEF Inv, Put, Calls
  <1>2. CASE changed
    <2>1. elem[pc[t].name].numid \in 1..MaxNumid
      BY <1>1 DEF Inv, TypeInv, CallsAreOpen, WriterMayWrite, MayWrite, Present, ElemType, Numbers
    <2>2. Tells(t, "VALUE", elem[pc[t].name].numid, "idle") /\ UNCHANGED <<files, subscribed, events, hand, failures>>
      BY <1>2 DEF Put
    <2> QED
      BY <1>1, <1>2, <2>1, <2>2, ComesAbout DEF Arrives, Afterwards
  <1>3. CASE ~changed
    <2>1. Quiet
      BY <1>1, <1>3 DEF Quiet, Watched, Arrives, Put
    <2> QED
      BY <2>1, QuietIsSame
  <1> QED
    BY <1>2, <1>3

LEMMA IsRemove ==
    ASSUME Inv, NewsInv, NEW t \in Threads, NEW f \in Files, NEW n \in Names, Remove(t, f, n)
    PROVE  \E x \in News!Facts : News!Happen(x)
  <1>1. /\ pc[t].at = "idle" /\ pc'[t].at = "tell"
        /\ \A u \in Threads : u # t => pc'[u] = pc[u]
        /\ Tells(t, "REMOVE", elem[n].numid, "removed")
        /\ UNCHANGED <<files, subscribed, events, hand, failures>>
    BY DEF Inv, TypeInv, PcType, Remove, Call, Removes, Begins
  <1>2. elem[n].numid \in 1..MaxNumid
    BY DEF Inv, TypeInv, MayWrite, Present, ElemType, Numbers, Remove
  <1> QED
    BY <1>1, <1>2, ComesAbout DEF Afterwards

LEMMA IsReplace ==
    ASSUME Inv, NewsInv, NEW t \in Threads, NEW f \in Files, NEW n \in Names, Replace(t, f, n)
    PROVE  \E x \in News!Facts : News!Happen(x)
  <1>1. /\ pc[t].at = "idle" /\ pc'[t].at = "tell"
        /\ \A u \in Threads : u # t => pc'[u] = pc[u]
        /\ Tells(t, "REMOVE", elem[n].numid, "replaced")
        /\ UNCHANGED <<files, subscribed, events, hand, failures>>
    BY DEF Inv, TypeInv, PcType, Replace, Call, Removes, Begins
  <1>2. elem[n].numid \in 1..MaxNumid
    BY DEF Inv, TypeInv, MayWrite, Present, ElemType, Numbers, Replace
  <1> QED
    BY <1>1, <1>2, ComesAbout DEF Afterwards

LEMMA IsAdd ==
    ASSUME Inv, NewsInv, NEW t \in Threads, Add(t)
    PROVE  Same
  <1>0. Arrives(t, IF Present(pc[t].name) THEN "idle" ELSE "tell")
    BY GoesOn DEF Inv, Add, Calls
  <1>1. /\ pc[t].at = "add" /\ pc'[t].at \in {"tell", "idle"}
        /\ \A u \in Threads : u # t => pc'[u] = pc[u] /\ tell'[u] = tell[u]
        /\ pc'[t].at = "tell" => tell'[t].mask = "ADD"
        /\ UNCHANGED <<files, subscribed, events, hand, failures>>
    BY <1>0 DEF Inv, TypeInv, TellType, Add, Tells, Arrives
  <1>2. Listening' = Listening
    BY <1>1 DEF Listening
  <1>3. ASSUME NEW f \in Files
        PROVE  OnTheWay(f)' = OnTheWay(f)
    <2>1. ~Brings(t, f) /\ ~Brings(t, f)'
      BY <1>1 DEF Brings
    <2>2. \A u \in Threads : u # t => (Brings(u, f)' <=> Brings(u, f))
      BY <1>1 DEF Brings
    <2> QED
      BY <1>1, <2>1, <2>2, SameWay
  <1> QED
    BY <1>1, <1>2, <1>3, SameNews

LEMMA IsTellOne ==
    ASSUME Inv, NewsInv, NEW t \in Threads, TellOne(t)
    PROVE  Same
  <1>0. PICK f \in Files : f = files[tell[t].at]
    BY LenProperties DEF Inv, TypeInv, TellOne
  <1> DEFINE e == [numid |-> tell[t].numid, mask |-> {tell[t].mask}]
             x == <<tell[t].numid, tell[t].mask>>
  <1>1. /\ \A u \in Threads : tell'[u].mask = tell[u].mask /\ tell'[u].numid = tell[u].numid
        /\ \A u \in Threads : tell'[u].at = IF u = t THEN tell[u].at + 1 ELSE tell[u].at
        /\ \A u \in Threads :
             /\ pc'[u].file = pc[u].file
             /\ pc'[u].at = pc[u].at \/ (pc[u].at = "asleep" /\ pc'[u].at = "woken")
        /\ UNCHANGED <<files, subscribed, hand, failures>>
    BY TellOneFacts
  <1>2. /\ f = files[tell[t].at] /\ Len(files) \in Nat /\ tell[t].at \in 1..Len(files) /\ pc[t].at = "tell"
        /\ \A u \in Threads : tell[u].at \in Nat
        /\ tell[t].mask \in Masks /\ tell[t].numid \in Numbers
    BY <1>0, LenProperties DEF Inv, TypeInv, TellType, TellOne
  <1>3. IF subscribed[f] THEN events' = [events EXCEPT ![f] = Merged(@, e)] ELSE UNCHANGED events
    BY <1>0 DEF TellOne
  <1>4. Listening' = Listening
    BY <1>1 DEF Listening
  <1>5. ASSUME NEW g \in Files, NEW u \in Threads, g # f \/ u # t
        PROVE  Brings(u, g)' <=> Brings(u, g)
    BY <1>1, <1>2, <1>5, SMTT(30) DEF Brings
  <1>6. ~Brings(t, f)' /\ (Brings(t, f) <=> tell[t].mask # "ADD")
    <2>1. \A i \in 1..Len(files) : files[i] = f => i = tell[t].at
      BY <1>2 DEF NewsInv, FilesDiffer
    <2> QED
      BY <1>1, <1>2, <2>1 DEF Brings
  <1>7. ASSUME NEW g \in Files, g \in Listening, g # f
        PROVE  events'[g] = events[g] /\ OnTheWay(g)' = OnTheWay(g)
    <2>1. events'[g] = events[g]
      BY <1>3, <1>7 DEF Inv, TypeInv
    <2> QED
      BY <1>1, <1>5, <1>7, <2>1, SameWay
  <1>8. CASE f \notin Listening
    BY <1>1, <1>4, <1>7, <1>8, SameNews
  <1>9. CASE f \in Listening
    <2>1. events'[f] = Merged(events[f], e) /\ events[f] \in Seq(Events)
      BY <1>2, <1>3, <1>9, ListeningIs DEF Inv, TypeInv
    <2>2. FactsOf(ListOf(events'[f])) = FactsOf(ListOf(events[f])) \cup FactsOf({e})
      BY <1>2, <2>1, FactsOfMerged, ZenonT(60)
    <2>3. FactsOf({e}) = IF tell[t].mask # "ADD" THEN {x} ELSE {}
      <3>1. CASE tell[t].mask # "ADD"
        <4>1. x \in Facts
          BY <1>2, <3>1 DEF Masks, NewsInv, TellersKnow, Facts
        <4>2. \A y \in Facts : e.numid = y[1] /\ y[2] \in e.mask <=> y = x
          BY <4>1 DEF Facts
        <4> QED
          <5>1. \A y : y \in FactsOf({e}) <=> y \in Facts /\ e.numid = y[1] /\ y[2] \in e.mask
            BY FactsOfOne
          <5> HIDE DEF e, x
          <5> QED
            BY <3>1, <4>1, <4>2, <5>1
      <3>2. CASE tell[t].mask = "ADD"
        <4>1. \A y \in Facts : y[2] \notin e.mask
          BY <3>2 DEF Facts
        <4> QED
          BY <3>2, <4>1, FactsIn
      <3> QED
        BY <3>1, <3>2
    <2>4. OnTheWay(f) = OnTheWay(f)' \cup FactsOf({e})
      <3>1. OnTheWay(f)' = {<<tell'[u].numid, tell'[u].mask>> : u \in {v \in Threads : Brings(v, f)'}}
        BY DEF OnTheWay, Brings
      <3>2. \A u \in Threads : u # t => (Brings(u, f)' <=> Brings(u, f))
        BY <1>2, <1>5
      <3> HIDE DEF e
      <3> QED
        BY <1>1, <1>6, <2>3, <3>1, <3>2, OnTheWayIs
    <2>5. FactsOf(ListOf(events'[f])) \cup OnTheWay(f)' = FactsOf(ListOf(events[f])) \cup OnTheWay(f)
      BY <2>2, <2>4
    <2>6. \A g \in Files : Owed'[g] = Owed[g]
      <3>1. \A g \in Files : g # f => Owed'[g] = Owed[g]
        BY <1>4, <1>7 DEF Owed, FactsOf
      <3>2. Owed'[f] = Owed[f]
        BY <1>2, <1>4, <2>5 DEF Owed, FactsOf
      <3> QED
        BY <3>1, <3>2
    <2>7. Owed' = Owed
      BY <2>6 DEF Owed
    <2>8. InHand' = InHand
      BY <1>1 DEF InHand, FactsOf
    <2> QED
      BY <1>1, <1>4, <2>7, <2>8 DEF Same
  <1> QED
    BY <1>8, <1>9

LEMMA IsTellNoMemory ==
    ASSUME Inv, NewsInv, NEW t \in Threads, TellNoMemory(t)
    PROVE  \E f \in Files : News!Lose(f)
  <1>0. PICK f \in Files : f = files[tell[t].at]
    BY LenProperties DEF Inv, TypeInv, TellNoMemory
  <1> DEFINE x == <<tell[t].numid, tell[t].mask>>
             lost == Owed[f] \ Owed'[f]
  <1>1. /\ \A u \in Threads : tell'[u].mask = tell[u].mask /\ tell'[u].numid = tell[u].numid
        /\ \A u \in Threads : tell'[u].at = IF u = t THEN tell[u].at + 1 ELSE tell[u].at
        /\ \A u \in Threads :
             /\ pc'[u].file = pc[u].file
             /\ pc'[u].at = pc[u].at \/ (pc[u].at = "asleep" /\ pc'[u].at = "woken")
        /\ UNCHANGED <<files, subscribed, events, hand>>
    BY TellNoMemoryFacts
  <1>2. /\ Len(files) \in Nat /\ tell[t].at \in 1..Len(files)
        /\ \A u \in Threads : tell[u].at \in Nat
    BY LenProperties DEF Inv, TypeInv, TellType, TellNoMemory
  <1>3. Listening' = Listening
    BY <1>1 DEF Listening
  <1>4. ASSUME NEW g \in Files, NEW u \in Threads, g # f \/ u # t
        PROVE  Brings(u, g)' <=> Brings(u, g)
    BY <1>0, <1>1, <1>2, <1>4, SMTT(30) DEF Brings
  <1>5. ~Brings(t, f)'
    <2>1. \A i \in 1..Len(files) : files[i] = f => i = tell[t].at
      BY <1>0, <1>2 DEF NewsInv, FilesDiffer
    <2> QED
      BY <1>1, <1>2, <2>1 DEF Brings
  <1>6. ASSUME NEW g \in Files, g # f
        PROVE  Owed'[g] = Owed[g]
    <2>1. OnTheWay(g)' = OnTheWay(g)
      BY <1>1, <1>4, <1>6, SameWay
    <2> QED
      BY <1>1, <1>3, <2>1 DEF Owed, FactsOf
  <1>7. OnTheWay(f)' \subseteq OnTheWay(f) /\ OnTheWay(f) \subseteq OnTheWay(f)' \cup {x}
    <2>1. OnTheWay(f)' = {<<tell'[u].numid, tell'[u].mask>> : u \in {v \in Threads : Brings(v, f)'}}
      BY DEF OnTheWay, Brings
    <2>2. \A u \in Threads : u # t => (Brings(u, f)' <=> Brings(u, f))
      BY <1>4
    <2> HIDE DEF Brings
    <2> QED
      BY <1>1, <1>5, <2>1, <2>2, OnTheWayIs
  <1>8. Owed'[f] \subseteq Owed[f] /\ lost \subseteq {x} /\ Owed[f] \subseteq Facts
    <2>1. /\ Owed[f] = IF f \in Listening THEN FactsOf(ListOf(events[f])) \cup OnTheWay(f) ELSE {}
          /\ Owed'[f] = IF f \in Listening THEN FactsOf(ListOf(events[f])) \cup OnTheWay(f)' ELSE {}
      BY <1>1, <1>3 DEF Owed, FactsOf
    <2>2. FactsOf(ListOf(events[f])) \subseteq Facts /\ OnTheWay(f) \subseteq Facts
      BY FactsIn, FactsOnTheWay
    <2> HIDE DEF x
    <2> QED
      BY <1>7, <2>1, <2>2
  <1>9. lost \in {{}} \cup {{y} : y \in News!Facts}
    <2>1. lost = {} \/ (lost = {x} /\ x \in Facts)
      <3> HIDE DEF x
      <3> QED
        BY <1>8
    <2> HIDE DEF lost, x
    <2> QED
      BY <2>1 DEF News!Facts, Facts
  <1>10. Owed' = [Owed EXCEPT ![f] = @ \ lost]
    <2>1. Owed' = [g \in Files |-> Owed'[g]] /\ Owed = [g \in Files |-> Owed[g]]
      BY DEF Owed
    <2>2. Owed'[f] = Owed[f] \ lost
      BY <1>8
    <2> HIDE DEF lost
    <2> QED
      BY <1>6, <2>1, <2>2
  <1>11. InHand' = InHand /\ failures' = failures + 1
    BY <1>1 DEF InHand, FactsOf, TellNoMemory
  <1> HIDE DEF lost
  <1> QED
    BY <1>3, <1>9, <1>10, <1>11 DEF News!Lose

LEMMA IsTake ==
    ASSUME Inv, NewsInv, NEW t \in Threads, Take(t)
    PROVE  Same \/ \E f \in Files, n \in 1..MaxNumid : News!Give(t, f, n)
  <1> DEFINE f == pc[t].file
             e == Head(events[f])
             given == FactsOf({e})
  <1>0. Arrives(t, "copy")
    BY GoesOn DEF Inv, Take, Calls
  <1>1. /\ pc[t].at \in {"read", "got"} /\ f \in Files
        /\ events[f] \in Seq(Events) /\ events[f] # <<>>
    BY DEF Inv, TypeInv, CallsAreOpen, Take
  <1>2. /\ events'[f] = Tail(events[f]) /\ \A g \in Files : g # f => events'[g] = events[g]
        /\ hand'[t] = e /\ \A u \in Threads : u # t => hand'[u] = hand[u]
        /\ \A u \in Threads : u # t => pc'[u] = pc[u]
        /\ pc'[t].at = "copy" /\ UNCHANGED <<files, subscribed, tell, failures>>
    BY <1>0, <1>1 DEF Inv, TypeInv, Take, Arrives
  <1>3. Listening' = Listening
    BY <1>1, <1>2 DEF Listening
  <1>4. \A g \in Files : OnTheWay(g)' = OnTheWay(g)
    <2> SUFFICES ASSUME NEW g \in Files
                 PROVE  OnTheWay(g)' = OnTheWay(g)
      OBVIOUS
    <2>1. \A u \in Threads : (Brings(u, g)' <=> Brings(u, g)) /\ tell'[u] = tell[u]
      BY <1>1, <1>2 DEF Brings
    <2> QED
      BY <2>1, SameWay
  <1>5. e \in Events /\ FactsOf(ListOf(events[f])) = given \cup FactsOf(ListOf(events'[f]))
    BY <1>1, <1>2, HeadTailProperties, FactsOfTail
  <1>6. hand[t] = NoEvent
    BY <1>1 DEF NewsInv, HandsEmpty
  <1>7. /\ \A g \in Files : g # f => Owed'[g] = Owed[g]
        /\ Owed[f] = IF f \in Listening THEN FactsOf(ListOf(events[f])) \cup OnTheWay(f) ELSE {}
        /\ Owed'[f] = IF f \in Listening THEN FactsOf(ListOf(events'[f])) \cup OnTheWay(f) ELSE {}
    <2> HIDE DEF f
    <2> QED
      BY <1>1, <1>2, <1>3, <1>4 DEF Owed, FactsOf
  <1>8. InHand[t] = {} /\ InHand' = [InHand EXCEPT ![t] = given]
    <2>1. InHand[t] = {}
      BY <1>6, NoFacts DEF InHand
    <2>2. InHand' = [u \in Threads |-> FactsOf({hand'[u]})]
      BY DEF InHand, FactsOf
    <2> HIDE DEF e
    <2> QED
      BY <1>2, <2>1, <2>2 DEF InHand
  <1>9. CASE given = {}
    <2> HIDE DEF f, e
    <2>1. Owed' = Owed
      <3>1. \A g \in Files : Owed'[g] = Owed[g]
        BY <1>5, <1>7, <1>9
      <3> QED
        BY <3>1 DEF Owed
    <2>2. InHand' = InHand
      BY <1>8, <1>9 DEF InHand
    <2> QED
      BY <1>2, <1>3, <2>1, <2>2 DEF Same
  <1>10. CASE given # {}
    <2> DEFINE n == e.numid
               again == given \cap Owed'[f]
    <2>1. n \in 1..MaxNumid /\ given \in SUBSET ({n} \X {"VALUE", "REMOVE"})
      BY <1>10, FactsIn DEF Facts
    <2>2. again \in SUBSET ({n} \X {"VALUE", "REMOVE"})
      BY <2>1
    <2>3. f \in Listening => given \subseteq Owed[f]
      BY <1>5, <1>7
    <2>4. Owed'[f] = (Owed[f] \ given) \cup (again \cap given \cap Owed[f])
      BY <1>5, <1>7
    <2>5. Owed' = [Owed EXCEPT ![f] = (@ \ given) \cup (again \cap given \cap @)]
      <3>1. Owed' = [g \in Files |-> Owed'[g]] /\ Owed = [g \in Files |-> Owed[g]]
        BY DEF Owed
      <3> HIDE DEF f, given, again
      <3> QED
        BY <1>1, <1>7, <2>4, <3>1
    <2> HIDE DEF f, given, again, n
    <2>6. News!Give(t, f, n)
      BY <1>2, <1>3, <1>8, <2>1, <2>2, <2>3, <2>5 DEF News!Give
    <2> QED
      BY <1>1, <2>1, <2>6
  <1> QED
    BY <1>9, <1>10

LEMMA IsCopied ==
    ASSUME Inv, NewsInv, NEW t \in Threads, NEW more \in BOOLEAN, Copied(t, more)
    PROVE  News!Told(t)
  <1>0. Arrives(t, IF more THEN "got" ELSE "idle")
    BY GoesOn DEF Inv, Copied, Calls
  <1>1. /\ pc[t].at = "copy" /\ pc'[t].at \in {"got", "idle"}
        /\ hand'[t] = NoEvent /\ \A u \in Threads : u # t => hand'[u] = hand[u]
        /\ \A u \in Threads : u # t => pc'[u] = pc[u]
        /\ UNCHANGED <<files, subscribed, events, tell, failures>>
    BY <1>0 DEF Inv, TypeInv, Copied, Arrives
  <1>2. Listening' = Listening
    BY <1>1 DEF Listening
  <1>3. \A f \in Files : OnTheWay(f)' = OnTheWay(f)
    <2> SUFFICES ASSUME NEW f \in Files
                 PROVE  OnTheWay(f)' = OnTheWay(f)
      OBVIOUS
    <2>1. \A u \in Threads : (Brings(u, f)' <=> Brings(u, f)) /\ tell'[u] = tell[u]
      BY <1>1 DEF Brings
    <2> QED
      BY <2>1, SameWay
  <1>4. Owed' = Owed
    BY <1>1, <1>2, <1>3 DEF Owed, FactsOf
  <1>5. InHand' = [InHand EXCEPT ![t] = {}]
    <2>1. InHand' = [u \in Threads |-> FactsOf({hand'[u]})]
      BY DEF InHand, FactsOf
    <2> QED
      BY <1>1, <2>1, NoFacts DEF InHand
  <1> QED
    BY <1>1, <1>2, <1>4, <1>5 DEF News!Told

LEMMA IsCopyFails ==
    ASSUME Inv, NewsInv, NEW t \in Threads, CopyFails(t)
    PROVE  News!Drop(t)
  <1>0. Arrives(t, "idle")
    BY GoesOn DEF Inv, CopyFails, Calls
  <1>1. /\ pc[t].at = "copy" /\ pc'[t].at = "idle"
        /\ hand'[t] = NoEvent /\ \A u \in Threads : u # t => hand'[u] = hand[u]
        /\ \A u \in Threads : u # t => pc'[u] = pc[u]
        /\ UNCHANGED <<files, subscribed, events, tell>> /\ failures' = failures + 1
    BY <1>0 DEF Inv, TypeInv, CopyFails, Arrives
  <1>2. Listening' = Listening
    BY <1>1 DEF Listening
  <1>3. \A f \in Files : OnTheWay(f)' = OnTheWay(f)
    <2> SUFFICES ASSUME NEW f \in Files
                 PROVE  OnTheWay(f)' = OnTheWay(f)
      OBVIOUS
    <2>1. \A u \in Threads : (Brings(u, f)' <=> Brings(u, f)) /\ tell'[u] = tell[u]
      BY <1>1 DEF Brings
    <2> QED
      BY <2>1, SameWay
  <1>4. Owed' = Owed
    BY <1>1, <1>2, <1>3 DEF Owed, FactsOf
  <1>5. InHand' = [InHand EXCEPT ![t] = {}]
    <2>1. InHand' = [u \in Threads |-> FactsOf({hand'[u]})]
      BY DEF InHand, FactsOf
    <2> QED
      BY <1>1, <2>1, NoFacts DEF InHand
  <1> QED
    BY <1>1, <1>2, <1>4, <1>5 DEF News!Drop

(***************************************************************************)
(* The theorem.                                                            *)
(***************************************************************************)
(***************************************************************************)
(* The theorem.                                                            *)
(***************************************************************************)
LEMMA NewsStep ==
    ASSUME Inv, NewsInv, [Next]_vars
    PROVE  News!Next \/ Same
  <1>1. ASSUME NEW t \in Threads, Step(t)
        PROVE  News!Next \/ Same
    BY <1>1, QuietIsSame, IsReleaseLocks, IsUnsubscribed, IsPut, QuietReplaced, QuietRemoved, QuietFind,
       IsAdd, QuietCount DEF Step, News!Next
  <1>2. ASSUME NEW t \in Threads, Tell(t) \/ Reading(t) \/ Signal(t)
        PROVE  News!Next \/ Same
    BY <1>2, QuietIsSame, IsTellBegin, IsTellOne, IsTellNoMemory, IsTellEnd, IsTake, IsCopied,
       IsCopyFails, QuietEmpty, QuietWakeUp, QuietSignal DEF Tell, Reading, News!Next
  <1>3. ASSUME NEW t \in Threads, NEW f \in Files, FileCall(t, f)
        PROVE  News!Next \/ Same
    BY <1>3, QuietIsSame, IsOpen, IsRelease, IsSubscribe, IsUnsubscribe, QuietRead DEF FileCall, News!Next
  <1>4. ASSUME NEW t \in Threads, NEW f \in Files, NEW n \in Names, ElementCall(t, f, n)
        PROVE  News!Next \/ Same
    BY <1>4, QuietIsSame, QuietWrite, QuietLock, QuietUnlock, IsRemove, QuietAddCheck, IsReplace
       DEF ElementCall, News!Next
  <1>5. CASE UNCHANGED vars
    BY <1>5, QuietIsSame DEF vars, Quiet
  <1> QED
    BY <1>1, <1>2, <1>3, <1>4, <1>5, QuietIsSame, QuietShutdown, QuietDisconnect DEF Next

LEMMA NewsInit ==
    ASSUME Init
    PROVE  NewsInv /\ News!Init
  <1>1. Listening = {} /\ Len(files) = 0
    BY EmptySeq DEF Init, Listening, ListOf
  <1>2. NewsInv
    BY <1>1 DEF Init, Rest, NewsInv, FilesDiffer, ReleasedIsOut, SubscribedIsKnown, HandsEmpty, TellersKnow
  <1>3. InHand = [t \in Threads |-> {}]
    BY NoFacts DEF Init, InHand
  <1> QED
    BY <1>1, <1>2, <1>3 DEF Init, News!Init, Owed

\* snd_ctl_notify, snd_ctl_read and snd_ctl_subscribe_events: whatever is merged, and
\* whoever opens, releases, subscribes and reads meanwhile, each change and each removal
\* is owed to each subscriber until one of its readers is told of it, except that an
\* event that finds no memory costs one file one change, and a copy to the application
\* that fails what that one reader had in its hand.
THEOREM EveryoneIsToldOfAll == Spec => EveryoneIsTold
  <1>1. Init => Inv /\ NewsInv /\ News!Init
    BY InvInit, NewsInit
  <1>2. Inv /\ NewsInv /\ [Next]_vars => Inv' /\ NewsInv' /\ [News!Next]_(News!vars)
    BY InvStep, NewsInvStep, NewsStep DEF Same, News!vars
  <1> QED
    BY <1>1, <1>2, PTL DEF Spec, EveryoneIsTold, News!Spec

=============================================================================
