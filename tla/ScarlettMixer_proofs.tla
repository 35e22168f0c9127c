------------------------ MODULE ScarlettMixer_proofs ------------------------
(***************************************************************************)
(* Theorems about ScarlettMixer: its types, that the interface is held     *)
(* exactly while a message is under way, that a change is reported, that   *)
(* the device is left alone after a disconnection, and, when all callers   *)
(* hold power_lock and write levels of one byte, that the cache is what    *)
(* the device has.                                                         *)
(***************************************************************************)
EXTENDS ScarlettMixer, FiniteSetTheorems, TLAPS

(***************************************************************************)
(* The invariant.                                                          *)
(***************************************************************************)
Wants == {<<>>} \cup UNION {[ChannelsOf(c) -> Wishes(c)] : c \in Controls}
Results == {"ok", "changed", "error", "EPERM"}

CallType == [at : Places, c : Controls \cup {"none"}, op : {"none", "read", "write"},
             want : Wants, ch : Nat, value : Int, tries : 0..Attempts - 1,
             inside : BOOLEAN, ok : BOOLEAN, result : Results]

\* What a call knows at each place.  Only a write, or the odd control that saves,
\* comes to send, and it sends what is wanted of its channel.
Whole(r) ==
    /\ r.at = "idle" => r.op = "none"
    /\ r.at # "idle" => r.c \in Controls /\ r.op # "none" /\ r.ch \in ChannelsOf(r.c)
    /\ r.at # "idle" /\ r.op = "write" => r.want \in [ChannelsOf(r.c) -> Wishes(r.c)]
    /\ r.at \in {"get", "ask", "asking", "got"} => r.c \notin Saves
    /\ r.at \in {"set", "send", "sending", "sent"} =>
          r.c \in Saves \/ (r.op = "write" /\ r.value = Raw(r.c, r.want[r.ch]))
    /\ r.inside => r.at \in {"asking", "send", "sending"}
    /\ r.at \in {"asking", "sending"} => r.inside
    /\ r.at = "sending" => r.ok

Untold == SUBSET ((Controls \ Saves) \X BOOLEAN)

Types ==
    /\ dev \in [Registers -> Words]
    /\ cache \in [Registers -> Int]
    /\ saved \in BOOLEAN /\ shutdown \in BOOLEAN /\ gone \in BOOLEAN
    /\ pm \in Int
    /\ power \in Threads \cup {NoThread}
    /\ untold \in Untold
    /\ call \in [Threads -> CallType]

Calls == \A t \in Threads : Whole(call[t])

\* Nobody is inside shutdown_rwsem once shutdown is set.
NobodyInside == shutdown => \A t \in Threads : ~call[t].inside

Holders == {t \in Threads : call[t].at \in Holding}
Balanced == ~shutdown => pm <= Cardinality(Holders) /\ (~gone => pm = Cardinality(Holders))

\* A write that owes an event, or an error, for what it has changed.
Owes(r) == r.op = "write" /\ (r.result \in {"changed", "error"} \/ (r.at = "sent" /\ r.ok))
Owed == \A x \in untold : x[2] \/ \E t \in Threads : call[t].c = x[1] /\ Owes(call[t])

Inv == Types /\ Calls /\ NobodyInside /\ Balanced /\ Owed

\* With power_lock there is one call at a time; the cache differs from the device
\* only while it has yet to be told of a message that has arrived.
OneAtATime == \A t \in Threads : call[t].at \notin {"idle", "lock"} => power = t
GotIsDevice == \A t \in Threads : At(t, "got") /\ call[t].ok => call[t].value = dev[Register(call[t])]
SentIsDevice ==
    \A t \in Threads : At(t, "sent") /\ call[t].ok /\ call[t].c \notin Saves =>
        dev[Register(call[t])] = call[t].value
JustSent(t, r) == At(t, "sent") /\ call[t].ok /\ call[t].c \notin Saves /\ Register(call[t]) = r
CacheFresh ==
    \A r \in Registers :
        cache[r] = None \/ cache[r] = dev[r] \/ \E t \in Threads : JustSent(t, r)

CacheInv == OneAtATime /\ GotIsDevice /\ SentIsDevice /\ CacheFresh

(***************************************************************************)
(* What a call becomes: each is a call again, and whole.                   *)
(***************************************************************************)
LEMMA ChannelsAreNumbers ==
  ASSUME NEW c
  PROVE  1 \in ChannelsOf(c) /\ ChannelsOf(c) \subseteq Nat
  BY ControlsAssumption DEF ChannelsOf

LEMMA WishesAreNumbers ==
  ASSUME NEW c \in Controls
  PROVE  Wishes(c) \subseteq Nat
  BY ControlsAssumption DEF Wishes, Controls

LEMMA RawIsNumber ==
  ASSUME NEW c \in Controls \ Saves, NEW v \in Nat
  PROVE  Raw(c, v) \in Int
  BY DEF Raw, Controls

LEMMA RegisterOf ==
  ASSUME NEW r \in CallType, r.c \in Controls \ Saves, r.ch \in ChannelsOf(r.c)
  PROVE  Register(r) \in Registers
  BY ControlsAssumption DEF Register, Registers, ChannelsOf

LEMMA IdleIsWhole == Idle \in CallType /\ Whole(Idle) /\ ~Idle.inside /\ Idle.at = "idle"
  <1>1. 0 \in 0..Attempts - 1
    BY ControlsAssumption
  <1>2. Idle \in CallType
    BY <1>1 DEF Idle, CallType, Places, Results, Wants
  <1> QED
    BY <1>2 DEF Idle, Whole

Begun(at, c, op, want) == [Idle EXCEPT !.at = at, !.c = c, !.op = op, !.want = want]

LEMMA BegunIsWhole ==
  ASSUME NEW t \in Threads, NEW c \in Controls, NEW op \in {"read", "write"},
         NEW want \in Request(c, op), NEW at \in {"lock", "look"}
  PROVE  /\ Begun(at, c, op, want) \in CallType /\ Whole(Begun(at, c, op, want))
         /\ ~Begun(at, c, op, want).inside /\ Begun(at, c, op, want).at = at
  <1> DEFINE r == [Idle EXCEPT !.at = at, !.c = c, !.op = op, !.want = want]
  <1>1. want \in Wants /\ (op = "write" => want \in [ChannelsOf(c) -> Wishes(c)])
    BY DEF Request, Wants
  <1>2. r \in CallType
    BY <1>1, IdleIsWhole DEF CallType, Places
  <1>3. Idle.ch = 1 /\ ~Idle.inside
    BY DEF Idle
  <1>4. /\ r.at = at /\ r.c = c /\ r.op = op /\ r.want = want /\ r.ch = 1 /\ ~r.inside
    BY <1>3, IdleIsWhole DEF CallType
  <1>5. Whole(r)
    BY <1>1, <1>4, ChannelsAreNumbers DEF Whole
  <1> QED
    BY <1>2, <1>4, <1>5 DEF Begun

\* Between two channels nothing is under way.
Between(r) == r.at \in {"look", "got", "sent"} /\ ~r.inside

LEMMA OnwardIsWhole ==
  ASSUME NEW r \in CallType, Whole(r), Between(r)
  PROVE  /\ Onward(r) \in CallType /\ Whole(Onward(r)) /\ ~Onward(r).inside
         /\ Onward(r).at \in {"look", "end"}
         /\ Onward(r).c = r.c /\ Onward(r).op = r.op /\ Onward(r).result = r.result
  <1>1. CASE r.ch + 1 \in ChannelsOf(r.c)
    <2>1. Onward(r) = [r EXCEPT !.at = "look", !.ch = r.ch + 1]
      BY <1>1 DEF Onward
    <2>2. r.ch + 1 \in Nat
      BY <1>1, ChannelsAreNumbers
    <2> QED
      BY <1>1, <2>1, <2>2 DEF CallType, Whole, Between, Places
  <1>2. CASE r.ch + 1 \notin ChannelsOf(r.c)
    <2>1. Onward(r) = [r EXCEPT !.at = "end"]
      BY <1>2 DEF Onward
    <2> QED
      BY <2>1 DEF CallType, Whole, Between, Places
  <1> QED
    BY <1>1, <1>2

LEMMA WithValueIsWhole ==
  ASSUME NEW r \in CallType, Whole(r), Between(r), r.c \notin Saves, NEW x
  PROVE  /\ WithValue(r, x) \in CallType /\ Whole(WithValue(r, x)) /\ ~WithValue(r, x).inside
         /\ WithValue(r, x).at \in {"set", "look", "end"}
         /\ WithValue(r, x).c = r.c /\ WithValue(r, x).op = r.op
         /\ WithValue(r, x).result = r.result
  <1> DEFINE raw == Raw(r.c, r.want[r.ch])
  <1>1. CASE r.op = "write" /\ x # raw
    <2>1. WithValue(r, x) = [r EXCEPT !.at = "set", !.value = raw]
      BY <1>1 DEF WithValue
    <2>2. r.c \in Controls /\ r.ch \in ChannelsOf(r.c) /\ r.want \in [ChannelsOf(r.c) -> Wishes(r.c)]
      BY <1>1 DEF Whole, Between
    <2>3. r.want[r.ch] \in Nat
      BY <2>2, WishesAreNumbers
    <2>4. raw \in Int
      BY <2>2, <2>3, RawIsNumber
    <2> HIDE DEF raw
    <2>5. [r EXCEPT !.at = "set", !.value = raw] \in CallType
      BY <2>4 DEF CallType, Places
    <2>6. Whole([r EXCEPT !.at = "set", !.value = raw])
      BY <1>1, <2>2 DEF CallType, Whole, Between, raw
    <2> QED
      BY <2>1, <2>5, <2>6 DEF CallType, Between
  <1>2. CASE ~(r.op = "write" /\ x # raw)
    <2>1. WithValue(r, x) = Onward(r)
      BY <1>2 DEF WithValue
    <2> QED
      BY <2>1, OnwardIsWhole
  <1> QED
    BY <1>1, <1>2

LEMMA FinishedIsWhole ==
  ASSUME NEW r \in CallType, Whole(r), Between(r), NEW result \in Results
  PROVE  /\ Finished(r, result) \in CallType /\ Whole(Finished(r, result))
         /\ ~Finished(r, result).inside /\ Finished(r, result).at = "end"
         /\ Finished(r, result).c = r.c /\ Finished(r, result).op = r.op
         /\ Finished(r, result).result = result
  BY DEF CallType, Whole, Between, Places, Finished

(***************************************************************************)
(* What each action does to the call of its thread, from which the types   *)
(* and the invariants of the calls follow.                                 *)
(***************************************************************************)
Becomes(t, r) == call' = [call EXCEPT ![t] = r] /\ r \in CallType /\ Whole(r)

LEMMA CallIsWhole ==
  ASSUME Types, Calls, NEW t \in Threads
  PROVE  call[t] \in CallType /\ Whole(call[t])
  BY DEF Types, Calls

LEMMA Begins ==
  ASSUME Types, Calls, NEW t \in Threads, NEW c \in Controls, NEW op \in {"read", "write"},
         Begin(t, c, op)
  PROVE  \E r \in CallType : /\ Becomes(t, r) /\ ~r.inside /\ r.at \in {"lock", "look"}
                             /\ (t \in Ioctls => r.at = "lock")
                             /\ At(t, "idle")
  <1>1. PICK at \in {"lock", "look"} : at = IF t \in Ioctls THEN "lock" ELSE "look"
    OBVIOUS
  <1>2. PICK want \in Request(c, op) : call' = [call EXCEPT ![t] = Begun(at, c, op, want)]
    BY <1>1 DEF Begin, Begun
  <1>3. /\ Begun(at, c, op, want) \in CallType /\ Whole(Begun(at, c, op, want))
        /\ ~Begun(at, c, op, want).inside /\ Begun(at, c, op, want).at = at
    BY BegunIsWhole
  <1>4. At(t, "idle")
    BY DEF Begin
  <1> QED
    BY <1>1, <1>2, <1>3, <1>4 DEF Becomes

LEMMA PowerLocks ==
  ASSUME Types, Calls, NEW t \in Threads, PowerLock(t)
  PROVE  \E r \in CallType :
           /\ Becomes(t, r) /\ ~r.inside /\ r.at = "look"
           /\ r.c = call[t].c /\ r.op = call[t].op /\ r.result = call[t].result
           /\ At(t, "lock")
  <1> DEFINE q == call[t]
             r == [q EXCEPT !.at = "look"]
  <1>1. q \in CallType /\ Whole(q)
    BY CallIsWhole
  <1>2. q.at = "lock" /\ call' = [call EXCEPT ![t] = [call[t] EXCEPT !.at = "look"]]
    BY DEF PowerLock, At
  <1> HIDE DEF q
  <1>3. r \in CallType /\ Whole(r) /\ ~r.inside /\ r.at = "look"
        /\ r.c = q.c /\ r.op = q.op /\ r.result = q.result
    BY <1>1, <1>2 DEF CallType, Whole, Places
  <1>4. call' = [call EXCEPT ![t] = r]
    BY <1>2 DEF q
  <1> HIDE DEF r
  <1> QED
    BY <1>2, <1>3, <1>4 DEF Becomes, At, q

LEMMA Looks ==
  ASSUME Types, Calls, NEW t \in Threads, Look(t)
  PROVE  \E r \in CallType :
           /\ Becomes(t, r) /\ ~r.inside /\ r.at \in {"look", "get", "set", "end"}
           /\ r.c = call[t].c /\ r.op = call[t].op /\ r.result = call[t].result
           /\ At(t, "look")
  <1> DEFINE q == call[t]
             x == cache[Register(q)]
             r == IF x # None THEN WithValue(q, x) ELSE [q EXCEPT !.at = "get"]
  <1>1. q \in CallType /\ Whole(q)
    BY CallIsWhole
  <1>2. q.at = "look" /\ q.c \notin Saves /\ call' = [call EXCEPT ![t] = r]
    BY DEF Look, At
  <1> HIDE DEF q, x
  <1>3. Between(q)
    BY <1>1, <1>2 DEF Between, Whole
  <1>4. /\ r \in CallType /\ Whole(r) /\ ~r.inside /\ r.at \in {"look", "get", "set", "end"}
        /\ r.c = q.c /\ r.op = q.op /\ r.result = q.result
    <2>1. CASE x # None
      BY <1>1, <1>2, <1>3, <2>1, WithValueIsWhole
    <2>2. CASE x = None
      BY <1>1, <1>2, <2>2 DEF CallType, Whole, Places
    <2> QED
      BY <2>1, <2>2
  <1> HIDE DEF r
  <1> QED
    BY <1>2, <1>4 DEF Becomes, At, q

LEMMA SavesInstead ==
  ASSUME Types, Calls, NEW t \in Threads, Save(t)
  PROVE  \E r \in CallType :
           /\ Becomes(t, r) /\ ~r.inside /\ r.at \in {"set", "end"}
           /\ r.c = call[t].c /\ r.c \in Saves
           /\ At(t, "look")
  <1> DEFINE q == call[t]
             r == IF q.op = "write" THEN Finished(q, "EPERM")
                  ELSE IF q.want[1] > 0 THEN [q EXCEPT !.at = "set"]
                  ELSE Finished(q, "ok")
  <1>1. q \in CallType /\ Whole(q)
    BY CallIsWhole
  <1>2. q.at = "look" /\ q.c \in Saves /\ call' = [call EXCEPT ![t] = r]
    BY DEF Save, At
  <1> HIDE DEF q
  <1>3. Between(q)
    BY <1>1, <1>2 DEF Between, Whole
  <1>4. r \in CallType /\ Whole(r) /\ ~r.inside /\ r.at \in {"set", "end"} /\ r.c = q.c
    <2>1. CASE q.op = "write"
      BY <1>1, <1>3, <2>1, FinishedIsWhole DEF Results
    <2>2. CASE q.op # "write" /\ q.want[1] > 0
      BY <1>1, <1>2, <2>2 DEF CallType, Whole, Places
    <2>3. CASE q.op # "write" /\ ~(q.want[1] > 0)
      BY <1>1, <1>3, <2>3, FinishedIsWhole DEF Results
    <2> QED
      BY <2>1, <2>2, <2>3
  <1> HIDE DEF r
  <1> QED
    BY <1>2, <1>4 DEF Becomes, At, q

LEMMA Autoresumes ==
  ASSUME Types, Calls, NEW t \in Threads, Autoresume(t)
  PROVE  \E r \in CallType :
           /\ Becomes(t, r) /\ ~r.inside /\ r.at \in {"ask", "send"}
           /\ r.c = call[t].c /\ r.op = call[t].op /\ r.result = call[t].result
           /\ call[t].at \in {"get", "set"}
  <1> DEFINE q == call[t]
             r == [q EXCEPT !.at = IF q.at = "get" THEN "ask" ELSE "send"]
  <1>1. q \in CallType /\ Whole(q)
    BY CallIsWhole
  <1>2. q.at \in {"get", "set"}
        /\ call' = [call EXCEPT ![t] = [call[t] EXCEPT !.at = IF At(t, "get") THEN "ask" ELSE "send"]]
    BY DEF Autoresume, At
  <1>3. call' = [call EXCEPT ![t] = r]
    BY <1>2 DEF At
  <1> HIDE DEF q
  <1>4. r \in CallType /\ Whole(r) /\ ~r.inside /\ r.at \in {"ask", "send"}
        /\ r.c = q.c /\ r.op = q.op /\ r.result = q.result
    BY <1>1, <1>2 DEF CallType, Whole, Places
  <1> HIDE DEF r
  <1> QED
    BY <1>2, <1>3, <1>4 DEF Becomes, At, q

LEMMA Refuses ==
  ASSUME Types, Calls, NEW t \in Threads, AutoresumeFails(t)
  PROVE  \E r \in CallType :
           /\ Becomes(t, r) /\ ~r.inside /\ r.at = "end"
           /\ r.c = call[t].c /\ r.op = call[t].op /\ r.result = "error"
           /\ call[t].at \in {"get", "set"}
  <1> DEFINE q == call[t]
             r == [q EXCEPT !.at = "end", !.result = "error"]
  <1>1. q \in CallType /\ Whole(q)
    BY CallIsWhole
  <1>2. q.at \in {"get", "set"} /\ call' = [call EXCEPT ![t] = r]
    BY DEF AutoresumeFails, Refused, Finished, At
  <1> HIDE DEF q
  <1>3. r \in CallType /\ Whole(r) /\ ~r.inside /\ r.at = "end"
        /\ r.c = q.c /\ r.op = q.op /\ r.result = "error"
    BY <1>1, <1>2 DEF CallType, Whole, Places, Results
  <1> HIDE DEF r
  <1> QED
    BY <1>2, <1>3 DEF Becomes, q

LEMMA Enters ==
  ASSUME Types, Calls, NEW t \in Threads, Enter(t)
  PROVE  \E r \in CallType :
           /\ Becomes(t, r) /\ (r.inside => ~shutdown)
           /\ r.at \in Holding /\ (r.at = "got" => ~r.ok) /\ (r.at = "sent" => ~r.ok)
           /\ r.c = call[t].c /\ r.op = call[t].op /\ r.result = call[t].result
           /\ call[t].at \in {"ask", "send"}
  <1> DEFINE q == call[t]
             r == [q EXCEPT
                     !.at = IF q.at = "ask" THEN IF shutdown THEN "got" ELSE "asking"
                                            ELSE IF shutdown THEN "sent" ELSE "sending",
                     !.ok = ~shutdown, !.inside = ~shutdown]
  <1>1. q \in CallType /\ Whole(q)
    BY CallIsWhole
  <1>2. q.at \in {"ask", "send"} /\ call' = [call EXCEPT ![t] = r]
    BY DEF Enter, At
  <1> HIDE DEF q
  <1>3. shutdown \in BOOLEAN
    BY DEF Types
  <1>4. CASE shutdown
    <2>1. r = [q EXCEPT !.at = IF q.at = "ask" THEN "got" ELSE "sent", !.ok = FALSE, !.inside = FALSE]
      BY <1>3, <1>4
    <2> HIDE DEF r
    <2>2. r \in CallType /\ Whole(r) /\ ~r.inside /\ r.at \in {"got", "sent"} /\ ~r.ok
          /\ r.c = q.c /\ r.op = q.op /\ r.result = q.result
      BY <1>1, <1>2, <2>1 DEF CallType, Whole, Places
    <2> QED
      BY <1>2, <1>4, <2>2 DEF Becomes, Holding, q
  <1>5. CASE ~shutdown
    <2>1. r = [q EXCEPT !.at = IF q.at = "ask" THEN "asking" ELSE "sending", !.ok = TRUE, !.inside = TRUE]
      BY <1>3, <1>5
    <2> HIDE DEF r
    <2>2. r \in CallType /\ Whole(r) /\ r.at \in {"asking", "sending"}
          /\ r.c = q.c /\ r.op = q.op /\ r.result = q.result
      BY <1>1, <1>2, <2>1 DEF CallType, Whole, Places
    <2> QED
      BY <1>2, <1>5, <2>2 DEF Becomes, Holding, q
  <1> QED
    BY <1>3, <1>4, <1>5

LEMMA Replies ==
  ASSUME Types, Calls, NEW t \in Threads, Reply(t)
  PROVE  \E r \in CallType :
           /\ Becomes(t, r) /\ ~r.inside /\ r.at = "got"
           /\ r.c = call[t].c /\ r.ch = call[t].ch /\ r.op = call[t].op /\ r.result = call[t].result
           /\ (r.ok => r.value = dev[Register(call[t])])
           /\ At(t, "asking")
  <1> DEFINE q == call[t]
  <1>1. PICK ok \in BOOLEAN :
          call' = [call EXCEPT ![t] = [q EXCEPT
                     !.at = "got", !.inside = FALSE, !.ok = ok,
                     !.value = IF ok THEN dev[Register(q)] ELSE 0]]
    BY DEF Reply
  <1>2. q \in CallType /\ Whole(q) /\ q.at = "asking"
    BY CallIsWhole DEF Reply, At
  <1>3. q.c \in Controls \ Saves /\ q.ch \in ChannelsOf(q.c)
    BY <1>2 DEF Whole
  <1> DEFINE value == IF ok THEN dev[Register(q)] ELSE 0
  <1> HIDE DEF q
  <1>4. value \in Int /\ (ok => value = dev[Register(q)])
    <2>1. Register(q) \in Registers
      BY <1>2, <1>3, RegisterOf
    <2>2. dev[Register(q)] \in Words
      BY <2>1 DEF Types
    <2>3. dev[Register(q)] \in Int
      BY <2>2 DEF Words
    <2> QED
      BY <2>3
  <1> DEFINE r == [q EXCEPT !.at = "got", !.inside = FALSE, !.ok = ok, !.value = value]
  <1>5. call' = [call EXCEPT ![t] = r]
    BY <1>1
  <1> HIDE DEF value
  <1>6. r \in CallType /\ Whole(r)
    BY <1>2, <1>3, <1>4 DEF CallType, Whole, Places
  <1>7. /\ ~r.inside /\ r.at = "got" /\ r.c = q.c /\ r.ch = q.ch /\ r.op = q.op
        /\ r.result = q.result /\ (r.ok => r.value = dev[Register(q)])
    BY <1>2, <1>4 DEF CallType
  <1> HIDE DEF r
  <1> QED
    BY <1>2, <1>5, <1>6, <1>7 DEF Becomes, At, q

LEMMA Gets ==
  ASSUME Types, Calls, NEW t \in Threads, Got(t)
  PROVE  \E r \in CallType :
           /\ Becomes(t, r) /\ ~r.inside /\ r.at \in {"set", "look", "end"}
           /\ r.c = call[t].c /\ r.op = call[t].op
           /\ (r.result = call[t].result \/ r.result = "error")
           /\ call[t].c \in Controls \ Saves /\ Register(call[t]) \in Registers
           /\ At(t, "got")
  <1> DEFINE q == call[t]
             r == IF q.ok THEN WithValue(q, q.value) ELSE Finished(q, "error")
  <1>1. q \in CallType /\ Whole(q)
    BY CallIsWhole
  <1>2. q.at = "got" /\ call' = [call EXCEPT ![t] = r]
    BY DEF Got, At
  <1> HIDE DEF q
  <1>3. Between(q) /\ q.c \in Controls \ Saves /\ q.ch \in ChannelsOf(q.c)
    BY <1>1, <1>2 DEF Between, Whole
  <1>4. Register(q) \in Registers
    BY <1>1, <1>3, RegisterOf
  <1>5. /\ r \in CallType /\ Whole(r) /\ ~r.inside /\ r.at \in {"set", "look", "end"}
        /\ r.c = q.c /\ r.op = q.op /\ (r.result = q.result \/ r.result = "error")
    <2>1. CASE q.ok
      BY <1>1, <1>3, <2>1, WithValueIsWhole
    <2>2. CASE ~q.ok
      BY <1>1, <1>3, <2>2, FinishedIsWhole DEF Results
    <2> QED
      BY <2>1, <2>2
  <1> HIDE DEF r
  <1> QED
    BY <1>2, <1>3, <1>4, <1>5 DEF Becomes, At, q

LEMMA Sends ==
  ASSUME Types, Calls, NEW t \in Threads, Send(t)
  PROVE  \E r \in CallType :
           /\ Becomes(t, r) /\ ~r.inside /\ r.at = "sent" /\ r.ok
           /\ r.c = call[t].c /\ r.ch = call[t].ch /\ r.op = call[t].op /\ r.value = call[t].value
           /\ call[t].inside /\ call[t].c \in Controls
           /\ (call[t].c \notin Saves =>
                 /\ Register(call[t]) \in Registers /\ r.op = "write"
                 /\ r.value = Raw(r.c, r.want[r.ch]) /\ r.want[r.ch] \in Wishes(r.c))
           /\ At(t, "sending")
  <1> DEFINE q == call[t]
             r == [q EXCEPT !.at = "sent", !.inside = FALSE]
  <1>1. q \in CallType /\ Whole(q)
    BY CallIsWhole
  <1>2. q.at = "sending" /\ call' = [call EXCEPT ![t] = r]
    BY DEF Send, At
  <1> HIDE DEF q
  <1>3. q.c \in Controls /\ q.ch \in ChannelsOf(q.c) /\ q.inside /\ q.ok
    BY <1>1, <1>2 DEF Whole
  <1>4. q.c \notin Saves => Register(q) \in Registers
    BY <1>1, <1>3, RegisterOf
  <1>5. q.c \notin Saves => /\ q.op = "write" /\ q.value = Raw(q.c, q.want[q.ch])
                            /\ q.want[q.ch] \in Wishes(q.c)
    BY <1>1, <1>2, <1>3 DEF Whole
  <1>6. /\ r \in CallType /\ Whole(r) /\ ~r.inside /\ r.at = "sent" /\ r.ok
        /\ r.c = q.c /\ r.ch = q.ch /\ r.op = q.op /\ r.value = q.value /\ r.want = q.want
    BY <1>1, <1>2, <1>3 DEF CallType, Whole, Places
  <1> HIDE DEF r
  <1> QED
    BY <1>2, <1>3, <1>4, <1>5, <1>6 DEF Becomes, At, q

LEMMA SendsAgain ==
  ASSUME Types, Calls, NEW t \in Threads, SendFails(t)
  PROVE  \E r \in CallType :
           /\ Becomes(t, r) /\ (r.inside => call[t].inside)
           /\ r.at \in {"send", "sent"} /\ (r.at = "sent" => ~r.ok)
           /\ r.c = call[t].c /\ r.op = call[t].op /\ r.result = call[t].result
           /\ At(t, "sending")
  <1> DEFINE q == call[t]
             r == IF LastTry(q) THEN [q EXCEPT !.at = "sent", !.ok = FALSE, !.inside = FALSE]
                  ELSE [q EXCEPT !.at = "send", !.tries = q.tries + 1]
  <1>1. q \in CallType /\ Whole(q)
    BY CallIsWhole
  <1>2. q.at = "sending" /\ call' = [call EXCEPT ![t] = r]
    BY DEF SendFails, At
  <1> HIDE DEF q
  <1>3. /\ r \in CallType /\ Whole(r) /\ (r.inside => q.inside)
        /\ r.at \in {"send", "sent"} /\ (r.at = "sent" => ~r.ok)
        /\ r.c = q.c /\ r.op = q.op /\ r.result = q.result
    <2>1. CASE LastTry(q)
      BY <1>1, <1>2, <2>1 DEF CallType, Whole, Places
    <2>2. CASE ~LastTry(q)
      <3>1. q.tries + 1 \in 0..Attempts - 1
        BY <1>1, <2>2, ControlsAssumption DEF CallType, LastTry
      <3> QED
        BY <1>1, <1>2, <2>2, <3>1 DEF CallType, Whole, Places
    <2> QED
      BY <2>1, <2>2
  <1> HIDE DEF r
  <1> QED
    BY <1>2, <1>3 DEF Becomes, At, q

LEMMA SendIsDone ==
  ASSUME Types, Calls, NEW t \in Threads, SentDone(t)
  PROVE  \E r \in CallType :
           /\ Becomes(t, r) /\ ~r.inside /\ r.at \in {"look", "end"}
           /\ r.c = call[t].c /\ r.op = call[t].op
           /\ (call[t].c \notin Saves => r.result \in {"changed", "error"})
           /\ call[t].c \in Controls
           /\ (call[t].c \notin Saves => Register(call[t]) \in Registers)
           /\ At(t, "sent")
  <1> DEFINE q == call[t]
             q1 == [q EXCEPT !.result = "changed", !.tries = 0]
             r == IF ~q.ok THEN Finished(q, "error")
                  ELSE IF q.c \in Saves THEN Finished(q, "ok") ELSE Onward(q1)
  <1>1. q \in CallType /\ Whole(q)
    BY CallIsWhole
  <1>2. q.at = "sent" /\ call' = [call EXCEPT ![t] = r]
    BY DEF SentDone, At
  <1> HIDE DEF q
  <1>3. Between(q) /\ q.c \in Controls /\ q.ch \in ChannelsOf(q.c)
    BY <1>1, <1>2 DEF Between, Whole
  <1>4. q.c \notin Saves => Register(q) \in Registers
    BY <1>1, <1>3, RegisterOf
  <1>5. /\ q1 \in CallType /\ Whole(q1) /\ Between(q1) /\ q1.c = q.c /\ q1.op = q.op
        /\ q1.result = "changed"
    <2>1. 0 \in 0..Attempts - 1
      BY ControlsAssumption
    <2> QED
      BY <1>1, <1>3, <2>1 DEF CallType, Whole, Between, Places, Results
  <1> HIDE DEF q1
  <1>6. /\ r \in CallType /\ Whole(r) /\ ~r.inside /\ r.at \in {"look", "end"}
        /\ r.c = q.c /\ r.op = q.op /\ (q.c \notin Saves => r.result \in {"changed", "error"})
    <2>1. CASE ~q.ok
      BY <1>1, <1>3, <2>1, FinishedIsWhole DEF Results
    <2>2. CASE q.ok /\ q.c \in Saves
      BY <1>1, <1>3, <2>2, FinishedIsWhole DEF Results
    <2>3. CASE q.ok /\ q.c \notin Saves
      BY <1>5, <2>3, OnwardIsWhole
    <2> QED
      BY <2>1, <2>2, <2>3
  <1> HIDE DEF r
  <1> QED
    BY <1>2, <1>3, <1>4, <1>6 DEF Becomes, At, q

LEMMA Ends ==
  ASSUME Types, Calls, NEW t \in Threads, End(t)
  PROVE  Becomes(t, Idle) /\ ~Idle.inside /\ Idle.at = "idle" /\ At(t, "end")
  BY IdleIsWhole DEF End, Becomes

(***************************************************************************)
(* Type correctness.                                                       *)
(***************************************************************************)
LEMMA SettingsAreWords ==
  ASSUME NEW c \in Controls \ Saves
  PROVE  Settings(c) \subseteq Words
  <1>1. CASE c \in Volumes
    BY <1>1 DEF Settings, Words
  <1>2. CASE c \notin Volumes
    <2>1. Wishes(c) = {0, 1}
      BY <1>2 DEF Wishes, Controls
    <2>2. Raw(c, 0) \in Words /\ Raw(c, 1) \in Words
      BY <1>2 DEF Raw, Controls, Words
    <2> QED
      BY <1>2, <2>1, <2>2 DEF Settings
  <1> QED
    BY <1>1, <1>2

LEMMA WordsAreNumbers == Words \subseteq Int
  BY DEF Words

LEMMA SentIsWord ==
  ASSUME NEW x \in Int
  PROVE  Sent(x) \in Words /\ (x \in Words => Sent(x) = x)
  BY DEF Sent, Words

LEMMA RegisterControls ==
  ASSUME NEW r \in Registers
  PROVE  r[1] \in Controls \ Saves
  BY DEF Registers

LEMMA TypesInit == Init => Types /\ Calls
  <1> SUFFICES ASSUME Init
               PROVE  Types /\ Calls
    OBVIOUS
  <1>1. dev \in [Registers -> Words]
    <2>1. \A r \in Registers : dev[r] \in Settings(r[1])
      BY DEF Init
    <2>2. \A r \in Registers : dev[r] \in Words
      BY <2>1, SettingsAreWords, RegisterControls
    <2> QED
      BY <2>2 DEF Init
  <1>2. cache \in [Registers -> Int]
    <2>1. \A r \in Registers : dev[r] \in Int
      BY <1>1, WordsAreNumbers
    <2>2. None \in Int
      BY DEF None
    <2> QED
      BY <2>1, <2>2 DEF Init
  <1>3. call = [t \in Threads |-> Idle]
    BY DEF Init
  <1>4. call \in [Threads -> CallType] /\ Calls
    BY <1>3, IdleIsWhole DEF Calls
  <1>5. /\ saved \in BOOLEAN /\ shutdown \in BOOLEAN /\ gone \in BOOLEAN
        /\ pm \in Int /\ power \in Threads \cup {NoThread} /\ untold \in Untold
    <2>1. saved = FALSE /\ shutdown = FALSE /\ gone = FALSE /\ pm = 0 /\ power = NoThread /\ untold = {}
      BY DEF Init
    <2>2. pm \in Int
      BY <2>1
    <2> QED
      BY <2>1, <2>2, Zenon DEF Untold
  <1> QED
    BY <1>1, <1>2, <1>4, <1>5 DEF Types

LEMMA CallsStep ==
  ASSUME Types, Calls, NEW t \in Threads, NEW r, Becomes(t, r)
  PROVE  /\ call' \in [Threads -> CallType] /\ Calls'
         /\ call'[t] = r /\ \A u \in Threads \ {t} : call'[u] = call[u]
  BY DEF Types, Calls, Becomes

LEMMA HoldersAreFinite == IsFiniteSet(Holders) /\ Cardinality(Holders) \in Nat
  <1>1. Holders \in SUBSET Threads
    BY DEF Holders
  <1> QED
    BY <1>1, ThreadsAssumption, FS_Subset, FS_CardinalityType

\* What the actions of a thread do to the other variables.
LEMMA RestOfTypes ==
  ASSUME Types, Calls, Next, call' \in [Threads -> CallType]
  PROVE  Types'
  <1> USE DEF Types
  <1>1. AfterAutosuspend \in Int
    BY DEF AfterAutosuspend
  <1>2. CASE Detach \/ Disconnect
    BY <1>2 DEF Detach, Disconnect
  <1>3. ASSUME NEW t \in Threads, NEW c \in Controls, NEW op \in {"read", "write"}, Begin(t, c, op)
        PROVE  Types'
    BY <1>3 DEF Begin
  <1>4. ASSUME NEW t \in Threads, PowerLock(t)
        PROVE  Types'
    BY <1>4 DEF PowerLock
  <1>5. ASSUME NEW t \in Threads, Look(t) \/ Save(t) \/ AutoresumeFails(t) \/ Enter(t) \/ Reply(t)
                                     \/ SendFails(t)
        PROVE  Types'
    BY <1>5 DEF Look, Save, AutoresumeFails, Enter, Reply, SendFails
  <1>6. ASSUME NEW t \in Threads, Autoresume(t)
        PROVE  Types'
    <2>1. pm' \in Int
      BY <1>6 DEF Autoresume
    <2> QED
      BY <1>6, <2>1 DEF Autoresume
  <1>7. ASSUME NEW t \in Threads, Got(t)
        PROVE  Types'
    <2>1. pm' \in Int
      BY <1>1, <1>7 DEF Got
    <2>2. call[t].value \in Int
      BY DEF CallType
    <2>3. cache' \in [Registers -> Int]
      BY <1>7, <2>2 DEF Got
    <2> QED
      BY <1>7, <2>1, <2>3 DEF Got
  <1>8. ASSUME NEW t \in Threads, Send(t)
        PROVE  Types'
    <2>1. call[t].value \in Int
      BY DEF CallType
    <2>2. Sent(call[t].value) \in Words
      BY <2>1, SentIsWord
    <2>3. dev' \in [Registers -> Words] /\ saved' \in BOOLEAN
      BY <1>8, <2>2 DEF Send
    <2>4. untold' \in Untold
      <3>1. CASE call[t].c \in Saves
        BY <1>8, <3>1 DEF Send
      <3>2. CASE call[t].c \notin Saves
        <4>1. call[t].c \in Controls
          BY <1>8, Sends
        <4>2. untold' = untold \cup {<<call[t].c, FALSE>>}
          BY <1>8, <3>2 DEF Send
        <4>3. <<call[t].c, FALSE>> \in (Controls \ Saves) \X BOOLEAN
          BY <3>2, <4>1
        <4>4. untold \subseteq (Controls \ Saves) \X BOOLEAN
          BY DEF Untold
        <4> HIDE DEF Types
        <4> QED
          BY <4>2, <4>3, <4>4 DEF Untold
      <3> QED
        BY <3>1, <3>2
    <2> QED
      BY <1>8, <2>3, <2>4 DEF Send
  <1>9. ASSUME NEW t \in Threads, SentDone(t)
        PROVE  Types'
    <2>1. pm' \in Int
      BY <1>1, <1>9 DEF SentDone
    <2>2. call[t].value \in Int
      BY DEF CallType
    <2>3. cache' \in [Registers -> Int]
      BY <1>9, <2>2 DEF SentDone
    <2> QED
      BY <1>9, <2>1, <2>3 DEF SentDone
  <1>10. ASSUME NEW t \in Threads, End(t)
         PROVE  Types'
    <2>1. untold' \in Untold
      <3>1. CASE Told(call[t])
        BY <1>10, <3>1 DEF End, Untold
      <3>2. CASE ~Told(call[t]) /\ Failed(call[t])
        <4>1. \A x \in untold : <<x[1], x[2] \/ x[1] = call[t].c>> \in (Controls \ Saves) \X BOOLEAN
          BY DEF Untold
        <4>2. untold' = {<<x[1], x[2] \/ x[1] = call[t].c>> : x \in untold}
          BY <1>10, <3>2 DEF End
        <4> QED
          BY <4>1, <4>2 DEF Untold
      <3>3. CASE ~Told(call[t]) /\ ~Failed(call[t])
        BY <1>10, <3>3 DEF End
      <3> QED
        BY <3>1, <3>2, <3>3
    <2>2. power' \in Threads \cup {NoThread}
      BY <1>10 DEF End, PowerUnlocked
    <2> QED
      BY <1>10, <2>1, <2>2 DEF End
  <1> QED
    BY <1>2, <1>3, <1>4, <1>5, <1>6, <1>7, <1>8, <1>9, <1>10 DEF Next, Step

(***************************************************************************)
(* Every action of a thread: what it does to the call, summed up.          *)
(***************************************************************************)
LEMMA EveryStep ==
  ASSUME Types, Calls, [Next]_vars
  PROVE  \/ UNCHANGED call
         \/ \E t \in Threads, r \in CallType :
               /\ Becomes(t, r)
               /\ r.inside => call[t].inside \/ ~shutdown
  <1>1. CASE UNCHANGED vars
    BY <1>1 DEF vars
  <1>2. CASE Detach \/ Disconnect
    BY <1>2 DEF Detach, Disconnect
  <1>3. ASSUME NEW t \in Threads, NEW c \in Controls, NEW op \in {"read", "write"}, Begin(t, c, op)
        PROVE  \E r \in CallType : Becomes(t, r) /\ (r.inside => call[t].inside \/ ~shutdown)
    BY <1>3, Begins
  <1>4. ASSUME NEW t \in Threads, PowerLock(t)
        PROVE  \E r \in CallType : Becomes(t, r) /\ (r.inside => call[t].inside \/ ~shutdown)
    BY <1>4, PowerLocks
  <1>5. ASSUME NEW t \in Threads, Step(t)
        PROVE  \E r \in CallType : Becomes(t, r) /\ (r.inside => call[t].inside \/ ~shutdown)
    <2>1. CASE Look(t)
      BY <2>1, Looks
    <2>2. CASE Save(t)
      BY <2>2, SavesInstead
    <2>3. CASE Autoresume(t)
      BY <2>3, Autoresumes
    <2>4. CASE Enter(t)
      BY <2>4, Enters
    <2>5. CASE Reply(t)
      BY <2>5, Replies
    <2>6. CASE Got(t)
      BY <2>6, Gets
    <2>7. CASE Send(t)
      BY <2>7, Sends
    <2>8. CASE SendFails(t)
      BY <2>8, SendsAgain
    <2>9. CASE SentDone(t)
      BY <2>9, SendIsDone
    <2>10. CASE End(t)
      BY <2>10, Ends, IdleIsWhole
    <2>11. CASE AutoresumeFails(t)
      BY <2>11, Refuses
    <2> QED
      BY <1>5, <2>1, <2>2, <2>3, <2>4, <2>5, <2>6, <2>7, <2>8, <2>9, <2>10, <2>11 DEF Step
  <1> QED
    BY <1>1, <1>2, <1>3, <1>4, <1>5 DEF Next

LEMMA TypesStep ==
  ASSUME Types, Calls, [Next]_vars
  PROVE  Types' /\ Calls'
  <1>1. call' \in [Threads -> CallType] /\ Calls'
    <2>1. CASE UNCHANGED call
      BY <2>1 DEF Types, Calls
    <2>2. CASE ~UNCHANGED call
      <3>1. PICK t \in Threads, r \in CallType : Becomes(t, r)
        BY <2>2, EveryStep
      <3> QED
        BY <3>1, CallsStep
    <2> QED
      BY <2>1, <2>2
  <1>2. CASE UNCHANGED vars
    BY <1>1, <1>2 DEF Types, vars
  <1>3. CASE Next
    BY <1>1, <1>3, RestOfTypes
  <1> QED
    BY <1>1, <1>2, <1>3

(***************************************************************************)
(* A disconnection waits for those who are inside, and nobody enters       *)
(* after it.                                                               *)
(***************************************************************************)
LEMMA ShutdownStays ==
  ASSUME [Next]_vars
  PROVE  shutdown' = shutdown \/ (Disconnect /\ shutdown')
  BY DEF Next, vars, Begin, PowerLock, Step, Look, Save, Autoresume, AutoresumeFails, Enter, Reply, Got, Send,
         SendFails, SentDone, End, Detach, Disconnect

LEMMA NobodyInsideStep ==
  ASSUME Types, Calls, NobodyInside, [Next]_vars
  PROVE  NobodyInside'
  <1>1. CASE Disconnect
    BY <1>1 DEF Disconnect, MayDisconnect, NobodyInside
  <1>2. CASE ~Disconnect
    <2> SUFFICES ASSUME shutdown, NEW u \in Threads
                 PROVE  ~call'[u].inside
      BY <1>2, ShutdownStays DEF NobodyInside
    <2>1. CASE UNCHANGED call
      BY <2>1 DEF NobodyInside
    <2>2. ASSUME NEW t \in Threads, NEW r \in CallType, Becomes(t, r), r.inside => call[t].inside
          PROVE  ~call'[u].inside
      <3>1. call'[t] = r /\ \A v \in Threads \ {t} : call'[v] = call[v]
        BY <2>2, CallsStep
      <3> QED
        BY <2>2, <3>1 DEF NobodyInside
    <2> QED
      BY <2>1, <2>2, EveryStep
  <1> QED
    BY <1>1, <1>2

(***************************************************************************)
(* The power of the interface.                                             *)
(***************************************************************************)
\* The holders when only thread t has moved.
LEMMA HoldersMove ==
  ASSUME Types, Calls, NEW t \in Threads, NEW r \in CallType, Becomes(t, r)
  PROVE  Holders' = IF r.at \in Holding THEN Holders \cup {t} ELSE Holders \ {t}
  <1>1. call'[t] = r /\ \A u \in Threads \ {t} : call'[u] = call[u]
    BY CallsStep
  <1> QED
    BY <1>1 DEF Holders

LEMMA HoldersStay ==
  ASSUME Types, Calls, NEW t \in Threads, NEW r \in CallType, Becomes(t, r),
         r.at \in Holding <=> call[t].at \in Holding
  PROVE  Holders' = Holders
  BY HoldersMove DEF Holders

LEMMA GoneStays ==
  ASSUME [Next]_vars
  PROVE  gone' = gone \/ (gone' /\ UNCHANGED <<pm, call>>)
  BY DEF Next, vars, Begin, PowerLock, Step, Look, Save, Autoresume, AutoresumeFails, Enter, Reply, Got,
         Send, SendFails, SentDone, End, Detach, Disconnect

LEMMA BalancedStep ==
  ASSUME Types, Calls, Balanced, [Next]_vars
  PROVE  Balanced'
  <1> SUFFICES ASSUME ~shutdown, ~shutdown'
               PROVE  pm' <= Cardinality(Holders') /\ (~gone' => pm' = Cardinality(Holders'))
    BY ShutdownStays DEF Balanced, Types
  <1>0. /\ pm \in Int /\ Cardinality(Holders) \in Nat
        /\ pm <= Cardinality(Holders) /\ (~gone => pm = Cardinality(Holders))
        /\ ~gone' => ~gone
    BY HoldersAreFinite, GoneStays DEF Balanced, Types
  <1>1. CASE UNCHANGED vars
    BY <1>0, <1>1 DEF Holders, vars
  <1>2. CASE Detach \/ Disconnect
    <2>1. Holders' = Holders /\ pm' = pm
      BY <1>2 DEF Detach, Disconnect, Holders
    <2> QED
      BY <1>0, <2>1
  <1>3. ASSUME NEW t \in Threads, NEW c \in Controls, NEW op \in {"read", "write"}, Begin(t, c, op)
        PROVE  pm' = pm /\ Holders' = Holders
    <2>1. PICK r \in CallType : Becomes(t, r) /\ r.at \in {"lock", "look"} /\ At(t, "idle")
      BY <1>3, Begins
    <2>2. Holders' = Holders
      BY <2>1, HoldersStay DEF Holding, At
    <2> QED
      BY <1>3, <2>2 DEF Begin
  <1>4. ASSUME NEW t \in Threads, PowerLock(t)
        PROVE  pm' = pm /\ Holders' = Holders
    <2>1. PICK r \in CallType : Becomes(t, r) /\ r.at = "look" /\ At(t, "lock")
      BY <1>4, PowerLocks
    <2>2. Holders' = Holders
      BY <2>1, HoldersStay DEF Holding, At
    <2> QED
      BY <1>4, <2>2 DEF PowerLock
  <1>5. ASSUME NEW t \in Threads, Look(t) \/ Save(t) \/ AutoresumeFails(t) \/ End(t)
        PROVE  pm' = pm /\ Holders' = Holders
    <2>1. PICK r \in CallType : /\ Becomes(t, r) /\ r.at \in {"look", "get", "set", "end", "idle"}
                                /\ call[t].at \in {"look", "get", "set", "end"}
      BY <1>5, Looks, SavesInstead, Refuses, Ends, IdleIsWhole DEF At
    <2>2. Holders' = Holders
      BY <2>1, HoldersStay DEF Holding
    <2> QED
      BY <1>5, <2>2 DEF Look, Save, AutoresumeFails, End
  <1>6. ASSUME NEW t \in Threads, Enter(t) \/ Reply(t) \/ Send(t) \/ SendFails(t)
        PROVE  pm' = pm /\ Holders' = Holders
    <2>1. PICK r \in CallType : Becomes(t, r) /\ r.at \in Holding /\ call[t].at \in Holding
      BY <1>6, Enters, Replies, Sends, SendsAgain DEF At, Holding
    <2>2. Holders' = Holders
      BY <2>1, HoldersStay
    <2> QED
      BY <1>6, <2>2 DEF Enter, Reply, Send, SendFails
  <1>7. ASSUME NEW t \in Threads, Autoresume(t)
        PROVE  pm' <= Cardinality(Holders') /\ (~gone' => pm' = Cardinality(Holders'))
    <2>1. PICK r \in CallType : Becomes(t, r) /\ r.at \in {"ask", "send"} /\ call[t].at \in {"get", "set"}
      BY <1>7, Autoresumes
    <2>2. Holders' = Holders \cup {t} /\ t \notin Holders
      BY <2>1, HoldersMove DEF Holding, Holders
    <2>3. Cardinality(Holders') = Cardinality(Holders) + 1
      BY <2>2, HoldersAreFinite, FS_AddElement
    <2>4. pm' = pm + 1 \/ (pm' = pm /\ gone')
      BY <1>7 DEF Autoresume
    <2> QED
      BY <1>0, <2>3, <2>4
  <1>8. ASSUME NEW t \in Threads, Got(t) \/ SentDone(t)
        PROVE  pm' <= Cardinality(Holders') /\ (~gone' => pm' = Cardinality(Holders'))
    <2>1. PICK r \in CallType : /\ Becomes(t, r) /\ r.at \in {"set", "look", "end"}
                                /\ call[t].at \in {"got", "sent"}
      BY <1>8, Gets, SendIsDone DEF At
    <2>2. Holders' = Holders \ {t} /\ t \in Holders
      BY <2>1, HoldersMove DEF Holding, Holders
    <2>3. Cardinality(Holders') = Cardinality(Holders) - 1
      BY <2>2, HoldersAreFinite, FS_RemoveElement
    <2>4. pm' = pm - 1
      BY <1>8 DEF Got, SentDone, AfterAutosuspend
    <2> QED
      BY <1>0, <2>3, <2>4
  <1> QED
    BY <1>0, <1>1, <1>2, <1>3, <1>4, <1>5, <1>6, <1>7, <1>8 DEF Next, Step

(***************************************************************************)
(* Events.                                                                 *)
(***************************************************************************)
\* A thread that owes goes on to owe, except at the end of its call.
LEMMA OwesOn ==
  ASSUME Types, Calls, NEW t \in Threads, NEW c \in Controls \ Saves, call[t].c = c, Owes(call[t]),
         [Next]_vars
  PROVE  (call'[t].c = c /\ Owes(call'[t])) \/ End(t)
  <1> DEFINE q == call[t]
             Kept(r) == /\ r.c = q.c /\ r.op = q.op
                        /\ \/ r.result = q.result /\ q.at # "sent"
                           \/ r.result \in {"changed", "error"}
                           \/ r.at = "sent" /\ r.ok
  <1>1. CASE UNCHANGED call
    BY <1>1
  <1>2. ASSUME NEW r \in CallType, Becomes(t, r), Kept(r)
        PROVE  call'[t].c = c /\ Owes(call'[t])
    BY <1>2, CallsStep DEF Owes
  <1>3. ASSUME NEW u \in Threads \ {t}, NEW r \in CallType, Becomes(u, r)
        PROVE  call'[t].c = c /\ Owes(call'[t])
    BY <1>3, CallsStep
  <1>4. q.op = "write" /\ ~At(t, "idle") /\ q.c \notin Saves
    BY CallIsWhole DEF Owes, Whole, At
  <1> HIDE DEF Kept
  <1>5. CASE UNCHANGED vars \/ Detach \/ Disconnect
    BY <1>1, <1>5 DEF vars, Detach, Disconnect
  <1>6. ASSUME NEW u \in Threads, NEW d \in Controls, NEW op \in {"read", "write"}, Begin(u, d, op)
        PROVE  call'[t].c = c /\ Owes(call'[t])
    BY <1>3, <1>4, <1>6, Begins
  <1>7. ASSUME NEW u \in Threads, PowerLock(u)
        PROVE  call'[t].c = c /\ Owes(call'[t])
    <2>1. PICK r \in CallType :
            /\ Becomes(u, r) /\ At(u, "lock")
            /\ r.c = call[u].c /\ r.op = call[u].op /\ r.result = call[u].result
      BY <1>7, PowerLocks
    <2>2. u = t => Kept(r)
      BY <2>1 DEF Kept, At
    <2> QED
      BY <1>2, <1>3, <2>1, <2>2
  <1>8. ASSUME NEW u \in Threads, u # t, Step(u)
        PROVE  call'[t].c = c /\ Owes(call'[t])
    <2>1. UNCHANGED call \/ \E r \in CallType : Becomes(u, r)
      BY <1>8, Looks, SavesInstead, Autoresumes, Refuses, Enters, Replies, Gets, Sends, SendsAgain,
         SendIsDone, Ends, IdleIsWhole DEF Step
    <2> QED
      BY <1>1, <1>3, <1>8, <2>1
  <1>9. ASSUME Step(t), ~End(t)
        PROVE  call'[t].c = c /\ Owes(call'[t])
    <2>1. CASE Look(t)
      BY <1>2, <2>1, Looks DEF Kept, At
    <2>2. CASE Save(t)
      BY <1>4, <2>2 DEF Save
    <2>3. CASE Autoresume(t)
      BY <1>2, <2>3, Autoresumes DEF Kept
    <2>4. CASE Enter(t)
      BY <1>2, <2>4, Enters DEF Kept
    <2>5. CASE Reply(t)
      BY <1>2, <2>5, Replies DEF Kept, At
    <2>6. CASE Got(t)
      BY <1>2, <2>6, Gets DEF Kept, At
    <2>7. CASE Send(t)
      BY <1>2, <2>7, Sends DEF Kept
    <2>8. CASE SendFails(t)
      BY <1>2, <2>8, SendsAgain DEF Kept, At
    <2>9. CASE SentDone(t)
      BY <1>2, <1>4, <2>9, SendIsDone DEF Kept
    <2>10. CASE AutoresumeFails(t)
      BY <1>2, <2>10, Refuses DEF Kept
    <2> QED
      BY <1>9, <2>1, <2>2, <2>3, <2>4, <2>5, <2>6, <2>7, <2>8, <2>9, <2>10 DEF Step
  <1> QED
    BY <1>5, <1>6, <1>7, <1>8, <1>9 DEF Next

LEMMA OwedStep ==
  ASSUME Types, Calls, Owed, [Next]_vars
  PROVE  Owed'
  <1>1. untold \subseteq (Controls \ Saves) \X BOOLEAN
    BY DEF Types, Untold
  <1>2. ASSUME NEW x \in untold, ~x[2], ~\E t \in Threads : End(t)
        PROVE  \E t \in Threads : call'[t].c = x[1] /\ Owes(call'[t])
    <2>1. PICK t \in Threads : call[t].c = x[1] /\ Owes(call[t])
      BY <1>2 DEF Owed
    <2>2. x[1] \in Controls \ Saves
      BY <1>1
    <2> QED
      BY <1>2, <2>1, <2>2, OwesOn
  <1>3. ASSUME NEW t \in Threads, End(t)
        PROVE  Owed'
    <2> DEFINE c == call[t].c
    <2>1. ASSUME NEW x \in untold, ~x[2], x[1] # c
          PROVE  \E u \in Threads : call'[u].c = x[1] /\ Owes(call'[u])
      <3>1. PICK u \in Threads : call[u].c = x[1] /\ Owes(call[u])
        BY <2>1 DEF Owed
      <3>2. u # t
        BY <2>1, <3>1
      <3>3. call'[u] = call[u]
        BY <1>3, <3>2, Ends, IdleIsWhole, CallsStep
      <3> QED
        BY <3>1, <3>3
    <2>2. CASE Told(call[t])
      <3>1. untold' = {x \in untold : x[1] # c}
        BY <1>3, <2>2 DEF End
      <3> QED
        BY <2>1, <3>1 DEF Owed
    <2>3. CASE ~Told(call[t]) /\ Failed(call[t])
      <3>1. untold' = {<<x[1], x[2] \/ x[1] = c>> : x \in untold}
        BY <1>3, <2>3 DEF End
      <3> SUFFICES ASSUME NEW y \in untold', ~y[2]
                   PROVE  \E u \in Threads : call'[u].c = y[1] /\ Owes(call'[u])
        BY DEF Owed
      <3>2. PICK x \in untold : y = <<x[1], x[2] \/ x[1] = c>>
        BY <3>1
      <3>3. ~x[2] /\ x[1] # c /\ y[1] = x[1]
        BY <3>2
      <3> QED
        BY <2>1, <3>3
    <2>4. CASE ~Told(call[t]) /\ ~Failed(call[t])
      <3>1. untold' = untold
        BY <1>3, <2>4 DEF End
      <3>2. At(t, "end")
        BY <1>3 DEF End
      <3>3. ~Owes(call[t])
        BY <2>4, <3>2 DEF Told, Failed, Owes, At
      <3> SUFFICES ASSUME NEW x \in untold, ~x[2]
                   PROVE  \E u \in Threads : call'[u].c = x[1] /\ Owes(call'[u])
        BY <3>1 DEF Owed
      <3>4. PICK u \in Threads : call[u].c = x[1] /\ Owes(call[u])
        BY DEF Owed
      <3>5. call'[u] = call[u]
        BY <1>3, <3>3, <3>4, Ends, IdleIsWhole, CallsStep
      <3> QED
        BY <3>4, <3>5
    <2> QED
      BY <2>2, <2>3, <2>4
  <1>4. ASSUME NEW t \in Threads, Send(t)
        PROVE  Owed'
    <2>0. ~\E u \in Threads : End(u)
      <3> SUFFICES ASSUME NEW u \in Threads, End(u)
                   PROVE  FALSE
        OBVIOUS
      <3>1. At(t, "sending") /\ At(u, "end")
        BY <1>4 DEF Send, End
      <3>2. PICK r \in CallType : Becomes(t, r) /\ r.at = "sent"
        BY <1>4, Sends
      <3>3. Becomes(u, Idle) /\ Idle.at = "idle"
        BY Ends
      <3> QED
        BY <3>1, <3>2, <3>3, CallsStep DEF At
    <2>1. CASE call[t].c \in Saves
      <3>1. untold' = untold
        BY <1>4, <2>1 DEF Send
      <3> QED
        BY <1>2, <2>0, <3>1 DEF Owed
    <2>2. CASE call[t].c \notin Saves
      <3>1. untold' = untold \cup {<<call[t].c, FALSE>>}
        BY <1>4, <2>2 DEF Send
      <3>2. call'[t].c = call[t].c /\ Owes(call'[t])
        BY <1>4, <2>2, Sends, CallsStep DEF Owes
      <3> SUFFICES ASSUME NEW x \in untold', ~x[2]
                   PROVE  \E u \in Threads : call'[u].c = x[1] /\ Owes(call'[u])
        BY DEF Owed
      <3>3. CASE x \in untold
        BY <1>2, <2>0, <3>3
      <3>4. CASE x = <<call[t].c, FALSE>>
        BY <3>2, <3>4
      <3> QED
        BY <3>1, <3>3, <3>4
    <2> QED
      BY <2>1, <2>2
  <1>5. CASE UNCHANGED untold /\ ~\E t \in Threads : End(t)
    BY <1>2, <1>5 DEF Owed
  <1>6. UNCHANGED untold \/ \E t \in Threads : Send(t) \/ End(t)
    BY DEF Next, vars, Begin, PowerLock, Step, Look, Save, Autoresume, AutoresumeFails, Enter, Reply, Got,
           SendFails, SentDone, Detach, Disconnect
  <1> QED
    BY <1>3, <1>4, <1>5, <1>6

(***************************************************************************)
(* The cache, when every caller holds power_lock and writes a level that   *)
(* fits the two bytes of a message.                                        *)
(***************************************************************************)
LevelsFit == \A v \in Levels : v <= 255

LEMMA RawFits ==
  ASSUME LevelsFit, NEW c \in Controls \ Saves, NEW v \in Wishes(c)
  PROVE  Raw(c, v) \in Words
  <1>1. v \in Nat
    BY WishesAreNumbers
  <1>2. CASE c \in Volumes
    <2>1. v <= 255
      BY <1>2 DEF Wishes, LevelsFit
    <2> QED
      BY <1>1, <1>2, <2>1 DEF Raw, Words
  <1>3. CASE c \notin Volumes
    <2>1. v \in {0, 1}
      BY <1>3 DEF Wishes, Controls
    <2> QED
      BY <1>3, <2>1 DEF Raw, Words, Controls
  <1> QED
    BY <1>2, <1>3

\* The thread that takes a step is the only one in a call.
LEMMA OneRuns ==
  ASSUME Types, Calls, OneAtATime, NEW t \in Threads, Step(t)
  PROVE  /\ power = t
         /\ \A u \in Threads \ {t} : call'[u] = call[u] /\ call[u].at \in {"idle", "lock"}
  <1>1. call[t].at \notin {"idle", "lock"}
    BY DEF Step, Look, Save, Autoresume, AutoresumeFails, Enter, Reply, Got, Send, SendFails, SentDone, End, At
  <1>2. power = t
    BY <1>1 DEF OneAtATime
  <1>3. UNCHANGED call \/ \E r \in CallType : Becomes(t, r)
    BY Looks, SavesInstead, Autoresumes, Refuses, Enters, Replies, Gets, Sends, SendsAgain,
       SendIsDone, Ends, IdleIsWhole DEF Step
  <1> QED
    BY <1>2, <1>3, CallsStep DEF OneAtATime

LEMMA OneAtATimeStep ==
  ASSUME Types, Calls, OneAtATime, Ioctls = Threads, [Next]_vars
  PROVE  OneAtATime'
  <1>1. CASE UNCHANGED vars \/ Detach \/ Disconnect
    BY <1>1 DEF vars, Detach, Disconnect, OneAtATime
  <1>2. ASSUME NEW t \in Threads, NEW c \in Controls, NEW op \in {"read", "write"}, Begin(t, c, op)
        PROVE  OneAtATime'
    <2>1. PICK r \in CallType : Becomes(t, r) /\ r.at = "lock"
      BY <1>2, Begins
    <2>2. power' = power
      BY <1>2 DEF Begin
    <2> QED
      BY <2>1, <2>2, CallsStep DEF OneAtATime
  <1>3. ASSUME NEW t \in Threads, PowerLock(t)
        PROVE  OneAtATime'
    <2>1. PICK r \in CallType : Becomes(t, r)
      BY <1>3, PowerLocks
    <2>2. power' = t /\ power = NoThread
      BY <1>3 DEF PowerLock
    <2>3. \A u \in Threads : call[u].at \in {"idle", "lock"}
      BY <2>2, ThreadsAssumption DEF OneAtATime
    <2> QED
      BY <2>1, <2>2, <2>3, CallsStep DEF OneAtATime
  <1>4. ASSUME NEW t \in Threads, Step(t)
        PROVE  OneAtATime'
    <2>1. /\ power = t
          /\ \A u \in Threads \ {t} : call'[u] = call[u] /\ call[u].at \in {"idle", "lock"}
      BY <1>4, OneRuns
    <2>2. CASE End(t)
      <3>1. call'[t].at = "idle"
        BY <2>2, Ends, IdleIsWhole, CallsStep
      <3> QED
        BY <2>1, <3>1 DEF OneAtATime
    <2>3. CASE ~End(t)
      <3>1. power' = power
        BY <1>4, <2>3 DEF Step, Look, Save, Autoresume, AutoresumeFails, Enter, Reply, Got, Send, SendFails, SentDone
      <3> QED
        BY <2>1, <3>1 DEF OneAtATime
    <2> QED
      BY <2>2, <2>3
  <1> QED
    BY <1>1, <1>2, <1>3, <1>4 DEF Next

\* What has been read, and what has been sent, is what the device has.
KnowsDevice(q) ==
    /\ q.at = "got" /\ q.ok => q.value = dev[Register(q)]
    /\ q.at = "sent" /\ q.ok /\ q.c \notin Saves => dev[Register(q)] = q.value

LEMMA KnowsDeviceStep ==
  ASSUME Types, Calls, OneAtATime, GotIsDevice, SentIsDevice, LevelsFit, [Next]_vars
  PROVE  GotIsDevice' /\ SentIsDevice'
  <1>0. \A u \in Threads : KnowsDevice(call[u])
    BY DEF GotIsDevice, SentIsDevice, KnowsDevice, At
  <1> SUFFICES \A u \in Threads : KnowsDevice(call[u])'
    BY DEF GotIsDevice, SentIsDevice, KnowsDevice, At
  <1>1. CASE UNCHANGED vars \/ Detach \/ Disconnect
    BY <1>0, <1>1 DEF vars, Detach, Disconnect, KnowsDevice
  <1>2. ASSUME NEW t \in Threads, NEW c \in Controls, NEW op \in {"read", "write"}, Begin(t, c, op)
        PROVE  \A u \in Threads : KnowsDevice(call[u])'
    <2>1. dev' = dev
      BY <1>2 DEF Begin
    <2>2. PICK r \in CallType : Becomes(t, r) /\ r.at \in {"lock", "look"}
      BY <1>2, Begins
    <2> QED
      BY <1>0, <2>1, <2>2, CallsStep DEF KnowsDevice
  <1>3. ASSUME NEW t \in Threads, PowerLock(t)
        PROVE  \A u \in Threads : KnowsDevice(call[u])'
    <2>1. dev' = dev
      BY <1>3 DEF PowerLock
    <2>2. PICK r \in CallType : Becomes(t, r) /\ r.at = "look"
      BY <1>3, PowerLocks
    <2> QED
      BY <1>0, <2>1, <2>2, CallsStep DEF KnowsDevice
  <1>4. ASSUME NEW t \in Threads, Step(t)
        PROVE  \A u \in Threads : KnowsDevice(call[u])'
    <2>1. \A u \in Threads \ {t} : KnowsDevice(call[u])'
      BY <1>4, OneRuns DEF KnowsDevice
    <2> SUFFICES KnowsDevice(call[t])'
      BY <2>1
    <2>2. ASSUME NEW r \in CallType, Becomes(t, r), r.at \notin {"got", "sent"} \/ ~r.ok
          PROVE  KnowsDevice(call[t])'
      BY <2>2, CallsStep DEF KnowsDevice
    <2>3. CASE Look(t)
      BY <2>2, <2>3, Looks
    <2>4. CASE Save(t)
      BY <2>2, <2>4, SavesInstead
    <2>5. CASE Autoresume(t)
      BY <2>2, <2>5, Autoresumes
    <2>6. CASE Enter(t)
      <3>1. PICK r \in CallType : /\ Becomes(t, r) /\ (r.at = "got" => ~r.ok)
                                  /\ (r.at = "sent" => ~r.ok)
        BY <2>6, Enters
      <3> QED
        BY <2>2, <3>1
    <2>7. CASE Reply(t)
      <3>1. PICK r \in CallType : /\ Becomes(t, r) /\ r.at = "got"
                                  /\ r.c = call[t].c /\ r.ch = call[t].ch
                                  /\ (r.ok => r.value = dev[Register(call[t])])
        BY <2>7, Replies
      <3>2. dev' = dev
        BY <2>7 DEF Reply
      <3>3. call'[t] = r
        BY <3>1, CallsStep
      <3> QED
        BY <3>1, <3>2, <3>3 DEF KnowsDevice, Register
    <2>8. CASE Got(t)
      BY <2>2, <2>8, Gets
    <2>9. CASE Send(t)
      <3> DEFINE q == call[t]
      <3>1. PICK r \in CallType :
              /\ Becomes(t, r) /\ r.at = "sent"
              /\ r.c = q.c /\ r.ch = q.ch /\ r.value = q.value /\ q.c \in Controls
              /\ q.c \notin Saves =>
                   /\ Register(q) \in Registers
                   /\ r.value = Raw(r.c, r.want[r.ch]) /\ r.want[r.ch] \in Wishes(r.c)
        BY <2>9, Sends
      <3>2. call'[t] = r
        BY <3>1, CallsStep
      <3>3. ASSUME q.c \notin Saves
            PROVE  dev'[Register(q)] = q.value
        <4>1. dev' = [dev EXCEPT ![Register(q)] = Sent(q.value)]
          BY <2>9, <3>3 DEF Send
        <4>2. q.value \in Words
          BY <3>1, <3>3, RawFits
        <4>3. Sent(q.value) = q.value
          BY <4>2, SentIsWord, WordsAreNumbers
        <4> QED
          BY <3>1, <3>3, <4>1, <4>3 DEF Types
      <3> QED
        BY <3>1, <3>2, <3>3 DEF KnowsDevice, Register
    <2>10. CASE SendFails(t)
      <3>1. PICK r \in CallType : Becomes(t, r) /\ r.at \in {"send", "sent"} /\ (r.at = "sent" => ~r.ok)
        BY <2>10, SendsAgain
      <3> QED
        BY <2>2, <3>1
    <2>11. CASE SentDone(t)
      BY <2>2, <2>11, SendIsDone
    <2>12. CASE End(t)
      BY <2>2, <2>12, Ends, IdleIsWhole
    <2>13. CASE AutoresumeFails(t)
      BY <2>2, <2>13, Refuses
    <2> QED
      BY <1>4, <2>3, <2>4, <2>5, <2>6, <2>7, <2>8, <2>9, <2>10, <2>11, <2>12, <2>13 DEF Step
  <1> QED
    BY <1>1, <1>2, <1>3, <1>4 DEF Next

LEMMA CacheFreshStep ==
  ASSUME Types, Calls, OneAtATime, GotIsDevice, SentIsDevice, CacheFresh, LevelsFit,
         SentIsDevice', [Next]_vars
  PROVE  CacheFresh'
  <1> USE DEF CacheFresh
  <1>1. CASE UNCHANGED vars \/ Detach \/ Disconnect
    BY <1>1 DEF vars, Detach, Disconnect, JustSent, At
  <1>2. ASSUME NEW t \in Threads, UNCHANGED <<cache, dev>>, call[t].at # "sent",
               \A u \in Threads \ {t} : call'[u] = call[u]
        PROVE  CacheFresh'
    BY <1>2 DEF JustSent, At
  <1>3. ASSUME NEW t \in Threads, NEW c \in Controls, NEW op \in {"read", "write"}, Begin(t, c, op)
        PROVE  CacheFresh'
    <2>1. UNCHANGED <<cache, dev>> /\ call[t].at # "sent"
      BY <1>3 DEF Begin, At
    <2>2. \A u \in Threads \ {t} : call'[u] = call[u]
      BY <1>3, Begins, CallsStep
    <2> QED
      BY <1>2, <2>1, <2>2
  <1>4. ASSUME NEW t \in Threads, PowerLock(t)
        PROVE  CacheFresh'
    <2>1. UNCHANGED <<cache, dev>> /\ call[t].at # "sent"
      BY <1>4 DEF PowerLock, At
    <2>2. \A u \in Threads \ {t} : call'[u] = call[u]
      BY <1>4, PowerLocks, CallsStep
    <2> QED
      BY <1>2, <2>1, <2>2
  <1>5. ASSUME NEW t \in Threads, Step(t)
        PROVE  CacheFresh'
    <2> DEFINE q == call[t]
               R == Register(q)
    <2>1. \A u \in Threads \ {t} : call'[u] = call[u] /\ call[u].at \in {"idle", "lock"}
      BY <1>5, OneRuns
    \* Only t can have sent something that the cache does not know of.
    <2>2. ASSUME q.at # "sent", NEW r \in Registers
          PROVE  cache[r] = None \/ cache[r] = dev[r]
      BY <2>1, <2>2 DEF JustSent, At
    <2>3. CASE \/ Look(t) \/ Save(t) \/ Autoresume(t) \/ AutoresumeFails(t) \/ Enter(t)
               \/ Reply(t) \/ SendFails(t) \/ End(t)
      <3>1. UNCHANGED <<cache, dev>> /\ q.at # "sent"
        BY <2>3 DEF Look, Save, Autoresume, AutoresumeFails, Enter, Reply, SendFails, End, At
      <3> QED
        BY <1>2, <2>1, <3>1
    <2>4. CASE Got(t)
      <3>1. At(t, "got") /\ dev' = dev /\ cache' = IF q.ok THEN [cache EXCEPT ![R] = q.value] ELSE cache
        BY <2>4 DEF Got
      <3>2. q.ok => q.value = dev[R]
        BY <3>1 DEF GotIsDevice
      <3>3. \A r \in Registers : cache[r] = None \/ cache[r] = dev[r]
        BY <2>2, <3>1 DEF At
      <3> HIDE DEF q, R
      <3>4. \A r \in Registers : cache'[r] = None \/ cache'[r] = dev'[r]
        BY <3>1, <3>2, <3>3 DEF Types
      <3> QED
        BY <3>4
    <2>5. CASE Send(t)
      <3>1. At(t, "sending") /\ cache' = cache
            /\ (dev' = dev \/ (q.c \notin Saves /\ dev' = [dev EXCEPT ![R] = Sent(q.value)]))
        BY <2>5 DEF Send
      <3>2. \A r \in Registers : cache[r] = None \/ cache[r] = dev[r]
        BY <2>2, <3>1 DEF At
      <3>3. PICK p \in CallType :
              Becomes(t, p) /\ p.at = "sent" /\ p.ok /\ p.c = q.c /\ p.ch = q.ch
        BY <2>5, Sends
      <3>4. \A r \in Registers : r = R /\ q.c \notin Saves => JustSent(t, r)'
        BY <3>3, CallsStep DEF JustSent, At, Register
      <3> HIDE DEF q, R
      <3>5. ASSUME NEW r \in Registers
            PROVE  cache'[r] = None \/ cache'[r] = dev'[r] \/ JustSent(t, r)'
        <4>1. CASE r = R /\ q.c \notin Saves
          BY <3>4, <4>1
        <4>2. CASE r # R \/ q.c \in Saves
          <5>1. dev'[r] = dev[r]
            BY <3>1, <4>2 DEF Types
          <5> QED
            BY <3>1, <3>2, <5>1
        <4> QED
          BY <4>1, <4>2
      <3> QED
        BY <3>5
    <2>6. CASE SentDone(t)
      <3>1. At(t, "sent") /\ dev' = dev
            /\ cache' = IF Cached(q) THEN [cache EXCEPT ![R] = q.value] ELSE cache
        BY <2>6 DEF SentDone
      <3>2. Cached(q) => q.value = dev[R]
        BY <3>1 DEF Cached, SentIsDevice
      <3>3. ASSUME NEW r \in Registers
            PROVE  cache[r] = None \/ cache[r] = dev[r] \/ (Cached(q) /\ r = R)
        BY <2>1 DEF JustSent, Cached, At
      <3> HIDE DEF q, R
      <3>4. \A r \in Registers : cache'[r] = None \/ cache'[r] = dev'[r]
        BY <3>1, <3>2, <3>3 DEF Types
      <3> QED
        BY <3>4
    <2> QED
      BY <1>5, <2>3, <2>4, <2>5, <2>6 DEF Step
  <1> QED
    BY <1>1, <1>3, <1>4, <1>5 DEF Next

(***************************************************************************)
(* The theorems.                                                           *)
(***************************************************************************)
LEMMA InvInit == Init => Inv
  <1> SUFFICES ASSUME Init
               PROVE  Inv
    OBVIOUS
  <1>1. Holders = {}
    BY DEF Init, Idle, Holders, Holding
  <1>2. Balanced
    BY <1>1, FS_EmptySet DEF Init, Balanced
  <1>3. NobodyInside /\ Owed
    BY DEF Init, NobodyInside, Owed
  <1> QED
    BY <1>2, <1>3, TypesInit DEF Inv

LEMMA InvStep == Inv /\ [Next]_vars => Inv'
  BY TypesStep, NobodyInsideStep, BalancedStep, OwedStep DEF Inv

LEMMA InvAlways == Spec => []Inv
  BY InvInit, InvStep, PTL DEF Spec

\* The types, for every number of threads, controls, channels, levels and tries.
THEOREM TypeCorrect == Spec => []TypeOK
  <1>1. Inv => TypeOK
    <2> SUFFICES ASSUME Inv
                 PROVE  TypeOK
      OBVIOUS
    <2>1. Types
      BY DEF Inv
    <2>2. \A t \in Threads : /\ call[t].at \in Places /\ call[t].c \in Controls \cup {"none"}
                             /\ call[t].tries \in 0..Attempts - 1
                             /\ call[t].result \in {"ok", "changed", "error", "EPERM"}
      BY <2>1 DEF Types, CallType, Results
    <2>3. untold \subseteq Controls \X BOOLEAN
      BY <2>1 DEF Types, Untold
    <2> QED
      BY <2>1, <2>2, <2>3 DEF Types, TypeOK
  <1> QED
    BY <1>1, InvAlways, PTL

\* autoresume and autosuspend are paired on every path of get_ctl_urb2 and set_ctl_urb2
\* (scarlettmixer.c:228-246 and 267-289), with any number of callers at a time, inside
\* power_lock or not, with an autoresume that fails and with messages that fail, as long
\* as the device is on the bus.  After that a call may give back more than it took (the
\* -ENODEV of autoresume), never less.
THEOREM PowerIsBalanced == Spec => []PmBalanced
  <1>1. Inv => PmBalanced
    BY DEF Inv, Balanced, PmBalanced, Held, Holders
  <1> QED
    BY <1>1, InvAlways, PTL

\* scarlett_ctl_put and the functions like it return 1 for what has been changed: a
\* change without an event belongs to a write under way, or to one that has failed,
\* with any number of callers that overtake each other.
THEOREM ChangesAreReported == Spec => []EveryChangeIsReported
  <1>1. Inv => EveryChangeIsReported
    BY DEF Inv, Owed, Owes, EveryChangeIsReported
  <1> QED
    BY <1>1, InvAlways, PTL

\* After snd_usb_audio_disconnect has set shutdown (card.c:593-595) no message of
\* set_ctl_urb2 reaches the device.
THEOREM SilentOnceShutdown == Spec => SilentAfterShutdown
  <1>1. ASSUME Inv, [Next]_vars, shutdown
        PROVE  UNCHANGED <<dev, saved>>
    <2>1. \A t \in Threads : ~Send(t)
      <3> SUFFICES ASSUME NEW t \in Threads, Send(t)
                   PROVE  FALSE
        OBVIOUS
      <3>1. call[t].inside
        BY <1>1, Sends DEF Inv
      <3> QED
        BY <1>1, <3>1 DEF Inv, NobodyInside
    <2> QED
      BY <1>1, <2>1 DEF Next, vars, Begin, PowerLock, Step, Look, Save, Autoresume, AutoresumeFails, Enter, Reply,
                        Got, SendFails, SentDone, End, Detach, Disconnect
  <1>2. Inv /\ [Next]_vars => [shutdown => UNCHANGED <<dev, saved>>]_vars
    BY <1>1
  <1> QED
    BY <1>2, InvAlways, PTL DEF Spec, SilentAfterShutdown

LEMMA CacheInvInit == Init => CacheInv
  <1> SUFFICES ASSUME Init
               PROVE  CacheInv
    OBVIOUS
  <1>1. \A t \in Threads : call[t].at = "idle"
    BY DEF Init, Idle
  <1>2. \A r \in Registers : cache[r] = None \/ cache[r] = dev[r]
    BY DEF Init
  <1> QED
    BY <1>1, <1>2 DEF CacheInv, OneAtATime, GotIsDevice, SentIsDevice, CacheFresh, At

\* "only cache works" (scarlettmixer.c:322): with every caller in power_lock, and levels
\* that fit the two bytes of a message, the cache is what the device has, whatever
\* fails.  ScarlettMixer_race.cfg and ScarlettMixer_range.cfg show that both are needed.
THEOREM CacheIsTrue ==
  ASSUME Ioctls = Threads, \A v \in Levels : v <= 255
  PROVE  Spec => []CacheIsDevice
  <1>1. LevelsFit
    BY DEF LevelsFit
  <1>2. Inv /\ CacheInv /\ [Next]_vars => CacheInv'
    BY <1>1, OneAtATimeStep, KnowsDeviceStep, CacheFreshStep DEF Inv, CacheInv
  <1>3. Inv /\ CacheInv => CacheIsDevice
    <2> SUFFICES ASSUME Inv, CacheInv, NEW r \in Registers, cache[r] # None,
                        \A t \in Threads : call[t].c = r[1] => At(t, "lock")
                 PROVE  cache[r] = dev[r]
      BY DEF CacheIsDevice
    <2>1. \A t \in Threads : ~JustSent(t, r)
      BY DEF JustSent, Register, At
    <2> QED
      BY <2>1 DEF CacheInv, CacheFresh
  <1> QED
    BY <1>2, <1>3, CacheInvInit, InvAlways, PTL DEF Spec

=============================================================================
