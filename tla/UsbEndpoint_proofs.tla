------------------------ MODULE UsbEndpoint_proofs ------------------------
(***************************************************************************)
(* Proofs about module UsbEndpoint: no URB is forgotten by active_mask,    *)
(* none is freed while the host has it, an endpoint starts from rest, and  *)
(* no callback is without its buffer, for any number of URBs and of        *)
(* substreams open at a time, as long as they share no endpoint.           *)
(***************************************************************************)
EXTENDS UsbEndpoint, SequenceTheorems, TLAPS

\* No implicit feedback, so that each endpoint belongs to one substream; the
\* host takes the URBs of a capture; and the device does not vanish between the
\* submissions of a start.  UsbEndpoint_shared.cfg and UsbEndpoint_refused.cfg
\* show what becomes of the properties without the first two.
Lone == "implicit" \notin Feedback /\ "in" \notin Faulty /\ Unplug # "any time"

States == {"closed", "open", "setup", "prepared", "running", "paused"}
\* The endpoints that only substream s ever uses.
Own(s) == IF s = "play" THEN {"out", "fb"} ELSE {"in"}
Quiet(e) == AtHost(e) = {}

\* The entries of a list by the kind of work they belong to.
StartOps == {"start", "inc", "unlink", "wait", "go", "submit", "bit", "retire", "end"}
StopOps == {"stop", "dec", "unlink", "detach", "mute", "end"}
FreeOps == {"free", "unlink", "wait", "kfree"}
OwnOps == {"start", "inc", "unlink", "wait", "go", "submit", "bit", "retire", "stop", "dec",
           "detach", "mute", "sync", "params", "realloc", "deact"}
CallOps == OwnOps \cup {"end", "alloc", "vfree", "ready"}
Entries == [op : CallOps \cup FreeOps, ep : Eps \cup {None}, s : Subs \cup {None},
            v : Nat \cup States]
\* The entries of a list, and those between use_count and the end of a start.
Pend(L) == {L[i] : i \in 1..Len(L)}
Under == {"inc", "go", "submit", "bit"}

\* What may stand next to what: memory is freed and playback goes on only after
\* a wait for the same endpoint, and a bit is set after its submission.
Pair(x, y) ==
    /\ x.op # "end"
    /\ y.op \notin {"inc", "dec"}
    /\ y.op \in {"realloc", "kfree"} \/ (y.op = "go" /\ y.ep # "in") => x.op = "wait" /\ x.ep = y.ep
    /\ x.op = "submit" => y.op = "bit" /\ y.ep = x.ep /\ y.v = x.v

Ordered(L) ==
    /\ \A i \in 2..Len(L) : Pair(L[i-1], L[i])
    /\ \A i, j \in 1..Len(L) : i < j /\ L[i].op = "start" => L[j].op \in {"start", "retire", "end"}

\* The types that TypeOK leaves open.
Shape ==
    /\ todo \in [Agents -> Seq(Entries)]
    /\ chip \in [feedback : {"none", "explicit"}, gone : BOOLEAN, shutdown : BOOLEAN,
                 disconnected : BOOLEAN, freed : SUBSET Eps]
    /\ irq \in [at : {"idle", "retire", "test retire", "fetch retire", "retiring", "test running",
                      "test prepare", "fetch prepare", "preparing", "submit", "clear"},
                ep : Eps, urb : Urbs, user : Subs \cup {None}, slot : {0}, return : {"clear"}]

\* A list is in order, and that of a call or a trigger ends with its end.
Lists ==
    \A a \in Agents :
        /\ Ordered(todo[a])
        /\ todo[a] # <<>> /\ a # "hub" => todo[a][Len(todo[a])].op = "end"

\* A thread works for its own substream, the handler for one of the two, and
\* the hub only frees.
Owned ==
    /\ \A s \in Subs : \A o \in Pend(todo[s]) :
        /\ o.s = s /\ o.op \in CallOps
        /\ o.op \in OwnOps => o.ep \in Own(s)
        /\ o.op = "end" => o.v \in States
        /\ o.op \in {"submit", "bit"} => o.v \in Urbs
    /\ \A o \in Pend(todo["hcd"]) :
        /\ o.s \in Subs /\ o.op \in StopOps
        /\ o.op \in OwnOps => o.ep \in Own(o.s)
        /\ o.op = "end" => o.v = "setup"
        /\ \A p \in Pend(todo["hcd"]) : p.s = o.s
    /\ \A o \in Pend(todo["hub"]) :
        /\ o.ep \in Eps /\ o.op \in FreeOps /\ o.s = None
        /\ chip.disconnected

\* shutdown waits for the readers, and a disconnected stream has no endpoint.
Plug ==
    /\ chip.disconnected => chip.shutdown
    /\ chip.shutdown => chip.gone /\ \A s \in Subs : ~subs[s].reading
    /\ \A s \in Subs : subs[s].eps = IF chip.disconnected THEN <<>> ELSE EpsOf(s, chip.feedback)

\* Who starts an endpoint holds shutdown_rwsem or the stream lock.
Starting ==
    \A s \in Subs :
        /\ \A o \in Pend(todo[s]) : o.op \in Under \cup {"start"} =>
            /\ ~chip.disconnected
            /\ subs[s].reading \/ subs[s].locked
            /\ subs[s].state \in {"setup", "prepared"}
            /\ \A p \in Pend(todo[s]) : p.op # "vfree"
        /\ \A o \in Pend(todo[s]) : o.op \in Under =>
            /\ o.ep \in subs[s].started
            /\ \A p \in Pend(todo[s]) : p.op \in StartOps

HcdFor(s) == \E o \in Pend(todo["hcd"]) : o.s = s
Idle(s) == \A o \in Pend(todo[s]) : o.op = "end"

\* While the handler stops a substream, or the substream runs, its thread is
\* between two calls.
Alone ==
    \A s \in Subs :
        /\ HcdFor(s) => Idle(s)
        /\ HcdFor(s) /\ ~chip.disconnected => subs[s].locked /\ todo[s] = <<>>
        /\ subs[s].state = "running" /\ ~subs[s].locked =>
              Idle(s) /\ (chip.disconnected \/ todo[s] = <<>>)

\* Somebody is about to do this for substream s.
Doing(s, name, e) ==
    \E o \in Pend(todo[s]) \cup Pend(todo["hcd"]) : o.op = name /\ o.ep = e

\* use_count is 1 exactly while the endpoint is in the substream's flags, but for
\* the moment between the two, and no read of it is out of date.
Uses ==
    \A s \in Subs : \A e \in Own(s) :
        /\ \A o \in Pend(todo[s]) : o.op = "inc" /\ o.ep = e =>
                o.v = 1 /\ e \in subs[s].started /\ ep[e].use = 0
        /\ \A o \in Pend(todo[s]) \cup Pend(todo["hcd"]) : o.op = "dec" /\ o.ep = e =>
                o.v = 0 /\ e \notin subs[s].started /\ ep[e].use = 1
        /\ e \in subs[s].started /\ ~Doing(s, "inc", e) => ep[e].use = 1
        /\ e \notin subs[s].started /\ ~Doing(s, "dec", e) => ep[e].use = 0

\* The URB in the handler is the handler's.
InHandler ==
    /\ irq.at # "idle" => urb[irq.ep][irq.urb] = "handler"
    /\ \A e \in Eps, u \in Urbs : urb[e][u] = "handler" => irq.at # "idle" /\ irq.ep = e /\ irq.urb = u

\* The host has no URB that active_mask does not know.
Masks ==
    \A e \in Eps : \A u \in AtHost(e) :
        \/ u \in ep[e].active
        \/ \E a \in Agents : Due(a, "bit") /\ Head(todo[a]).ep = e /\ Head(todo[a]).v = u

\* Who is about to free URBs or to clear the masks finds none at the host.
QuietDue ==
    \A a \in Agents :
        todo[a] # <<>> /\ Head(todo[a]).op \in {"realloc", "kfree", "go"} => Quiet(Head(todo[a]).ep)

\* The end of the start trigger.
RunEnd(o) == o.op = "end" /\ o.v = "running"

\* What the list of the capture thread may hold.  Its trigger cannot wait, so
\* that the endpoint is at rest until it submits, every URB once; who will
\* leave state PREPARED behind has a wait, or the pending stop that makes one, ahead.
CaptList ==
    LET L == todo["capt"] IN
    /\ \A i \in 1..Len(L) :
        /\ L[i].op \in {"start", "inc", "go"} => i = Len(L) - 2
        /\ L[i].op = "submit" => 2 * L[i].v = 2 * NUrbs + 3 + i - Len(L)
    /\ \A o \in Pend(L) : o.op \in {"start", "inc", "go"} =>
        /\ Quiet("in")
        /\ \A p \in Pend(L) : p.op \notin {"submit", "bit"}
    /\ \A o \in Pend(L) : o.op = "submit" =>
        urb["in"][o.v] \in {"idle", "none"} /\ (chip.gone => Quiet("in"))
    /\ \A o \in Pend(L) : o.op \in Under \cup {"start"} => \E p \in Pend(L) : RunEnd(p)
    /\ \A o \in Pend(L) : RunEnd(o) => \A p \in Pend(L) :
        /\ p.op \in StartOps /\ p.op # "wait"
        /\ p.op = "end" => RunEnd(p)
    /\ \A o \in Pend(L) : o.op = "params" =>
        /\ "in" \notin subs["capt"].started
        /\ \A p \in Pend(L) : p.op \notin {"dec", "mute"}
    /\ \A o \in Pend(L) : o.op = "end" /\ o.v = "prepared" =>
        \/ Quiet("in")
        \/ \E p \in Pend(L) : p.op = "wait"
        \/ ep["in"].stopping /\ \E p \in Pend(L) : p.op = "sync"

\* A capture substream in PREPARED is at rest.  What runs without being used is
\* marked with STOPPING, for the next sync_endpoints to wait for.
Capture ==
    LET c == subs["capt"] IN
    /\ (\E u \in Urbs : urb["in"][u] = "none") => \A u \in Urbs : urb["in"][u] = "none"
    /\ c.state = "prepared" => Quiet("in") \/ \E o \in Pend(todo["capt"]) : RunEnd(o)
    /\ chip.disconnected \/ Quiet("in") \/ ep["in"].stopping \/ "in" \in c.started
            \/ Doing("capt", "mute", "in") \/ Doing("capt", "dec", "in")
    /\ "in" \in c.started =>
        \/ chip.disconnected
        \/ c.state \in {"running", "paused"} /\ todo["capt"] = <<>> /\ ~HcdFor("capt")
        \/ Doing("capt", "stop", "in")
        \/ \E o \in Pend(todo["capt"]) : RunEnd(o)

\* The records of TypeOK.
EpRec == [use : Nat, running : BOOLEAN, stopping : BOOLEAN,
          active : SUBSET Urbs, unlinked : SUBSET Urbs,
          user : Subs \cup {None}, slave : {"out", None},
          retire : BOOLEAN, prepare : BOOLEAN,
          ready : Seq(Urbs), packets : 0..(NUrbs - 1)]

\* The inductive invariant.
IInv ==
    /\ TypeOK /\ Shape /\ Lists /\ Owned /\ Plug /\ Starting /\ Alone /\ Uses
    /\ InHandler /\ Masks /\ QuietDue /\ CaptList /\ Capture

-----------------------------------------------------------------------------
(* Lists *)

LEMMA PendTuples ==
  /\ Pend(<<>>) = {}
  /\ \A x : Pend(<<x>>) = {x}
  /\ \A x, y : Pend(<<x, y>>) = {x, y}
  /\ \A x, y, z : Pend(<<x, y, z>>) = {x, y, z}
  <1>1. Pend(<<>>) = {}
    BY DEF Pend
  <1>2. \A x : Pend(<<x>>) = {x}
    BY DEF Pend
  <1>3. ASSUME NEW x, NEW y PROVE Pend(<<x, y>>) = {x, y}
    <2>1. 1..Len(<<x, y>>) = {1, 2}
      OBVIOUS
    <2> QED
      BY <2>1 DEF Pend
  <1>4. ASSUME NEW x, NEW y, NEW z PROVE Pend(<<x, y, z>>) = {x, y, z}
    <2>1. 1..Len(<<x, y, z>>) = {1, 2, 3}
      OBVIOUS
    <2> QED
      BY <2>1 DEF Pend
  <1> QED
    BY <1>1, <1>2, <1>3, <1>4

LEMMA PendOf ==
  ASSUME NEW S, NEW L \in Seq(S)
  PROVE  /\ Pend(L) \subseteq S
         /\ L # <<>> => Head(L) \in Pend(L) /\ Pend(Tail(L)) \subseteq Pend(L)
         /\ L # <<>> => Pend(L) = {Head(L)} \cup Pend(Tail(L))
         /\ \A i \in 1..Len(L) : L[i] \in Pend(L)
  <1>1. Pend(L) \subseteq S /\ \A i \in 1..Len(L) : L[i] \in Pend(L)
    BY DEF Pend
  <1>2. ASSUME L # <<>> PROVE Pend(L) = {Head(L)} \cup Pend(Tail(L))
    <2>1. Tail(L) \in Seq(S) /\ Len(Tail(L)) = Len(L) - 1 /\ Len(L) \in Nat \ {0} /\ Head(L) = L[1]
          /\ \A i \in 1..Len(Tail(L)) : Tail(L)[i] = L[i + 1]
      BY <1>2
    <2>2. ASSUME NEW i \in 1..Len(L) PROVE L[i] \in {Head(L)} \cup Pend(Tail(L))
      <3>1. CASE i = 1
        BY <3>1, <2>1
      <3>2. CASE i # 1
        <4>1. i - 1 \in 1..Len(Tail(L)) /\ Tail(L)[i - 1] = L[i]
          BY <3>2, <2>1
        <4> QED
          BY <4>1 DEF Pend
      <3> QED
        BY <3>1, <3>2
    <2>3. ASSUME NEW i \in 1..Len(Tail(L)) PROVE Tail(L)[i] \in Pend(L)
      <3>1. i + 1 \in 1..Len(L) /\ Tail(L)[i] = L[i + 1]
        BY <2>1
      <3> QED
        BY <3>1 DEF Pend
    <2>4. 1 \in 1..Len(L)
      BY <2>1
    <2>5. Head(L) \in Pend(L)
      BY <2>1, <2>4 DEF Pend
    <2>6. Pend(L) \subseteq {Head(L)} \cup Pend(Tail(L))
      BY <2>2 DEF Pend
    <2>7. Pend(Tail(L)) \subseteq Pend(L)
      BY <2>3 DEF Pend
    <2> QED
      BY <2>5, <2>6, <2>7
  <1> QED
    BY <1>1, <1>2

LEMMA PendCat ==
  ASSUME NEW S, NEW C \in Seq(S), NEW D \in Seq(S)
  PROVE  /\ C \o D \in Seq(S) /\ Pend(C \o D) = Pend(C) \cup Pend(D)
         /\ Len(C \o D) = Len(C) + Len(D)
         /\ \A i \in 1..Len(C \o D) :
                IF i <= Len(C) THEN i \in 1..Len(C) /\ (C \o D)[i] = C[i]
                               ELSE i - Len(C) \in 1..Len(D) /\ (C \o D)[i] = D[i - Len(C)]
  <1> DEFINE N == C \o D
  <1>1. N \in Seq(S) /\ Len(N) = Len(C) + Len(D) /\ Len(C) \in Nat /\ Len(D) \in Nat
    OBVIOUS
  <1>2. \A i \in 1..Len(N) : IF i <= Len(C) THEN i \in 1..Len(C) /\ N[i] = C[i]
                                            ELSE i - Len(C) \in 1..Len(D) /\ N[i] = D[i - Len(C)]
    BY <1>1
  <1>3. \A i \in 1..Len(C) : i \in 1..Len(N) /\ N[i] = C[i]
    BY <1>1, <1>2
  <1>4. ASSUME NEW i \in 1..Len(D) PROVE i + Len(C) \in 1..Len(N) /\ N[i + Len(C)] = D[i]
    <2>1. i + Len(C) \in 1..Len(N) /\ ~(i + Len(C) <= Len(C)) /\ i + Len(C) - Len(C) = i
      BY <1>1
    <2> QED
      BY <2>1, <1>2
  <1>5. Pend(N) \subseteq Pend(C) \cup Pend(D)
    BY <1>2 DEF Pend
  <1>6. Pend(C) \subseteq Pend(N)
    BY <1>3 DEF Pend
  <1>7. Pend(D) \subseteq Pend(N)
    BY <1>4 DEF Pend
  <1> QED
    BY <1>1, <1>2, <1>5, <1>6, <1>7

LEMMA Empty ==
  ASSUME NEW S, NEW L \in Seq(S)
  PROVE  L = <<>> <=> Pend(L) = {}
  BY PendTuples, PendOf

\* What is left of a list when its first entry is replaced by others.
LEMMA Replaced ==
  ASSUME NEW L \in Seq(Entries), L # <<>>, NEW C \in Seq(Entries), NEW N, N = C \o Tail(L)
  PROVE  /\ N \in Seq(Entries) /\ Pend(N) = Pend(C) \cup Pend(Tail(L))
         /\ Pend(L) = {Head(L)} \cup Pend(Tail(L)) /\ Head(L) = L[1]
         /\ Tail(L) \in Seq(Entries)
         /\ Len(L) \in Nat /\ Len(L) >= 1 /\ Len(C) \in Nat /\ Len(N) = Len(C) + Len(L) - 1
         /\ \A i \in 1..Len(N) :
                IF i <= Len(C) THEN i \in 1..Len(C) /\ N[i] = C[i]
                ELSE i - Len(C) + 1 \in 2..Len(L) /\ N[i] = L[i - Len(C) + 1]
         /\ C # <<>> => Head(N) = C[1]
         /\ C = <<>> /\ N # <<>> => 2 \in 2..Len(L) /\ Head(N) = L[2]
  <1>1. Tail(L) \in Seq(Entries) /\ Len(Tail(L)) = Len(L) - 1 /\ Len(L) \in Nat \ {0} /\ Head(L) = L[1]
        /\ \A i \in 1..Len(Tail(L)) : i + 1 \in 2..Len(L) /\ Tail(L)[i] = L[i + 1]
    OBVIOUS
  <1>2. /\ N \in Seq(Entries) /\ Pend(N) = Pend(C) \cup Pend(Tail(L))
        /\ Len(N) = Len(C) + Len(Tail(L))
        /\ \A i \in 1..Len(N) :
                IF i <= Len(C) THEN i \in 1..Len(C) /\ N[i] = C[i]
                ELSE i - Len(C) \in 1..Len(Tail(L)) /\ N[i] = Tail(L)[i - Len(C)]
    <2>1. /\ C \o Tail(L) \in Seq(Entries) /\ Pend(C \o Tail(L)) = Pend(C) \cup Pend(Tail(L))
          /\ Len(C \o Tail(L)) = Len(C) + Len(Tail(L))
          /\ \A i \in 1..Len(C \o Tail(L)) :
                IF i <= Len(C) THEN i \in 1..Len(C) /\ (C \o Tail(L))[i] = C[i]
                ELSE i - Len(C) \in 1..Len(Tail(L)) /\ (C \o Tail(L))[i] = Tail(L)[i - Len(C)]
      BY <1>1, PendCat, ZenonT(60)
    <2> QED
      BY <2>1
  <1>3. Len(C) \in Nat
    OBVIOUS
  <1>4. ASSUME NEW i \in 1..Len(N)
        PROVE  IF i <= Len(C) THEN i \in 1..Len(C) /\ N[i] = C[i]
               ELSE i - Len(C) + 1 \in 2..Len(L) /\ N[i] = L[i - Len(C) + 1]
    BY <1>1, <1>2, <1>3
  <1>5. C # <<>> => Head(N) = C[1]
    <2> SUFFICES ASSUME C # <<>> PROVE Head(N) = C[1]
      OBVIOUS
    <2>1. Len(C) >= 1 /\ Len(N) >= 1
      BY <1>1, <1>2, <1>3
    <2>2. N[1] = C[1]
      BY <2>1, <1>4, <1>2, <1>1, <1>3
    <2> QED
      BY <2>1, <2>2, <1>2
  <1>6. C = <<>> /\ N # <<>> => 2 \in 2..Len(L) /\ Head(N) = L[2]
    <2> SUFFICES ASSUME C = <<>>, N # <<>> PROVE 2 \in 2..Len(L) /\ Head(N) = L[2]
      OBVIOUS
    <2>1. Len(C) = 0 /\ Len(N) >= 1
      BY <1>2
    <2>2. 2 \in 2..Len(L) /\ N[1] = L[2]
      BY <2>1, <1>4, <1>2, <1>1
    <2> QED
      BY <2>1, <2>2, <1>2
  <1> QED
    BY <1>1, <1>2, <1>3, <1>4, <1>5, <1>6, PendOf

LEMMA OrderedThen ==
  ASSUME NEW L \in Seq(Entries), L # <<>>, Ordered(L), NEW C \in Seq(Entries), Ordered(C),
         NEW N, N = C \o Tail(L),
         \A o \in Pend(C) : o.op # "start",
         C # <<>> => C[Len(C)].op \notin {"submit", "end"} /\ Head(L).op \notin {"wait", "submit"}
  PROVE  Ordered(N)
  <1>0. /\ N \in Seq(Entries) /\ Head(L) = L[1]
        /\ Len(L) \in Nat /\ Len(L) >= 1 /\ Len(C) \in Nat /\ Len(N) = Len(C) + Len(L) - 1
        /\ \A i \in 1..Len(N) :
                IF i <= Len(C) THEN i \in 1..Len(C) /\ N[i] = C[i]
                ELSE i - Len(C) + 1 \in 2..Len(L) /\ N[i] = L[i - Len(C) + 1]
    BY Replaced
  <1>1. ASSUME NEW i \in 2..Len(N) PROVE Pair(N[i-1], N[i])
    <2>0. i \in 1..Len(N) /\ i - 1 \in 1..Len(N)
      BY <1>0
    <2>1. CASE i <= Len(C)
      <3>1. i \in 2..Len(C) /\ N[i] = C[i] /\ N[i-1] = C[i-1]
        BY <2>0, <2>1, <1>0
      <3> QED
        BY <3>1 DEF Ordered
    <2>2. CASE i = Len(C) + 1
      <3>1. N[i] = L[2] /\ N[i-1] = C[Len(C)] /\ C # <<>> /\ 2 \in 2..Len(L) /\ 2 - 1 = 1
        BY <2>0, <2>2, <1>0
      <3>2. Pair(L[1], L[2])
        BY <3>1 DEF Ordered
      <3> QED
        BY <3>1, <3>2, <1>0 DEF Pair
    <2>3. CASE i > Len(C) + 1
      <3>1. /\ N[i] = L[i - Len(C) + 1] /\ N[i-1] = L[i - Len(C)] /\ i - Len(C) + 1 \in 2..Len(L)
            /\ (i - Len(C) + 1) - 1 = i - Len(C)
        BY <2>0, <2>3, <1>0
      <3> QED
        BY <3>1 DEF Ordered
    <2> QED
      BY <2>1, <2>2, <2>3, <1>0
  <1>2. ASSUME NEW i \in 1..Len(N), NEW j \in 1..Len(N), i < j, N[i].op = "start"
        PROVE  N[j].op \in {"start", "retire", "end"}
    <2>1. CASE i <= Len(C)
      BY <2>1, <1>0, <1>2 DEF Pend
    <2>2. CASE i > Len(C)
      <3>1. /\ i - Len(C) + 1 \in 1..Len(L) /\ j - Len(C) + 1 \in 1..Len(L)
            /\ i - Len(C) + 1 < j - Len(C) + 1
            /\ N[i] = L[i - Len(C) + 1] /\ N[j] = L[j - Len(C) + 1]
        BY <2>2, <1>0, <1>2, SMTT(30)
      <3> QED
        BY <3>1, <1>2 DEF Ordered
    <2> QED
      BY <2>1, <2>2, <1>0
  <1> QED
    BY <1>1, <1>2 DEF Ordered

LEMMA LastThen ==
  ASSUME NEW L \in Seq(Entries), L # <<>>, NEW C \in Seq(Entries), NEW N, N = C \o Tail(L),
         L[Len(L)].op = "end", Head(L).op # "end"
  PROVE  N # <<>> /\ N[Len(N)] = L[Len(L)] /\ Tail(L) # <<>> /\ 2 \in 2..Len(L)
  <1>0. /\ N \in Seq(Entries) /\ Head(L) = L[1]
        /\ Len(L) \in Nat /\ Len(L) >= 1 /\ Len(C) \in Nat /\ Len(N) = Len(C) + Len(L) - 1
        /\ \A i \in 1..Len(N) :
                IF i <= Len(C) THEN i \in 1..Len(C) /\ N[i] = C[i]
                ELSE i - Len(C) + 1 \in 2..Len(L) /\ N[i] = L[i - Len(C) + 1]
    BY Replaced
  <1>1. Len(L) >= 2
    BY <1>0
  <1>2. Len(N) \in 1..Len(N) /\ ~(Len(N) <= Len(C)) /\ Len(N) - Len(C) + 1 = Len(L)
    BY <1>0, <1>1
  <1>3. N[Len(N)] = L[Len(L)]
    BY <1>0, <1>2
  <1> QED
    BY <1>0, <1>1, <1>2, <1>3

\* Once the last entry is the first there is no other.
LEMMA EndIsLast ==
  ASSUME NEW L \in Seq(Entries), L # <<>>, Ordered(L), Head(L).op = "end"
  PROVE  Tail(L) = <<>> /\ Pend(L) = {Head(L)} /\ Len(L) = 1
  <1>0. Len(L) \in Nat \ {0} /\ Head(L) = L[1]
    OBVIOUS
  <1>1. Len(L) = 1
    <2> SUFFICES ASSUME Len(L) # 1 PROVE FALSE
      OBVIOUS
    <2>0. Len(L) >= 2
      <3>1. \A n \in Nat \ {0} : n # 1 => n >= 2
        OBVIOUS
      <3> QED
        BY <1>0, <3>1, Zenon
    <2>1. 2 \in 2..Len(L)
      BY <1>0, <2>0
    <2>2. Pair(L[2 - 1], L[2])
      BY <2>1 DEF Ordered
    <2>3. Pair(L[1], L[2])
      BY <2>2
    <2> QED
      BY <1>0, <2>3 DEF Pair
  <1>2. Tail(L) = <<>>
    <2>1. Tail(L) \in Seq(Entries) /\ Len(Tail(L)) = Len(L) - 1
      OBVIOUS
    <2>2. Len(Tail(L)) = 0
      BY <1>1, <2>1
    <2> QED
      BY <2>1, <2>2, EmptySeq
  <1> QED
    BY <1>1, <1>2, PendOf, PendTuples

\* The first entry may be of a kind that no later entry is of.
LEMMA TailOf ==
  ASSUME NEW L \in Seq(Entries), L # <<>>, Ordered(L)
  PROVE  /\ \A o \in Pend(Tail(L)) : o.op \notin {"inc", "dec"}
         /\ Head(L).op = "start" => \A o \in Pend(Tail(L)) : o.op \in {"start", "retire", "end"}
  <1>1. Tail(L) \in Seq(Entries) /\ Len(Tail(L)) = Len(L) - 1 /\ Len(L) \in Nat \ {0} /\ Head(L) = L[1]
        /\ \A i \in 1..Len(Tail(L)) : i + 1 \in 2..Len(L) /\ Tail(L)[i] = L[i + 1]
    OBVIOUS
  <1>2. \A i \in 2..Len(L) : L[i].op \notin {"inc", "dec"}
    BY DEF Ordered, Pair
  <1>3. Head(L).op = "start" => \A i \in 2..Len(L) : L[i].op \in {"start", "retire", "end"}
    BY <1>1 DEF Ordered
  <1> QED
    BY <1>1, <1>2, <1>3 DEF Pend

-----------------------------------------------------------------------------
(* A step that replaces the first entry of a list *)

Lists0 == todo \in [Agents -> Seq(Entries)]

LEMMA ThenTodo ==
  ASSUME Lists0, NEW a \in Agents, todo[a] # <<>>, NEW C \in Seq(Entries), Then(a, C)
  PROVE  /\ todo[a] \in Seq(Entries) /\ todo' \in [Agents -> Seq(Entries)]
         /\ todo'[a] = C \o Tail(todo[a])
         /\ \A b \in Agents : b # a => todo'[b] = todo[b]
         /\ Pend(todo[a]) = {Head(todo[a])} \cup Pend(Tail(todo[a]))
         /\ Pend(todo'[a]) = Pend(C) \cup Pend(Tail(todo[a]))
         /\ Pend(todo[a]) \subseteq Entries
  <1>1. todo[a] \in Seq(Entries)
    BY DEF Lists0
  <1>2. todo'[a] = C \o Tail(todo[a]) /\ \A b \in Agents : b # a => todo'[b] = todo[b]
    <2> DEFINE N == C \o Tail(todo[a])
    <2>1. todo' = [todo EXCEPT ![a] = N]
      BY DEF Then
    <2> HIDE DEF N
    <2>2. todo'[a] = N /\ \A b \in Agents : b # a => todo'[b] = todo[b]
      BY <2>1 DEF Lists0
    <2> QED
      BY <2>2 DEF N
  <1>3. /\ todo'[a] \in Seq(Entries) /\ Pend(todo'[a]) = Pend(C) \cup Pend(Tail(todo[a]))
        /\ Pend(todo[a]) = {Head(todo[a])} \cup Pend(Tail(todo[a]))
    <2> DEFINE N == todo'[a]
    <2>1. N = C \o Tail(todo[a])
      BY <1>2
    <2> HIDE DEF N
    <2>2. /\ N \in Seq(Entries) /\ Pend(N) = Pend(C) \cup Pend(Tail(todo[a]))
          /\ Pend(todo[a]) = {Head(todo[a])} \cup Pend(Tail(todo[a]))
      BY <1>1, <2>1, Replaced, ZenonT(60)
    <2> QED
      BY <2>2 DEF N
  <1>4. todo' \in [Agents -> Seq(Entries)]
    <2>1. todo' = [b \in Agents |-> todo'[b]]
      BY DEF Lists0, Then
    <2>2. \A b \in Agents : todo'[b] \in Seq(Entries)
      BY <1>2, <1>3 DEF Lists0
    <2> QED
      BY <2>1, <2>2
  <1>5. Pend(todo[a]) \subseteq Entries
    BY <1>1, PendOf
  <1> QED
    BY <1>1, <1>2, <1>3, <1>4, <1>5

\* What may take the place of a first entry.
Fits(C, h) ==
    /\ C \in Seq(Entries) /\ Ordered(C)
    /\ \A o \in Pend(C) :
        /\ o.ep = h.ep /\ o.s = h.s
        /\ o.op \notin {"start", "end"}
    /\ C # <<>> => C[Len(C)].op # "submit" /\ h.op \notin {"wait", "submit"}

LEMMA ThenLists ==
  ASSUME Lists0, Lists, NEW a \in Agents, todo[a] # <<>>, NEW C, Then(a, C),
         Fits(C, Head(todo[a])), Head(todo[a]).op = "end" => C = <<>>
  PROVE  Lists'
  <1> DEFINE L == todo[a]
             N == todo'[a]
  <1>1. /\ L \in Seq(Entries) /\ N = C \o Tail(L) /\ \A b \in Agents : b # a => todo'[b] = todo[b]
        /\ C \in Seq(Entries)
    BY ThenTodo DEF Fits
  <1>2. Ordered(N)
    <2>0. Ordered(L) /\ L # <<>>
      BY DEF Lists
    <2>1. \A o \in Pend(C) : o.op # "start"
      BY DEF Fits
    <2>2. C # <<>> => C[Len(C)].op \notin {"submit", "end"} /\ Head(L).op \notin {"wait", "submit"}
      <3> SUFFICES ASSUME C # <<>> PROVE C[Len(C)].op # "end"
        BY DEF Fits
      <3>1. Len(C) \in 1..Len(C)
        BY <1>1
      <3> QED
        BY <3>1 DEF Fits, Pend
    <2>3. Ordered(C)
      BY DEF Fits
    <2> HIDE DEF L, N
    <2> QED
      BY <2>0, <2>1, <2>2, <2>3, <1>1, OrderedThen
  <1>3. ASSUME N # <<>>, a # "hub" PROVE N[Len(N)].op = "end"
    <2>1. Ordered(L) /\ L[Len(L)].op = "end" /\ L # <<>>
      BY <1>3 DEF Lists
    <2>2. CASE Head(L).op = "end"
      <3>1. Tail(L) = <<>> /\ C = <<>>
        BY <2>2, <2>1, <1>1, EndIsLast
      <3>2. N = <<>>
        BY <3>1, <1>1
      <3> QED
        BY <3>2, <1>3
    <2>3. CASE Head(L).op # "end"
      <3> HIDE DEF L, N
      <3>1. N[Len(N)] = L[Len(L)]
        BY <2>3, <2>1, <1>1, LastThen
      <3> QED
        BY <3>1, <2>1
    <2> QED
      BY <2>2, <2>3
  <1> QED
    BY <1>1, <1>2, <1>3 DEF Lists

\* The same card, and the same substreams but for buffer, need_setup and started.
SameCard == chip'.disconnected = chip.disconnected
SameSubs == \A s \in Subs : subs'[s].state = subs[s].state /\ subs'[s].locked = subs[s].locked
SameReads == \A s \in Subs : subs'[s].reading = subs[s].reading

MayCall(a, C, h) ==
    /\ h.op = "end" => C = <<>>
    /\ \A o \in Pend(C) :
        /\ IF a = "hub" THEN o.op \in FreeOps
           ELSE IF a = "hcd" THEN o.op \in StopOps \cap OwnOps ELSE o.op \in OwnOps
        /\ a # "hub" => h.op \in OwnOps
        /\ o.op \in {"submit", "bit"} => o.v \in Urbs

LEMMA AgentsAre ==
  /\ Agents = {"play", "capt", "hcd", "hub"} /\ Subs = {"play", "capt"}
  /\ Eps = {"out", "fb", "in"}
  /\ Own("play") = {"out", "fb"} /\ Own("capt") = {"in"}
  /\ \A s \in Subs : Own(s) \subseteq Eps /\ s \in Agents /\ s # "hcd" /\ s # "hub" /\ DataEp(s) \in Own(s)
  /\ \A e \in Eps : \E s \in Subs : e \in Own(s)
  /\ \A s, t \in Subs : \A e \in Own(s) : e \in Own(t) => s = t
  /\ "hcd" \in Agents /\ "hub" \in Agents
  BY DEF Agents, Subs, Own, Eps, DataEp

LEMMA ThenOwned ==
  ASSUME Lists0, Owned, NEW a \in Agents, todo[a] # <<>>, NEW C, Then(a, C),
         SameCard, Fits(C, Head(todo[a])), MayCall(a, C, Head(todo[a]))
  PROVE  Owned'
  <1> DEFINE h == Head(todo[a])
             R == Pend(Tail(todo[a]))
  <1>1. /\ Pend(todo[a]) = {h} \cup R /\ Pend(todo'[a]) = Pend(C) \cup R
        /\ \A b \in Agents : b # a => todo'[b] = todo[b]
    BY ThenTodo DEF Fits
  <1>2. ASSUME NEW o \in Pend(C) PROVE /\ o.ep = h.ep /\ o.s = h.s /\ o.op # "end"
    BY DEF Fits
  <1>3. ASSUME NEW o \in Pend(C)
        PROVE  /\ IF a = "hub" THEN o.op \in FreeOps
                  ELSE IF a = "hcd" THEN o.op \in StopOps \cap OwnOps ELSE o.op \in OwnOps
               /\ a # "hub" => h.op \in OwnOps
               /\ o.op \in {"submit", "bit"} => o.v \in Urbs
    BY DEF MayCall
  <1> HIDE DEF h, R
  <1>4. ASSUME NEW s \in Subs, NEW o \in Pend(todo'[s])
        PROVE  /\ o.s = s /\ o.op \in CallOps
               /\ o.op \in OwnOps => o.ep \in Own(s)
               /\ o.op = "end" => o.v \in States
               /\ o.op \in {"submit", "bit"} => o.v \in Urbs
    <2>1. CASE o \in Pend(todo[s])
      BY <2>1 DEF Owned
    <2>2. CASE o \notin Pend(todo[s])
      <3>1. a = s /\ o \in Pend(C) /\ h \in Pend(todo[s]) /\ a # "hub" /\ a # "hcd"
        BY <2>2, <1>1, AgentsAre
      <3>2. o.ep = h.ep /\ o.s = h.s /\ o.op # "end" /\ o.op \in OwnOps /\ h.op \in OwnOps
            /\ (o.op \in {"submit", "bit"} => o.v \in Urbs)
        BY <3>1, <1>2, <1>3
      <3>3. h.s = s /\ h.ep \in Own(s)
        BY <3>1, <3>2 DEF Owned
      <3> QED
        BY <3>2, <3>3 DEF CallOps
    <2> QED
      BY <2>1, <2>2
  <1>5. ASSUME NEW o \in Pend(todo'["hcd"])
        PROVE  /\ o.s \in Subs /\ o.op \in StopOps
               /\ o.op \in OwnOps => o.ep \in Own(o.s)
               /\ o.op = "end" => o.v = "setup"
               /\ \E q \in Pend(todo["hcd"]) : q.s = o.s
    <2>1. CASE o \in Pend(todo["hcd"])
      BY <2>1 DEF Owned
    <2>2. CASE o \notin Pend(todo["hcd"])
      <3>1. a = "hcd" /\ o \in Pend(C) /\ h \in Pend(todo["hcd"])
        BY <2>2, <1>1, AgentsAre
      <3>2. o.ep = h.ep /\ o.s = h.s /\ o.op # "end" /\ o.op \in StopOps \cap OwnOps /\ h.op \in OwnOps
        BY <3>1, <1>2, <1>3
      <3>3. h.s \in Subs /\ h.ep \in Own(h.s)
        BY <3>1, <3>2 DEF Owned
      <3> QED
        BY <3>1, <3>2, <3>3
    <2> QED
      BY <2>1, <2>2
  <1>6. ASSUME NEW o \in Pend(todo'["hcd"]), NEW p \in Pend(todo'["hcd"]) PROVE p.s = o.s
    <2>1. PICK q \in Pend(todo["hcd"]) : q.s = o.s
      BY <1>5
    <2>2. PICK r \in Pend(todo["hcd"]) : r.s = p.s
      BY <1>5
    <2> QED
      BY <2>1, <2>2 DEF Owned
  <1>7. ASSUME NEW o \in Pend(todo'["hub"])
        PROVE  o.ep \in Eps /\ o.op \in FreeOps /\ o.s = None /\ chip.disconnected
    <2>1. CASE o \in Pend(todo["hub"])
      BY <2>1 DEF Owned
    <2>2. CASE o \notin Pend(todo["hub"])
      <3>1. a = "hub" /\ o \in Pend(C) /\ h \in Pend(todo["hub"])
        BY <2>2, <1>1, AgentsAre
      <3>2. h.ep \in Eps /\ h.s = None /\ chip.disconnected
        BY <3>1 DEF Owned
      <3> QED
        BY <3>1, <3>2, <1>2, <1>3
    <2> QED
      BY <2>1, <2>2
  <1>8. chip'.disconnected = chip.disconnected
    BY DEF SameCard
  <1> QED
    BY <1>4, <1>5, <1>6, <1>7, <1>8 DEF Owned

LEMMA ThenAlone ==
  ASSUME Lists0, Owned, Alone, NEW a \in Agents, todo[a] # <<>>, NEW C, Then(a, C),
         SameCard, SameSubs, Fits(C, Head(todo[a])), MayCall(a, C, Head(todo[a]))
  PROVE  Alone'
  <1> DEFINE h == Head(todo[a])
             R == Pend(Tail(todo[a]))
  <1>1. /\ Pend(todo[a]) = {h} \cup R /\ Pend(todo'[a]) = Pend(C) \cup R
        /\ \A b \in Agents : b # a => todo'[b] = todo[b]
    BY ThenTodo DEF Fits
  <1>2. \A o \in Pend(C) : o.s = h.s
    BY DEF Fits
  <1>3. h.op = "end" => C = <<>>
    BY DEF MayCall
  <1> HIDE DEF h, R
  <1>4. ASSUME NEW s \in Subs, HcdFor(s)' PROVE HcdFor(s)
    <2>1. PICK o \in Pend(todo'["hcd"]) : o.s = s
      BY <1>4 DEF HcdFor
    <2>2. o \in Pend(todo["hcd"]) \/ (a = "hcd" /\ h \in Pend(todo["hcd"]) /\ h.s = s)
      BY <2>1, <1>1, <1>2, AgentsAre
    <2> QED
      BY <2>1, <2>2 DEF HcdFor
  <1>5. ASSUME NEW s \in Subs, Idle(s) PROVE Idle(s)'
    <2>1. a = s => h.op = "end" /\ Pend(C) = {}
      BY <1>1, <1>3, <1>5, PendTuples DEF Idle
    <2>2. Pend(todo'[s]) \subseteq Pend(todo[s])
      BY <2>1, <1>1, AgentsAre
    <2> QED
      BY <2>2, <1>5 DEF Idle
  <1>6. ASSUME NEW s \in Subs, todo[s] = <<>> PROVE todo'[s] = <<>>
    BY <1>1, <1>6, AgentsAre
  <1> QED
    BY <1>4, <1>5, <1>6 DEF Alone, SameCard, SameSubs

LEMMA ThenStarting ==
  ASSUME Lists0, Lists, Owned, Alone, Starting, NEW a \in Agents, todo[a] # <<>>, NEW C, Then(a, C),
         SameCard, SameSubs, SameReads, Fits(C, Head(todo[a])), MayCall(a, C, Head(todo[a])),
         \A s \in Subs : \A e \in subs[s].started :
            \/ e \in subs'[s].started
            \/ Head(todo[a]).op = "stop" /\ Head(todo[a]).s = s /\ a # "hub",
         Head(todo[a]).op \in StartOps => \A o \in Pend(C) : o.op \in StartOps,
         \A o \in Pend(C) : o.op \in Under =>
            /\ a \in Subs /\ Head(todo[a]).op \in {"start", "inc", "go"}
            /\ Head(todo[a]).ep \in subs'[a].started
  PROVE  Starting'
  <1> DEFINE h == Head(todo[a])
             R == Pend(Tail(todo[a]))
  <1>1. /\ Pend(todo[a]) = {h} \cup R /\ Pend(todo'[a]) = Pend(C) \cup R
        /\ \A b \in Agents : b # a => todo'[b] = todo[b]
    BY ThenTodo DEF Fits
  <1>2. \A o \in Pend(C) : o.ep = h.ep /\ o.s = h.s /\ o.op # "start"
    BY DEF Fits
  <1>3. a \in Subs => \A o \in Pend(C) : o.op # "vfree"
    BY AgentsAre DEF MayCall, OwnOps
  <1>4. h.op = "start" => \A o \in R : o.op \in {"start", "retire", "end"}
    BY TailOf DEF Lists, Lists0
  <1>5. h.op \in StartOps => \A o \in Pend(C) : o.op \in StartOps
    OBVIOUS
  <1>6. \A s \in Subs : \A e \in subs[s].started :
            e \in subs'[s].started \/ (h.op = "stop" /\ h.s = s /\ a # "hub")
    OBVIOUS
  <1>7. \A o \in Pend(C) : o.op \in Under =>
            a \in Subs /\ h.op \in {"start", "inc", "go"} /\ h.ep \in subs'[a].started
    OBVIOUS
  <1> HIDE DEF h, R
  <1>8. ASSUME NEW s \in Subs, NEW o \in Pend(todo'[s]), o.op \in Under \cup {"start"}
        PROVE  /\ \E q \in Pend(todo[s]) : q.op \in Under \cup {"start"}
               /\ \A p \in Pend(todo'[s]) : p.op # "vfree"
    <2>1. PICK q \in Pend(todo[s]) : q.op \in Under \cup {"start"}
      <3>1. CASE o \in Pend(todo[s])
        BY <3>1, <1>8
      <3>2. CASE o \notin Pend(todo[s])
        <4>1. a = s /\ o \in Pend(C) /\ h \in Pend(todo[s])
          BY <3>2, <1>8, <1>1, AgentsAre
        <4>2. h.op \in {"start", "inc", "go"}
          BY <4>1, <1>2, <1>7, <1>8
        <4> QED
          BY <4>1, <4>2 DEF Under
      <3> QED
        BY <3>1, <3>2
    <2>2. \A p \in Pend(todo[s]) : p.op # "vfree"
      BY <2>1 DEF Starting
    <2> QED
      BY <2>1, <2>2, <1>1, <1>3, AgentsAre
  <1>9. ASSUME NEW s \in Subs, NEW o \in Pend(todo'[s]), o.op \in Under
        PROVE  /\ o.ep \in subs'[s].started
               /\ \A p \in Pend(todo'[s]) : p.op \in StartOps
    <2>1. CASE o \in Pend(todo[s])
      <3>1. o.ep \in subs[s].started /\ \A p \in Pend(todo[s]) : p.op \in StartOps
        BY <2>1, <1>9 DEF Starting
      <3>2. ASSUME h.op = "stop", h.s = s, a # "hub" PROVE FALSE
        <4>1. CASE a = "hcd"
          <5>1. h \in Pend(todo["hcd"])
            BY <4>1, <1>1
          <5>2. Idle(s)
            BY <5>1, <3>2 DEF Alone, HcdFor
          <5> QED
            BY <5>2, <2>1, <1>9 DEF Idle, Under
        <4>2. CASE a \in Subs
          <5>1. h.s = a /\ h \in Pend(todo[a])
            BY <4>2, <1>1 DEF Owned
          <5>2. h.op \in StartOps
            BY <5>1, <3>1, <3>2
          <5> QED
            BY <5>2, <3>2 DEF StartOps
        <4> QED
          BY <4>1, <4>2, <3>2, AgentsAre
      <3>3. o.ep \in subs'[s].started
        BY <3>1, <3>2, <1>6
      <3>4. \A p \in Pend(todo'[s]) : p.op \in StartOps
        BY <3>1, <1>1, <1>5, AgentsAre
      <3> QED
        BY <3>3, <3>4
    <2>2. CASE o \notin Pend(todo[s])
      <3>1. a = s /\ o \in Pend(C) /\ h \in Pend(todo[s])
        BY <2>2, <1>9, <1>1, AgentsAre
      <3>2. h.op \in {"start", "inc", "go"} /\ h.ep \in subs'[a].started /\ o.ep = h.ep
        BY <3>1, <1>2, <1>7, <1>9
      <3>3. \A p \in Pend(C) : p.op \in StartOps
        BY <3>2, <1>5 DEF StartOps
      <3>4. \A p \in R : p.op \in StartOps
        <4>1. CASE h.op = "start"
          BY <4>1, <1>4 DEF StartOps
        <4>2. CASE h.op \in {"inc", "go"}
          BY <4>2, <3>1, <1>1 DEF Starting, Under
        <4> QED
          BY <4>1, <4>2, <3>2
      <3> QED
        BY <3>1, <3>2, <3>3, <3>4, <1>1
    <2> QED
      BY <2>1, <2>2
  <1>10. ASSUME NEW s \in Subs, NEW o \in Pend(todo'[s]), o.op \in Under \cup {"start"}
         PROVE  /\ ~chip'.disconnected
                /\ subs'[s].reading \/ subs'[s].locked
                /\ subs'[s].state \in {"setup", "prepared"}
    <2>1. PICK q \in Pend(todo[s]) : q.op \in Under \cup {"start"}
      BY <1>8, <1>10
    <2> QED
      BY <2>1 DEF Starting, SameCard, SameSubs, SameReads
  <1> QED
    BY <1>8, <1>9, <1>10 DEF Starting

SameUse ==
    /\ \A e \in Eps : ep'[e].use = ep[e].use
    /\ \A s \in Subs : subs'[s].started = subs[s].started

\* What the other lists hold, and what is left of this one.
LEMMA ThenDoing ==
  ASSUME Lists0, NEW a \in Agents, todo[a] # <<>>, NEW C, Then(a, C), C \in Seq(Entries)
  PROVE  /\ \A s \in Subs : \A name, e :
              Doing(s, name, e)' =>
                 \/ Doing(s, name, e)
                 \/ a \in {s, "hcd"} /\ \E o \in Pend(C) : o.op = name /\ o.ep = e
         /\ \A s \in Subs : \A name, e :
              Doing(s, name, e) =>
                 \/ Doing(s, name, e)'
                 \/ a \in {s, "hcd"} /\ Head(todo[a]).op = name /\ Head(todo[a]).ep = e
         /\ \A s \in Subs : \A name, e : a \in {s, "hcd"} =>
              ((\E o \in Pend(C) : o.op = name /\ o.ep = e) => Doing(s, name, e)')
         /\ \A s \in Subs : \A name, e : a \in {s, "hcd"} =>
              (Head(todo[a]).op = name /\ Head(todo[a]).ep = e => Doing(s, name, e))
  <1> DEFINE h == Head(todo[a])
             R == Pend(Tail(todo[a]))
  <1>1. /\ Pend(todo[a]) = {h} \cup R /\ Pend(todo'[a]) = Pend(C) \cup R
        /\ \A b \in Agents : b # a => todo'[b] = todo[b]
    BY ThenTodo
  <1> HIDE DEF h, R
  <1> DEFINE All(s) == Pend(todo[s]) \cup Pend(todo["hcd"])
             All1(s) == Pend(todo'[s]) \cup Pend(todo'["hcd"])
  <1>2. ASSUME NEW s \in Subs
        PROVE  /\ All1(s) \subseteq All(s) \cup (IF a \in {s, "hcd"} THEN Pend(C) ELSE {})
               /\ All(s) \subseteq All1(s) \cup (IF a \in {s, "hcd"} THEN {h} ELSE {})
               /\ a \in {s, "hcd"} => Pend(C) \subseteq All1(s) /\ h \in All(s)
    BY <1>1, AgentsAre
  <1>3. /\ \A s \in Subs : \A name, e : Doing(s, name, e) <=> \E o \in All(s) : o.op = name /\ o.ep = e
        /\ \A s \in Subs : \A name, e : Doing(s, name, e)' <=> \E o \in All1(s) : o.op = name /\ o.ep = e
    BY DEF Doing
  <1> HIDE DEF All, All1
  <1>4. \A s \in Subs : \A name, e :
              Doing(s, name, e)' =>
                 \/ Doing(s, name, e)
                 \/ a \in {s, "hcd"} /\ \E o \in Pend(C) : o.op = name /\ o.ep = e
    BY <1>2, <1>3
  <1>5. \A s \in Subs : \A name, e :
              Doing(s, name, e) =>
                 \/ Doing(s, name, e)'
                 \/ a \in {s, "hcd"} /\ h.op = name /\ h.ep = e
    BY <1>2, <1>3
  <1>6. \A s \in Subs : \A name, e : a \in {s, "hcd"} =>
              ((\E o \in Pend(C) : o.op = name /\ o.ep = e) => Doing(s, name, e)')
    BY <1>2, <1>3
  <1>7. \A s \in Subs : \A name, e : a \in {s, "hcd"} => (h.op = name /\ h.ep = e => Doing(s, name, e))
    BY <1>2, <1>3
  <1> QED
    BY <1>4, <1>5, <1>6, <1>7 DEF h

LEMMA ThenUsesSame ==
  ASSUME Lists0, Uses, NEW a \in Agents, todo[a] # <<>>, NEW C, Then(a, C), C \in Seq(Entries),
         SameUse, Head(todo[a]).op \notin {"inc", "dec"},
         \A o \in Pend(C) : o.op \notin {"inc", "dec"}
  PROVE  Uses'
  <1> DEFINE h == Head(todo[a])
             R == Pend(Tail(todo[a]))
  <1>1. /\ Pend(todo[a]) = {h} \cup R /\ Pend(todo'[a]) = Pend(C) \cup R
        /\ \A b \in Agents : b # a => todo'[b] = todo[b]
    BY ThenTodo
  <1>2. \A s \in Subs : \A name, e : name \in {"inc", "dec"} => (Doing(s, name, e)' <=> Doing(s, name, e))
    BY ThenDoing
  <1>3. h.op \notin {"inc", "dec"} /\ \A o \in Pend(C) : o.op \notin {"inc", "dec"}
    OBVIOUS
  <1> HIDE DEF h, R
  <1>4. \A b \in Agents : \A o \in Pend(todo'[b]) : o.op \in {"inc", "dec"} => o \in Pend(todo[b])
    BY <1>1, <1>3
  <1>5. \A s \in Subs : \A e \in Own(s) : ep'[e].use = ep[e].use /\ subs'[s].started = subs[s].started
    BY AgentsAre DEF SameUse
  <1> QED
    BY <1>2, <1>4, <1>5, AgentsAre DEF Uses

LEMMA ThenMasks ==
  ASSUME Lists0, Masks, NEW a \in Agents, todo[a] # <<>>, NEW C, Then(a, C), C \in Seq(Entries),
         \A e \in Eps : \A u \in AtHost(e)' :
            /\ u \in AtHost(e)
            /\ u \in ep[e].active => u \in ep'[e].active
            /\ Head(todo[a]).op = "bit" /\ Head(todo[a]).ep = e /\ Head(todo[a]).v = u =>
                  u \in ep'[e].active
  PROVE  Masks'
  <1>1. \A b \in Agents : b # a => todo'[b] = todo[b]
    BY ThenTodo
  <1>2. ASSUME NEW e \in Eps, NEW u \in AtHost(e)', u \notin ep'[e].active
        PROVE  \E b \in Agents : Due(b, "bit")' /\ Head(todo'[b]).ep = e /\ Head(todo'[b]).v = u
    <2>1. PICK b \in Agents : Due(b, "bit") /\ Head(todo[b]).ep = e /\ Head(todo[b]).v = u
      BY <1>2 DEF Masks
    <2>2. b # a
      BY <2>1, <1>2 DEF Due
    <2> QED
      BY <2>1, <2>2, <1>1 DEF Due
  <1> QED
    BY <1>2 DEF Masks

\* What an empty C uncovers.
LEMMA ThenQuietDue ==
  ASSUME Lists0, Lists, Owned, QuietDue, CaptList,
         NEW a \in Agents, todo[a] # <<>>, NEW C, Then(a, C), C \in Seq(Entries),
         \A e \in Eps : AtHost(e)' \subseteq AtHost(e),
         \A e : Head(todo[a]).op = "wait" /\ Head(todo[a]).ep = e => Quiet(e)',
         \A e : C # <<>> /\ C[1].op \in {"realloc", "kfree", "go"} /\ C[1].ep = e => Quiet(e)'
  PROVE  QuietDue'
  <1> DEFINE L == todo[a]
             N == todo'[a]
  <1>1. /\ L \in Seq(Entries) /\ N = C \o Tail(L) /\ \A b \in Agents : b # a => todo'[b] = todo[b]
    BY ThenTodo
  <1>2. ASSUME NEW b \in Agents, b # a, todo'[b] # <<>>, Head(todo'[b]).op \in {"realloc", "kfree", "go"},
               NEW e, e = Head(todo'[b]).ep
        PROVE  Quiet(e)'
    <2>1. todo'[b] = todo[b] /\ todo[b] \in Seq(Entries)
      BY <1>1, <1>2 DEF Lists0
    <2>2. Quiet(Head(todo[b]).ep)
      BY <2>1, <1>2 DEF QuietDue
    <2>3. Head(todo[b]) \in Pend(todo[b])
      BY <2>1, <1>2, PendOf
    <2>4. Head(todo[b]).ep \in Eps
      <3>1. CASE b \in Subs
        BY <3>1, <2>1, <2>3, <1>2, AgentsAre DEF Owned, OwnOps, CallOps
      <3>2. CASE b = "hcd"
        BY <3>2, <2>1, <2>3, <1>2, AgentsAre DEF Owned, StopOps
      <3>3. CASE b = "hub"
        BY <3>3, <2>1, <2>3, <1>2, AgentsAre DEF Owned
      <3> QED
        BY <3>1, <3>2, <3>3, AgentsAre
    <2> QED
      <3>1. AtHost(e)' \subseteq AtHost(e) /\ AtHost(e) = {} /\ Head(todo'[b]).ep = e
        BY <2>1, <2>2, <2>4, <1>2 DEF Quiet
      <3>2. AtHost(e)' = {}
        BY <3>1
      <3> QED
        BY <3>1, <3>2 DEF Quiet
  <1>3. ASSUME N # <<>>, Head(N).op \in {"realloc", "kfree", "go"}, NEW e, e = Head(N).ep
        PROVE  Quiet(e)'
    <2> HIDE DEF L, N
    <2>0. L # <<>>
      BY DEF L
    <2>1. CASE C # <<>>
      <3>1. Head(N) = C[1]
        BY <2>0, <2>1, <1>1, Replaced
      <3>2. C[1].op \in {"realloc", "kfree", "go"} /\ e = C[1].ep
        BY <3>1, <1>3
      <3> QED
        BY <3>2, <2>1
    <2>2. CASE C = <<>>
      <3>1. 2 \in 2..Len(L) /\ Head(N) = L[2] /\ Head(L) = L[1] /\ 2 \in 1..Len(L)
        <4>1. 2 \in 2..Len(L) /\ Head(N) = L[2] /\ Head(L) = L[1]
          BY <2>0, <2>2, <1>1, <1>3, Replaced
        <4> QED
          BY <4>1
      <3>2. Pair(L[2 - 1], L[2])
        BY <3>1 DEF Lists, Ordered, L
      <3>3. Pair(Head(L), L[2])
        BY <3>2, <3>1
      <3>4. CASE L[2].op \in {"realloc", "kfree"} \/ L[2].ep # "in"
        <4>1. Head(L).op = "wait" /\ L[2].ep = Head(L).ep
          BY <3>1, <3>3, <3>4, <1>3 DEF Pair
        <4>2. e = Head(L).ep
          BY <4>1, <3>1, <1>3
        <4> QED
          BY <4>1, <4>2 DEF L
      <3>5. CASE L[2].op = "go" /\ L[2].ep = "in"
        <4>1. L[2] \in Pend(L)
          BY <3>1, <1>1, PendOf
        <4>2. a = "capt"
          BY <3>5, <4>1, AgentsAre DEF Owned, L, OwnOps, StopOps, FreeOps
        <4>3. Quiet("in")
          BY <4>1, <4>2, <3>5 DEF CaptList, L
        <4>4. AtHost("in")' = {} /\ e = "in"
          BY <4>3, <3>1, <3>5, <1>3, AgentsAre DEF Quiet
        <4> QED
          BY <4>4 DEF Quiet
      <3> QED
        BY <3>1, <3>4, <3>5, <1>3
    <2> QED
      BY <2>1, <2>2
  <1>4. ASSUME NEW b \in Agents, todo'[b] # <<>>, Head(todo'[b]).op \in {"realloc", "kfree", "go"},
               NEW e, e = Head(todo'[b]).ep
        PROVE  AtHost(e)' = {}
    BY <1>2, <1>3, <1>4 DEF Quiet
  <1> QED
    BY <1>4 DEF QuietDue, Quiet, AtHost

\* A step that does not start capture leaves its endpoint quiet if it is.
SameIn ==
    /\ Quiet("in") => Quiet("in")'
    /\ \A u \in Urbs : urb["in"][u] \in {"idle", "none"} => urb'["in"][u] \in {"idle", "none"}
    /\ (\E u \in Urbs : urb'["in"][u] = "none") => \A u \in Urbs : urb'["in"][u] = "none"
    /\ chip'.gone = chip.gone
    /\ ep["in"].stopping => ep'["in"].stopping \/ Quiet("in")'
    /\ "in" \in subs'["capt"].started => "in" \in subs["capt"].started

CaptMay(C, h) ==
    /\ h.op # "end"
    /\ \A o \in Pend(C) : o.op \notin {"start", "submit", "bit", "params", "end"}
    /\ \A i \in 1..Len(C) : C[i].op \in {"inc", "go"} => i = Len(C) /\ h.op \in {"start", "inc"}
    /\ h.op \in StartOps => \A o \in Pend(C) : o.op \in StartOps \ {"wait"}
    /\ (\E o \in Pend(C) : o.op \in {"dec", "mute"}) => "in" \in subs["capt"].started \/ h.op = "dec"
    /\ h.op = "wait" => Quiet("in")'
    /\ h.op = "sync" /\ ep["in"].stopping => \E o \in Pend(C) : o.op = "wait"

LEMMA ThenCaptList ==
  ASSUME Lists0, Owned, CaptList, NEW a \in Agents, todo[a] # <<>>, NEW C, Then(a, C), C \in Seq(Entries),
         SameIn, a = "capt" => CaptMay(C, Head(todo[a])), NUrbs \in Nat
  PROVE  CaptList'
  <1>1. CASE a # "capt"
    <2>1. todo'["capt"] = todo["capt"]
      BY <1>1, ThenTodo, AgentsAre
    <2>2. \A o \in Pend(todo["capt"]) : o.op = "submit" =>
             urb'["in"][o.v] \in {"idle", "none"} /\ (chip'.gone => Quiet("in")')
      <3> SUFFICES ASSUME NEW o \in Pend(todo["capt"]), o.op = "submit"
                   PROVE  urb'["in"][o.v] \in {"idle", "none"} /\ (chip'.gone => Quiet("in")')
        OBVIOUS
      <3>1. urb["in"][o.v] \in {"idle", "none"} /\ (chip.gone => Quiet("in")) /\ o.v \in Urbs
        BY AgentsAre DEF CaptList, Owned
      <3> QED
        BY <3>1 DEF SameIn
    <2> QED
      BY <2>1, <2>2 DEF CaptList, SameIn
  <1>2. CASE a = "capt"
    <2> DEFINE L == todo["capt"]
               N == todo'["capt"]
               h == Head(L)
               R == Pend(Tail(L))
    <2>1. /\ L \in Seq(Entries) /\ L # <<>> /\ N = C \o Tail(L) /\ Pend(L) = {h} \cup R
          /\ Pend(N) = Pend(C) \cup R
      BY <1>2, ThenTodo
    <2>2. /\ Head(L) = L[1]
          /\ Len(L) \in Nat /\ Len(L) >= 1 /\ Len(C) \in Nat /\ Len(N) = Len(C) + Len(L) - 1
          /\ \A i \in 1..Len(N) :
                IF i <= Len(C) THEN i \in 1..Len(C) /\ N[i] = C[i]
                ELSE i - Len(C) + 1 \in 2..Len(L) /\ N[i] = L[i - Len(C) + 1]
          /\ Tail(L) \in Seq(Entries)
      <3> HIDE DEF L, N
      <3> QED
        BY <2>1, Replaced
    <2>3. CaptMay(C, h)
      BY <1>2
    <2>4. /\ \A i \in 1..Len(L) :
                /\ L[i].op \in {"start", "inc", "go"} => i = Len(L) - 2
                /\ L[i].op = "submit" => 2 * L[i].v = 2 * NUrbs + 3 + i - Len(L)
          /\ \A o \in Pend(L) : o.op \in {"start", "inc", "go"} =>
                /\ Quiet("in")
                /\ \A p \in Pend(L) : p.op \notin {"submit", "bit"}
          /\ \A o \in Pend(L) : o.op = "submit" =>
                urb["in"][o.v] \in {"idle", "none"} /\ (chip.gone => Quiet("in"))
          /\ \A o \in Pend(L) : o.op \in Under \cup {"start"} => \E p \in Pend(L) : RunEnd(p)
          /\ \A o \in Pend(L) : RunEnd(o) => \A p \in Pend(L) :
                p.op \in StartOps /\ p.op # "wait" /\ (p.op = "end" => RunEnd(p))
          /\ \A o \in Pend(L) : o.op = "params" =>
                /\ "in" \notin subs["capt"].started
                /\ \A p \in Pend(L) : p.op \notin {"dec", "mute"}
          /\ \A o \in Pend(L) : o.op = "end" /\ o.v = "prepared" =>
                \/ Quiet("in")
                \/ \E p \in Pend(L) : p.op = "wait"
                \/ ep["in"].stopping /\ \E p \in Pend(L) : p.op = "sync"
      BY DEF CaptList
    <2> HIDE DEF L, N, h, R
    <2>5. ASSUME NEW i \in 1..Len(N)
          PROVE  /\ N[i].op \in {"start", "inc", "go"} => i = Len(N) - 2
                 /\ N[i].op = "submit" => 2 * N[i].v = 2 * NUrbs + 3 + i - Len(N)
      <3>1. CASE i <= Len(C)
        <4>1. i \in 1..Len(C) /\ N[i] = C[i] /\ C[i] \in Pend(C)
          BY <3>1, <2>2 DEF Pend
        <4>2. C[i].op \notin {"start", "submit"}
          BY <4>1, <2>3 DEF CaptMay
        <4>3. ASSUME C[i].op \in {"inc", "go"} PROVE i = Len(N) - 2
          <5>1. i = Len(C) /\ h.op \in {"start", "inc"}
            BY <4>1, <4>3, <2>3 DEF CaptMay
          <5>2. 1 \in 1..Len(L) /\ L[1].op \in {"start", "inc", "go"}
            BY <5>1, <2>2 DEF h
          <5>3. 1 = Len(L) - 2
            BY <5>2, <2>4
          <5>4. Len(C) \in Int /\ Len(L) \in Int /\ Len(N) = Len(C) + Len(L) - 1
            BY <2>2
          <5>5. \A c, l \in Int : 1 = l - 2 => c = c + l - 1 - 2
            OBVIOUS
          <5>6. Len(C) = Len(C) + Len(L) - 1 - 2
            BY <5>3, <5>4, <5>5
          <5>7. i = Len(C)
            BY <5>1
          <5> QED
            BY <5>4, <5>6, <5>7
        <4> QED
          BY <4>1, <4>2, <4>3
      <3>2. CASE ~(i <= Len(C))
        <4> DEFINE j == i - Len(C) + 1
        <4>0. i \in Int /\ Len(C) \in Int /\ Len(L) \in Int /\ Len(N) \in Int
              /\ Len(N) = Len(C) + Len(L) - 1 /\ i <= Len(N)
          BY <2>2
        <4>1. j \in 1..Len(L) /\ N[i] = L[j]
          BY <3>2, <2>2
        <4>6. j - Len(L) = i - Len(N)
          BY <4>0
        <4>2. /\ L[j].op \in {"start", "inc", "go"} => j = Len(L) - 2
              /\ L[j].op = "submit" => 2 * L[j].v = 2 * NUrbs + 3 + j - Len(L)
          BY <4>1, <2>4
        <4>3. j \in Int
          BY <4>0
        <4> HIDE DEF j
        <4>4. 2 * NUrbs + 3 + j - Len(L) = 2 * NUrbs + 3 + i - Len(N)
          BY <4>0, <4>6, <4>3
        <4>5. j = Len(L) - 2 => i = Len(N) - 2
          BY <4>0, <4>6, <4>3
        <4> QED
          BY <4>1, <4>2, <4>4, <4>5
      <3> QED
        BY <3>1, <3>2
    <2>6. ASSUME NEW o \in Pend(N), o.op \in {"start", "inc", "go"}
          PROVE  Quiet("in")' /\ \A p \in Pend(N) : p.op \notin {"submit", "bit"}
      <3>1. PICK q \in Pend(L) : q.op \in {"start", "inc", "go"}
        <4>1. CASE o \in Pend(L)
          BY <4>1, <2>6
        <4>2. CASE o \in Pend(C)
          <5>1. PICK i \in 1..Len(C) : o = C[i]
            BY <4>2 DEF Pend
          <5>2. o.op # "start"
            BY <4>2, <2>3 DEF CaptMay
          <5>3. h.op \in {"start", "inc"}
            BY <5>1, <5>2, <2>6, <2>3 DEF CaptMay
          <5> QED
            BY <5>3, <2>1
        <4> QED
          BY <4>1, <4>2, <2>6, <2>1
      <3>2. Quiet("in") /\ \A p \in Pend(L) : p.op \notin {"submit", "bit"}
        BY <3>1, <2>4
      <3>3. \A p \in Pend(C) : p.op \notin {"submit", "bit"}
        BY <2>3 DEF CaptMay
      <3> QED
        BY <3>2, <3>3, <2>1 DEF SameIn
    <2>7. ASSUME NEW o \in Pend(N), o.op = "submit"
          PROVE  urb'["in"][o.v] \in {"idle", "none"} /\ (chip'.gone => Quiet("in")')
      <3>1. o \in Pend(L)
        BY <2>7, <2>1, <2>3 DEF CaptMay
      <3>3. o.v \in Urbs
        BY <3>1, <2>7, AgentsAre DEF L, Owned
      <3>2. urb["in"][o.v] \in {"idle", "none"} /\ (chip.gone => Quiet("in"))
        BY <3>1, <2>7, <2>4
      <3> QED
        BY <3>2, <3>3 DEF SameIn
    <2>8. ASSUME NEW o \in Pend(N), o.op \in Under \cup {"start"} PROVE \E p \in Pend(N) : RunEnd(p)
      <3>1. PICK q \in Pend(L) : q.op \in Under \cup {"start"}
        <4>1. CASE o \in Pend(L)
          BY <4>1, <2>8
        <4>2. CASE o \in Pend(C)
          <5>1. PICK i \in 1..Len(C) : o = C[i]
            BY <4>2 DEF Pend
          <5>2. o.op \in {"inc", "go"}
            BY <4>2, <2>8, <2>3 DEF CaptMay, Under
          <5>3. h.op \in {"start", "inc"}
            BY <5>1, <5>2, <2>3 DEF CaptMay
          <5> QED
            BY <5>3, <2>1 DEF Under
        <4> QED
          BY <4>1, <4>2, <2>8, <2>1
      <3>2. PICK p \in Pend(L) : RunEnd(p)
        BY <3>1, <2>4
      <3>3. p # h
        BY <3>2, <2>3 DEF RunEnd, CaptMay
      <3> QED
        BY <3>2, <3>3, <2>1
    <2>9. ASSUME NEW o \in Pend(N), RunEnd(o), NEW p \in Pend(N)
          PROVE  p.op \in StartOps /\ p.op # "wait" /\ (p.op = "end" => RunEnd(p))
      <3>1. o \in Pend(L)
        BY <2>9, <2>1, <2>3 DEF CaptMay, RunEnd
      <3>2. \A q \in Pend(L) : q.op \in StartOps /\ q.op # "wait" /\ (q.op = "end" => RunEnd(q))
        BY <3>1, <2>9, <2>4
      <3>3. \A q \in Pend(C) : q.op \in StartOps \ {"wait"} /\ q.op # "end"
        BY <3>2, <2>1, <2>3 DEF CaptMay
      <3> QED
        BY <3>2, <3>3, <2>1
    <2>10. ASSUME NEW o \in Pend(N), o.op = "params"
           PROVE  /\ "in" \notin subs'["capt"].started
                  /\ \A p \in Pend(N) : p.op \notin {"dec", "mute"}
      <3>1. o \in Pend(L)
        BY <2>10, <2>1, <2>3 DEF CaptMay
      <3>2. "in" \notin subs["capt"].started /\ \A p \in Pend(L) : p.op \notin {"dec", "mute"}
        BY <3>1, <2>10, <2>4
      <3>3. \A p \in Pend(C) : p.op \notin {"dec", "mute"}
        BY <3>2, <2>1, <2>3 DEF CaptMay
      <3> QED
        BY <3>2, <3>3, <2>1 DEF SameIn
    <2>11. ASSUME NEW o \in Pend(N), o.op = "end", o.v = "prepared"
           PROVE  \/ Quiet("in")'
                  \/ \E p \in Pend(N) : p.op = "wait"
                  \/ ep'["in"].stopping /\ \E p \in Pend(N) : p.op = "sync"
      <3>1. o \in Pend(L)
        BY <2>11, <2>1, <2>3 DEF CaptMay
      <3>2. \/ Quiet("in")
            \/ \E p \in Pend(L) : p.op = "wait"
            \/ ep["in"].stopping /\ \E p \in Pend(L) : p.op = "sync"
        BY <3>1, <2>11, <2>4
      <3>3. CASE Quiet("in")
        BY <3>3 DEF SameIn
      <3>4. CASE \E p \in Pend(L) : p.op = "wait"
        BY <3>4, <2>1, <2>3 DEF CaptMay
      <3>5. CASE ep["in"].stopping /\ \E p \in Pend(L) : p.op = "sync"
        BY <3>5, <2>1, <2>3 DEF CaptMay, SameIn
      <3> QED
        BY <3>2, <3>3, <3>4, <3>5
    <2> QED
      BY <2>5, <2>6, <2>7, <2>8, <2>9, <2>10, <2>11 DEF CaptList, N
  <1> QED
    BY <1>1, <1>2

LEMMA ThenCapture ==
  ASSUME Lists0, Owned, Alone, Capture,
         NEW a \in Agents, todo[a] # <<>>, NEW C, Then(a, C), SameCard, SameSubs, SameIn,
         Fits(C, Head(todo[a])), a = "capt" => Head(todo[a]).op # "end",
         Head(todo[a]).ep = "in" /\ a # "hub" =>
            /\ Head(todo[a]).op = "mute" => ep'["in"].stopping
            /\ Head(todo[a]).op = "dec" => \E o \in Pend(C) : o.op = "mute" /\ o.ep = "in"
            /\ Head(todo[a]).op = "stop" => "in" \notin subs'["capt"].started,
         "in" \in subs["capt"].started =>
            \/ "in" \in subs'["capt"].started
            \/ a \in {"capt", "hcd"} /\ \E o \in Pend(C) : o.op = "dec" /\ o.ep = "in"
  PROVE  Capture'
  <1> DEFINE h == Head(todo[a])
             R == Pend(Tail(todo[a]))
  <1>1. /\ Pend(todo[a]) = {h} \cup R /\ Pend(todo'[a]) = Pend(C) \cup R
        /\ \A b \in Agents : b # a => todo'[b] = todo[b]
        /\ C \in Seq(Entries)
    BY ThenTodo DEF Fits
  <1>2. a = "capt" => h.op # "end"
    OBVIOUS
  <1>3. ASSUME h.ep = "in", a # "hub"
        PROVE  /\ h.op = "mute" => ep'["in"].stopping
               /\ h.op = "dec" => \E o \in Pend(C) : o.op = "mute" /\ o.ep = "in"
               /\ h.op = "stop" => "in" \notin subs'["capt"].started
    BY <1>3
  <1>4. /\ \A name :
              Doing("capt", name, "in") =>
                 \/ Doing("capt", name, "in")'
                 \/ a \in {"capt", "hcd"} /\ h.op = name /\ h.ep = "in"
        /\ \A name : a \in {"capt", "hcd"} =>
              ((\E o \in Pend(C) : o.op = name /\ o.ep = "in") => Doing("capt", name, "in")')
    BY <1>1, ThenDoing, AgentsAre
  <1>5. HcdFor("capt")' => HcdFor("capt")
    <2> SUFFICES ASSUME HcdFor("capt")' PROVE HcdFor("capt")
      OBVIOUS
    <2>1. PICK o \in Pend(todo'["hcd"]) : o.s = "capt"
      BY DEF HcdFor
    <2>2. o \in Pend(todo["hcd"]) \/ (a = "hcd" /\ h \in Pend(todo["hcd"]) /\ h.s = o.s)
      BY <2>1, <1>1, AgentsAre DEF Fits
    <2> QED
      BY <2>1, <2>2 DEF HcdFor
  <1>6. (\E o \in Pend(todo["capt"]) : RunEnd(o)) => \E o \in Pend(todo'["capt"]) : RunEnd(o)
    BY <1>1, <1>2, AgentsAre DEF RunEnd
  <1>7. todo["capt"] = <<>> => todo'["capt"] = <<>>
    BY <1>1, AgentsAre
  <1> DEFINE rs  == subs["capt"].started
             rs1 == subs'["capt"].started
             run == \E o \in Pend(todo["capt"]) : RunEnd(o)
             run1 == \E o \in Pend(todo'["capt"]) : RunEnd(o)
  <1>8. chip'.disconnected \/ Quiet("in")' \/ ep'["in"].stopping \/ "in" \in rs1
            \/ Doing("capt", "mute", "in")' \/ Doing("capt", "dec", "in")'
    <2>1. CASE chip.disconnected
      BY <2>1 DEF SameCard
    <2>2. CASE Quiet("in") \/ ep["in"].stopping
      BY <2>2 DEF SameIn
    <2>3. CASE "in" \in rs
      BY <2>3, <1>4
    <2>4. CASE Doing("capt", "mute", "in")
      BY <2>4, <1>4, <1>3
    <2>5. CASE Doing("capt", "dec", "in")
      <3>1. CASE Doing("capt", "dec", "in")'
        BY <3>1
      <3>2. CASE a \in {"capt", "hcd"} /\ h.op = "dec" /\ h.ep = "in"
        <4>1. \E o \in Pend(C) : o.op = "mute" /\ o.ep = "in"
          BY <3>2, <1>3
        <4> QED
          BY <4>1, <3>2, <1>4
      <3> QED
        BY <2>5, <3>1, <3>2, <1>4
    <2> QED
      BY <2>1, <2>2, <2>3, <2>4, <2>5 DEF Capture
  <1>9. ASSUME "in" \in rs1
        PROVE  \/ chip'.disconnected
               \/ subs'["capt"].state \in {"running", "paused"} /\ todo'["capt"] = <<>> /\ ~HcdFor("capt")'
               \/ Doing("capt", "stop", "in")'
               \/ run1
    <2>0. "in" \in rs
      BY <1>9 DEF SameIn
    <2>1. \/ chip.disconnected
          \/ subs["capt"].state \in {"running", "paused"} /\ todo["capt"] = <<>> /\ ~HcdFor("capt")
          \/ Doing("capt", "stop", "in")
          \/ run
      BY <2>0 DEF Capture
    <2>2. CASE Doing("capt", "stop", "in")
      BY <2>2, <1>4, <1>3, <1>9
    <2> QED
      BY <2>1, <2>2, <1>5, <1>6, <1>7, AgentsAre DEF SameCard, SameSubs
  <1>10. subs'["capt"].state = "prepared" => Quiet("in")' \/ run1
    <2>1. subs["capt"].state = "prepared" => Quiet("in") \/ run
      BY DEF Capture
    <2> QED
      BY <2>1, <1>6, AgentsAre DEF SameSubs, SameIn
  <1>11. (\E u \in Urbs : urb'["in"][u] = "none") => \A u \in Urbs : urb'["in"][u] = "none"
    BY DEF SameIn
  <1> QED
    BY <1>8, <1>9, <1>10, <1>11 DEF Capture

-----------------------------------------------------------------------------
(* Steps that leave most of it as it is *)

SubRec == [state : States, buffer : BOOLEAN, need_setup : BOOLEAN, started : SUBSET Eps,
           eps : Seq(Eps), locked : BOOLEAN, reading : BOOLEAN]

LEMMA Typed ==
  TypeOK <=> /\ ep \in [Eps -> EpRec] /\ urb \in [Eps -> [Urbs -> Places]]
             /\ subs \in [Subs -> SubRec]
             /\ chip.freed \subseteq Eps
             /\ irq.urb \in Urbs /\ irq.slot \in Urbs \cup {0} /\ irq.user \in Subs \cup {None}
  BY DEF TypeOK, EpRec, SubRec, States

LEMMA EpSet ==
  ASSUME ep \in [Eps -> EpRec], NEW e \in Eps, NEW r \in EpRec, ep' = [ep EXCEPT ![e] = r]
  PROVE  ep' \in [Eps -> EpRec] /\ ep'[e] = r /\ \A f \in Eps : f # e => ep'[f] = ep[f]
  OBVIOUS

LEMMA SubSet ==
  ASSUME subs \in [Subs -> SubRec], NEW s \in Subs, NEW r \in SubRec, subs' = [subs EXCEPT ![s] = r]
  PROVE  subs' \in [Subs -> SubRec] /\ subs'[s] = r /\ \A t \in Subs : t # s => subs'[t] = subs[t]
  OBVIOUS

LEMMA Deact ==
  ASSUME NUrbs \in Nat /\ NUrbs >= 2, NEW r \in EpRec
  PROVE  /\ Deactivated(r) \in EpRec
         /\ Deactivated(r).use = r.use /\ Deactivated(r).active = r.active
         /\ Deactivated(r).stopping = r.stopping /\ Deactivated(r).user = r.user
         /\ Deactivated(r).retire = r.retire /\ Deactivated(r).prepare = r.prepare
  <1>1. <<>> \in Seq(Urbs) /\ 0 \in 0..(NUrbs - 1)
    OBVIOUS
  <1> QED
    BY <1>1 DEF Deactivated, EpRec

LEMMA Mutes ==
  ASSUME NEW r \in EpRec
  PROVE  /\ Muted(r) \in EpRec
         /\ Muted(r).use = r.use /\ Muted(r).active = r.active
         /\ Muted(r).stopping = r.stopping /\ Muted(r).user = r.user
  BY DEF Muted, EpRec

LEMMA OpIs ==
  \A name, e, s, v :
     /\ Op(name, e, s, v).op = name /\ Op(name, e, s, v).ep = e
     /\ Op(name, e, s, v).s = s /\ Op(name, e, s, v).v = v
     /\ name \in CallOps \cup FreeOps /\ e \in Eps \cup {None} /\ s \in Subs \cup {None}
          /\ v \in Nat \cup States => Op(name, e, s, v) \in Entries
  BY DEF Op, Entries

LEMMA OrderedTuples ==
  /\ Ordered(<<>>)
  /\ \A x : Ordered(<<x>>)
  /\ \A x, y : x.op # "start" /\ Pair(x, y) => Ordered(<<x, y>>)
  /\ \A x, y, z : x.op # "start" /\ y.op # "start" /\ Pair(x, y) /\ Pair(y, z) => Ordered(<<x, y, z>>)
  <1>1. Ordered(<<>>)
    BY DEF Ordered
  <1>2. \A x : Ordered(<<x>>)
    BY DEF Ordered
  <1>3. ASSUME NEW x, NEW y, x.op # "start", Pair(x, y) PROVE Ordered(<<x, y>>)
    <2>1. Len(<<x, y>>) = 2 /\ <<x, y>>[1] = x /\ <<x, y>>[2] = y
      OBVIOUS
    <2>2. 2..2 = {2} /\ 1..2 = {1, 2} /\ 2 - 1 = 1
      OBVIOUS
    <2> QED
      BY <2>1, <2>2, <1>3 DEF Ordered
  <1>4. ASSUME NEW x, NEW y, NEW z, x.op # "start", y.op # "start", Pair(x, y), Pair(y, z)
        PROVE  Ordered(<<x, y, z>>)
    <2>1. Len(<<x, y, z>>) = 3 /\ <<x, y, z>>[1] = x /\ <<x, y, z>>[2] = y /\ <<x, y, z>>[3] = z
      OBVIOUS
    <2>2. 2..3 = {2, 3} /\ 1..3 = {1, 2, 3} /\ 2 - 1 = 1 /\ 3 - 1 = 2
      OBVIOUS
    <2> QED
      BY <2>1, <2>2, <1>4 DEF Ordered
  <1> QED
    BY <1>1, <1>2, <1>3, <1>4

\* The first entry of a list.
LEMMA HeadOf ==
  ASSUME Shape, Owned, NEW a \in Agents, todo[a] # <<>>
  PROVE  LET h == Head(todo[a]) IN
         /\ todo[a] \in Seq(Entries) /\ h \in Pend(todo[a]) /\ h \in Entries
         /\ a \in Subs => /\ h.s = a /\ h.op \in CallOps
                          /\ h.op \in OwnOps => h.ep \in Own(a) /\ h.ep \in Eps
                          /\ h.op = "end" => h.v \in States
                          /\ h.op \in {"submit", "bit"} => h.v \in Urbs
         /\ a = "hcd" => /\ h.s \in Subs /\ h.op \in StopOps
                         /\ h.op \in OwnOps => h.ep \in Own(h.s) /\ h.ep \in Eps
                         /\ h.op = "end" => h.v = "setup"
                         /\ HcdFor(h.s)
         /\ a = "hub" => h.ep \in Eps /\ h.op \in FreeOps /\ h.s = None /\ chip.disconnected
  <1> DEFINE h == Head(todo[a])
  <1>1. todo[a] \in Seq(Entries)
    BY DEF Shape
  <1>2. h \in Pend(todo[a]) /\ h \in Entries
    BY <1>1, PendOf
  <1> HIDE DEF h
  <1>3. a \in Subs => /\ h.s = a /\ h.op \in CallOps
                      /\ h.op \in OwnOps => h.ep \in Own(a) /\ h.ep \in Eps
                      /\ h.op = "end" => h.v \in States
                      /\ h.op \in {"submit", "bit"} => h.v \in Urbs
    BY <1>2, AgentsAre DEF Owned
  <1>4. a = "hcd" => /\ h.s \in Subs /\ h.op \in StopOps
                     /\ h.op \in OwnOps => h.ep \in Own(h.s) /\ h.ep \in Eps
                     /\ h.op = "end" => h.v = "setup"
                     /\ HcdFor(h.s)
    BY <1>2, AgentsAre DEF Owned, HcdFor
  <1>5. a = "hub" => h.ep \in Eps /\ h.op \in FreeOps /\ h.s = None /\ chip.disconnected
    BY <1>2 DEF Owned
  <1> QED
    BY <1>1, <1>2, <1>3, <1>4, <1>5 DEF h

\* A whole step of this kind.
Calm(a, C, h) ==
    /\ Fits(C, h) /\ MayCall(a, C, h)
    /\ a = "capt" => CaptMay(C, h)
    /\ h.op \in StartOps => \A o \in Pend(C) : o.op \in StartOps
    /\ \A o \in Pend(C) : o.op \in Under =>
          a \in Subs /\ h.op \in {"start", "inc", "go"} /\ h.ep \in subs'[a].started

SamePlug ==
    /\ chip'.feedback = chip.feedback /\ chip'.gone = chip.gone /\ chip'.shutdown = chip.shutdown
    /\ chip'.disconnected = chip.disconnected
    /\ \A s \in Subs : /\ subs'[s].state = subs[s].state /\ subs'[s].locked = subs[s].locked
                       /\ subs'[s].reading = subs[s].reading /\ subs'[s].eps = subs[s].eps

LEMMA CalmStep ==
  ASSUME IInv, NUrbs \in Nat, NEW a \in Agents, todo[a] # <<>>, NEW C, Then(a, C),
         Calm(a, C, Head(todo[a])), SamePlug, Uses', InHandler', SameIn,
         \A s \in Subs : \A e \in subs[s].started :
            \/ e \in subs'[s].started
            \/ Head(todo[a]).op = "stop" /\ Head(todo[a]).s = s /\ a # "hub",
         \A e \in Eps : \A u \in AtHost(e)' :
            /\ u \in AtHost(e)
            /\ u \in ep[e].active => u \in ep'[e].active
            /\ Head(todo[a]).op = "bit" /\ Head(todo[a]).ep = e /\ Head(todo[a]).v = u =>
                  u \in ep'[e].active,
         \A e : Head(todo[a]).op = "wait" /\ Head(todo[a]).ep = e => Quiet(e)',
         \A e : C # <<>> /\ C[1].op \in {"realloc", "kfree", "go"} /\ C[1].ep = e => Quiet(e)',
         Head(todo[a]).ep = "in" /\ a # "hub" =>
            /\ Head(todo[a]).op = "mute" => ep'["in"].stopping
            /\ Head(todo[a]).op = "dec" => \E o \in Pend(C) : o.op = "mute" /\ o.ep = "in"
            /\ Head(todo[a]).op = "stop" => "in" \notin subs'["capt"].started,
         "in" \in subs["capt"].started =>
            \/ "in" \in subs'["capt"].started
            \/ a \in {"capt", "hcd"} /\ \E o \in Pend(C) : o.op = "dec" /\ o.ep = "in"
  PROVE  /\ todo' \in [Agents -> Seq(Entries)]
         /\ Lists' /\ Owned' /\ Plug' /\ Starting' /\ Alone' /\ Masks' /\ QuietDue' /\ CaptList' /\ Capture'
  <1>1. Lists0 /\ Lists /\ Owned /\ Plug /\ Starting /\ Alone /\ Masks /\ QuietDue /\ CaptList /\ Capture
    BY DEF IInv, Shape, Lists0
  <1>2. Fits(C, Head(todo[a])) /\ MayCall(a, C, Head(todo[a])) /\ C \in Seq(Entries)
    BY DEF Calm, Fits
  <1>3. SameCard /\ SameSubs /\ SameReads
    BY DEF SamePlug, SameCard, SameSubs, SameReads
  <1>4. todo' \in [Agents -> Seq(Entries)]
    BY <1>1, <1>2, ThenTodo
  <1>5. Lists'
    BY <1>1, <1>2, ThenLists DEF MayCall
  <1>6. Owned'
    BY <1>1, <1>2, <1>3, ThenOwned
  <1>7. Plug'
    BY <1>1 DEF Plug, SamePlug
  <1>8. Starting'
    <2>1. /\ Head(todo[a]).op \in StartOps => \A o \in Pend(C) : o.op \in StartOps
          /\ \A o \in Pend(C) : o.op \in Under =>
                /\ a \in Subs /\ Head(todo[a]).op \in {"start", "inc", "go"}
                /\ Head(todo[a]).ep \in subs'[a].started
      BY DEF Calm
    <2> QED
      BY <2>1, <1>1, <1>2, <1>3, ThenStarting
  <1>9. Alone'
    BY <1>1, <1>2, <1>3, ThenAlone
  <1>10. Masks'
    BY <1>1, <1>2, ThenMasks
  <1>11. QuietDue'
    <2>1. \A e \in Eps : AtHost(e)' \subseteq AtHost(e)
      OBVIOUS
    <2> QED
      BY <2>1, <1>1, <1>2, ThenQuietDue
  <1>12. CaptList'
    BY <1>1, <1>2, ThenCaptList DEF Calm
  <1>13. Capture'
    <2>1. a = "capt" => Head(todo[a]).op # "end"
      BY DEF Calm, CaptMay
    <2> QED
      BY <2>1, <1>1, <1>2, <1>3, ThenCapture
  <1> QED
    BY <1>4, <1>5, <1>6, <1>7, <1>8, <1>9, <1>10, <1>11, <1>12, <1>13

\* The host keeps the URBs that it has.
Unlinked ==
    /\ urb' \in [Eps -> [Urbs -> Places]]
    /\ \A e \in Eps : AtHost(e)' = AtHost(e)
    /\ \A e \in Eps, u \in Urbs : urb'[e][u] = "handler" <=> urb[e][u] = "handler"
    /\ \A u \in Urbs : urb["in"][u] \in {"idle", "none"} => urb'["in"][u] \in {"idle", "none"}
    /\ ((\E u \in Urbs : urb["in"][u] = "none") => \A u \in Urbs : urb["in"][u] = "none")
          => ((\E u \in Urbs : urb'["in"][u] = "none") => \A u \in Urbs : urb'["in"][u] = "none")

LEMMA UnlinkedSame ==
  ASSUME Unlinked
  PROVE  \A e \in Eps : AtHost(e)' = AtHost(e) /\ (Quiet(e)' <=> Quiet(e))
  BY DEF Unlinked, Quiet

LEMMA EpStep ==
  ASSUME IInv, NEW a \in Agents, todo[a] # <<>>, NEW C, Then(a, C),
         Calm(a, C, Head(todo[a])), SamePlug, SameUse, UNCHANGED irq, Unlinked,
         UNCHANGED chip \/ \E F \in SUBSET Eps : chip' = [chip EXCEPT !.freed = F],
         ep' \in [Eps -> EpRec], subs' \in [Subs -> SubRec],
         \A e \in Eps : ep[e].active \subseteq ep'[e].active,
         Head(todo[a]).op \notin {"inc", "dec", "stop"},
         \A o \in Pend(C) : o.op \notin {"inc", "dec"},
         C # <<>> => C[1].op \notin {"realloc", "kfree", "go"},
         Head(todo[a]).op = "bit" => Head(todo[a]).v \in ep'[Head(todo[a]).ep].active,
         \A e \in Eps : Head(todo[a]).op = "wait" /\ Head(todo[a]).ep = e => Quiet(e),
         ep["in"].stopping => ep'["in"].stopping \/ Quiet("in"),
         Head(todo[a]).op = "mute" => ep'[Head(todo[a]).ep].stopping
  PROVE  IInv'
  <1> DEFINE h == Head(todo[a])
  <1>1. /\ \A e \in Eps : AtHost(e)' = AtHost(e) /\ (Quiet(e)' <=> Quiet(e))
        /\ \A e \in Eps, u \in Urbs : urb'[e][u] = "handler" <=> urb[e][u] = "handler"
    BY UnlinkedSame DEF Unlinked
  <1>2. NUrbs \in Nat
    BY SizesAssumption
  <1>3. /\ TypeOK /\ Shape /\ Lists0 /\ Uses /\ InHandler /\ Owned /\ Capture
        /\ C \in Seq(Entries)
    BY DEF IInv, Shape, Lists0, Calm, Fits
  <1>4. Uses'
    BY <1>3, ThenUsesSame
  <1>5. InHandler'
    <2>1. irq.ep \in Eps /\ irq.urb \in Urbs /\ irq' = irq
      BY <1>3 DEF Shape
    <2>2. irq.at # "idle" => urb'[irq.ep][irq.urb] = "handler"
      BY <2>1, <1>1, <1>3 DEF InHandler
    <2>3. \A e \in Eps, u \in Urbs : urb'[e][u] = "handler" =>
              irq.at # "idle" /\ irq.ep = e /\ irq.urb = u
      BY <1>1, <1>3 DEF InHandler
    <2> QED
      BY <2>1, <2>2, <2>3 DEF InHandler
  <1>6. SameIn
    <2>1. /\ Quiet("in") => Quiet("in")'
          /\ ep["in"].stopping => ep'["in"].stopping \/ Quiet("in")'
          /\ \A u \in Urbs : urb["in"][u] \in {"idle", "none"} => urb'["in"][u] \in {"idle", "none"}
      BY <1>1, AgentsAre DEF Unlinked
    <2>2. (\E u \in Urbs : urb'["in"][u] = "none") => \A u \in Urbs : urb'["in"][u] = "none"
      BY <1>3 DEF Capture, Unlinked
    <2>3. chip'.gone = chip.gone /\ ("in" \in subs'["capt"].started => "in" \in subs["capt"].started)
      BY AgentsAre DEF SamePlug, SameUse
    <2> QED
      BY <2>1, <2>2, <2>3 DEF SameIn
  <1>7. \A s \in Subs : \A e \in subs[s].started : e \in subs'[s].started
    BY DEF SameUse
  <1>8. h.op \notin {"inc", "dec", "stop"}
    OBVIOUS
  <1>9. a # "hub" /\ h.ep = "in" /\ h.op = "mute" => ep'["in"].stopping
    OBVIOUS
  <1>10. \A e \in Eps : \A u \in AtHost(e)' :
            /\ u \in AtHost(e)
            /\ u \in ep[e].active => u \in ep'[e].active
            /\ h.op = "bit" /\ h.ep = e /\ h.v = u => u \in ep'[e].active
    BY <1>1
  <1>11. \A e : h.op = "wait" /\ h.ep = e => Quiet(e)'
    <2>1. h.op = "wait" => h.ep \in Eps
      BY <1>3, HeadOf, AgentsAre DEF OwnOps, StopOps
    <2> QED
      BY <2>1, <1>1
  <1>12. \A e : C # <<>> /\ C[1].op \in {"realloc", "kfree", "go"} /\ C[1].ep = e => Quiet(e)'
    OBVIOUS
  <1>13. /\ todo' \in [Agents -> Seq(Entries)]
         /\ Lists' /\ Owned' /\ Plug' /\ Starting' /\ Alone' /\ Masks' /\ QuietDue' /\ CaptList' /\ Capture'
    <2> HIDE DEF h
    <2>1. /\ h = Head(todo[a]) /\ Calm(a, C, h)
          /\ \A s \in Subs : \A e \in subs[s].started : e \in subs'[s].started \/ (h.op = "stop" /\ h.s = s /\ a # "hub")
          /\ h.ep = "in" /\ a # "hub" =>
                /\ h.op = "mute" => ep'["in"].stopping
                /\ h.op = "dec" => \E o \in Pend(C) : o.op = "mute" /\ o.ep = "in"
                /\ h.op = "stop" => "in" \notin subs'["capt"].started
          /\ "in" \in subs["capt"].started =>
                \/ "in" \in subs'["capt"].started
                \/ a \in {"capt", "hcd"} /\ \E o \in Pend(C) : o.op = "dec" /\ o.ep = "in"
      BY <1>7, <1>8, <1>9, AgentsAre DEF h
    <2> QED
      BY <2>1, <1>2, <1>4, <1>5, <1>6, <1>10, <1>11, <1>12, CalmStep
  <1>14. Shape' /\ chip'.freed \subseteq Eps
    <2>1. chip' \in [feedback : {"none", "explicit"}, gone : BOOLEAN, shutdown : BOOLEAN,
                     disconnected : BOOLEAN, freed : SUBSET Eps]
      BY <1>3 DEF Shape
    <2> QED
      BY <2>1, <1>3, <1>13 DEF Shape
  <1>15. TypeOK'
    <2>1. urb' \in [Eps -> [Urbs -> Places]] /\ irq' = irq
      BY DEF Unlinked
    <2> QED
      BY <1>14, <2>1, <1>3 DEF TypeOK, EpRec, SubRec, States
  <1> QED
    BY <1>4, <1>5, <1>13, <1>14, <1>15 DEF IInv

LEMMA WaitQuiet ==
  ASSUME IInv, NEW a \in Agents, Due(a, "wait"), NEW e, e = Head(todo[a]).ep,
         ep[e].active \cap AtHost(e) = {}
  PROVE  e \in Eps /\ Quiet(e)
  <1>1. TypeOK /\ Shape /\ Owned /\ Masks /\ Starting
    BY DEF IInv
  <1>2. todo[a] # <<>> /\ Head(todo[a]).op = "wait"
    BY DEF Due
  <1>3. /\ a \in Subs => e \in Own(a)
        /\ a # "hcd" /\ e \in Eps
        /\ a = "hub" => chip.disconnected
    BY <1>1, <1>2, HeadOf, AgentsAre DEF OwnOps, StopOps
  <1>4. ASSUME NEW u \in AtHost(e) PROVE FALSE
    <2>1. PICK b \in Agents : Due(b, "bit") /\ Head(todo[b]).ep = e
      BY <1>1, <1>3, <1>4 DEF Masks
    <2>2. todo[b] # <<>> /\ Head(todo[b]).op = "bit"
      BY <2>1 DEF Due
    <2>3. b \in Subs /\ e \in Own(b) /\ Head(todo[b]) \in Pend(todo[b])
      BY <1>1, <2>1, <2>2, HeadOf, AgentsAre DEF OwnOps, StopOps, FreeOps
    <2>4. ~chip.disconnected
      BY <2>2, <2>3, <1>1 DEF Starting, Under
    <2>5. a = b
      BY <1>3, <2>3, <2>4, AgentsAre
    <2> QED
      BY <2>5, <2>2, <1>2
  <1> QED
    BY <1>3, <1>4 DEF Quiet

LEMMA NoCalls ==
  ASSUME NEW a, NEW h, h.op # "end", h.op # "wait", h.op # "sync"
  PROVE  Calm(a, <<>>, h)
  <1>1. <<>> \in Seq(Entries) /\ Pend(<<>>) = {} /\ Ordered(<<>>) /\ 1..Len(<<>>) = {}
    BY PendTuples, OrderedTuples
  <1> QED
    BY <1>1 DEF Calm, Fits, MayCall, CaptMay

LEMMA SameUnlinked ==
  ASSUME TypeOK, UNCHANGED urb
  PROVE  Unlinked
  BY DEF TypeOK, Unlinked, AtHost

LEMMA SameAll ==
  ASSUME UNCHANGED <<subs, chip>>
  PROVE  SamePlug
  BY DEF SamePlug

LEMMA DetachSafe ==
  ASSUME IInv, NEW a \in Agents, Detach(a)
  PROVE  IInv'
  <1> DEFINE h == Head(todo[a])
             r == [ep[h.ep] EXCEPT !.user = None, !.slave = None]
  <1>1. TypeOK /\ Shape /\ Owned
    BY DEF IInv
  <1>2. todo[a] # <<>> /\ h.op = "detach" /\ Then(a, <<>>) /\ UNCHANGED <<urb, subs, chip, irq>>
    BY DEF Detach, Due
  <1>3. h.ep \in Eps
    BY <1>1, <1>2, HeadOf, AgentsAre DEF OwnOps, FreeOps
  <1>4. ep[h.ep] \in EpRec
    BY <1>1, <1>3, Typed
  <1>5. r \in EpRec /\ r.use = ep[h.ep].use /\ r.active = ep[h.ep].active /\ r.stopping = ep[h.ep].stopping
    BY <1>4 DEF EpRec
  <1>6. ep' = [ep EXCEPT ![h.ep] = r]
    BY DEF Detach
  <1> HIDE DEF r
  <1>7. ep' \in [Eps -> EpRec] /\ ep'[h.ep] = r /\ \A f \in Eps : f # h.ep => ep'[f] = ep[f]
    BY <1>1, <1>3, <1>5, <1>6, EpSet, Typed
  <1>8. SamePlug /\ Unlinked /\ subs' \in [Subs -> SubRec] /\ SameUse
    BY <1>1, <1>2, <1>5, <1>7, SameAll, SameUnlinked, Typed DEF SameUse
  <1>9. Calm(a, <<>>, h)
    BY <1>2, NoCalls
  <1>10. /\ \A e \in Eps : ep[e].active \subseteq ep'[e].active
         /\ ep["in"].stopping => ep'["in"].stopping
    BY <1>5, <1>7, AgentsAre
  <1> QED
    BY <1>2, <1>7, <1>8, <1>9, <1>10, EpStep, PendTuples

LEMMA EpOnly ==
  ASSUME TypeOK, NEW e \in Eps, NEW r \in EpRec, ep' = [ep EXCEPT ![e] = r], UNCHANGED subs,
         r.use = ep[e].use, ep[e].active \subseteq r.active,
         ep[e].stopping => r.stopping \/ Quiet(e)
  PROVE  /\ ep' \in [Eps -> EpRec] /\ ep'[e] = r /\ SameUse /\ subs' \in [Subs -> SubRec]
         /\ \A f \in Eps : ep[f].active \subseteq ep'[f].active
         /\ ep["in"].stopping => ep'["in"].stopping \/ Quiet("in")
  <1>1. ep' \in [Eps -> EpRec] /\ ep'[e] = r /\ \A f \in Eps : f # e => ep'[f] = ep[f]
    BY EpSet, Typed
  <1> QED
    BY <1>1, Typed, AgentsAre DEF SameUse

LEMMA MuteSafe ==
  ASSUME IInv, NEW a \in Agents, Mute(a)
  PROVE  IInv'
  <1> DEFINE h == Head(todo[a])
             r == [Muted(ep[h.ep]) EXCEPT !.stopping = TRUE]
  <1>1. TypeOK /\ Shape /\ Owned
    BY DEF IInv
  <1>2. todo[a] # <<>> /\ h.op = "mute" /\ Then(a, <<>>) /\ UNCHANGED <<urb, subs, chip, irq>>
    BY DEF Mute, Due
  <1>3. h.ep \in Eps
    BY <1>1, <1>2, HeadOf, AgentsAre DEF OwnOps, FreeOps
  <1>4. ep[h.ep] \in EpRec
    BY <1>1, <1>3, Typed
  <1>5. r \in EpRec /\ r.use = ep[h.ep].use /\ r.active = ep[h.ep].active /\ r.stopping
    BY <1>4 DEF EpRec, Muted
  <1>6. ep' = [ep EXCEPT ![h.ep] = r]
    BY DEF Mute
  <1> HIDE DEF r
  <1>7. /\ ep' \in [Eps -> EpRec] /\ ep'[h.ep] = r /\ SameUse /\ subs' \in [Subs -> SubRec]
        /\ \A f \in Eps : ep[f].active \subseteq ep'[f].active
        /\ ep["in"].stopping => ep'["in"].stopping \/ Quiet("in")
    BY <1>1, <1>2, <1>3, <1>5, <1>6, EpOnly
  <1>8. SamePlug /\ Unlinked
    BY <1>1, <1>2, SameAll, SameUnlinked
  <1>9. Calm(a, <<>>, h)
    BY <1>2, NoCalls
  <1> QED
    BY <1>2, <1>5, <1>7, <1>8, <1>9, EpStep, PendTuples

LEMMA SetRetireSafe ==
  ASSUME IInv, NEW s \in Subs, SetRetire(s)
  PROVE  IInv'
  <1> DEFINE h == Head(todo[s])
             e == DataEp(s)
             r == [ep[e] EXCEPT !.retire = TRUE]
  <1>1. TypeOK /\ Shape /\ Owned
    BY DEF IInv
  <1>2. todo[s] # <<>> /\ h.op = "retire" /\ Then(s, <<>>) /\ UNCHANGED <<urb, subs, chip, irq>>
    BY DEF SetRetire, Due
  <1>3. e \in Eps /\ s \in Agents
    BY AgentsAre
  <1>4. ep[e] \in EpRec
    BY <1>1, <1>3, Typed
  <1>5. r \in EpRec /\ r.use = ep[e].use /\ r.active = ep[e].active /\ r.stopping = ep[e].stopping
    BY <1>4 DEF EpRec
  <1>6. ep' = [ep EXCEPT ![e] = r]
    BY DEF SetRetire
  <1> HIDE DEF r, e
  <1>7. /\ ep' \in [Eps -> EpRec] /\ SameUse /\ subs' \in [Subs -> SubRec]
        /\ \A f \in Eps : ep[f].active \subseteq ep'[f].active
        /\ ep["in"].stopping => ep'["in"].stopping \/ Quiet("in")
    BY <1>1, <1>2, <1>3, <1>5, <1>6, EpOnly
  <1>8. SamePlug /\ Unlinked
    BY <1>1, <1>2, SameAll, SameUnlinked
  <1>9. Calm(s, <<>>, h)
    BY <1>2, NoCalls
  <1> QED
    BY <1>2, <1>3, <1>7, <1>8, <1>9, EpStep, PendTuples

LEMMA UnlinkSafe ==
  ASSUME IInv, NEW a \in Agents, Unlink(a)
  PROVE  IInv'
  <1> DEFINE h == Head(todo[a])
             e == h.ep
             hit == ep[e].active \ ep[e].unlinked
             r == [ep[e] EXCEPT !.unlinked = @ \cup hit]
             m == [u \in Urbs |-> IF u \in hit /\ urb[e][u] = "bus" THEN "unlinked" ELSE urb[e][u]]
  <1>1. TypeOK /\ Shape /\ Owned
    BY DEF IInv
  <1>2. todo[a] # <<>> /\ h.op = "unlink" /\ Then(a, <<>>) /\ UNCHANGED <<subs, chip, irq>>
    BY DEF Unlink, Due
  <1>3. e \in Eps
    BY <1>1, <1>2, HeadOf, AgentsAre DEF OwnOps
  <1>4. ep[e] \in EpRec
    BY <1>1, <1>3, Typed, SMTT(30)
  <1>5. r \in EpRec /\ r.use = ep[e].use /\ r.active = ep[e].active /\ r.stopping = ep[e].stopping
    BY <1>4 DEF EpRec
  <1>6. ep' = [ep EXCEPT ![e] = r] /\ urb' = [urb EXCEPT ![e] = m]
    BY DEF Unlink
  <1>7. Unlinked
    <2>1. urb \in [Eps -> [Urbs -> Places]]
      BY <1>1, Typed
    <2>2. m \in [Urbs -> Places] /\ \A u \in Urbs : m[u] = urb[e][u] \/ (urb[e][u] = "bus" /\ m[u] = "unlinked")
      BY <2>1, <1>3 DEF Places
    <2> HIDE DEF m, e
    <2>3. /\ urb' \in [Eps -> [Urbs -> Places]]
          /\ \A f \in Eps, u \in Urbs :
                urb'[f][u] = urb[f][u] \/ (urb[f][u] = "bus" /\ urb'[f][u] = "unlinked")
      BY <2>1, <2>2, <1>3, <1>6
    <2>4. \A f \in Eps : AtHost(f)' = AtHost(f)
      BY <2>3 DEF AtHost
    <2>5. \A u \in Urbs : \A p \in {"idle", "none"} : urb'["in"][u] = p <=> urb["in"][u] = p
      BY <2>3, AgentsAre
    <2> QED
      BY <2>3, <2>4, <2>5 DEF Unlinked
  <1> HIDE DEF r, m
  <1>8. /\ ep' \in [Eps -> EpRec] /\ SameUse /\ subs' \in [Subs -> SubRec]
        /\ \A f \in Eps : ep[f].active \subseteq ep'[f].active
        /\ ep["in"].stopping => ep'["in"].stopping \/ Quiet("in")
    BY <1>1, <1>2, <1>3, <1>5, <1>6, EpOnly
  <1>9. SamePlug /\ Calm(a, <<>>, h)
    BY <1>2, SameAll, NoCalls
  <1> QED
    BY <1>2, <1>7, <1>8, <1>9, EpStep, PendTuples, SMTT(30)

LEMMA SetBitSafe ==
  ASSUME IInv, NEW a \in Agents, SetBit(a)
  PROVE  IInv'
  <1> DEFINE h == Head(todo[a])
             r == [ep[h.ep] EXCEPT !.active = @ \cup {h.v}]
  <1>1. TypeOK /\ Shape /\ Owned
    BY DEF IInv
  <1>2. todo[a] # <<>> /\ h.op = "bit" /\ Then(a, <<>>) /\ UNCHANGED <<urb, subs, chip, irq>>
    BY DEF SetBit, Due
  <1>3. h.ep \in Eps /\ h.v \in Urbs
    BY <1>1, <1>2, HeadOf, AgentsAre, SMTT(30) DEF OwnOps, FreeOps, StopOps
  <1>4. ep[h.ep] \in EpRec
    BY <1>1, <1>3, Typed
  <1>5. r \in EpRec /\ r.use = ep[h.ep].use /\ ep[h.ep].active \subseteq r.active /\ h.v \in r.active
        /\ r.stopping = ep[h.ep].stopping
    BY <1>4, <1>3 DEF EpRec
  <1>6. ep' = [ep EXCEPT ![h.ep] = r]
    BY DEF SetBit
  <1> HIDE DEF r
  <1>7. /\ ep' \in [Eps -> EpRec] /\ ep'[h.ep] = r /\ SameUse /\ subs' \in [Subs -> SubRec]
        /\ \A f \in Eps : ep[f].active \subseteq ep'[f].active
        /\ ep["in"].stopping => ep'["in"].stopping \/ Quiet("in")
    BY <1>1, <1>2, <1>3, <1>5, <1>6, EpOnly
  <1>8. SamePlug /\ Unlinked
    BY <1>1, <1>2, SameAll, SameUnlinked
  <1>9. Calm(a, <<>>, h)
    BY <1>2, NoCalls
  <1> QED
    BY <1>2, <1>5, <1>7, <1>8, <1>9, EpStep, PendTuples

LEMMA WaitedSafe ==
  ASSUME IInv, NEW a \in Agents, NEW timeout \in BOOLEAN, Waited(a, timeout)
  PROVE  IInv'
  <1> DEFINE h == Head(todo[a])
             r == [ep[h.ep] EXCEPT !.stopping = FALSE]
  <1>1. TypeOK /\ Shape /\ Owned
    BY DEF IInv
  <1>2. Due(a, "wait") /\ todo[a] # <<>> /\ h.op = "wait" /\ Then(a, <<>>) /\ UNCHANGED <<urb, subs, chip, irq>>
    BY DEF Waited, Due
  <1>3. ep[h.ep].active \cap AtHost(h.ep) = {}
    BY DEF Waited
  <1>4. h.ep \in Eps /\ Quiet(h.ep)
    BY <1>2, <1>3, WaitQuiet
  <1>5. ep[h.ep] \in EpRec
    BY <1>1, <1>4, Typed
  <1>6. r \in EpRec /\ r.use = ep[h.ep].use /\ r.active = ep[h.ep].active
    BY <1>5 DEF EpRec
  <1>7. ep' = [ep EXCEPT ![h.ep] = r]
    BY DEF Waited
  <1> HIDE DEF r
  <1>8. /\ ep' \in [Eps -> EpRec] /\ SameUse /\ subs' \in [Subs -> SubRec]
        /\ \A f \in Eps : ep[f].active \subseteq ep'[f].active
        /\ ep["in"].stopping => ep'["in"].stopping \/ Quiet("in")
    BY <1>1, <1>2, <1>4, <1>6, <1>7, EpOnly
  <1>9. SamePlug /\ Unlinked
    BY <1>1, <1>2, SameAll, SameUnlinked
  <1>10. Calm(a, <<>>, h)
    <2>1. <<>> \in Seq(Entries) /\ Pend(<<>>) = {} /\ Ordered(<<>>) /\ 1..Len(<<>>) = {}
      BY PendTuples, OrderedTuples
    <2>2. a = "capt" => Quiet("in")'
      <3> SUFFICES ASSUME a = "capt" PROVE Quiet("in")'
        OBVIOUS
      <3>1. h.ep = "in"
        BY <1>1, <1>2, HeadOf, AgentsAre DEF OwnOps
      <3>2. Quiet("in")
        BY <3>1, <1>4
      <3> QED
        BY <3>2, <1>9, UnlinkedSame, AgentsAre
    <2> QED
      BY <2>1, <2>2, <1>2 DEF Calm, Fits, MayCall, CaptMay
  <1> QED
    BY <1>2, <1>4, <1>8, <1>9, <1>10, EpStep, PendTuples

\* Lists of calls with the endpoint and the substream of an entry.
Like(x, h) == x.ep = h.ep /\ x.s = h.s /\ x.op \notin {"start", "end"} /\ x \in Entries

LEMMA FitTuples ==
  ASSUME NEW h, h.op \notin {"wait", "submit"}
  PROVE  /\ \A x : Like(x, h) /\ x.op # "submit" => Fits(<<x>>, h)
         /\ \A x, y : Like(x, h) /\ Like(y, h) /\ Pair(x, y) /\ y.op # "submit" => Fits(<<x, y>>, h)
         /\ \A x, y, z : Like(x, h) /\ Like(y, h) /\ Like(z, h) /\ Pair(x, y) /\ Pair(y, z) /\ z.op # "submit"
                => Fits(<<x, y, z>>, h)
  <1>1. ASSUME NEW x, Like(x, h), x.op # "submit" PROVE Fits(<<x>>, h)
    <2>1. <<x>> \in Seq(Entries) /\ Len(<<x>>) = 1 /\ <<x>>[1] = x
      BY <1>1 DEF Like
    <2>2. Ordered(<<x>>) /\ Pend(<<x>>) = {x}
      BY OrderedTuples, PendTuples
    <2> QED
      BY <2>1, <2>2, <1>1 DEF Fits, Like
  <1>2. ASSUME NEW x, NEW y, Like(x, h), Like(y, h), Pair(x, y), y.op # "submit" PROVE Fits(<<x, y>>, h)
    <2>1. <<x, y>> \in Seq(Entries) /\ Len(<<x, y>>) = 2 /\ <<x, y>>[2] = y
      BY <1>2 DEF Like
    <2>2. Ordered(<<x, y>>) /\ Pend(<<x, y>>) = {x, y}
      BY <1>2, OrderedTuples, PendTuples DEF Like
    <2> QED
      BY <2>1, <2>2, <1>2 DEF Fits, Like
  <1>3. ASSUME NEW x, NEW y, NEW z, Like(x, h), Like(y, h), Like(z, h), Pair(x, y), Pair(y, z), z.op # "submit"
        PROVE  Fits(<<x, y, z>>, h)
    <2>1. <<x, y, z>> \in Seq(Entries) /\ Len(<<x, y, z>>) = 3 /\ <<x, y, z>>[3] = z
      BY <1>3 DEF Like
    <2>2. Ordered(<<x, y, z>>) /\ Pend(<<x, y, z>>) = {x, y, z}
      BY <1>3, OrderedTuples, PendTuples DEF Like
    <2> QED
      BY <2>1, <2>2, <1>3 DEF Fits, Like
  <1> QED
    BY <1>1, <1>2, <1>3

LEMMA LikeOps ==
  ASSUME NEW h, h.ep \in Eps, h.s \in Subs \cup {None}
  PROVE  \A name \in (CallOps \cup FreeOps) \ {"start", "end"}, v \in Nat :
            /\ Like(Op(name, h.ep, h.s, v), h)
            /\ Op(name, h.ep, h.s, v).op = name /\ Op(name, h.ep, h.s, v).v = v
            /\ Op(name, h.ep, h.s, v).ep = h.ep
  BY OpIs DEF Like

LEMMA SyncStopSafe ==
  ASSUME IInv, NEW a \in Agents, SyncStop(a)
  PROVE  IInv'
  <1> DEFINE h == Head(todo[a])
             w == Op("wait", h.ep, h.s, 0)
             C == IF ep[h.ep].stopping THEN <<w>> ELSE <<>>
  <1>1. TypeOK /\ Shape /\ Owned
    BY DEF IInv
  <1>2. todo[a] # <<>> /\ h.op = "sync" /\ Then(a, C) /\ UNCHANGED <<ep, urb, subs, chip, irq>>
    BY DEF SyncStop, Due
  <1>3. h.ep \in Own(a) /\ h.ep \in Eps /\ a \in Subs /\ h.s = a
    BY <1>1, <1>2, HeadOf, AgentsAre DEF OwnOps, FreeOps, StopOps
  <1>4. Like(w, h) /\ w.op = "wait"
    BY <1>3, LikeOps DEF CallOps, OwnOps
  <1> HIDE DEF w
  <1>5. Fits(C, h) /\ Pend(C) = (IF ep[h.ep].stopping THEN {w} ELSE {})
    <2>1. Fits(<<w>>, h) /\ Fits(<<>>, h)
      BY <1>2, <1>4, FitTuples, PendTuples, OrderedTuples DEF Fits
    <2> QED
      BY <2>1, PendTuples
  <1>6. C # <<>> => C[1] = w
    OBVIOUS
  <1>7. Len(C) \in 0..1
    OBVIOUS
  <1>8. a = "capt" => h.ep = "in"
    BY <1>3, AgentsAre
  <1> HIDE DEF C, h
  <1>9. Calm(a, C, h)
    <2>1. a = "capt" => CaptMay(C, h)
      <3>1. \A i \in 1..Len(C) : C[i] = w
        <4>1. \A i \in 1..Len(C) : C[i] \in Pend(C)
          BY DEF Pend
        <4> QED
          BY <4>1, <1>5
      <3> QED
        BY <3>1, <1>2, <1>4, <1>5, <1>8 DEF CaptMay, StartOps
    <2>2. MayCall(a, C, h)
      BY <1>2, <1>3, <1>4, <1>5, AgentsAre DEF MayCall, OwnOps
    <2> QED
      BY <2>1, <2>2, <1>2, <1>4, <1>5 DEF Calm, StartOps, Under
  <1>10. /\ ep' \in [Eps -> EpRec] /\ SameUse /\ subs' \in [Subs -> SubRec] /\ SamePlug /\ Unlinked
         /\ \A f \in Eps : ep[f].active \subseteq ep'[f].active
         /\ ep["in"].stopping => ep'["in"].stopping
    BY <1>1, <1>2, SameAll, SameUnlinked, Typed DEF SameUse
  <1>11. \A o \in Pend(C) : o.op \notin {"inc", "dec"}
    BY <1>4, <1>5
  <1>12. C # <<>> => C[1].op \notin {"realloc", "kfree", "go"}
    BY <1>4, <1>6
  <1> QED
    BY <1>2, <1>9, <1>10, <1>11, <1>12, EpStep DEF h

LEMMA SubsOnly ==
  ASSUME TypeOK, NEW s \in Subs, NEW r \in SubRec, subs' = [subs EXCEPT ![s] = r], UNCHANGED <<ep, chip>>,
         r.state = subs[s].state, r.locked = subs[s].locked, r.reading = subs[s].reading,
         r.eps = subs[s].eps, r.started = subs[s].started
  PROVE  /\ ep' \in [Eps -> EpRec] /\ SameUse /\ SamePlug /\ subs' \in [Subs -> SubRec]
         /\ \A f \in Eps : ep[f].active \subseteq ep'[f].active
         /\ ep["in"].stopping => ep'["in"].stopping
  <1>1. subs' \in [Subs -> SubRec] /\ subs'[s] = r /\ \A t \in Subs : t # s => subs'[t] = subs[t]
    BY SubSet, Typed
  <1> QED
    BY <1>1, Typed DEF SameUse, SamePlug

LEMMA AllocBufferSafe ==
  ASSUME IInv, NEW s \in Subs, AllocBuffer(s)
  PROVE  IInv'
  <1> DEFINE h == Head(todo[s])
             r == [subs[s] EXCEPT !.buffer = TRUE, !.need_setup = TRUE]
  <1>1. TypeOK
    BY DEF IInv
  <1>2. todo[s] # <<>> /\ h.op = "alloc" /\ Then(s, <<>>) /\ UNCHANGED <<ep, urb, chip, irq>>
    BY DEF AllocBuffer, Due
  <1>3. s \in Agents /\ subs[s] \in SubRec
    BY <1>1, Typed, AgentsAre
  <1>4. /\ r \in SubRec /\ r.state = subs[s].state /\ r.locked = subs[s].locked
        /\ r.reading = subs[s].reading /\ r.eps = subs[s].eps /\ r.started = subs[s].started
    BY <1>3 DEF SubRec
  <1>5. subs' = [subs EXCEPT ![s] = r]
    BY DEF AllocBuffer
  <1> HIDE DEF r
  <1>6. /\ ep' \in [Eps -> EpRec] /\ SameUse /\ SamePlug /\ subs' \in [Subs -> SubRec]
        /\ \A f \in Eps : ep[f].active \subseteq ep'[f].active
        /\ ep["in"].stopping => ep'["in"].stopping
    BY <1>1, <1>2, <1>4, <1>5, SubsOnly
  <1>7. Unlinked /\ Calm(s, <<>>, h)
    BY <1>1, <1>2, SameUnlinked, NoCalls
  <1> QED
    BY <1>2, <1>3, <1>6, <1>7, EpStep, PendTuples

LEMMA SetupDoneSafe ==
  ASSUME IInv, NEW s \in Subs, SetupDone(s)
  PROVE  IInv'
  <1> DEFINE h == Head(todo[s])
             r == [subs[s] EXCEPT !.need_setup = FALSE]
  <1>1. TypeOK
    BY DEF IInv
  <1>2. todo[s] # <<>> /\ h.op = "ready" /\ Then(s, <<>>) /\ UNCHANGED <<ep, urb, chip, irq>>
    BY DEF SetupDone, Due
  <1>3. s \in Agents /\ subs[s] \in SubRec
    BY <1>1, Typed, AgentsAre
  <1>4. /\ r \in SubRec /\ r.state = subs[s].state /\ r.locked = subs[s].locked
        /\ r.reading = subs[s].reading /\ r.eps = subs[s].eps /\ r.started = subs[s].started
    BY <1>3 DEF SubRec
  <1>5. subs' = [subs EXCEPT ![s] = r]
    BY DEF SetupDone
  <1> HIDE DEF r
  <1>6. /\ ep' \in [Eps -> EpRec] /\ SameUse /\ SamePlug /\ subs' \in [Subs -> SubRec]
        /\ \A f \in Eps : ep[f].active \subseteq ep'[f].active
        /\ ep["in"].stopping => ep'["in"].stopping
    BY <1>1, <1>2, <1>4, <1>5, SubsOnly
  <1>7. Unlinked /\ Calm(s, <<>>, h)
    BY <1>1, <1>2, SameUnlinked, NoCalls
  <1> QED
    BY <1>2, <1>3, <1>6, <1>7, EpStep, PendTuples

LEMMA CalmRest ==
  ASSUME IInv, NEW a \in Agents, todo[a] # <<>>, NEW h, h = Head(todo[a]), h.op \in {"deact", "params", "free"},
         NEW C, \/ C = <<Op("unlink", h.ep, h.s, 0), Op("wait", h.ep, h.s, 0)>> /\ h.op = "deact"
                \/ C = <<Op("unlink", h.ep, h.s, 0), Op("wait", h.ep, h.s, 0),
                         Op("realloc", h.ep, h.s, 0)>> /\ h.op = "params"
                \/ C = <<Op("unlink", h.ep, h.s, 0), Op("wait", h.ep, h.s, 0),
                         Op("kfree", h.ep, h.s, 0)>> /\ h.op = "free"
  PROVE  /\ Calm(a, C, h) /\ h.ep \in Eps
         /\ C[1].op = "unlink" /\ \A o \in Pend(C) : o.op \notin {"inc", "dec"}
  <1> DEFINE x == Op("unlink", h.ep, h.s, 0)
             y == Op("wait", h.ep, h.s, 0)
             z == IF h.op = "params" THEN Op("realloc", h.ep, h.s, 0) ELSE Op("kfree", h.ep, h.s, 0)
  <1>1. Shape /\ Owned
    BY DEF IInv
  <1>2. /\ h.ep \in Eps /\ h.s \in Subs \cup {None}
        /\ h.op = "free" => a = "hub"
        /\ h.op # "free" => a \in Subs
    BY <1>1, HeadOf, AgentsAre DEF OwnOps, FreeOps, StopOps, CallOps
  <1>3. /\ Like(x, h) /\ Like(y, h) /\ x.op = "unlink" /\ y.op = "wait" /\ x.ep = y.ep
        /\ Like(z, h) /\ z.op = (IF h.op = "params" THEN "realloc" ELSE "kfree") /\ y.ep = z.ep
    BY <1>2, LikeOps DEF CallOps, OwnOps, FreeOps
  <1>4. \/ C = <<x, y>> /\ h.op = "deact"
        \/ C = <<x, y, z>> /\ h.op \in {"params", "free"}
    <2>1. h.op = "params" => z = Op("realloc", h.ep, h.s, 0)
      OBVIOUS
    <2>2. h.op = "free" => z = Op("kfree", h.ep, h.s, 0)
      OBVIOUS
    <2> HIDE DEF z
    <2>3. CASE h.op = "deact"
      <3>1. C = <<x, y>>
        BY <2>3
      <3> QED
        BY <3>1, <2>3
    <2>4. CASE h.op = "params"
      BY <2>4, <2>1
    <2>5. CASE h.op = "free"
      BY <2>5, <2>2
    <2> QED
      BY <2>3, <2>4, <2>5
  <1> HIDE DEF x, y, z
  <1>5. Pair(x, y) /\ Pair(y, z)
    BY <1>3 DEF Pair
  <1>6. Fits(C, h)
    BY <1>3, <1>4, <1>5, FitTuples
  <1>7. Pend(C) = IF h.op = "deact" THEN {x, y} ELSE {x, y, z}
    BY <1>4, PendTuples
  <1>8. C[1] = x
    BY <1>4
  <1>9. \A i \in 1..Len(C) : C[i] \in Pend(C)
    BY DEF Pend
  <1>10. /\ \A o \in Pend(C) : o.op \in {"unlink", "wait", "realloc", "kfree"}
         /\ \A o \in Pend(C) : o.op = "realloc" => h.op = "params"
         /\ \A o \in Pend(C) : o.op = "kfree" => h.op = "free"
    BY <1>3, <1>7
  <1>11. MayCall(a, C, h)
    BY <1>2, <1>10, AgentsAre DEF MayCall, OwnOps, FreeOps
  <1>12. CaptMay(C, h)
    BY <1>9, <1>10 DEF CaptMay, StartOps
  <1> QED
    BY <1>2, <1>3, <1>6, <1>8, <1>10, <1>11, <1>12 DEF Calm, StartOps, Under

LEMMA DeactivateEpSafe ==
  ASSUME IInv, NEW a \in Agents, DeactivateEp(a)
  PROVE  IInv'
  <1> DEFINE h == Head(todo[a])
             r == Deactivated(ep[h.ep])
             C == <<Op("unlink", h.ep, h.s, 0), Op("wait", h.ep, h.s, 0)>>
  <1>1. TypeOK
    BY DEF IInv
  <1>2. todo[a] # <<>> /\ h.op = "deact" /\ Then(a, C) /\ UNCHANGED <<urb, subs, chip, irq>>
        /\ ep' = [ep EXCEPT ![h.ep] = r]
    BY DEF DeactivateEp, Due
  <1>3. /\ Calm(a, C, h) /\ h.ep \in Eps
        /\ C[1].op = "unlink" /\ \A o \in Pend(C) : o.op \notin {"inc", "dec"}
    BY <1>2, CalmRest
  <1>4. ep[h.ep] \in EpRec
    BY <1>1, <1>3, Typed
  <1>5. r \in EpRec /\ r.use = ep[h.ep].use /\ r.active = ep[h.ep].active /\ r.stopping = ep[h.ep].stopping
    BY <1>4, Deact, SizesAssumption
  <1> HIDE DEF r, C
  <1>6. /\ ep' \in [Eps -> EpRec] /\ SameUse /\ subs' \in [Subs -> SubRec]
        /\ \A f \in Eps : ep[f].active \subseteq ep'[f].active
        /\ ep["in"].stopping => ep'["in"].stopping \/ Quiet("in")
    BY <1>1, <1>2, <1>3, <1>5, EpOnly
  <1>7. SamePlug /\ Unlinked
    BY <1>1, <1>2, SameAll, SameUnlinked
  <1> QED
    BY <1>2, <1>3, <1>6, <1>7, EpStep

LEMMA DeactMuted ==
  ASSUME NEW r \in EpRec, NEW d, d = Deactivated(Muted(r))
  PROVE  d \in EpRec /\ d.use = r.use /\ d.active = r.active /\ d.stopping = r.stopping
  <1> DEFINE m == Muted(r)
  <1>1. m \in EpRec /\ m.use = r.use /\ m.active = r.active /\ m.stopping = r.stopping
    BY Mutes
  <1> HIDE DEF m
  <1>2. /\ Deactivated(m) \in EpRec /\ Deactivated(m).use = m.use
        /\ Deactivated(m).active = m.active /\ Deactivated(m).stopping = m.stopping
    BY <1>1, Deact, SizesAssumption
  <1>3. d = Deactivated(m)
    BY DEF m
  <1> QED
    BY <1>1, <1>2, <1>3

LEMMA FreeEpSafe ==
  ASSUME IInv, NEW a \in Agents, FreeEp(a)
  PROVE  IInv'
  <1> DEFINE h == Head(todo[a])
             r == Deactivated(Muted(ep[h.ep]))
             C == <<Op("unlink", h.ep, h.s, 0), Op("wait", h.ep, h.s, 0), Op("kfree", h.ep, h.s, 0)>>
  <1>1. TypeOK /\ Shape /\ Owned
    BY DEF IInv
  <1>2. todo[a] # <<>> /\ h.op = "free" /\ UNCHANGED <<urb, subs, chip, irq>>
        /\ ep' = [ep EXCEPT ![h.ep] = r]
    BY DEF FreeEp, Due
  <1>2a. h.s = None
    BY <1>1, <1>2, HeadOf, AgentsAre DEF OwnOps, StopOps, CallOps
  <1>2b. Then(a, C)
    BY <1>2a DEF FreeEp
  <1>3. /\ Calm(a, C, h) /\ h.ep \in Eps
        /\ C[1].op = "unlink" /\ \A o \in Pend(C) : o.op \notin {"inc", "dec"}
    BY <1>2, CalmRest
  <1>4. ep[h.ep] \in EpRec
    BY <1>1, <1>3, Typed
  <1>5. r \in EpRec /\ r.use = ep[h.ep].use /\ r.active = ep[h.ep].active /\ r.stopping = ep[h.ep].stopping
    BY <1>4, DeactMuted
  <1> HIDE DEF r, C
  <1>6. /\ ep' \in [Eps -> EpRec] /\ SameUse /\ subs' \in [Subs -> SubRec]
        /\ \A f \in Eps : ep[f].active \subseteq ep'[f].active
        /\ ep["in"].stopping => ep'["in"].stopping \/ Quiet("in")
    BY <1>1, <1>2, <1>3, <1>5, EpOnly
  <1>7. SamePlug /\ Unlinked
    BY <1>1, <1>2, SameAll, SameUnlinked
  <1> QED
    BY <1>2, <1>2b, <1>3, <1>6, <1>7, EpStep

\* The endpoint is not in use.
LEMMA SetParamsGoes ==
  ASSUME IInv, NEW a \in Agents, SetParams(a), ep[Head(todo[a]).ep].use = 0
  PROVE  IInv'
  <1> DEFINE h == Head(todo[a])
             r == Deactivated(Muted(ep[h.ep]))
             C == <<Op("unlink", h.ep, h.s, 0), Op("wait", h.ep, h.s, 0), Op("realloc", h.ep, h.s, 0)>>
  <1>1. TypeOK
    BY DEF IInv
  <1>2. todo[a] # <<>> /\ h.op = "params" /\ Then(a, C) /\ UNCHANGED <<urb, subs, chip, irq>>
        /\ ep' = [ep EXCEPT ![h.ep] = r]
    BY DEF SetParams, Due
  <1>3. /\ Calm(a, C, h) /\ h.ep \in Eps
        /\ C[1].op = "unlink" /\ \A o \in Pend(C) : o.op \notin {"inc", "dec"}
    BY <1>2, CalmRest
  <1>4. ep[h.ep] \in EpRec
    BY <1>1, <1>3, Typed
  <1>5. r \in EpRec /\ r.use = ep[h.ep].use /\ r.active = ep[h.ep].active /\ r.stopping = ep[h.ep].stopping
    BY <1>4, DeactMuted
  <1> HIDE DEF r, C
  <1>6. /\ ep' \in [Eps -> EpRec] /\ SameUse /\ subs' \in [Subs -> SubRec]
        /\ \A f \in Eps : ep[f].active \subseteq ep'[f].active
        /\ ep["in"].stopping => ep'["in"].stopping \/ Quiet("in")
    BY <1>1, <1>2, <1>3, <1>5, EpOnly
  <1>7. SamePlug /\ Unlinked
    BY <1>1, <1>2, SameAll, SameUnlinked
  <1> QED
    BY <1>2, <1>3, <1>6, <1>7, EpStep

\* The URBs of an endpoint of which the host has none are all replaced.
LEMMA NewUrbs ==
  ASSUME TypeOK, NEW e \in Eps, Quiet(e), NEW place \in {"idle", "none"},
         urb' = [urb EXCEPT ![e] = [u \in Urbs |-> place]]
  PROVE  Unlinked
  <1> DEFINE m == [u \in Urbs |-> place]
  <1>1. urb \in [Eps -> [Urbs -> Places]] /\ m \in [Urbs -> Places]
    BY Typed DEF Places
  <1>2. \A u \in Urbs : m[u] = place
    OBVIOUS
  <1> HIDE DEF m
  <1>3. urb' = [urb EXCEPT ![e] = m]
    BY DEF m
  <1>4. urb' \in [Eps -> [Urbs -> Places]] /\ urb'[e] = m /\ \A f \in Eps : f # e => urb'[f] = urb[f]
    BY <1>1, <1>3
  <1>5. \A u \in Urbs : urb[e][u] \notin {"bus", "unlinked", "handler"} /\ urb'[e][u] = place
    BY <1>2, <1>4 DEF Quiet, AtHost
  <1>6. ASSUME NEW f \in Eps PROVE AtHost(f)' = AtHost(f)
    BY <1>4, <1>5 DEF AtHost
  <1>7. \A f \in Eps, u \in Urbs : urb'[f][u] = "handler" <=> urb[f][u] = "handler"
    BY <1>4, <1>5
  <1>8. \A u \in Urbs : urb["in"][u] \in {"idle", "none"} => urb'["in"][u] \in {"idle", "none"}
    BY <1>4, <1>5, AgentsAre
  <1>9. ((\E u \in Urbs : urb["in"][u] = "none") => \A u \in Urbs : urb["in"][u] = "none")
          => ((\E u \in Urbs : urb'["in"][u] = "none") => \A u \in Urbs : urb'["in"][u] = "none")
    BY <1>4, <1>5, AgentsAre
  <1> QED
    BY <1>4, <1>6, <1>7, <1>8, <1>9 DEF Unlinked

LEMMA ReallocSafe ==
  ASSUME IInv, NEW a \in Agents, Realloc(a)
  PROVE  IInv'
  <1> DEFINE h == Head(todo[a])
  <1>1. TypeOK /\ Shape /\ Owned /\ QuietDue
    BY DEF IInv
  <1>2. todo[a] # <<>> /\ h.op = "realloc" /\ Then(a, <<>>) /\ UNCHANGED <<ep, subs, chip, irq>>
        /\ urb' = [urb EXCEPT ![h.ep] = [u \in Urbs |-> "idle"]]
    BY DEF Realloc, Due
  <1>3. h.ep \in Eps /\ Quiet(h.ep)
    BY <1>1, <1>2, HeadOf, AgentsAre DEF OwnOps, FreeOps, StopOps, QuietDue
  <1>4. Unlinked
    BY <1>1, <1>2, <1>3, NewUrbs
  <1>5. SamePlug /\ SameUse /\ Calm(a, <<>>, h) /\ ep' \in [Eps -> EpRec] /\ subs' \in [Subs -> SubRec]
    BY <1>1, <1>2, SameAll, NoCalls, Typed DEF SameUse
  <1> QED
    BY <1>2, <1>4, <1>5, EpStep, PendTuples

LEMMA KfreeSafe ==
  ASSUME IInv, NEW a \in Agents, Kfree(a)
  PROVE  IInv'
  <1> DEFINE h == Head(todo[a])
  <1>1. TypeOK /\ Shape /\ Owned /\ QuietDue
    BY DEF IInv
  <1>2. todo[a] # <<>> /\ h.op = "kfree" /\ Then(a, <<>>) /\ UNCHANGED <<ep, subs, irq>>
        /\ urb' = [urb EXCEPT ![h.ep] = [u \in Urbs |-> "none"]]
        /\ chip' = [chip EXCEPT !.freed = @ \cup {h.ep}]
    BY DEF Kfree, Due
  <1>3. h.ep \in Eps /\ Quiet(h.ep)
    BY <1>1, <1>2, HeadOf, AgentsAre DEF CallOps, OwnOps, StopOps, QuietDue
  <1>4. Unlinked
    BY <1>1, <1>2, <1>3, NewUrbs
  <1>5. /\ chip.freed \cup {h.ep} \in SUBSET Eps /\ chip' = [chip EXCEPT !.freed = chip.freed \cup {h.ep}]
        /\ SamePlug
    BY <1>1, <1>2, <1>3 DEF Shape, SamePlug
  <1>6. SameUse /\ Calm(a, <<>>, h) /\ ep' \in [Eps -> EpRec] /\ subs' \in [Subs -> SubRec]
    BY <1>1, <1>2, NoCalls, Typed DEF SameUse
  <1>7. \E F \in SUBSET Eps : chip' = [chip EXCEPT !.freed = F]
    BY <1>5
  <1> QED
    BY <1>2, <1>4, <1>5, <1>6, <1>7, EpStep, PendTuples

-----------------------------------------------------------------------------
(* A step that changes what is in use *)

\* No other list has an entry that counts a user of these endpoints.
LEMMA OthersCalm ==
  ASSUME Shape, Lists, Owned, Alone, NEW a \in Agents, todo[a] # <<>>, a # "hub",
         NEW h, h = Head(todo[a]), h.op \in OwnOps
  PROVE  /\ h.s \in Subs /\ h.ep \in Own(h.s) /\ h.ep \in Eps /\ a \in {h.s, "hcd"}
         /\ a \in Subs => h.s = a
         /\ \A o \in Pend(Tail(todo[a])) : o.op \notin {"inc", "dec"}
         /\ \A b \in {h.s, "hcd"} : b # a => \A o \in Pend(todo[b]) : o.op \in OwnOps => o.ep \notin Own(h.s)
         /\ a = "hcd" => \A o \in Pend(todo[a]) : o.s = h.s /\ (o.op \in OwnOps => o.ep \in Own(h.s))
         /\ a # "hcd" => ~HcdFor(h.s)
  <1>1. /\ h \in Pend(todo[a])
        /\ a \in Subs => h.s = a /\ h.ep \in Own(a) /\ h.ep \in Eps
        /\ a = "hcd" => h.s \in Subs /\ h.ep \in Own(h.s) /\ h.ep \in Eps /\ HcdFor(h.s)
    BY HeadOf
  <1>2. h.s \in Subs /\ h.ep \in Own(h.s) /\ h.ep \in Eps /\ a \in {h.s, "hcd"}
    BY <1>1, AgentsAre
  <1>3. \A o \in Pend(Tail(todo[a])) : o.op \notin {"inc", "dec"}
    BY TailOf DEF Lists, Shape
  <1>4. a # "hcd" => ~HcdFor(h.s)
    <2> SUFFICES ASSUME a # "hcd", HcdFor(h.s) PROVE FALSE
      OBVIOUS
    <2>1. a = h.s
      BY <1>2, SMTT(30)
    <2>2. Idle(a)
      BY <1>2, <2>1 DEF Alone
    <2> QED
      BY <1>1, <2>2 DEF Idle, OwnOps
  <1>5. ASSUME NEW b \in {h.s, "hcd"}, b # a, NEW o \in Pend(todo[b]), o.op \in OwnOps
        PROVE  o.ep \notin Own(h.s)
    <2>1. CASE b = "hcd"
      <3>1. o.s # h.s /\ o.s \in Subs /\ o.ep \in Own(o.s)
        BY <2>1, <1>4, <1>5 DEF HcdFor, Owned
      <3> QED
        BY <3>1, <1>2, AgentsAre
    <2>2. CASE b # "hcd"
      <3>1. b = h.s /\ a = "hcd"
        BY <2>2, <1>5, <1>2
      <3>2. Idle(h.s)
        BY <3>1, <1>1 DEF Alone
      <3> QED
        BY <3>1, <3>2, <1>5 DEF Idle, OwnOps
    <2> QED
      BY <2>1, <2>2
  <1>6. a = "hcd" => \A o \in Pend(todo[a]) : o.s = h.s /\ (o.op \in OwnOps => o.ep \in Own(h.s))
    BY <1>1 DEF Owned
  <1> QED
    BY <1>1, <1>2, <1>3, <1>4, <1>5, <1>6

\* The count of one endpoint changes with the list that counts it.
LEMMA UsesOf ==
  ASSUME IInv, NEW a \in Agents, todo[a] # <<>>, a # "hub",
         NEW h, h = Head(todo[a]), h.op \in OwnOps,
         NEW C, \A o \in C : o.op \in {"inc", "dec"} => o.ep = h.ep,
         \A b \in Agents : b # a => todo'[b] = todo[b],
         C \subseteq Pend(todo'[a]), Pend(todo'[a]) \subseteq C \cup Pend(Tail(todo[a])),
         \A e \in Eps : e # h.ep => ep'[e].use = ep[e].use,
         \A t \in Subs : t # h.s => subs'[t].started = subs[t].started,
         \A e \in Eps : e # h.ep => (e \in subs'[h.s].started <=> e \in subs[h.s].started),
         \A o \in C : o.op = "inc" => o.v = 1 /\ h.ep \in subs'[h.s].started /\ ep'[h.ep].use = 0,
         \A o \in C : o.op = "dec" => o.v = 0 /\ h.ep \notin subs'[h.s].started /\ ep'[h.ep].use = 1,
         h.ep \in subs'[h.s].started /\ (\A o \in C : o.op # "inc") => ep'[h.ep].use = 1,
         h.ep \notin subs'[h.s].started /\ (\A o \in C : o.op # "dec") => ep'[h.ep].use = 0
  PROVE  Uses'
  <1>0. Shape /\ Lists /\ Owned /\ Alone /\ Uses
    BY DEF IInv
  <1>1. /\ h.s \in Subs /\ h.ep \in Own(h.s) /\ h.ep \in Eps /\ a \in {h.s, "hcd"}
        /\ a \in Subs => h.s = a
        /\ \A o \in Pend(Tail(todo[a])) : o.op \notin {"inc", "dec"}
        /\ \A b \in {h.s, "hcd"} : b # a => \A o \in Pend(todo[b]) : o.op \in OwnOps => o.ep \notin Own(h.s)
        /\ a = "hcd" => \A o \in Pend(todo[a]) : o.s = h.s /\ (o.op \in OwnOps => o.ep \in Own(h.s))
    BY <1>0, OthersCalm
  <1>1a. Pend(todo[a]) = {h} \cup Pend(Tail(todo[a]))
    BY <1>0, PendOf DEF Shape
  <1>1b. "inc" \in OwnOps /\ "dec" \in OwnOps
    BY DEF OwnOps
  <1> DEFINE R == Pend(Tail(todo[a]))
             All(s) == Pend(todo[s]) \cup Pend(todo["hcd"])
             All1(s) == Pend(todo'[s]) \cup Pend(todo'["hcd"])
  <1> HIDE DEF R
  \* Of the substream of the step.
  <1>2. ASSUME NEW o \in All1(h.s), o.op \in {"inc", "dec"}, o.ep \in Own(h.s) PROVE o \in C
    <2>1. PICK b \in {h.s, "hcd"} : o \in Pend(todo'[b])
      BY <1>2
    <2>2. b \in Agents
      BY <1>1, AgentsAre
    <2>3. b = a
      BY <2>1, <2>2, <1>1, <1>1b, <1>2
    <2> QED
      BY <2>1, <2>3, <1>1, <1>2
  <1>3. C \subseteq All1(h.s)
    BY <1>1
  <1>4. ASSUME NEW o \in All(h.s), o.op \in {"inc", "dec"}, o.ep \in Own(h.s) PROVE o = h
    BY <1>1, <1>1a, <1>1b, <1>4
  \* Of the other one.
  <1>5. ASSUME NEW t \in Subs, t # h.s, NEW o, o.op \in {"inc", "dec"}, o.ep \in Own(t)
        PROVE  /\ o \in Pend(todo'[t]) <=> o \in Pend(todo[t])
               /\ o \in All1(t) <=> o \in All(t)
    <2>1. t # a
      BY <1>1, <1>5, AgentsAre
    <2>2. todo'[t] = todo[t]
      BY <2>1, AgentsAre
    <2>3. o.ep # h.ep
      BY <1>1, <1>5, AgentsAre
    <2>4. o \in Pend(todo'["hcd"]) <=> o \in Pend(todo["hcd"])
      <3>1. CASE a # "hcd"
        BY <3>1, AgentsAre
      <3>2. CASE a = "hcd"
        <4>1. o \notin C /\ o # h /\ o \notin Pend(Tail(todo[a]))
          BY <2>3, <1>1, <1>5
        <4> QED
          BY <4>1, <3>2, <1>1a
      <3> QED
        BY <3>1, <3>2
    <2> QED
      BY <2>2, <2>4
  <1>6. ASSUME NEW s \in Subs, NEW name, NEW e
        PROVE  /\ Doing(s, name, e) <=> \E o \in All(s) : o.op = name /\ o.ep = e
               /\ Doing(s, name, e)' <=> \E o \in All1(s) : o.op = name /\ o.ep = e
    BY DEF Doing
  <1>7. \A s \in Subs : Pend(todo'[s]) \subseteq All1(s) /\ Pend(todo[s]) \subseteq All(s)
    OBVIOUS
  <1> HIDE DEF All, All1
  <1>8. ASSUME NEW t \in Subs, t # h.s, NEW e \in Own(t)
        PROVE  /\ \A o \in Pend(todo'[t]) : o.op = "inc" /\ o.ep = e =>
                       o.v = 1 /\ e \in subs'[t].started /\ ep'[e].use = 0
               /\ \A o \in All1(t) : o.op = "dec" /\ o.ep = e =>
                       o.v = 0 /\ e \notin subs'[t].started /\ ep'[e].use = 1
               /\ e \in subs'[t].started /\ ~Doing(t, "inc", e)' => ep'[e].use = 1
               /\ e \notin subs'[t].started /\ ~Doing(t, "dec", e)' => ep'[e].use = 0
    <2>1. e \in Eps /\ e # h.ep /\ subs'[t].started = subs[t].started /\ ep'[e].use = ep[e].use
      BY <1>1, <1>8, AgentsAre
    <2>2. \A name \in {"inc", "dec"} : Doing(t, name, e)' <=> Doing(t, name, e)
      BY <1>5, <1>6, <1>8
    <2>3. /\ \A o \in Pend(todo[t]) : o.op = "inc" /\ o.ep = e =>
                  o.v = 1 /\ e \in subs[t].started /\ ep[e].use = 0
          /\ \A o \in All(t) : o.op = "dec" /\ o.ep = e =>
                  o.v = 0 /\ e \notin subs[t].started /\ ep[e].use = 1
          /\ e \in subs[t].started /\ ~Doing(t, "inc", e) => ep[e].use = 1
          /\ e \notin subs[t].started /\ ~Doing(t, "dec", e) => ep[e].use = 0
      BY <1>0 DEF Uses, All
    <2> QED
      BY <2>1, <2>2, <2>3, <1>5, <1>8
  <1>9. ASSUME NEW e \in Own(h.s)
        PROVE  /\ \A o \in Pend(todo'[h.s]) : o.op = "inc" /\ o.ep = e =>
                       o.v = 1 /\ e \in subs'[h.s].started /\ ep'[e].use = 0
               /\ \A o \in All1(h.s) : o.op = "dec" /\ o.ep = e =>
                       o.v = 0 /\ e \notin subs'[h.s].started /\ ep'[e].use = 1
               /\ e \in subs'[h.s].started /\ ~Doing(h.s, "inc", e)' => ep'[e].use = 1
               /\ e \notin subs'[h.s].started /\ ~Doing(h.s, "dec", e)' => ep'[e].use = 0
    <2>1. CASE e = h.ep
      <3>1. \A name \in {"inc", "dec"} : (\A o \in C : o.op # name) \/ Doing(h.s, name, e)'
        BY <1>1, <1>3, <1>6, <2>1
      <3>2. \A o \in All1(h.s) : o.op \in {"inc", "dec"} /\ o.ep = e => o \in C
        BY <1>2
      <3> QED
        BY <3>1, <3>2, <2>1, <1>1, <1>7
    <2>2. CASE e # h.ep
      <3>1. \A o \in All1(h.s) : o.ep = e => o.op \notin {"inc", "dec"}
        BY <1>2, <2>2
      <3>2. \A o \in All(h.s) : o.ep = e => o.op \notin {"inc", "dec"}
        BY <1>4, <2>2
      <3>3. ~Doing(h.s, "inc", e) /\ ~Doing(h.s, "dec", e)
        BY <3>2, <1>6, <1>1
      <3>4. e \in Eps /\ ep'[e].use = ep[e].use /\ (e \in subs'[h.s].started <=> e \in subs[h.s].started)
        BY <1>1, <2>2, AgentsAre
      <3>5. /\ e \in subs[h.s].started => ep[e].use = 1
            /\ e \notin subs[h.s].started => ep[e].use = 0
        BY <3>3, <1>0, <1>1 DEF Uses
      <3> QED
        BY <3>1, <3>4, <3>5, <1>1, <1>7
    <2> QED
      BY <2>1, <2>2
  <1> QED
    BY <1>8, <1>9, <1>1 DEF Uses, All1

LEMMA UseStep ==
  ASSUME IInv, NEW a \in Agents, todo[a] # <<>>, a # "hub", NEW h, h = Head(todo[a]),
         NEW C, Then(a, C), Calm(a, C, h), SamePlug, Uses', UNCHANGED <<urb, chip, irq>>,
         ep' \in [Eps -> EpRec], subs' \in [Subs -> SubRec],
         \A e \in Eps : ep'[e].active = ep[e].active /\ ep'[e].stopping = ep[e].stopping,
         h.op \in OwnOps \ {"bit", "wait", "mute"},
         \A e : C # <<>> /\ C[1].op \in {"realloc", "kfree", "go"} /\ C[1].ep = e => Quiet(e),
         \A s \in Subs : \A e \in subs[s].started : e \in subs'[s].started \/ (h.op = "stop" /\ h.s = s),
         "in" \in subs'["capt"].started => "in" \in subs["capt"].started,
         h.ep = "in" =>
            /\ h.op = "dec" => \E o \in Pend(C) : o.op = "mute" /\ o.ep = "in"
            /\ h.op = "stop" => "in" \notin subs'["capt"].started,
         "in" \in subs["capt"].started =>
            \/ "in" \in subs'["capt"].started
            \/ a \in {"capt", "hcd"} /\ \E o \in Pend(C) : o.op = "dec" /\ o.ep = "in"
  PROVE  IInv'
  <1>1. TypeOK /\ Shape /\ InHandler /\ Capture
    BY DEF IInv
  <1>2. \A e \in Eps : AtHost(e)' = AtHost(e) /\ (Quiet(e)' <=> Quiet(e))
    BY DEF AtHost, Quiet
  <1>3. InHandler'
    BY <1>1 DEF InHandler
  <1>4. SameIn
    <2>1. /\ Quiet("in") => Quiet("in")'
          /\ ep["in"].stopping => ep'["in"].stopping
          /\ urb' = urb /\ chip' = chip
      BY <1>2, AgentsAre
    <2> QED
      BY <2>1, <1>1 DEF SameIn, Capture
  <1>5. \A e \in Eps : \A u \in AtHost(e)' : u \in AtHost(e) /\ (u \in ep[e].active => u \in ep'[e].active)
    BY <1>2
  <1>6. \A e : C # <<>> /\ C[1].op \in {"realloc", "kfree", "go"} /\ C[1].ep = e => Quiet(e)'
    BY DEF Quiet, AtHost
  <1>7. NUrbs \in Nat
    BY SizesAssumption
  <1>8. h.op \notin {"bit", "wait", "mute"}
    OBVIOUS
  <1>9. /\ todo' \in [Agents -> Seq(Entries)]
        /\ Lists' /\ Owned' /\ Plug' /\ Starting' /\ Alone' /\ Masks' /\ QuietDue' /\ CaptList' /\ Capture'
    BY <1>3, <1>4, <1>5, <1>6, <1>7, <1>8, CalmStep
  <1>10. Shape'
    BY <1>1, <1>9 DEF Shape
  <1>11. TypeOK'
    BY <1>1 DEF TypeOK, EpRec, SubRec, States
  <1> QED
    BY <1>3, <1>9, <1>10, <1>11 DEF IInv

LEMMA Joined ==
  /\ \A x, y : <<x>> \o <<y>> = <<x, y>>
  /\ \A x, y, z : <<x, y>> \o <<z>> = <<x, y, z>> /\ <<x>> \o <<y, z>> = <<x, y, z>>
  <1>1. ASSUME NEW x, NEW y PROVE <<x>> \o <<y>> = <<x, y>>
    <2> DEFINE S == {x, y}
    <2>1. PICK q : q = <<x>> \o <<y>>
      OBVIOUS
    <2>2. PICK p : p = <<x, y>>
      OBVIOUS
    <2>3. <<x>> \in Seq(S) /\ <<y>> \in Seq(S) /\ p \in Seq(S)
      BY <2>2
    <2>4. q \in Seq(S) /\ Len(q) = 2 /\ q[1] = x /\ q[2] = y
      BY <2>1, <2>3
    <2>5. Len(p) = 2 /\ p[1] = x /\ p[2] = y
      BY <2>2
    <2>6. \A i \in 1..Len(q) : q[i] = p[i]
      BY <2>4, <2>5
    <2> HIDE DEF S
    <2>7. q = p
      BY <2>3, <2>4, <2>5, <2>6, SeqEqual
    <2> QED
      BY <2>1, <2>2, <2>7
  <1>2. ASSUME NEW x, NEW y, NEW z PROVE <<x, y>> \o <<z>> = <<x, y, z>>
    <2> DEFINE S == {x, y, z}
    <2>1. PICK q : q = <<x, y>> \o <<z>>
      OBVIOUS
    <2>2. PICK p : p = <<x, y, z>>
      OBVIOUS
    <2>3. <<x, y>> \in Seq(S) /\ <<z>> \in Seq(S) /\ p \in Seq(S)
      BY <2>2
    <2>4. q \in Seq(S) /\ Len(q) = 3 /\ q[1] = x /\ q[2] = y /\ q[3] = z
      BY <2>1, <2>3
    <2>5. Len(p) = 3 /\ p[1] = x /\ p[2] = y /\ p[3] = z
      BY <2>2
    <2>6. \A i \in 1..Len(q) : q[i] = p[i]
      BY <2>4, <2>5
    <2> HIDE DEF S
    <2>7. q = p
      BY <2>3, <2>4, <2>5, <2>6, SeqEqual
    <2> QED
      BY <2>1, <2>2, <2>7
  <1>3. ASSUME NEW x, NEW y, NEW z PROVE <<x>> \o <<y, z>> = <<x, y, z>>
    <2> DEFINE S == {x, y, z}
    <2>1. PICK q : q = <<x>> \o <<y, z>>
      OBVIOUS
    <2>2. PICK p : p = <<x, y, z>>
      OBVIOUS
    <2>3. <<x>> \in Seq(S) /\ <<y, z>> \in Seq(S) /\ p \in Seq(S)
      BY <2>2
    <2>4. q \in Seq(S) /\ Len(q) = 3 /\ q[1] = x /\ q[2] = y /\ q[3] = z
      BY <2>1, <2>3
    <2>5. Len(p) = 3 /\ p[1] = x /\ p[2] = y /\ p[3] = z
      BY <2>2
    <2>6. \A i \in 1..Len(q) : q[i] = p[i]
      BY <2>4, <2>5
    <2> HIDE DEF S
    <2>7. q = p
      BY <2>3, <2>4, <2>5, <2>6, SeqEqual
    <2> QED
      BY <2>1, <2>2, <2>7
  <1> QED
    BY <1>1, <1>2, <1>3

LEMMA CatTuples ==
  ASSUME NEW x, NEW y, NEW z
  PROVE  /\ <<>> \o <<>> \o <<z>> = <<z>> /\ <<x>> \o <<>> \o <<z>> = <<x, z>>
         /\ <<>> \o <<y>> \o <<z>> = <<y, z>> /\ <<x>> \o <<y>> \o <<z>> = <<x, y, z>>
  <1>1. <<>> \in Seq({x, y, z}) /\ <<x>> \in Seq({x, y, z}) /\ <<y>> \in Seq({x, y, z}) /\ <<z>> \in Seq({x, y, z})
    OBVIOUS
  <1>2. /\ <<>> \o <<>> = <<>> /\ <<x>> \o <<>> = <<x>>
        /\ <<>> \o <<z>> = <<z>> /\ <<>> \o <<y>> = <<y>>
    BY <1>1, ConcatEmptySeq
  <1>3. <<x>> \o <<z>> = <<x, z>> /\ <<y>> \o <<z>> = <<y, z>> /\ <<x>> \o <<y>> = <<x, y>>
    BY Joined
  <1>4. <<x, y>> \o <<z>> = <<x, y, z>>
    BY Joined
  <1> QED
    BY <1>2, <1>3, <1>4

LEMMA IncUseSafe ==
  ASSUME IInv, NEW a \in Agents, IncUse(a)
  PROVE  IInv'
  <1> DEFINE h == Head(todo[a])
             r == [(IF chip.shutdown THEN ep[h.ep] ELSE Deactivated(ep[h.ep])) EXCEPT !.use = 1]
             x == Op("unlink", h.ep, h.s, 0)
             y == Op("wait", h.ep, h.s, 0)
             z == Op("go", h.ep, h.s, 0)
             C == (IF chip.shutdown THEN <<>> ELSE <<x>>) \o (IF h.s = "play" THEN <<y>> ELSE <<>>) \o <<z>>
  <1>1. TypeOK /\ Shape /\ Lists /\ Owned /\ Alone /\ Uses /\ Starting /\ CaptList
    BY DEF IInv
  <1>2. todo[a] # <<>> /\ h.op = "inc" /\ UNCHANGED <<urb, subs, chip, irq>>
    BY DEF IncUse, Due
  <1>3. a \in Subs /\ h.s = a /\ h.ep \in Own(a) /\ h.ep \in Eps /\ h \in Pend(todo[a])
    BY <1>1, <1>2, HeadOf, AgentsAre DEF StopOps, FreeOps, OwnOps
  <1>4. h.v = 1 /\ h.ep \in subs[a].started
    BY <1>1, <1>2, <1>3 DEF Uses
  <1>5. ep' = [ep EXCEPT ![h.ep] = r] /\ Then(a, C)
    BY <1>4 DEF IncUse
  <1>6. ep[h.ep] \in EpRec
    BY <1>1, <1>3, Typed
  <1>7. r \in EpRec /\ r.use = 1 /\ r.active = ep[h.ep].active /\ r.stopping = ep[h.ep].stopping
    <2> DEFINE d == IF chip.shutdown THEN ep[h.ep] ELSE Deactivated(ep[h.ep])
    <2>1. d \in EpRec /\ d.active = ep[h.ep].active /\ d.stopping = ep[h.ep].stopping
      BY <1>6, Deact, SizesAssumption
    <2> HIDE DEF d
    <2>2. [d EXCEPT !.use = 1] \in EpRec /\ [d EXCEPT !.use = 1].use = 1
          /\ [d EXCEPT !.use = 1].active = d.active /\ [d EXCEPT !.use = 1].stopping = d.stopping
      BY <2>1 DEF EpRec
    <2> QED
      BY <2>1, <2>2 DEF d
  <1>8. /\ Like(x, h) /\ Like(y, h) /\ Like(z, h) /\ x.op = "unlink" /\ y.op = "wait" /\ z.op = "go"
        /\ x.ep = h.ep /\ y.ep = h.ep /\ z.ep = h.ep
    BY <1>3, LikeOps, SMTT(30) DEF CallOps, OwnOps
  <1> HIDE DEF r, x, y, z
  <1>9. C = IF h.s = "play" THEN IF chip.shutdown THEN <<y, z>> ELSE <<x, y, z>>
                            ELSE IF chip.shutdown THEN <<z>> ELSE <<x, z>>
    <2>1. /\ <<>> \o <<>> \o <<z>> = <<z>> /\ <<x>> \o <<>> \o <<z>> = <<x, z>>
          /\ <<>> \o <<y>> \o <<z>> = <<y, z>> /\ <<x>> \o <<y>> \o <<z>> = <<x, y, z>>
      BY CatTuples
    <2>2. CASE h.s = "play" /\ chip.shutdown
      BY <2>1, <2>2
    <2>3. CASE h.s = "play" /\ ~chip.shutdown
      BY <2>1, <2>3
    <2>4. CASE h.s # "play" /\ chip.shutdown
      BY <2>1, <2>4
    <2>5. CASE h.s # "play" /\ ~chip.shutdown
      BY <2>1, <2>5
    <2> QED
      BY <2>2, <2>3, <2>4, <2>5
  <1> HIDE DEF C
  <1>10. /\ Pair(x, y) /\ Pair(y, z) /\ (h.s # "play" => Pair(x, z))
    BY <1>3, <1>8, AgentsAre DEF Pair
  <1>11. Fits(C, h)
    BY <1>2, <1>8, <1>9, <1>10, FitTuples
  <1>12. Pend(C) \subseteq {x, y, z} /\ (h.s # "play" => Pend(C) \subseteq {x, z})
    BY <1>9, PendTuples
  <1>13. h.s # "play" => \A i \in 1..Len(C) : C[i].op = "go" => i = Len(C)
    <2>1. Len(<<z>>) = 1 /\ Len(<<x, z>>) = 2 /\ <<x, z>>[1] = x
      OBVIOUS
    <2> QED
      BY <2>1, <1>8, <1>9
  <1>14. C # <<>> /\ C[1] \in {x, y, z} /\ (C[1] = z \/ C[1].op # "go")
    BY <1>8, <1>9
  <1>15. MayCall(a, C, h)
    BY <1>2, <1>3, <1>8, <1>12, AgentsAre DEF MayCall, OwnOps
  <1>16. a = "capt" => CaptMay(C, h)
    <2> SUFFICES ASSUME a = "capt" PROVE CaptMay(C, h)
      OBVIOUS
    <2>1. h.s # "play"
      BY <1>3
    <2>2. \A i \in 1..Len(C) : C[i] \in Pend(C)
      BY DEF Pend
    <2>3. \A i \in 1..Len(C) : C[i].op \in {"inc", "go"} => i = Len(C) /\ h.op \in {"start", "inc"}
      BY <2>1, <2>2, <1>2, <1>8, <1>12, <1>13
    <2>4. \A o \in Pend(C) : o.op \in {"unlink", "go"}
      BY <2>1, <1>8, <1>12
    <2> QED
      BY <2>3, <2>4, <1>2 DEF CaptMay, StartOps
  <1>17. Calm(a, C, h)
    BY <1>2, <1>3, <1>4, <1>8, <1>11, <1>12, <1>15, <1>16 DEF Calm, StartOps, Under
  <1>18. /\ ep' \in [Eps -> EpRec] /\ subs' \in [Subs -> SubRec] /\ SamePlug
         /\ ep'[h.ep] = r /\ \A e \in Eps : e # h.ep => ep'[e] = ep[e]
    BY <1>1, <1>2, <1>3, <1>5, <1>7, EpSet, Typed, SameAll
  <1>19. Uses'
    <2>1. /\ Pend(todo'[a]) = Pend(C) \cup Pend(Tail(todo[a]))
          /\ \A b \in Agents : b # a => todo'[b] = todo[b]
      BY <1>1, <1>2, <1>5, <1>11, ThenTodo DEF Fits, Shape, Lists0
    <2>2. \A o \in Pend(C) : o.ep = h.ep /\ o.op \notin {"inc", "dec"}
      BY <1>8, <1>12
    <2>3. h.op \in OwnOps /\ a # "hub"
      BY <1>2, <1>3, AgentsAre DEF OwnOps
    <2>4. ep'[h.ep].use = 1 /\ h.ep \in subs'[h.s].started /\ \A e \in Eps : e # h.ep => ep'[e].use = ep[e].use
      BY <1>2, <1>3, <1>4, <1>7, <1>18
    <2>5. \A t \in Subs : subs'[t].started = subs[t].started
      BY <1>2
    <2> HIDE DEF h
    <2>6. h = Head(todo[a])
      BY DEF h
    <2> QED
      BY <1>2, <1>3, <2>1, <2>2, <2>3, <2>4, <2>5, <2>6, UsesOf
  <1>20. \A e : C[1].op \in {"realloc", "kfree", "go"} /\ C[1].ep = e => Quiet(e)
    <2> SUFFICES ASSUME C[1].op \in {"realloc", "kfree", "go"} PROVE Quiet(C[1].ep)
      OBVIOUS
    <2>1. C[1] = z
      BY <1>8, <1>14
    <2>2. h.s # "play"
      <3> SUFFICES ASSUME h.s = "play" PROVE C[1] # z
        BY <2>1
      <3>1. C[1] \in {x, y}
        BY <1>9
      <3> QED
        BY <3>1, <1>8
    <2>3. a = "capt"
      BY <2>2, <1>3, AgentsAre
    <2>4. Quiet("in") /\ h.ep = "in"
      BY <2>3, <1>1, <1>2, <1>3, AgentsAre DEF CaptList
    <2> QED
      BY <2>1, <2>4, <1>8
  <1>21. \A e \in Eps : ep'[e].active = ep[e].active /\ ep'[e].stopping = ep[e].stopping
    BY <1>7, <1>18
  <1>22. h.op \in OwnOps \ {"bit", "wait", "mute"} /\ h.op \notin {"dec", "stop"} /\ a # "hub"
    BY <1>2, <1>3, AgentsAre DEF OwnOps
  <1> HIDE DEF h
  <1>23. h = Head(todo[a])
    BY DEF h
  <1>24. \A s \in Subs : subs'[s].started = subs[s].started
    BY <1>2
  <1>25. \A s \in Subs : \A e \in subs[s].started : e \in subs'[s].started
    BY <1>24
  <1>26. "in" \in subs'["capt"].started <=> "in" \in subs["capt"].started
    BY <1>24, AgentsAre
  <1>27. UNCHANGED <<urb, chip, irq>>
    BY <1>2
  <1> QED
    BY <1>2, <1>5, <1>17, <1>18, <1>19, <1>20, <1>21, <1>22, <1>23, <1>25, <1>26, <1>27, UseStep

LEMMA DecUseSafe ==
  ASSUME IInv, NEW a \in Agents, DecUse(a)
  PROVE  IInv'
  <1> DEFINE h == Head(todo[a])
             r == [(IF ~chip.shutdown THEN Deactivated(ep[h.ep]) ELSE ep[h.ep]) EXCEPT !.use = 0]
             x == Op("unlink", h.ep, h.s, 0)
             y == Op("detach", h.ep, h.s, 0)
             z == Op("mute", h.ep, h.s, 0)
             C == (IF ~chip.shutdown THEN <<x>> ELSE <<>>) \o <<y, z>>
  <1>1. TypeOK /\ Shape /\ Lists /\ Owned /\ Alone /\ Uses
    BY DEF IInv
  <1>2. todo[a] # <<>> /\ h.op = "dec" /\ UNCHANGED <<urb, subs, chip, irq>>
    BY DEF DecUse, Due
  <1>3. a # "hub" /\ h.op \in OwnOps /\ h \in Pend(todo[a])
    BY <1>1, <1>2, HeadOf DEF FreeOps, OwnOps
  <1>4. h.s \in Subs /\ h.ep \in Own(h.s) /\ h.ep \in Eps /\ a \in {h.s, "hcd"}
    BY <1>1, <1>2, <1>3, OthersCalm
  <1>5. h.v = 0 /\ h.ep \notin subs[h.s].started
    BY <1>1, <1>2, <1>3, <1>4, SMTT(30) DEF Uses
  <1>6. ep' = [ep EXCEPT ![h.ep] = r] /\ Then(a, C)
    BY <1>5 DEF DecUse
  <1>7. ep[h.ep] \in EpRec
    BY <1>1, <1>4, Typed
  <1>8. r \in EpRec /\ r.use = 0 /\ r.active = ep[h.ep].active /\ r.stopping = ep[h.ep].stopping
    <2> DEFINE d == IF ~chip.shutdown THEN Deactivated(ep[h.ep]) ELSE ep[h.ep]
    <2>1. d \in EpRec /\ d.active = ep[h.ep].active /\ d.stopping = ep[h.ep].stopping
      BY <1>7, Deact, SizesAssumption
    <2> HIDE DEF d
    <2>2. [d EXCEPT !.use = 0] \in EpRec /\ [d EXCEPT !.use = 0].use = 0
          /\ [d EXCEPT !.use = 0].active = d.active /\ [d EXCEPT !.use = 0].stopping = d.stopping
      BY <2>1 DEF EpRec
    <2> QED
      BY <2>1, <2>2 DEF d
  <1>9. /\ Like(x, h) /\ Like(y, h) /\ Like(z, h) /\ x.op = "unlink" /\ y.op = "detach" /\ z.op = "mute"
        /\ x.ep = h.ep /\ y.ep = h.ep /\ z.ep = h.ep
    BY <1>4, LikeOps DEF CallOps, OwnOps
  <1> HIDE DEF r, x, y, z
  <1>10. C = IF ~chip.shutdown THEN <<x, y, z>> ELSE <<y, z>>
    <2>1. <<y, z>> \in Seq({y, z})
      OBVIOUS
    <2>2. <<x>> \o <<y, z>> = <<x, y, z>> /\ <<>> \o <<y, z>> = <<y, z>>
      BY <2>1, Joined, ConcatEmptySeq
    <2> QED
      BY <2>2
  <1> HIDE DEF C
  <1>11. Pair(x, y) /\ Pair(y, z)
    BY <1>9 DEF Pair
  <1>12. Fits(C, h)
    BY <1>2, <1>9, <1>10, <1>11, FitTuples
  <1>13. Pend(C) \subseteq {x, y, z} /\ z \in Pend(C)
    BY <1>10, PendTuples
  <1>14. C[1] \in {x, y}
    BY <1>10
  <1>15. \A o \in Pend(C) : o.op \in {"unlink", "detach", "mute"} /\ o.ep = h.ep
    BY <1>9, <1>13
  <1>16. MayCall(a, C, h)
    BY <1>2, <1>3, <1>4, <1>15, AgentsAre DEF MayCall, OwnOps, StopOps
  <1>17. CaptMay(C, h)
    <2>1. \A i \in 1..Len(C) : C[i] \in Pend(C)
      BY DEF Pend
    <2> QED
      BY <2>1, <1>2, <1>15 DEF CaptMay, StartOps
  <1>18. Calm(a, C, h)
    BY <1>2, <1>12, <1>15, <1>16, <1>17 DEF Calm, StartOps, Under
  <1>19. /\ ep' \in [Eps -> EpRec] /\ subs' \in [Subs -> SubRec] /\ SamePlug
         /\ ep'[h.ep] = r /\ \A e \in Eps : e # h.ep => ep'[e] = ep[e]
    BY <1>1, <1>2, <1>4, <1>6, <1>8, EpSet, Typed, SameAll
  <1>20. \A s \in Subs : subs'[s].started = subs[s].started
    BY <1>2
  <1>21. \A e \in Eps : ep'[e].active = ep[e].active /\ ep'[e].stopping = ep[e].stopping
    BY <1>8, <1>19
  <1>22. h.op \in OwnOps \ {"bit", "wait", "mute"} /\ h.op # "stop"
    BY <1>2 DEF OwnOps
  <1>23. C[1].op \notin {"realloc", "kfree", "go"}
    BY <1>9, <1>14
  <1>24. h.ep = "in" => \E o \in Pend(C) : o.op = "mute" /\ o.ep = "in"
    BY <1>9, <1>13
  <1> HIDE DEF h
  <1>25. h = Head(todo[a])
    BY DEF h
  <1>26. Uses'
    <2>1. /\ Pend(todo'[a]) = Pend(C) \cup Pend(Tail(todo[a]))
          /\ \A b \in Agents : b # a => todo'[b] = todo[b]
      BY <1>1, <1>2, <1>6, <1>12, ThenTodo DEF Fits, Shape, Lists0
    <2>2. ep'[h.ep].use = 0 /\ h.ep \notin subs'[h.s].started /\ \A e \in Eps : e # h.ep => ep'[e].use = ep[e].use
      BY <1>2, <1>4, <1>5, <1>8, <1>19
    <2> QED
      BY <1>2, <1>3, <1>4, <1>15, <1>20, <1>25, <2>1, <2>2, UsesOf
  <1>27. \A s \in Subs : \A e \in subs[s].started : e \in subs'[s].started
    BY <1>20
  <1>28. "in" \in subs'["capt"].started <=> "in" \in subs["capt"].started
    BY <1>20, AgentsAre
  <1>29. UNCHANGED <<urb, chip, irq>>
    BY <1>2
  <1> QED
    BY <1>2, <1>3, <1>6, <1>18, <1>19, <1>21, <1>22, <1>23, <1>24, <1>25, <1>26, <1>27, <1>28, <1>29, UseStep

LEMMA StopEpSafe ==
  ASSUME IInv, NEW a \in Agents, StopEp(a)
  PROVE  IInv'
  <1> DEFINE h == Head(todo[a])
             r == [subs[h.s] EXCEPT !.started = @ \ {h.ep}]
             x == Op("dec", h.ep, h.s, 0)
             C == IF h.ep \in subs[h.s].started THEN <<x>> ELSE <<>>
  <1>1. TypeOK /\ Shape /\ Lists /\ Owned /\ Alone /\ Uses
    BY DEF IInv
  <1>2. todo[a] # <<>> /\ h.op = "stop" /\ UNCHANGED <<ep, urb, chip, irq>>
    BY DEF StopEp, Due
  <1>3. a # "hub" /\ h.op \in OwnOps /\ h \in Pend(todo[a])
    BY <1>1, <1>2, HeadOf DEF FreeOps, OwnOps
  <1> HIDE DEF h
  <1>3a. h = Head(todo[a])
    BY DEF h
  <1>4. /\ h.s \in Subs /\ h.ep \in Own(h.s) /\ h.ep \in Eps /\ a \in {h.s, "hcd"}
        /\ \A o \in Pend(Tail(todo[a])) : o.op \notin {"inc", "dec"}
        /\ \A b \in {h.s, "hcd"} : b # a => \A o \in Pend(todo[b]) : o.op \in OwnOps => o.ep \notin Own(h.s)
    BY <1>1, <1>2, <1>3, <1>3a, OthersCalm
  <1>5. h.ep \in subs[h.s].started => ep[h.ep].use = 1
    <2>1. Pend(todo[a]) = {h} \cup Pend(Tail(todo[a]))
      BY <1>1, <1>2, <1>3a, PendOf DEF Shape
    <2>2. ~Doing(h.s, "inc", h.ep)
      <3> SUFFICES ASSUME NEW b \in {h.s, "hcd"}, NEW o \in Pend(todo[b]), o.op = "inc", o.ep = h.ep
                   PROVE  FALSE
        BY DEF Doing
      <3>1. b = a
        BY <1>4 DEF OwnOps
      <3> QED
        BY <3>1, <2>1, <1>2, <1>4
    <2> QED
      BY <2>2, <1>1, <1>4 DEF Uses
  <1>6. h.ep \notin subs[h.s].started => ep[h.ep].use = 0
    <2>1. Pend(todo[a]) = {h} \cup Pend(Tail(todo[a]))
      BY <1>1, <1>2, <1>3a, PendOf DEF Shape
    <2>2. ~Doing(h.s, "dec", h.ep)
      <3> SUFFICES ASSUME NEW b \in {h.s, "hcd"}, NEW o \in Pend(todo[b]), o.op = "dec", o.ep = h.ep
                   PROVE  FALSE
        BY DEF Doing
      <3>1. b = a
        BY <1>4 DEF OwnOps
      <3> QED
        BY <3>1, <2>1, <1>2, <1>4
    <2> QED
      BY <2>2, <1>1, <1>4 DEF Uses
  <1>7. subs' = [subs EXCEPT ![h.s] = r] /\ Then(a, C)
    <2>1. subs' = [subs EXCEPT ![h.s] = r]
      BY SMTT(30) DEF StopEp, h
    <2> DEFINE y == Op("dec", h.ep, h.s, ep[h.ep].use - 1)
               D == IF h.ep \in subs[h.s].started /\ ep[h.ep].use # 0 THEN <<y>> ELSE <<>>
    <2>2. Then(a, D)
      BY DEF StopEp, h
    <2>3. h.ep \in subs[h.s].started => y = x
      <3>1. 1 - 1 = 0
        OBVIOUS
      <3> QED
        BY <3>1, <1>5
    <2> HIDE DEF x, y
    <2>4. D = C
      <3>1. CASE h.ep \in subs[h.s].started
        <4>1. D = <<y>> /\ C = <<x>>
          BY <3>1, <1>5
        <4> QED
          BY <4>1, <3>1, <2>3
      <3>2. CASE h.ep \notin subs[h.s].started
        BY <3>2
      <3> QED
        BY <3>1, <3>2
    <2> HIDE DEF C, D
    <2> QED
      BY <2>1, <2>2, <2>4
  <1>8. subs[h.s] \in SubRec
    BY <1>1, <1>4, Typed
  <1>9. /\ r \in SubRec /\ r.state = subs[h.s].state /\ r.locked = subs[h.s].locked
        /\ r.reading = subs[h.s].reading /\ r.eps = subs[h.s].eps
        /\ r.started = subs[h.s].started \ {h.ep}
    BY <1>8 DEF SubRec
  <1>10. Like(x, h) /\ x.op = "dec" /\ x.ep = h.ep /\ x.v = 0
    BY <1>4, LikeOps DEF CallOps, OwnOps
  <1> HIDE DEF r, x
  <1>11. Fits(C, h) /\ Pend(C) = (IF h.ep \in subs[h.s].started THEN {x} ELSE {})
    <2>1. Fits(<<x>>, h) /\ Fits(<<>>, h)
      BY <1>2, <1>10, FitTuples, PendTuples, OrderedTuples DEF Fits
    <2> QED
      BY <2>1, PendTuples
  <1>12. C # <<>> => C[1] = x
    OBVIOUS
  <1> HIDE DEF C
  <1>13. \A o \in Pend(C) : o = x /\ h.ep \in subs[h.s].started
    BY <1>11
  <1>14. MayCall(a, C, h)
    BY <1>2, <1>3, <1>4, <1>10, <1>13, AgentsAre DEF MayCall, OwnOps, StopOps
  <1>15. a = "capt" => CaptMay(C, h)
    <2> SUFFICES ASSUME a = "capt" PROVE CaptMay(C, h)
      OBVIOUS
    <2>1. \A i \in 1..Len(C) : C[i] \in Pend(C)
      BY DEF Pend
    <2>2. h.ep = "in" /\ h.s = "capt"
      BY <1>4, AgentsAre
    <2> QED
      BY <2>1, <2>2, <1>2, <1>10, <1>13 DEF CaptMay, StartOps
  <1>16. Calm(a, C, h)
    BY <1>2, <1>10, <1>11, <1>13, <1>14, <1>15 DEF Calm, StartOps, Under
  <1>17. subs' \in [Subs -> SubRec] /\ subs'[h.s] = r /\ \A t \in Subs : t # h.s => subs'[t] = subs[t]
    BY <1>1, <1>4, <1>7, <1>9, SubSet, Typed
  <1>18. SamePlug /\ ep' \in [Eps -> EpRec]
    BY <1>1, <1>2, <1>9, <1>17, Typed DEF SamePlug
  <1>19. /\ \A t \in Subs : t # h.s => subs'[t].started = subs[t].started
         /\ h.ep \notin subs'[h.s].started
         /\ \A e \in Eps : e # h.ep => (e \in subs'[h.s].started <=> e \in subs[h.s].started)
    BY <1>9, <1>17
  <1>20. Uses'
    <2>1. /\ Pend(todo'[a]) = Pend(C) \cup Pend(Tail(todo[a]))
          /\ \A b \in Agents : b # a => todo'[b] = todo[b]
      BY <1>1, <1>2, <1>7, <1>11, ThenTodo DEF Fits, Shape, Lists0
    <2>2. \A e \in Eps : ep'[e].use = ep[e].use
      BY <1>2
    <2>3. \A o \in Pend(C) : o.ep = h.ep /\ o.op = "dec" /\ o.v = 0 /\ ep'[h.ep].use = 1
      BY <2>2, <1>4, <1>5, <1>10, <1>13
    <2>4. (\A o \in Pend(C) : o.op # "dec") => ep'[h.ep].use = 0
      BY <2>2, <1>4, <1>6, <1>10, <1>11
    <2> QED
      BY <1>2, <1>3, <1>3a, <1>19, <2>1, <2>2, <2>3, <2>4, UsesOf
  <1>21. \A s \in Subs : \A e \in subs[s].started : e \in subs'[s].started \/ (h.op = "stop" /\ h.s = s)
    BY <1>2, <1>19
  <1>22. "in" \in subs'["capt"].started => "in" \in subs["capt"].started
    BY <1>19, AgentsAre
  <1>23. h.ep = "in" => "in" \notin subs'["capt"].started /\ h.op # "dec"
    BY <1>2, <1>4, <1>19, AgentsAre
  <1>24. "in" \in subs["capt"].started =>
            \/ "in" \in subs'["capt"].started
            \/ a \in {"capt", "hcd"} /\ \E o \in Pend(C) : o.op = "dec" /\ o.ep = "in"
    <2> SUFFICES ASSUME "in" \in subs["capt"].started, "in" \notin subs'["capt"].started
                 PROVE  a \in {"capt", "hcd"} /\ \E o \in Pend(C) : o.op = "dec" /\ o.ep = "in"
      OBVIOUS
    <2>1. h.s = "capt" /\ h.ep = "in"
      BY <1>19, AgentsAre
    <2> QED
      BY <2>1, <1>4, <1>10, <1>11
  <1>25. h.op \in OwnOps \ {"bit", "wait", "mute"}
    BY <1>2 DEF OwnOps
  <1>26. C # <<>> => C[1].op \notin {"realloc", "kfree", "go"}
    BY <1>10, <1>12
  <1>27. /\ UNCHANGED <<urb, chip, irq>>
         /\ \A e \in Eps : ep'[e].active = ep[e].active /\ ep'[e].stopping = ep[e].stopping
    BY <1>2
  <1> QED
    BY <1>2, <1>3, <1>3a, <1>7, <1>16, <1>17, <1>18, <1>20, <1>21, <1>22, <1>23, <1>24, <1>25, <1>26, <1>27, UseStep

\* An endpoint that is started already is passed over.
LEMMA StartEpAgain ==
  ASSUME IInv, NEW a \in Agents, StartEp(a), Head(todo[a]).ep \in subs[Head(todo[a]).s].started
  PROVE  IInv'
  <1> DEFINE h == Head(todo[a])
  <1>1. TypeOK
    BY DEF IInv
  <1>2. todo[a] # <<>> /\ h.op = "start" /\ Then(a, <<>>) /\ UNCHANGED <<ep, urb, subs, chip, irq>>
    BY DEF StartEp, Due
  <1>3. SamePlug /\ SameUse /\ Unlinked /\ Calm(a, <<>>, h) /\ ep' \in [Eps -> EpRec] /\ subs' \in [Subs -> SubRec]
    BY <1>1, <1>2, SameAll, SameUnlinked, NoCalls, Typed DEF SameUse
  <1> QED
    BY <1>2, <1>3, EpStep, PendTuples

LEMMA StartEpGoes ==
  ASSUME IInv, NEW a \in Agents, StartEp(a), ~chip.shutdown,
         Head(todo[a]).ep \notin subs[Head(todo[a]).s].started
  PROVE  IInv'
  <1> DEFINE h == Head(todo[a])
             q == IF h.ep = DataEp(h.s) THEN [ep[h.ep] EXCEPT !.user = h.s] ELSE [ep[h.ep] EXCEPT !.slave = "out"]
             r == [subs[h.s] EXCEPT !.started = @ \cup {h.ep}]
             x == Op("inc", h.ep, h.s, 1)
             C == <<x>>
  <1>1. TypeOK /\ Shape /\ Lists /\ Owned /\ Alone /\ Uses /\ Starting /\ CaptList /\ Capture
        /\ InHandler /\ Masks /\ QuietDue /\ Plug
    BY DEF IInv
  <1>2. todo[a] # <<>> /\ h.op = "start" /\ UNCHANGED <<urb, chip, irq>>
    BY DEF StartEp, Due
  <1> HIDE DEF h
  <1>3. h = Head(todo[a])
    BY DEF h
  <1>4. a \in Subs /\ h \in Pend(todo[a]) /\ h.op \in OwnOps
    BY <1>1, <1>2, <1>3, HeadOf, AgentsAre DEF FreeOps, StopOps, OwnOps
  <1>5. /\ h.s = a /\ h.ep \in Own(a) /\ h.ep \in Eps /\ a # "hub"
        /\ \A o \in Pend(Tail(todo[a])) : o.op \notin {"inc", "dec"}
        /\ \A b \in {a, "hcd"} : b # a => \A o \in Pend(todo[b]) : o.op \in OwnOps => o.ep \notin Own(a)
    BY <1>1, <1>2, <1>3, <1>4, OthersCalm, AgentsAre
  <1>6. ep[h.ep].use = 0 /\ h.ep \notin subs[a].started
    <2>1. Pend(todo[a]) = {h} \cup Pend(Tail(todo[a]))
      <3>1. todo[a] \in Seq(Entries)
        BY <1>1 DEF Shape
      <3> QED
        BY <3>1, <1>2, <1>3, PendOf
    <2>2. ~Doing(a, "dec", h.ep)
      <3> SUFFICES ASSUME NEW b \in {a, "hcd"}, NEW o \in Pend(todo[b]), o.op = "dec", o.ep = h.ep
                   PROVE  FALSE
        BY DEF Doing
      <3>1. b = a
        BY <1>5 DEF OwnOps
      <3> QED
        BY <3>1, <2>1, <1>2, <1>5
    <2>3. h.ep \notin subs[a].started
      BY <1>3, <1>5
    <2> QED
      BY <2>2, <2>3, <1>1, <1>4, <1>5 DEF Uses
  <1>7. subs' = [subs EXCEPT ![h.s] = r] /\ ep' = [ep EXCEPT ![h.ep] = q] /\ Then(a, C)
    <2>1. 0 + 1 = 1
      OBVIOUS
    <2> DEFINE y == Op("inc", h.ep, h.s, ep[h.ep].use + 1)
               D == <<y>>
    <2>2. Then(a, D)
      BY <1>2, ZenonT(60) DEF StartEp, h
    <2>3. subs' = [subs EXCEPT ![h.s] = r] /\ ep' = [ep EXCEPT ![h.ep] = q]
      BY <1>2 DEF StartEp, h
    <2>4. y = x
      BY <2>1, <1>6
    <2> HIDE DEF x, y
    <2>5. D = C
      BY <2>4
    <2> HIDE DEF C, D
    <2> QED
      BY <2>2, <2>3, <2>5
  <1>8. subs[a] \in SubRec /\ ep[h.ep] \in EpRec
    BY <1>1, <1>4, <1>5, Typed
  <1>9. /\ r \in SubRec /\ r.state = subs[a].state /\ r.locked = subs[a].locked
        /\ r.reading = subs[a].reading /\ r.eps = subs[a].eps
        /\ r.started = subs[a].started \cup {h.ep}
    BY <1>5, <1>8 DEF SubRec
  <1>10. q \in EpRec /\ q.use = ep[h.ep].use /\ q.active = ep[h.ep].active /\ q.stopping = ep[h.ep].stopping
    BY <1>4, <1>5, <1>8 DEF EpRec
  <1>11. Like(x, h) /\ x.op = "inc" /\ x.ep = h.ep /\ x.v = 1 /\ x.s = h.s
    BY <1>4, <1>5, LikeOps DEF CallOps, OwnOps, Like
  <1> HIDE DEF q, r, x
  <1>12. Fits(C, h) /\ Pend(C) = {x} /\ C # <<>> /\ C[1] = x /\ Len(C) = 1
    BY <1>2, <1>11, FitTuples, PendTuples
  <1> HIDE DEF C
  <1>13. MayCall(a, C, h)
    BY <1>2, <1>4, <1>11, <1>12, AgentsAre DEF MayCall, OwnOps
  <1>14. /\ subs' \in [Subs -> SubRec] /\ subs'[a] = r /\ \A t \in Subs : t # a => subs'[t] = subs[t]
         /\ ep' \in [Eps -> EpRec] /\ ep'[h.ep] = q /\ \A e \in Eps : e # h.ep => ep'[e] = ep[e]
    BY <1>1, <1>4, <1>5, <1>7, <1>9, <1>10, SubSet, EpSet, Typed
  <1>15. SamePlug
    BY <1>2, <1>9, <1>14 DEF SamePlug
  <1>16. /\ \A t \in Subs : t # a => subs'[t].started = subs[t].started
         /\ subs'[a].started = subs[a].started \cup {h.ep}
         /\ \A s \in Subs : \A e \in subs[s].started : e \in subs'[s].started
    BY <1>9, <1>14
  <1>17. \A e \in Eps : /\ ep'[e].active = ep[e].active /\ ep'[e].stopping = ep[e].stopping
                        /\ ep'[e].use = ep[e].use
    BY <1>10, <1>14
  <1>18. /\ Pend(todo'[a]) = Pend(C) \cup Pend(Tail(todo[a]))
         /\ \A b \in Agents : b # a => todo'[b] = todo[b]
         /\ todo' \in [Agents -> Seq(Entries)] /\ todo[a] \in Seq(Entries) /\ todo'[a] = C \o Tail(todo[a])
         /\ C \in Seq(Entries)
    BY <1>1, <1>2, <1>7, <1>12, ThenTodo DEF Fits, Shape, Lists0
  <1>19. Uses'
    <2>1. \A o \in Pend(C) : o.op = "inc" /\ o.ep = h.ep /\ o.v = 1 /\ ep'[h.ep].use = 0
      BY <1>5, <1>6, <1>11, <1>12, <1>17
    <2>2. ~\A o \in Pend(C) : o.op # "inc"
      BY <1>11, <1>12
    <2>3. h.ep \in subs'[h.s].started
      BY <1>5, <1>16
    <2>4. \A e \in Eps : e # h.ep => (e \in subs'[h.s].started <=> e \in subs[h.s].started)
      BY <1>5, <1>16
    <2>5. \A t \in Subs : t # h.s => subs'[t].started = subs[t].started
      BY <1>5, <1>16
    <2>6. \A e \in Eps : e # h.ep => ep'[e].use = ep[e].use
      BY <1>17
    <2>7. Pend(C) \subseteq Pend(todo'[a]) /\ Pend(todo'[a]) \subseteq Pend(C) \cup Pend(Tail(todo[a]))
      BY <1>18
    <2>8. \A b \in Agents : b # a => todo'[b] = todo[b]
      BY <1>18
    <2>9. \A o \in Pend(C) : o.op # "dec" /\ o.ep = h.ep
      BY <2>1
    <2> QED
      BY <1>2, <1>3, <1>4, <1>5, <2>1, <2>2, <2>3, <2>4, <2>5, <2>6, <2>7, <2>8, <2>9, UsesOf
  <1>20. CASE a = "play"
    <2>1. Calm(a, C, h)
      BY <1>2, <1>4, <1>11, <1>12, <1>13, <1>16, <1>20 DEF Calm, StartOps
    <2>2. h.op \in OwnOps \ {"bit", "wait", "mute"} /\ h.ep # "in" /\ C[1].op \notin {"realloc", "kfree", "go"}
      BY <1>2, <1>5, <1>11, <1>12, <1>20, AgentsAre DEF OwnOps
    <2>3. "in" \in subs'["capt"].started <=> "in" \in subs["capt"].started
      BY <1>16, <1>20, AgentsAre
    <2>4. UNCHANGED <<urb, chip, irq>>
      BY <1>2
    <2> QED
      BY <1>2, <1>3, <1>5, <1>7, <1>14, <1>15, <1>16, <1>17, <1>19, <2>1, <2>2, <2>3, <2>4, UseStep
  <1>21. CASE a = "capt"
    <2>1. Lists0 /\ SameCard /\ SameSubs /\ SameReads /\ h.op # "end"
      BY <1>1, <1>2, <1>15 DEF SamePlug, SameCard, SameSubs, SameReads, Shape, Lists0
    <2>2. Lists' /\ Owned' /\ Alone'
      BY <2>1, <1>1, <1>2, <1>3, <1>7, <1>12, <1>13, ThenLists, ThenOwned, ThenAlone
    <2>3. Starting'
      <3>1. \A o \in Pend(C) : /\ o.op \in StartOps
                               /\ o.op \in Under => a \in Subs /\ h.op \in {"start", "inc", "go"} /\ h.ep \in subs'[a].started
        BY <1>2, <1>4, <1>11, <1>12, <1>16 DEF StartOps
      <3> QED
        BY <3>1, <2>1, <1>1, <1>2, <1>3, <1>7, <1>12, <1>13, <1>16, ThenStarting
    <2>4. Plug'
      BY <1>1, <1>15 DEF Plug, SamePlug
    <2>5. \A e \in Eps : AtHost(e)' = AtHost(e) /\ (Quiet(e)' <=> Quiet(e))
      BY <1>2 DEF AtHost, Quiet
    <2>6. InHandler'
      BY <1>1, <1>2 DEF InHandler
    <2>7. Masks'
      BY <2>1, <2>5, <1>1, <1>2, <1>3, <1>7, <1>17, <1>18, ThenMasks
    <2>8. QuietDue'
      <3>1. h.op # "wait" /\ C[1].op \notin {"realloc", "kfree", "go"}
        BY <1>2, <1>11, <1>12
      <3> QED
        BY <3>1, <2>1, <2>5, <1>1, <1>2, <1>3, <1>7, <1>18, ThenQuietDue
    <2> DEFINE L == todo["capt"]
               N == todo'["capt"]
    <2>9. /\ L \in Seq(Entries) /\ L # <<>> /\ N = C \o Tail(L) /\ h = L[1] /\ h.ep = "in" /\ Ordered(L)
          /\ Pend(N) = {x} \cup Pend(Tail(L)) /\ Pend(L) = {h} \cup Pend(Tail(L))
      <3>1. L \in Seq(Entries) /\ L # <<>> /\ N = C \o Tail(L) /\ Pend(N) = Pend(C) \cup Pend(Tail(L))
        BY <1>2, <1>18, <1>21
      <3>2. h = Head(L) /\ Ordered(L) /\ h.ep = "in"
        BY <1>1, <1>3, <1>5, <1>21, AgentsAre DEF Lists
      <3> HIDE DEF L, N
      <3>3. h = L[1] /\ Pend(L) = {h} \cup Pend(Tail(L))
        BY <3>1, <3>2, PendOf
      <3> QED
        BY <3>1, <3>2, <3>3, <1>12
    <2>9a. Head(L) = h
      BY <1>3, <1>21
    <2>10. /\ Quiet("in") /\ \A p \in Pend(L) : p.op \notin {"submit", "bit"}
           /\ \A i \in 1..Len(L) : L[i].op \in {"start", "inc", "go"} => i = Len(L) - 2
      BY <2>9, <1>1, <1>2 DEF CaptList
    <2>11. PICK end \in Pend(L) : RunEnd(end)
      BY <2>9, <1>1, <1>2 DEF CaptList
    <2>12. \A p \in Pend(L) : p.op \in StartOps /\ p.op # "wait" /\ (p.op = "end" => RunEnd(p))
      BY <2>11, <1>1 DEF CaptList
    <2> HIDE DEF L
    <2>13. /\ Len(L) \in Nat /\ Len(L) >= 1 /\ Len(N) = Len(C) + Len(L) - 1
           /\ \A i \in 1..Len(N) :
                IF i <= Len(C) THEN i \in 1..Len(C) /\ N[i] = C[i]
                ELSE i - Len(C) + 1 \in 2..Len(L) /\ N[i] = L[i - Len(C) + 1]
      <3> HIDE DEF N
      <3> QED
        BY <2>9, <1>18, Replaced, SMTT(30)
    <2>14. Len(N) = Len(L) /\ \A i \in 1..Len(N) : i \in 1..Len(L) /\ (i = 1 \/ N[i] = L[i])
      <3>1. Len(N) = Len(L)
        BY <2>13, <1>12
      <3>2. ASSUME NEW i \in 1..Len(N), i # 1 PROVE N[i] = L[i]
        <4>1. ~(i <= Len(C)) /\ i - Len(C) + 1 = i
          BY <3>2, <1>12
        <4> QED
          BY <4>1, <2>13
      <3> QED
        BY <3>1, <3>2
    <2>15. 1 \in 1..Len(L) /\ 1 = Len(L) - 2
      <3>1. 1 \in 1..Len(L) /\ L[1].op = "start"
        BY <2>9, <2>13, <1>2
      <3> QED
        BY <3>1, <2>10
    <2> HIDE DEF N
    <2>16. \A i \in 1..Len(N) : N[i].op \in {"start", "inc", "go"} => i = Len(N) - 2
      BY <2>10, <2>14, <2>15
    <2>17. \A i \in 1..Len(N) : N[i] \in Pend(N)
      BY DEF Pend
    <2>18. /\ end \in Pend(N)
           /\ \A p \in Pend(N) : /\ p.op \in StartOps /\ p.op # "wait" /\ p.op \notin {"submit", "bit"}
                                 /\ p.op = "end" => RunEnd(p)
      BY <2>9, <2>10, <2>11, <2>12, <1>2, <1>11 DEF RunEnd, StartOps
    <2>19. Quiet("in")'
      BY <2>5, <2>10, AgentsAre
    <2>20. CaptList'
      BY <2>11, <2>16, <2>17, <2>18, <2>19 DEF CaptList, N, RunEnd, StartOps
    <2>21. Capture'
      <3>1. "in" \in subs'["capt"].started /\ urb' = urb
        BY <1>2, <1>16, <2>9, <1>21
      <3> QED
        BY <3>1, <2>11, <2>18, <2>19, <1>1 DEF Capture, N
    <2>22. Shape'
      BY <1>1, <1>2, <1>18 DEF Shape
    <2>23. TypeOK'
      BY <1>1, <1>2, <1>14 DEF TypeOK, EpRec, SubRec, States
    <2> QED
      BY <2>2, <2>3, <2>4, <2>6, <2>7, <2>8, <2>20, <2>21, <2>22, <2>23, <1>19 DEF IInv
  <1> QED
    BY <1>4, <1>20, <1>21, AgentsAre

-----------------------------------------------------------------------------
(* A call that is left by an error path *)

\* The locks are given back, after the loop of deactivate_urbs perhaps.
Aborting(a, h, C) ==
    \E x, z \in Entries :
        /\ x.op = "unlink" /\ x.ep = h.ep /\ x.s = a
        /\ z.op = "end" /\ z.s = a /\ z.v = subs[a].state
        /\ C = <<z>> \/ C = <<x, z>>

LEMMA AbortStep ==
  ASSUME IInv, NEW a \in Subs, todo[a] # <<>>, NEW h, h = Head(todo[a]), h.op \in OwnOps, h.op # "bit",
         NEW C, todo' = [todo EXCEPT ![a] = C], Aborting(a, h, C),
         SamePlug, Uses', UNCHANGED <<urb, chip, irq>>,
         ep' \in [Eps -> EpRec], subs' \in [Subs -> SubRec],
         \A e \in Eps : ep'[e].active = ep[e].active /\ ep'[e].stopping = ep[e].stopping,
         \A t \in Subs : t # a => subs'[t].started = subs[t].started,
         a = "capt" => Quiet("in") /\ "in" \notin subs'["capt"].started
  PROVE  IInv'
  <1>1. TypeOK /\ Shape /\ Lists /\ Owned /\ Alone /\ Uses /\ Starting /\ CaptList /\ Capture
        /\ InHandler /\ Masks /\ QuietDue /\ Plug
    BY DEF IInv
  <1>2. /\ a \in Agents /\ a # "hub" /\ a # "hcd" /\ h.ep \in Own(a) /\ h.ep \in Eps /\ ~HcdFor(a)
        /\ h \in Pend(todo[a])
    <2>1. a \in Agents /\ a # "hub" /\ a # "hcd"
      BY AgentsAre
    <2> QED
      BY <2>1, <1>1, OthersCalm, HeadOf
  <1>3. subs[a].state \in States
    BY <1>1, Typed DEF SubRec
  <1>4. PICK x, z \in Entries :
            /\ x.op = "unlink" /\ x.ep = h.ep /\ x.s = a
            /\ z.op = "end" /\ z.s = a /\ z.v = subs[a].state
            /\ C = <<z>> \/ C = <<x, z>>
    BY DEF Aborting
  <1>5. C \in Seq(Entries) /\ Pend(C) \subseteq {x, z} /\ C # <<>> /\ C[Len(C)] = z /\ C[1] \in {x, z}
        /\ Ordered(C)
    <2>1. Pair(x, z)
      BY <1>4 DEF Pair
    <2>2. Ordered(<<z>>) /\ Ordered(<<x, z>>)
      <3>1. x.op # "start"
        BY <1>4
      <3> QED
        BY <2>1, <3>1, OrderedTuples
    <2>3. CASE C = <<z>>
      BY <2>2, <2>3, <1>4, PendTuples
    <2>4. CASE C = <<x, z>>
      BY <2>2, <2>4, <1>4, PendTuples
    <2>5. C = <<z>> \/ C = <<x, z>>
      BY <1>4
    <2> QED
      BY <2>3, <2>4, <2>5
  <1>6. /\ todo' \in [Agents -> Seq(Entries)] /\ todo'[a] = C
        /\ \A b \in Agents : b # a => todo'[b] = todo[b]
    BY <1>1, <1>2, <1>5 DEF Shape
  <1>7. \A o \in Pend(todo'[a]) : o.op \in {"unlink", "end"} /\ o.s = a /\ (o.op = "unlink" => o = x)
                                  /\ (o.op = "end" => o = z)
    BY <1>4, <1>5, <1>6
  <1>7a. \A t \in Subs : t = a \/ todo'[t] = todo[t]
    BY <1>6, AgentsAre
  <1>8. Lists'
    BY <1>1, <1>4, <1>5, <1>6 DEF Lists
  <1>9. Owned'
    <2>1. todo'["hcd"] = todo["hcd"] /\ todo'["hub"] = todo["hub"] /\ chip' = chip
      BY <1>2, <1>6, AgentsAre
    <2>2. ASSUME NEW s \in Subs, NEW o \in Pend(todo'[s])
          PROVE  /\ o.s = s /\ o.op \in CallOps
                 /\ o.op \in OwnOps => o.ep \in Own(s)
                 /\ o.op = "end" => o.v \in States
                 /\ o.op \in {"submit", "bit"} => o.v \in Urbs
      <3>1. CASE s = a
        BY <2>2, <3>1, <1>2, <1>3, <1>4, <1>7 DEF CallOps, OwnOps
      <3>2. CASE s # a
        BY <2>2, <3>2, <1>1, <1>7a DEF Owned
      <3> QED
        BY <3>1, <3>2
    <2> QED
      BY <2>1, <2>2, <1>1 DEF Owned
  <1>10. Plug'
    BY <1>1 DEF Plug, SamePlug
  <1>11. Starting'
    <2>1. \A o \in Pend(todo'[a]) : o.op \notin Under \cup {"start"}
      BY <1>7 DEF Under
    <2>2. \A t \in Subs : t # a => /\ subs'[t].started = subs[t].started /\ subs'[t].reading = subs[t].reading
                                   /\ subs'[t].locked = subs[t].locked /\ subs'[t].state = subs[t].state
                                   /\ todo'[t] = todo[t]
      BY <1>7a DEF SamePlug
    <2>3. chip' = chip
      OBVIOUS
    <2> QED
      BY <2>1, <2>2, <2>3, <1>1 DEF Starting
  <1>12. Alone'
    <2>1. \A t \in Subs : HcdFor(t)' <=> HcdFor(t)
      BY <1>2, <1>6, AgentsAre DEF HcdFor
    <2>2. ~Idle(a)
      BY <1>2 DEF Idle, OwnOps
    <2>3. ~(subs[a].state = "running" /\ ~subs[a].locked)
      BY <2>2, <1>1 DEF Alone
    <2>4. \A t \in Subs : subs'[t].locked = subs[t].locked /\ subs'[t].state = subs[t].state
      BY DEF SamePlug
    <2>5. \A t \in Subs : t # a => todo'[t] = todo[t]
      BY <1>7a
    <2>6. \A t \in Subs : t # a => (Idle(t)' <=> Idle(t))
      BY <2>5 DEF Idle
    <2> QED
      BY <2>1, <2>3, <2>4, <2>5, <2>6, <1>1, <1>2 DEF Alone
  <1>13. InHandler'
    BY <1>1 DEF InHandler
  <1>14. \A e \in Eps : AtHost(e)' = AtHost(e) /\ (Quiet(e)' <=> Quiet(e))
    BY DEF AtHost, Quiet
  <1>15. Masks'
    <2>1. ASSUME NEW b \in Agents, Due(b, "bit")
          PROVE  Due(b, "bit")' /\ todo'[b] = todo[b]
      <3>1. b # a
        BY <2>1 DEF Due
      <3> QED
        BY <3>1, <2>1, <1>6 DEF Due
    <2> QED
      BY <2>1, <1>1, <1>14 DEF Masks
  <1>16. QuietDue'
    <2>1. Head(todo'[a]).op \notin {"realloc", "kfree", "go"}
      BY <1>4, <1>5, <1>6
    <2>2. ASSUME NEW b \in Agents, todo'[b] # <<>>, Head(todo'[b]).op \in {"realloc", "kfree", "go"},
                 NEW e, e = Head(todo'[b]).ep
          PROVE  Quiet(e)'
      <3>1. todo'[b] = todo[b]
        BY <2>1, <2>2, <1>6
      <3>2. Quiet(e)
        BY <2>2, <3>1, <1>1 DEF QuietDue
      <3> QED
        BY <3>2 DEF Quiet, AtHost
    <2> QED
      BY <2>2 DEF QuietDue, Quiet, AtHost
  <1>17. CaptList'
    <2>1. CASE a = "play"
      <3>1. todo'["capt"] = todo["capt"] /\ subs'["capt"].started = subs["capt"].started
            /\ ep'["in"].stopping = ep["in"].stopping
        BY <2>1, <1>6, AgentsAre
      <3>2. Quiet("in")' <=> Quiet("in")
        BY <1>14, AgentsAre
      <3> QED
        BY <3>1, <3>2, <1>1 DEF CaptList, RunEnd
    <2>2. CASE a = "capt"
      <3>1. Quiet("in")'
        BY <2>2, <1>14, AgentsAre
      <3>2. \A o \in Pend(todo'["capt"]) : o.op \in {"unlink", "end"} /\ (o.op = "end" => o = z)
        BY <2>2, <1>7
      <3>3. \A i \in 1..Len(todo'["capt"]) : todo'["capt"][i].op \in {"unlink", "end"}
        BY <3>2 DEF Pend
      <3> QED
        BY <3>1, <3>2, <3>3 DEF CaptList, RunEnd, Under, StartOps
    <2> QED
      BY <2>1, <2>2, AgentsAre
  <1>18. Capture'
    <2>1. Quiet("in")' <=> Quiet("in")
      BY <1>14, AgentsAre
    <2>2. CASE a = "play"
      <3>1. todo'["capt"] = todo["capt"] /\ todo'["hcd"] = todo["hcd"]
            /\ subs'["capt"].started = subs["capt"].started /\ subs'["capt"].state = subs["capt"].state
            /\ ep'["in"].stopping = ep["in"].stopping
        BY <2>2, <1>6, AgentsAre DEF SamePlug
      <3> QED
        BY <3>1, <2>1, <1>1 DEF Capture, Doing, HcdFor, RunEnd
    <2>3. CASE a = "capt"
      BY <2>1, <2>3, <1>1 DEF Capture
    <2> QED
      BY <2>2, <2>3, AgentsAre
  <1>19. Shape'
    BY <1>1, <1>6 DEF Shape
  <1>20. TypeOK'
    BY <1>1 DEF TypeOK, EpRec, SubRec, States
  <1> QED
    BY <1>8, <1>9, <1>10, <1>11, <1>12, <1>13, <1>15, <1>16, <1>17, <1>18, <1>19, <1>20 DEF IInv

\* The card is being unplugged.
LEMMA StartEpFails ==
  ASSUME IInv, NEW a \in Agents, StartEp(a), chip.shutdown,
         Head(todo[a]).ep \notin subs[Head(todo[a]).s].started
  PROVE  IInv'
  <1> DEFINE h == Head(todo[a])
             q == IF h.ep = DataEp(h.s) THEN [ep[h.ep] EXCEPT !.user = h.s] ELSE [ep[h.ep] EXCEPT !.slave = "out"]
             x == Op("unlink", h.ep, h.s, 0)
             z == Op("end", None, h.s, subs[h.s].state)
             C == <<z>>
  <1>1. TypeOK /\ Shape /\ Lists /\ Owned /\ Alone /\ Uses /\ CaptList
    BY DEF IInv
  <1>2. todo[a] # <<>> /\ h.op = "start" /\ UNCHANGED <<urb, subs, chip, irq>>
        /\ ep' = [ep EXCEPT ![h.ep] = q] /\ Abort(a, C)
    BY DEF StartEp, Due
  <1> HIDE DEF h
  <1>3. h = Head(todo[a])
    BY SMTT(30) DEF h
  <1>4. a \in Subs /\ h \in Pend(todo[a]) /\ h.op \in OwnOps
    BY <1>1, <1>2, <1>3, HeadOf, AgentsAre DEF FreeOps, StopOps, OwnOps
  <1>5. /\ h.s = a /\ h.ep \in Own(a) /\ h.ep \in Eps /\ a # "hub"
    BY <1>1, <1>2, <1>3, <1>4, OthersCalm, AgentsAre
  <1>6. ep[h.ep] \in EpRec
    BY <1>1, <1>5, Typed
  <1>7. q \in EpRec /\ q.use = ep[h.ep].use /\ q.active = ep[h.ep].active /\ q.stopping = ep[h.ep].stopping
    BY <1>4, <1>5, <1>6 DEF EpRec
  <1>8. x.op = "unlink" /\ x.ep = h.ep /\ x.s = a /\ x \in Entries
        /\ z.op = "end" /\ z.s = a /\ z.v = subs[a].state /\ z \in Entries
    <2>1. subs[a].state \in States /\ a \in Subs
      BY <1>1, <1>4, Typed DEF SubRec
    <2> QED
      BY <2>1, <1>4, <1>5, OpIs DEF CallOps, OwnOps
  <1>9. todo' = [todo EXCEPT ![a] = C]
    BY <1>2 DEF Abort
  <1> HIDE DEF q, x
  <1>10. /\ ep' \in [Eps -> EpRec] /\ \A e \in Eps : ep'[e].active = ep[e].active /\ ep'[e].stopping = ep[e].stopping
                                                     /\ ep'[e].use = ep[e].use
    <2>1. ep' \in [Eps -> EpRec] /\ ep'[h.ep] = q /\ \A e \in Eps : e # h.ep => ep'[e] = ep[e]
      BY <1>1, <1>2, <1>5, <1>7, EpSet, Typed
    <2> QED
      BY <2>1, <1>7
  <1>11. SamePlug /\ subs' \in [Subs -> SubRec]
    BY <1>1, <1>2, SameAll, Typed
  <1>12. a = "capt" => Quiet("in") /\ "in" \notin subs'["capt"].started
    <2>1. a = "capt" => h.ep = "in"
      BY <1>5, AgentsAre
    <2>2. h.ep \notin subs[h.s].started
      BY DEF h
    <2> QED
      BY <2>1, <2>2, <1>1, <1>2, <1>4, <1>5 DEF CaptList
  <1>13. Uses'
    <2>1. z.op = "end" /\ z.s = a
      BY <1>5, OpIs
    <2>2. Pend(todo'[a]) = {z} /\ \A b \in Agents : b # a => todo'[b] = todo[b]
      <3>1. todo'[a] = C /\ \A b \in Agents : b # a => todo'[b] = todo[b]
        BY <1>1, <1>9 DEF Shape
      <3> QED
        BY <3>1, PendTuples
    <2> HIDE DEF z
    <2>3. \A o \in Pend(todo[a]) : o.op \notin {"inc", "dec"}
      <3>1. /\ \A o \in Pend(Tail(todo[a])) : o.op \notin {"inc", "dec"}
        BY <1>1, <1>2, <1>3, <1>4, <1>5, OthersCalm
      <3>2. todo[a] \in Seq(Entries)
        BY <1>1 DEF Shape
      <3>3. Pend(todo[a]) = {h} \cup Pend(Tail(todo[a]))
        BY <3>2, <1>2, <1>3, PendOf
      <3> QED
        BY <3>1, <3>3, <1>2
    <2>4. \A s \in Subs : \A name \in {"inc", "dec"}, e \in Eps : Doing(s, name, e)' <=> Doing(s, name, e)
      BY <2>1, <2>2, <2>3, <1>4, AgentsAre DEF Doing
    <2>5. \A b \in Agents : \A o \in Pend(todo'[b]) : o.op \in {"inc", "dec"} => o \in Pend(todo[b])
      BY <2>1, <2>2
    <2>6. \A s \in Subs : \A e \in Own(s) : e \in Eps /\ ep'[e].use = ep[e].use /\ subs'[s].started = subs[s].started
      BY <1>2, <1>10, AgentsAre
    <2> QED
      BY <2>4, <2>5, <2>6, <1>1, AgentsAre DEF Uses
  <1>14. z = Op("end", None, a, subs[a].state) /\ h.op # "bit"
    BY <1>2, <1>5
  <1>15. UNCHANGED <<urb, chip, irq>> /\ \A t \in Subs : subs'[t].started = subs[t].started
    BY <1>2
  <1> HIDE DEF z
  <1>16. C = <<z>>
    OBVIOUS
  <1> HIDE DEF C
  <1>16a. Aborting(a, h, C)
    BY <1>8, <1>16 DEF Aborting
  <1>17. todo[a] # <<>> /\ \A e \in Eps : ep'[e].active = ep[e].active /\ ep'[e].stopping = ep[e].stopping
    BY <1>2, <1>10
  <1> QED
    BY <1>3, <1>4, <1>9, <1>10, <1>11, <1>12, <1>13, <1>14, <1>15, <1>16a, <1>17, AbortStep

LEMMA StartEpSafe ==
  ASSUME IInv, NEW a \in Agents, StartEp(a)
  PROVE  IInv'
  <1>1. chip.shutdown \in BOOLEAN
    BY DEF IInv, Shape
  <1> QED
    BY <1>1, StartEpAgain, StartEpGoes, StartEpFails

LEMMA AbortUses ==
  ASSUME IInv, NEW a \in Subs, todo[a] # <<>>, NEW h, h = Head(todo[a]), h.op \in OwnOps,
         h.op \notin {"inc", "dec"}, NEW z, z.op = "end", todo' = [todo EXCEPT ![a] = <<z>>],
         \A e \in Eps : ep'[e].use = ep[e].use,
         \A s \in Subs : subs'[s].started = subs[s].started
  PROVE  Uses'
  <1>1. Shape /\ Lists /\ Owned /\ Alone /\ Uses
    BY DEF IInv
  <1>2. a \in Agents /\ a # "hub" /\ a # "hcd"
    BY AgentsAre
  <1>3. todo'[a] = <<z>> /\ \A b \in Agents : b # a => todo'[b] = todo[b]
    BY <1>1, <1>2 DEF Shape
  <1>4. Pend(todo'[a]) = {z}
    BY <1>3, PendTuples
  <1>5. \A o \in Pend(todo[a]) : o.op \notin {"inc", "dec"}
    <2>1. /\ \A o \in Pend(Tail(todo[a])) : o.op \notin {"inc", "dec"}
      BY <1>1, <1>2, OthersCalm
    <2>2. todo[a] \in Seq(Entries)
      BY <1>1, <1>2 DEF Shape
    <2>3. Pend(todo[a]) = {h} \cup Pend(Tail(todo[a]))
      BY <2>2, PendOf
    <2> QED
      BY <2>1, <2>3
  <1>6. \A s \in Subs : \A name \in {"inc", "dec"}, e \in Eps : Doing(s, name, e)' <=> Doing(s, name, e)
    BY <1>2, <1>3, <1>4, <1>5, AgentsAre DEF Doing
  <1>7. \A b \in Agents : \A o \in Pend(todo'[b]) : o.op \in {"inc", "dec"} => o \in Pend(todo[b])
    BY <1>3, <1>4
  <1>8. \A s \in Subs : \A e \in Own(s) : e \in Eps /\ ep'[e].use = ep[e].use /\ subs'[s].started = subs[s].started
    BY AgentsAre
  <1> QED
    BY <1>6, <1>7, <1>8, <1>1, AgentsAre DEF Uses

\* The endpoint is in use: only a substream that starts its endpoints with
\* prepare may find it so.
LEMMA SetParamsFails ==
  ASSUME IInv, NEW a \in Agents, SetParams(a), ep[Head(todo[a]).ep].use # 0
  PROVE  IInv'
  <1> DEFINE h == Head(todo[a])
             x == Op("unlink", h.ep, h.s, 0)
             z == Op("end", None, h.s, subs[h.s].state)
             C == <<z>>
  <1>1. TypeOK /\ Shape /\ Lists /\ Owned /\ Alone /\ Uses /\ CaptList
    BY DEF IInv
  <1>2. todo[a] # <<>> /\ h.op = "params" /\ UNCHANGED <<ep, urb, subs, chip, irq>> /\ Abort(a, C)
        /\ ep[h.ep].use # 0
    BY DEF SetParams, Due
  <1> HIDE DEF h
  <1>3. h = Head(todo[a])
    BY DEF h
  <1>4. a \in Subs /\ h \in Pend(todo[a]) /\ h.op \in OwnOps
    BY <1>1, <1>2, <1>3, HeadOf, AgentsAre DEF FreeOps, StopOps, OwnOps
  <1>5. /\ h.s = a /\ h.ep \in Own(a) /\ h.ep \in Eps
        /\ \A b \in {a, "hcd"} : b # a => \A o \in Pend(todo[b]) : o.op \in OwnOps => o.ep \notin Own(a)
    BY <1>1, <1>2, <1>3, <1>4, OthersCalm, AgentsAre
  <1>6. a # "capt"
    <2> SUFFICES ASSUME a = "capt" PROVE FALSE
      OBVIOUS
    <2>1. "in" \notin subs["capt"].started /\ \A p \in Pend(todo["capt"]) : p.op # "dec"
      BY <1>1, <1>2, <1>4 DEF CaptList
    <2>2. ~Doing("capt", "dec", "in")
      <3> SUFFICES ASSUME NEW b \in {"capt", "hcd"}, NEW o \in Pend(todo[b]), o.op = "dec", o.ep = "in"
                   PROVE  FALSE
        BY DEF Doing
      <3> QED
        BY <2>1, <1>5, AgentsAre DEF OwnOps
    <2>3. ep["in"].use = 0
      BY <2>1, <2>2, <1>1, AgentsAre DEF Uses
    <2>4. h.ep = "in"
      BY <1>5, AgentsAre
    <2> QED
      BY <2>3, <2>4, <1>2
  <1>7. x.op = "unlink" /\ x.ep = h.ep /\ x.s = a /\ x \in Entries
        /\ z.op = "end" /\ z.s = a /\ z.v = subs[a].state /\ z \in Entries
    <2>1. subs[a].state \in States /\ a \in Subs
      BY <1>1, <1>4, Typed DEF SubRec
    <2> QED
      BY <2>1, <1>4, <1>5, OpIs DEF CallOps, OwnOps
  <1>8. todo' = [todo EXCEPT ![a] = C]
    BY <1>2, <1>5 DEF Abort
  <1> HIDE DEF x, z
  <1>9. SamePlug /\ ep' \in [Eps -> EpRec] /\ subs' \in [Subs -> SubRec]
    BY <1>1, <1>2, SameAll, Typed
  <1>10. /\ \A e \in Eps : ep'[e].active = ep[e].active /\ ep'[e].stopping = ep[e].stopping /\ ep'[e].use = ep[e].use
         /\ \A t \in Subs : subs'[t].started = subs[t].started
         /\ UNCHANGED <<urb, chip, irq>> /\ todo[a] # <<>> /\ h.op \notin {"bit", "inc", "dec"}
    BY <1>2
  <1>11. Uses'
    BY <1>3, <1>4, <1>7, <1>8, <1>10, AbortUses
  <1>12. C = <<z>>
    OBVIOUS
  <1> HIDE DEF C
  <1>13. Aborting(a, h, C)
    BY <1>7, <1>12 DEF Aborting
  <1> QED
    BY <1>3, <1>4, <1>6, <1>8, <1>9, <1>10, <1>11, <1>13, AbortStep

LEMMA SetParamsSafe ==
  ASSUME IInv, NEW a \in Agents, SetParams(a)
  PROVE  IInv'
  BY SetParamsGoes, SetParamsFails

LEMMA SubmitFailsSafe ==
  ASSUME IInv, "in" \notin Faulty, NEW a \in Agents, SubmitFails(a)
  PROVE  IInv'
  <1> DEFINE h == Head(todo[a])
             d == IF chip.shutdown THEN [ep[h.ep] EXCEPT !.running = FALSE] ELSE Deactivated(ep[h.ep])
             q == [d EXCEPT !.use = @ - 1]
             r == [subs[h.s] EXCEPT !.started = @ \ {h.ep}]
             x == Op("unlink", h.ep, h.s, 0)
             z == Op("end", None, h.s, subs[h.s].state)
             C == (IF chip.shutdown THEN <<>> ELSE <<x>>) \o <<z>>
  <1>1. TypeOK /\ Shape /\ Lists /\ Owned /\ Alone /\ Uses /\ Starting /\ CaptList /\ Capture
    BY DEF IInv
  <1>2. todo[a] # <<>> /\ h.op = "submit" /\ UNCHANGED <<urb, chip, irq>> /\ Abort(a, C)
        /\ ep' = [ep EXCEPT ![h.ep] = q] /\ subs' = [subs EXCEPT ![h.s] = r]
        /\ Refuses(h.ep, h.v, "idle")
    <2>1. Due(a, "submit") /\ Refuses(h.ep, h.v, "idle") /\ UNCHANGED <<urb, chip, irq>>
      BY ZenonT(60) DEF SubmitFails
    <2>2. subs' = [subs EXCEPT ![h.s] = r]
      BY ZenonT(60) DEF SubmitFails
    <2>3. ep' = [ep EXCEPT ![h.ep] = q]
      BY ZenonT(60) DEF SubmitFails
    <2>4. Abort(a, C)
      BY DEF SubmitFails
    <2> QED
      BY <2>1, <2>2, <2>3, <2>4 DEF Due
  <1> HIDE DEF h
  <1>3. h = Head(todo[a])
    BY SMTT(30) DEF h
  <1>4. a \in Subs /\ h \in Pend(todo[a]) /\ h.op \in OwnOps /\ h.v \in Urbs /\ a # "hub"
    <2>1. todo[a] # <<>> /\ h.op = "submit"
      BY <1>2
    <2> QED
      BY <1>1, <1>3, <2>1, HeadOf, AgentsAre DEF FreeOps, StopOps, OwnOps
  <1>5. /\ h.s = a /\ h.ep \in Own(a) /\ h.ep \in Eps
        /\ \A o \in Pend(Tail(todo[a])) : o.op \notin {"inc", "dec"}
        /\ \A b \in {a, "hcd"} : b # a => \A o \in Pend(todo[b]) : o.op \in OwnOps => o.ep \notin Own(a)
    <2>1. todo[a] # <<>> /\ h.op = "submit"
      BY <1>2
    <2> QED
      BY <1>1, <1>3, <1>4, <2>1, OthersCalm, AgentsAre, SMTT(30)
  <1>6. ep[h.ep].use = 1 /\ h.ep \in subs[a].started
    <2>0. todo[a] \in Seq(Entries)
      BY <1>1 DEF Shape
    <2>1. Pend(todo[a]) = {h} \cup Pend(Tail(todo[a]))
      BY <2>0, <1>2, <1>3, PendOf
    <2>2. ~Doing(a, "inc", h.ep)
      <3> SUFFICES ASSUME NEW b \in {a, "hcd"}, NEW o \in Pend(todo[b]), o.op = "inc", o.ep = h.ep
                   PROVE  FALSE
        BY DEF Doing
      <3>1. b = a
        BY <1>5 DEF OwnOps
      <3> QED
        BY <3>1, <2>1, <1>2, <1>5
    <2>3. h.ep \in subs[a].started
      BY <1>1, <1>2, <1>4 DEF Starting, Under
    <2> QED
      BY <2>2, <2>3, <1>1, <1>4, <1>5 DEF Uses
  <1>7. subs[a] \in SubRec /\ ep[h.ep] \in EpRec
    BY <1>1, <1>4, <1>5, Typed
  <1>8. /\ r \in SubRec /\ r.state = subs[a].state /\ r.locked = subs[a].locked
        /\ r.reading = subs[a].reading /\ r.eps = subs[a].eps
        /\ r.started = subs[a].started \ {h.ep}
    BY <1>5, <1>7 DEF SubRec
  <1>9. q \in EpRec /\ q.use = 0 /\ q.active = ep[h.ep].active /\ q.stopping = ep[h.ep].stopping
    <2>1. d \in EpRec /\ d.use = 1 /\ d.active = ep[h.ep].active /\ d.stopping = ep[h.ep].stopping
      <3>1. CASE chip.shutdown
        <4>1. d = [ep[h.ep] EXCEPT !.running = FALSE]
          BY <3>1
        <4> QED
          BY <4>1, <1>6, <1>7 DEF EpRec
      <3>2. CASE ~chip.shutdown
        BY <3>2, <1>6, <1>7, Deact, SizesAssumption
      <3> QED
        BY <3>1, <3>2
    <2> HIDE DEF d
    <2>2. q = [d EXCEPT !.use = 0]
      <3>1. d.use - 1 = 0
        BY <2>1
      <3> QED
        BY <3>1
    <2> QED
      BY <2>1, <2>2 DEF EpRec
  <1>10. /\ x.op = "unlink" /\ x.ep = h.ep /\ x.s = a /\ x \in Entries
         /\ z.op = "end" /\ z.s = a /\ z.v = subs[a].state /\ z \in Entries
    <2>1. subs[a].state \in States /\ a \in Subs
      BY <1>4, <1>7 DEF SubRec
    <2> QED
      BY <2>1, <1>4, <1>5, OpIs DEF CallOps, OwnOps
  <1> HIDE DEF d, q, r, x, z
  <1>11. C = <<z>> \/ C = <<x, z>>
    <2>1. <<>> \o <<z>> = <<z>>
      <3>1. <<z>> \in Seq({z})
        OBVIOUS
      <3> QED
        BY <3>1, ConcatEmptySeq
    <2>2. <<x>> \o <<z>> = <<x, z>>
      BY Joined
    <2> QED
      BY <2>1, <2>2
  <1>11a. Aborting(a, h, C)
    BY <1>10, <1>11 DEF Aborting
  <1>12. todo' = [todo EXCEPT ![a] = C]
    BY <1>2 DEF Abort
  <1> HIDE DEF C
  <1>13. /\ subs' \in [Subs -> SubRec] /\ subs'[a] = r /\ \A t \in Subs : t # a => subs'[t] = subs[t]
         /\ ep' \in [Eps -> EpRec] /\ ep'[h.ep] = q /\ \A e \in Eps : e # h.ep => ep'[e] = ep[e]
    BY <1>1, <1>2, <1>4, <1>5, <1>8, <1>9, SubSet, EpSet, Typed
  <1>14. SamePlug
    BY <1>2, <1>8, <1>13 DEF SamePlug
  <1>15. /\ \A t \in Subs : t # a => subs'[t].started = subs[t].started
         /\ subs'[a].started = subs[a].started \ {h.ep}
         /\ \A e \in Eps : ep'[e].active = ep[e].active /\ ep'[e].stopping = ep[e].stopping
         /\ \A e \in Eps : e # h.ep => ep'[e].use = ep[e].use
         /\ ep'[h.ep].use = 0
    BY <1>8, <1>9, <1>13
  <1>16. Uses'
    <2>1. todo'[a] = C /\ \A b \in Agents : b # a => todo'[b] = todo[b]
      BY <1>1, <1>12 DEF Shape
    <2>2. \A o \in Pend(C) : o.op \notin {"inc", "dec"}
      <3>1. Pend(C) \subseteq {x, z}
        BY <1>11, PendTuples
      <3> QED
        BY <3>1, <1>10
    <2>3. Pend(C) \subseteq Pend(todo'[a]) /\ Pend(todo'[a]) \subseteq Pend(C) \cup Pend(Tail(todo[a]))
      BY <2>1
    <2>4. \A t \in Subs : t # h.s => subs'[t].started = subs[t].started
      BY <1>5, <1>15
    <2>5. h.ep \notin subs'[h.s].started /\ \A e \in Eps : e # h.ep => (e \in subs'[h.s].started <=> e \in subs[h.s].started)
      BY <1>5, <1>15
    <2> QED
      BY <1>2, <1>3, <1>4, <1>15, <2>1, <2>2, <2>3, <2>4, <2>5, UsesOf
  <1>17. a = "capt" => Quiet("in") /\ "in" \notin subs'["capt"].started
    <2> SUFFICES ASSUME a = "capt" PROVE Quiet("in") /\ "in" \notin subs'["capt"].started
      OBVIOUS
    <2>1. h.ep = "in"
      BY <1>5, AgentsAre
    <2>2. urb["in"][h.v] \in {"idle", "none"} /\ (chip.gone => Quiet("in"))
      BY <1>1, <1>2, <1>4 DEF CaptList
    <2>3. urb["in"][h.v] = "none" => Quiet("in")
      <3> SUFFICES ASSUME urb["in"][h.v] = "none" PROVE Quiet("in")
        OBVIOUS
      <3>1. \A u \in Urbs : urb["in"][u] = "none"
        BY <1>1, <1>4 DEF Capture
      <3> QED
        BY <3>1 DEF Quiet, AtHost
    <2> QED
      BY <2>1, <2>2, <2>3, <1>2, <1>15 DEF Refuses
  <1>18. UNCHANGED <<urb, chip, irq>> /\ h.op # "bit" /\ todo[a] # <<>>
    BY <1>2
  <1> QED
    BY <1>3, <1>4, <1>11a, <1>12, <1>13, <1>14, <1>15, <1>16, <1>17, <1>18, AbortStep

-----------------------------------------------------------------------------
(* Submitting the URBs *)

\* What is left to do after the masks are reset.
Submits(h) == [i \in 1..(2 * NUrbs) |->
                  Op(IF i % 2 = 1 THEN "submit" ELSE "bit", h.ep, h.s, (i + 1) \div 2)]

LEMMA SubmitsAre ==
  ASSUME NEW h, h.ep \in Eps, h.s \in Subs, NEW C, C = Submits(h)
  PROVE  /\ C \in Seq(Entries) /\ Len(C) = 2 * NUrbs /\ Len(C) \in Nat /\ Len(C) >= 4
         /\ \A i \in 1..Len(C) :
              /\ C[i].op = (IF i % 2 = 1 THEN "submit" ELSE "bit")
              /\ C[i].ep = h.ep /\ C[i].s = h.s /\ C[i].v \in Urbs
              /\ C[i].op = "submit" => 2 * C[i].v = i + 1
         /\ Ordered(C) /\ C[1].op = "submit" /\ C[Len(C)].op = "bit"
         /\ \A o \in Pend(C) : o.op \in {"submit", "bit"} /\ o.ep = h.ep /\ o.s = h.s /\ o.v \in Urbs
  <1>1. NUrbs \in Nat /\ NUrbs >= 2
    BY SizesAssumption
  <1>2. \A i \in 1..(2 * NUrbs) : (i + 1) \div 2 \in Urbs /\ (i % 2 = 1 \/ i % 2 = 0)
                                  /\ (i % 2 = 1 => 2 * ((i + 1) \div 2) = i + 1)
                                  /\ (i > 1 /\ (i - 1) % 2 = 1 =>
                                         i % 2 = 0 /\ (i + 1) \div 2 = (i - 1 + 1) \div 2)
    BY <1>1 DEF Urbs
  <1>3. ASSUME NEW i \in 1..(2 * NUrbs)
        PROVE  Op(IF i % 2 = 1 THEN "submit" ELSE "bit", h.ep, h.s, (i + 1) \div 2) \in Entries
    <2>1. (i + 1) \div 2 \in Nat
      BY <1>1, <1>2 DEF Urbs
    <2> QED
      BY <2>1, OpIs DEF CallOps, OwnOps
  <1>4. C = [i \in 1..(2 * NUrbs) |->
                  Op(IF i % 2 = 1 THEN "submit" ELSE "bit", h.ep, h.s, (i + 1) \div 2)]
    BY DEF Submits
  <1>5. C \in Seq(Entries) /\ Len(C) = 2 * NUrbs
    BY <1>1, <1>3, <1>4
  <1>6. Len(C) \in Nat /\ Len(C) >= 4
    BY <1>1, <1>5
  <1>7. ASSUME NEW i \in 1..Len(C)
        PROVE  /\ C[i].op = (IF i % 2 = 1 THEN "submit" ELSE "bit")
               /\ C[i].ep = h.ep /\ C[i].s = h.s /\ C[i].v = (i + 1) \div 2
    <2>1. C[i] = Op(IF i % 2 = 1 THEN "submit" ELSE "bit", h.ep, h.s, (i + 1) \div 2)
      BY <1>4, <1>5
    <2> QED
      BY <2>1, OpIs
  <1>8. ASSUME NEW i \in 1..Len(C)
        PROVE  C[i].v \in Urbs /\ (C[i].op = "submit" => 2 * C[i].v = i + 1) /\ C[i].op \in {"submit", "bit"}
    BY <1>2, <1>5, <1>7
  <1>9. ASSUME NEW i \in 2..Len(C) PROVE Pair(C[i-1], C[i])
    <2>1. i \in 1..Len(C) /\ i - 1 \in 1..Len(C) /\ i > 1
      BY <1>6
    <2>2. C[i].ep = C[i-1].ep
      BY <2>1, <1>7
    <2>3. C[i].op \in {"submit", "bit"} /\ C[i-1].op \in {"submit", "bit"}
      BY <2>1, <1>8
    <2>4. C[i-1].op = "submit" => C[i].op = "bit" /\ C[i].v = C[i-1].v
      <3> SUFFICES ASSUME C[i-1].op = "submit" PROVE C[i].op = "bit" /\ C[i].v = C[i-1].v
        OBVIOUS
      <3>1. (i - 1) % 2 = 1
        <4>1. C[i-1].op = (IF (i - 1) % 2 = 1 THEN "submit" ELSE "bit")
          BY <2>1, <1>7
        <4> QED
          BY <4>1
      <3>2. i % 2 = 0 /\ (i + 1) \div 2 = (i - 1 + 1) \div 2
        BY <2>1, <3>1, <1>2, <1>5
      <3>3. C[i].op = (IF i % 2 = 1 THEN "submit" ELSE "bit") /\ C[i].v = (i + 1) \div 2
        BY <2>1, <1>7
      <3>4. C[i-1].v = (i - 1 + 1) \div 2
        BY <2>1, <1>7
      <3>5. C[i].op = "bit"
        BY <3>2, <3>3
      <3> QED
        BY <3>2, <3>3, <3>4, <3>5
    <2> QED
      BY <2>2, <2>3, <2>4 DEF Pair
  <1>10. Ordered(C)
    BY <1>8, <1>9 DEF Ordered
  <1>11. C[1].op = "submit" /\ C[Len(C)].op = "bit"
    <2>1. 1 \in 1..Len(C) /\ Len(C) \in 1..Len(C) /\ 1 % 2 = 1
      BY <1>6
    <2>2. Len(C) % 2 # 1
      BY <1>1, <1>5
    <2> QED
      BY <2>1, <2>2, <1>7
  <1>12. \A o \in Pend(C) : o.op \in {"submit", "bit"} /\ o.ep = h.ep /\ o.s = h.s /\ o.v \in Urbs
    BY <1>7, <1>8 DEF Pend
  <1> QED
    BY <1>5, <1>6, <1>7, <1>8, <1>10, <1>11, <1>12

\* The URBs of capture come in their order after an entry that is the third last.
LEMMA GoCaptList ==
  ASSUME IInv, todo["capt"] # <<>>, NEW h, h = Head(todo["capt"]), h.op = "go",
         NEW C, C \in Seq(Entries), Len(C) = 2 * NUrbs,
         \A i \in 1..Len(C) : C[i].op = "submit" => 2 * C[i].v = i + 1,
         \A o \in Pend(C) : o.op \in {"submit", "bit"} /\ o.v \in Urbs,
         todo'["capt"] = C \o Tail(todo["capt"]),
         Quiet("in")', UNCHANGED <<urb, subs, chip>>
  PROVE  CaptList'
  <1> DEFINE L == todo["capt"]
             N == todo'["capt"]
             R == Pend(Tail(L))
  <1>1. TypeOK /\ Shape /\ Owned /\ CaptList
    BY DEF IInv
  <1>2. L \in Seq(Entries) /\ L # <<>> /\ N = C \o Tail(L) /\ h = Head(L) /\ h \in Pend(L)
        /\ h.ep \in Eps /\ h.s \in Subs
    <2>1. "capt" \in Agents /\ "capt" \in Subs
      BY AgentsAre
    <2>2. L \in Seq(Entries) /\ h \in Pend(L) /\ h.s = "capt" /\ h.ep \in Eps
      <3>1. h.op \in OwnOps
        BY DEF OwnOps
      <3> QED
        BY <2>1, <3>1, <1>1, HeadOf
    <2> QED
      BY <2>1, <2>2
  <1>3. /\ \A i \in 1..Len(L) : L[i].op \in {"start", "inc", "go"} => i = Len(L) - 2
        /\ \A p \in Pend(L) : p.op \notin {"submit", "bit"}
        /\ \E p \in Pend(L) : RunEnd(p)
        /\ \A p \in Pend(L) : p.op \in StartOps /\ p.op # "wait" /\ (p.op = "end" => RunEnd(p))
    BY <1>1, <1>2 DEF CaptList, Under
  <1>4. /\ C \in Seq(Entries) /\ Len(C) = 2 * NUrbs /\ Len(C) \in Nat
        /\ \A i \in 1..Len(C) : C[i].op \in {"submit", "bit"} /\ (C[i].op = "submit" => 2 * C[i].v = i + 1)
        /\ \A o \in Pend(C) : o.op \in {"submit", "bit"} /\ o.v \in Urbs
    <2>1. C \in Seq(Entries) /\ Len(C) \in Nat
      OBVIOUS
    <2> QED
      BY <2>1 DEF Pend
  <1> HIDE DEF L, N
  <1>5. /\ Pend(N) = Pend(C) \cup R /\ Pend(L) = {h} \cup R /\ Head(L) = L[1]
        /\ Len(L) \in Nat /\ Len(L) >= 1 /\ Len(N) = Len(C) + Len(L) - 1
        /\ \A i \in 1..Len(N) :
                IF i <= Len(C) THEN i \in 1..Len(C) /\ N[i] = C[i]
                ELSE i - Len(C) + 1 \in 2..Len(L) /\ N[i] = L[i - Len(C) + 1]
    <2>1. /\ Pend(N) = Pend(C) \cup Pend(Tail(L)) /\ Pend(L) = {Head(L)} \cup Pend(Tail(L))
          /\ Head(L) = L[1]
          /\ Len(L) \in Nat /\ Len(L) >= 1 /\ Len(N) = Len(C) + Len(L) - 1
          /\ \A i \in 1..Len(N) :
                IF i <= Len(C) THEN i \in 1..Len(C) /\ N[i] = C[i]
                ELSE i - Len(C) + 1 \in 2..Len(L) /\ N[i] = L[i - Len(C) + 1]
      <3>1. L \in Seq(Entries) /\ L # <<>> /\ N = C \o Tail(L) /\ C \in Seq(Entries)
        BY <1>2, <1>4
      <3>2. Pend(N) = Pend(C) \cup Pend(Tail(L)) /\ Pend(L) = {Head(L)} \cup Pend(Tail(L))
        BY <3>1, Replaced, ZenonT(60)
      <3>3. Head(L) = L[1] /\ Len(L) \in Nat /\ Len(L) >= 1 /\ Len(N) = Len(C) + Len(L) - 1
        BY <3>1, Replaced
      <3>4. \A i \in 1..Len(N) :
                IF i <= Len(C) THEN i \in 1..Len(C) /\ N[i] = C[i]
                ELSE i - Len(C) + 1 \in 2..Len(L) /\ N[i] = L[i - Len(C) + 1]
        BY <3>1, Replaced, SMTT(30)
      <3> QED
        BY <3>2, <3>3, <3>4
    <2> QED
      BY <2>1, <1>2
  <1> HIDE DEF R
  <1>6. Len(L) = 3
    <2>1. 1 \in 1..Len(L) /\ L[1].op = "go"
      BY <1>2, <1>5
    <2>2. 1 = Len(L) - 2
      BY <2>1, <1>3
    <2> QED
      BY <2>2, <1>5
  <1>7. NUrbs \in Nat /\ Len(N) = 2 * NUrbs + 2
    <2>1. NUrbs \in Nat
      BY SizesAssumption
    <2>2. Len(N) = 2 * NUrbs + 3 - 1
      BY <1>4, <1>5, <1>6
    <2> QED
      BY <2>1, <2>2
  <1>8. ASSUME NEW i \in 1..Len(N)
        PROVE  /\ N[i].op \notin {"start", "inc", "go"}
               /\ N[i].op = "submit" => 2 * N[i].v = 2 * NUrbs + 3 + i - Len(N)
    <2>1. CASE i <= Len(C)
      <3>1. i \in 1..Len(C) /\ N[i] = C[i]
        BY <2>1, <1>5
      <3>2. 2 * NUrbs + 3 + i - Len(N) = i + 1
        BY <1>7
      <3> QED
        BY <3>1, <3>2, <1>4
    <2>2. CASE ~(i <= Len(C))
      <3> DEFINE j == i - Len(C) + 1
      <3>1. j \in 2..Len(L) /\ N[i] = L[j]
        BY <2>2, <1>5
      <3> HIDE DEF j
      <3>2. j \in 1..Len(L) /\ j # 1
        BY <3>1, <1>5
      <3>3. L[j].op \notin {"start", "inc", "go"}
        BY <3>2, <1>3, <1>6
      <3>4. L[j] \in Pend(L)
        BY <3>2 DEF Pend
      <3> QED
        BY <3>1, <3>3, <3>4, <1>3
    <2> QED
      BY <2>1, <2>2
  <1>9. \A o \in Pend(N) : o.op \notin {"start", "inc", "go"}
    BY <1>8 DEF Pend
  <1>10. ASSUME NEW o \in Pend(N), o.op = "submit"
         PROVE  urb'["in"][o.v] \in {"idle", "none"} /\ (chip'.gone => Quiet("in")')
    <2>1. o.v \in Urbs
      BY <1>3, <1>4, <1>5, <1>10
    <2>2. urb'["in"][o.v] \in Places
      <3>1. urb["in"] \in [Urbs -> Places]
        BY <1>1, AgentsAre DEF TypeOK
      <3> QED
        BY <2>1, <3>1
    <2>3. urb'["in"][o.v] \notin {"bus", "unlinked", "handler"}
      BY <2>1 DEF Quiet, AtHost
    <2> QED
      BY <2>2, <2>3 DEF Places
  <1>11. \E p \in Pend(N) : RunEnd(p)
    BY <1>2, <1>3, <1>5 DEF RunEnd
  <1>12. \A p \in Pend(N) : p.op \in StartOps /\ p.op # "wait" /\ p.op # "params" /\ (p.op = "end" => RunEnd(p))
    BY <1>3, <1>4, <1>5 DEF StartOps
  <1> QED
    BY <1>8, <1>9, <1>10, <1>11, <1>12 DEF CaptList, N

LEMMA GoSafe ==
  ASSUME IInv, NEW a \in Agents, Go(a)
  PROVE  IInv'
  <1> DEFINE h == Head(todo[a])
             r == ep[h.ep]
             q == [r EXCEPT !.active = {}, !.unlinked = {}, !.running = TRUE,
                            !.ready = IF Sink(h.ep) THEN @ \o UrbSeq ELSE @]
             C == Submits(h)
             D == IF Sink(h.ep) THEN <<>> ELSE C
  <1>1. TypeOK /\ Shape /\ Lists /\ Owned /\ Alone /\ Uses /\ Starting /\ CaptList /\ Capture
        /\ Plug /\ InHandler /\ Masks /\ QuietDue
    BY DEF IInv
  <1>2. todo[a] # <<>> /\ h.op = "go" /\ Then(a, D) /\ UNCHANGED <<urb, subs, chip, irq>>
        /\ ep' = [ep EXCEPT ![h.ep] = q]
    BY DEF Go, Due, Submits
  <1>3. ~Sink(h.ep)
    BY <1>1 DEF Shape, Sink
  <1>4. D = C /\ q = [r EXCEPT !.active = {}, !.unlinked = {}, !.running = TRUE]
    <2>1. D = C
      BY <1>3
    <2>2. q = [r EXCEPT !.active = {}, !.unlinked = {}, !.running = TRUE, !.ready = @]
      BY <1>3
    <2>3. r \in EpRec
      <3>1. h.ep \in Eps
        BY <1>1, <1>2, HeadOf, AgentsAre DEF OwnOps
      <3> QED
        BY <3>1, <1>1, Typed
    <2> HIDE DEF r
    <2> QED
      BY <2>1, <2>2, <2>3 DEF EpRec
  <1> HIDE DEF h, D
  <1>5. h = Head(todo[a]) /\ Then(a, C)
    BY <1>2, <1>4 DEF h
  <1>6. a \in Subs /\ h \in Pend(todo[a]) /\ h.ep \in Own(a) /\ h.ep \in Eps /\ h.s = a /\ a # "hub" /\ a # "hcd"
    BY <1>1, <1>2, <1>5, HeadOf, AgentsAre DEF FreeOps, StopOps, OwnOps
  <1>7. r \in EpRec
    BY <1>1, <1>6, Typed
  <1> HIDE DEF r
  <1>8. q \in EpRec /\ q.use = r.use /\ q.stopping = r.stopping
    BY <1>4, <1>7 DEF EpRec
  <1> HIDE DEF q
  <1>9. ep' \in [Eps -> EpRec] /\ ep'[h.ep] = q /\ \A f \in Eps : f # h.ep => ep'[f] = ep[f]
    BY <1>1, <1>2, <1>6, <1>8, EpSet, Typed
  <1>10. \A e \in Eps : ep'[e].use = ep[e].use /\ ep'[e].stopping = ep[e].stopping
    BY <1>8, <1>9 DEF r
  <1>11. /\ C \in Seq(Entries) /\ Ordered(C) /\ C[1].op = "submit" /\ C[Len(C)].op = "bit" /\ C # <<>>
         /\ Len(C) = 2 * NUrbs /\ \A i \in 1..Len(C) : C[i].op = "submit" => 2 * C[i].v = i + 1
         /\ \A o \in Pend(C) : o.op \in {"submit", "bit"} /\ o.ep = h.ep /\ o.s = h.s /\ o.v \in Urbs
    <2>1. h.s \in Subs
      BY <1>6
    <2> QED
      BY <2>1, <1>6, SubmitsAre
  <1> HIDE DEF C
  <1>13. Fits(C, h) /\ MayCall(a, C, h)
    BY <1>2, <1>6, <1>11 DEF Fits, MayCall, OwnOps
  <1>14. Lists0
    BY <1>1 DEF Shape, Lists0
  <1>15. Quiet(h.ep)
    BY <1>1, <1>2, <1>5 DEF QuietDue
  <1>16. SameCard /\ SameSubs /\ SameReads /\ SameUse
    BY <1>2, <1>10 DEF SameCard, SameSubs, SameReads, SameUse
  <1>17. \A e \in Eps : AtHost(e)' = AtHost(e) /\ (Quiet(e)' <=> Quiet(e))
    BY <1>2 DEF AtHost, Quiet
  <1>18. SameIn
    BY <1>1, <1>2, <1>10, <1>17, AgentsAre DEF SameIn, Capture
  <1>19. todo' \in [Agents -> Seq(Entries)] /\ todo'[a] = C \o Tail(todo[a])
         /\ \A b \in Agents : b # a => todo'[b] = todo[b]
    BY <1>2, <1>5, <1>11, <1>14, ThenTodo
  <1>20. Lists'
    BY <1>1, <1>2, <1>5, <1>13, <1>14, ThenLists
  <1>21. Owned'
    BY <1>1, <1>2, <1>5, <1>13, <1>14, <1>16, ThenOwned
  <1>22. Alone'
    BY <1>1, <1>2, <1>5, <1>13, <1>14, <1>16, ThenAlone
  <1>23. Starting'
    <2>1. h.op \in StartOps => \A o \in Pend(C) : o.op \in StartOps
      BY <1>11 DEF StartOps
    <2>2. h.ep \in subs'[a].started
      BY <1>1, <1>2, <1>6 DEF Starting, Under
    <2>3. \A o \in Pend(C) : o.op \in Under =>
            a \in Subs /\ h.op \in {"start", "inc", "go"} /\ h.ep \in subs'[a].started
      BY <2>2, <1>2, <1>6
    <2>4. \A s \in Subs : \A e \in subs[s].started : e \in subs'[s].started
      BY <1>2
    <2> QED
      BY <2>1, <2>3, <2>4, <1>1, <1>2, <1>5, <1>13, <1>14, <1>16, ThenStarting
  <1>24. Uses'
    <2>1. h.op \notin {"inc", "dec"} /\ \A o \in Pend(C) : o.op \notin {"inc", "dec"}
      BY <1>2, <1>11
    <2> QED
      BY <2>1, <1>1, <1>2, <1>5, <1>11, <1>14, <1>16, ThenUsesSame
  <1>25. Masks'
    <2>1. \A e \in Eps : \A u \in AtHost(e)' : u \in AtHost(e) /\ (u \in ep[e].active => u \in ep'[e].active)
      BY <1>9, <1>15, <1>17 DEF Quiet
    <2>2. h.op # "bit"
      BY <1>2
    <2> QED
      BY <2>1, <2>2, <1>1, <1>2, <1>5, <1>11, <1>14, ThenMasks
  <1>26. QuietDue'
    <2>1. \A e \in Eps : AtHost(e)' \subseteq AtHost(e)
      BY <1>17
    <2>2. h.op # "wait" /\ C[1].op \notin {"realloc", "kfree", "go"}
      BY <1>2, <1>11
    <2> QED
      BY <2>1, <2>2, <1>1, <1>2, <1>5, <1>11, <1>14, ThenQuietDue
  <1>27. CaptList'
    <2>1. CASE a = "capt"
      <3>1. h.ep = "in"
        BY <2>1, <1>6, AgentsAre
      <3>2. Quiet("in")'
        BY <3>1, <1>15, <1>17, AgentsAre
      <3> QED
        BY <2>1, <3>2, <1>2, <1>5, <1>11, <1>19, GoCaptList
    <2>2. CASE a # "capt"
      BY <2>2, <1>1, <1>2, <1>5, <1>11, <1>14, <1>18, ThenCaptList, SizesAssumption
    <2> QED
      BY <2>1, <2>2
  <1>28. Capture'
    <2>1. "in" \in subs["capt"].started => "in" \in subs'["capt"].started
      BY <1>2
    <2>2. h.op \notin {"mute", "dec", "stop", "end"}
      BY <1>2
    <2> QED
      BY <2>1, <2>2, <1>1, <1>2, <1>5, <1>13, <1>14, <1>16, <1>18, ThenCapture
  <1>29. Shape' /\ Plug' /\ InHandler'
    BY <1>1, <1>2, <1>19, ZenonT(60) DEF Shape, Plug, InHandler
  <1>30. TypeOK'
    BY <1>1, <1>2, <1>9 DEF TypeOK, EpRec
  <1> QED
    BY <1>20, <1>21, <1>22, <1>23, <1>24, <1>25, <1>26, <1>27, <1>28, <1>29, <1>30 DEF IInv

\* An URB that is submitted is the first of those that are left.
LEMMA SubmitCaptList ==
  ASSUME IInv, todo["capt"] # <<>>, NEW h, h = Head(todo["capt"]), h.op = "submit", h.v \in Urbs,
         todo'["capt"] = Tail(todo["capt"]), ~chip.gone,
         urb' = [urb EXCEPT !["in"][h.v] = "bus"], UNCHANGED <<ep, subs, chip>>
  PROVE  CaptList' /\ \E p \in Pend(todo'["capt"]) : RunEnd(p)
  <1> DEFINE L == todo["capt"]
             N == todo'["capt"]
  <1>1. TypeOK /\ Shape /\ Owned /\ CaptList
    BY DEF IInv
  <1>2. L \in Seq(Entries) /\ L # <<>> /\ N = Tail(L) /\ h = Head(L) /\ h \in Pend(L)
    <2>1. "capt" \in Agents
      BY AgentsAre
    <2>2. L \in Seq(Entries)
      BY <2>1, <1>1 DEF Shape
    <2> QED
      BY <2>2, PendOf
  <1>3. /\ \A i \in 1..Len(L) : L[i].op = "submit" => 2 * L[i].v = 2 * NUrbs + 3 + i - Len(L)
        /\ \A p \in Pend(L) : p.op \notin {"start", "inc", "go"}
        /\ \E p \in Pend(L) : RunEnd(p)
        /\ \A p \in Pend(L) : p.op \in StartOps /\ p.op # "wait" /\ (p.op = "end" => RunEnd(p))
        /\ \A p \in Pend(L) : p.op = "submit" => urb["in"][p.v] \in {"idle", "none"}
    BY <1>1, <1>2 DEF CaptList, Under
  <1>3a. \A p \in Pend(L) : p.op = "submit" => p.v \in Urbs
    BY <1>1, AgentsAre DEF Owned
  <1> HIDE DEF L, N
  <1>4. /\ Pend(L) = {h} \cup Pend(N) /\ h = L[1] /\ Len(L) \in Nat /\ Len(L) >= 1
        /\ N \in Seq(Entries) /\ Len(N) = Len(L) - 1 /\ \A i \in 1..Len(N) : i + 1 \in 2..Len(L) /\ N[i] = L[i + 1]
    <2>1. /\ h = L[1] /\ Len(L) \in Nat /\ Len(L) >= 1
          /\ N \in Seq(Entries) /\ Len(N) = Len(L) - 1 /\ \A i \in 1..Len(N) : i + 1 \in 2..Len(L) /\ N[i] = L[i + 1]
      BY <1>2
    <2>2. Pend(L) = {h} \cup Pend(N)
      BY <1>2, PendOf
    <2> QED
      BY <2>1, <2>2
  <1>5. NUrbs \in Nat
    BY SizesAssumption
  <1>6. ASSUME NEW i \in 1..Len(N), N[i].op = "submit"
        PROVE  2 * N[i].v = 2 * NUrbs + 3 + i - Len(N) /\ N[i].v # h.v
    <2> DEFINE j == i + 1
    <2>1. j \in 1..Len(L) /\ j > 1 /\ N[i] = L[j] /\ 1 \in 1..Len(L)
      BY <1>4
    <2>2. 2 * L[j].v = 2 * NUrbs + 3 + j - Len(L)
      BY <2>1, <1>3, <1>6
    <2>3. 2 * h.v = 2 * NUrbs + 3 + 1 - Len(L)
      BY <2>1, <1>3, <1>4
    <2>4. j - Len(L) = i - Len(N)
      BY <1>4
    <2>5. 2 * NUrbs + 3 + j - Len(L) = 2 * NUrbs + 3 + i - Len(N)
      BY <2>4, <1>4, <1>5
    <2>6. 2 * NUrbs + 3 + j - Len(L) # 2 * NUrbs + 3 + 1 - Len(L)
      BY <2>1, <1>4, <1>5
    <2> QED
      BY <2>1, <2>2, <2>3, <2>5, <2>6
  <1>7. \A o \in Pend(N) : o.op \notin {"start", "inc", "go"}
    BY <1>3, <1>4
  <1>8. \A i \in 1..Len(N) : N[i].op \notin {"start", "inc", "go"}
    BY <1>7 DEF Pend
  <1>9. ASSUME NEW o \in Pend(N), o.op = "submit"
        PROVE  urb'["in"][o.v] \in {"idle", "none"} /\ (chip'.gone => Quiet("in")')
    <2>1. o.v # h.v
      BY <1>6, <1>9 DEF Pend
    <2>2. urb["in"][o.v] \in {"idle", "none"} /\ o.v \in Urbs
      BY <1>3, <1>3a, <1>4, <1>9
    <2>3. urb'["in"][o.v] = urb["in"][o.v]
      <3>1. urb["in"] \in [Urbs -> Places] /\ urb \in [Eps -> [Urbs -> Places]] /\ "in" \in Eps
        BY <1>1, AgentsAre DEF TypeOK
      <3> QED
        BY <3>1, <2>1, <2>2
    <2> QED
      BY <2>2, <2>3
  <1>10. \E p \in Pend(N) : RunEnd(p)
    <2>1. ~RunEnd(h)
      BY DEF RunEnd
    <2> QED
      BY <2>1, <1>3, <1>4
  <1>11. \A p \in Pend(N) : p.op \in StartOps /\ p.op # "wait" /\ p.op # "params" /\ (p.op = "end" => RunEnd(p))
    BY <1>3, <1>4 DEF StartOps
  <1>12. \A p \in Pend(N) : p.op = "end" => p.v # "prepared"
    BY <1>11 DEF RunEnd
  <1> QED
    BY <1>6, <1>7, <1>8, <1>9, <1>10, <1>11, <1>12 DEF CaptList, N

LEMMA SubmitSafe ==
  ASSUME IInv, NEW a \in Agents, Submit(a)
  PROVE  IInv'
  <1> DEFINE h == Head(todo[a])
  <1>1. TypeOK /\ Shape /\ Lists /\ Owned /\ Alone /\ Uses /\ Starting /\ CaptList /\ Capture
        /\ Plug /\ InHandler /\ Masks /\ QuietDue
    BY DEF IInv
  <1>2. todo[a] # <<>> /\ h.op = "submit" /\ Then(a, <<>>) /\ UNCHANGED <<ep, subs, chip, irq>>
        /\ urb' = [urb EXCEPT ![h.ep][h.v] = "bus"] /\ ~chip.gone /\ urb[h.ep][h.v] = "idle"
    BY DEF Submit, Due, Accepts
  <1> HIDE DEF h
  <1>3. h = Head(todo[a])
    BY DEF h
  <1>4. a \in Subs /\ h \in Pend(todo[a]) /\ h.ep \in Own(a) /\ h.ep \in Eps /\ h.s = a /\ h.v \in Urbs
        /\ a # "hub" /\ a # "hcd" /\ todo[a] \in Seq(Entries)
    BY <1>1, <1>2, <1>3, HeadOf, AgentsAre DEF FreeOps, StopOps, OwnOps
  <1>5. Lists0 /\ Calm(a, <<>>, h) /\ <<>> \in Seq(Entries) /\ Pend(<<>>) = {}
    <2>1. Lists0
      BY <1>1 DEF Shape, Lists0
    <2>1a. <<>> \in Seq(Entries)
      OBVIOUS
    <2>2. h.op # "end" /\ h.op # "wait" /\ h.op # "sync"
      BY <1>2
    <2>3. Calm(a, <<>>, h)
      BY <2>2, NoCalls
    <2> QED
      BY <2>1, <2>1a, <2>3, PendTuples
  <1>6. Fits(<<>>, h) /\ MayCall(a, <<>>, h)
    BY <1>5 DEF Calm
  <1>7. SameCard /\ SameSubs /\ SameReads /\ SameUse
    BY <1>2 DEF SameCard, SameSubs, SameReads, SameUse
  <1>8. /\ todo' \in [Agents -> Seq(Entries)] /\ todo'[a] = Tail(todo[a])
        /\ \A b \in Agents : b # a => todo'[b] = todo[b]
        /\ Pend(todo[a]) = {h} \cup Pend(Tail(todo[a]))
    <2>1. /\ todo' \in [Agents -> Seq(Entries)] /\ todo'[a] = <<>> \o Tail(todo[a])
          /\ \A b \in Agents : b # a => todo'[b] = todo[b]
          /\ Pend(todo[a]) = {h} \cup Pend(Tail(todo[a]))
      BY <1>2, <1>3, <1>5, ThenTodo
    <2>2. Tail(todo[a]) \in Seq(Entries)
      BY <1>2, <1>4
    <2>3. <<>> \o Tail(todo[a]) = Tail(todo[a])
      BY <2>2, ConcatEmptySeq
    <2> QED
      BY <2>1, <2>3
  <1>9. Due(a, "bit")' /\ Head(todo'[a]).ep = h.ep /\ Head(todo'[a]).v = h.v
    <2> DEFINE L == todo[a]
               N == todo'[a]
    <2>1. Ordered(L) /\ L[Len(L)].op = "end" /\ L \in Seq(Entries) /\ L # <<>> /\ N = Tail(L)
      BY <1>1, <1>2, <1>4, <1>8 DEF Lists
    <2>2. h = Head(L)
      BY <1>3
    <2> HIDE DEF L, N
    <2>3. Len(L) \in Nat /\ Len(L) >= 2 /\ h = L[1]
      BY <2>1, <2>2, <1>2
    <2>4. N # <<>> /\ Head(N) = L[2]
      BY <2>1, <2>3
    <2>5. Pair(L[2 - 1], L[2])
      <3>1. 2 \in 2..Len(L)
        BY <2>3
      <3> QED
        BY <3>1, <2>1 DEF Ordered
    <2>6. Pair(h, L[2])
      BY <2>3, <2>5
    <2>7. L[2].op = "bit" /\ L[2].ep = h.ep /\ L[2].v = h.v
      BY <2>6, <1>2 DEF Pair
    <2> QED
      BY <2>4, <2>7 DEF N, Due
  <1>10. /\ urb' \in [Eps -> [Urbs -> Places]] /\ urb'[h.ep][h.v] = "bus"
         /\ \A e \in Eps, u \in Urbs : e # h.ep \/ u # h.v => urb'[e][u] = urb[e][u]
    <2>1. urb \in [Eps -> [Urbs -> Places]] /\ "bus" \in Places
      BY <1>1 DEF TypeOK, Places
    <2> QED
      BY <2>1, <1>2, <1>4
  <1>11. \A e \in Eps : AtHost(e)' = IF e = h.ep THEN AtHost(e) \cup {h.v} ELSE AtHost(e)
    BY <1>4, <1>10 DEF AtHost
  <1>12. Lists'
    BY <1>1, <1>2, <1>3, <1>5, <1>6, ThenLists
  <1>13. Owned'
    BY <1>1, <1>2, <1>3, <1>5, <1>6, <1>7, ThenOwned
  <1>14. Alone'
    BY <1>1, <1>2, <1>3, <1>5, <1>6, <1>7, ThenAlone
  <1>15. Starting'
    <2>1. \A o \in Pend(<<>>) : FALSE
      BY <1>5
    <2>2. \A s \in Subs : \A e \in subs[s].started : e \in subs'[s].started
      BY <1>2
    <2> QED
      BY <2>1, <2>2, <1>1, <1>2, <1>3, <1>5, <1>6, <1>7, ThenStarting
  <1>16. Uses'
    BY <1>1, <1>2, <1>3, <1>5, <1>7, ThenUsesSame
  <1>17. InHandler'
    <2>1. irq' = irq
      BY <1>2
    <2>2. \A e \in Eps, u \in Urbs : urb'[e][u] = "handler" <=> urb[e][u] = "handler"
      BY <1>2, <1>10
    <2>3. irq.ep \in Eps /\ irq.urb \in Urbs
      BY <1>1 DEF Shape
    <2> QED
      BY <2>1, <2>2, <2>3, <1>1 DEF InHandler
  <1>18. ~chip.disconnected /\ h.ep \in subs[a].started
    BY <1>1, <1>2, <1>4 DEF Starting, Under
  <1>19. Masks'
    <2> SUFFICES ASSUME NEW e \in Eps, NEW u \in AtHost(e)', u \notin ep'[e].active
                 PROVE  \E b \in Agents : Due(b, "bit")' /\ Head(todo'[b]).ep = e /\ Head(todo'[b]).v = u
      BY DEF Masks
    <2>1. CASE e = h.ep /\ u = h.v
      BY <2>1, <1>9
    <2>2. CASE ~(e = h.ep /\ u = h.v)
      <3>1. u \in AtHost(e) /\ u \notin ep[e].active
        BY <2>2, <1>2, <1>11
      <3>2. PICK b \in Agents : Due(b, "bit") /\ Head(todo[b]).ep = e /\ Head(todo[b]).v = u
        BY <3>1, <1>1 DEF Masks
      <3>3. b # a
        BY <3>2, <1>2, <1>3 DEF Due
      <3> QED
        BY <3>2, <3>3, <1>8 DEF Due
    <2> QED
      BY <2>1, <2>2
  <1>20. QuietDue'
    <2> SUFFICES ASSUME NEW b \in Agents, todo'[b] # <<>>, Head(todo'[b]).op \in {"realloc", "kfree", "go"},
                        NEW e, e = Head(todo'[b]).ep
                 PROVE  AtHost(e)' = {}
      BY DEF QuietDue, Quiet, AtHost
    <2>1. b # a
      BY <1>9 DEF Due
    <2>2. todo'[b] = todo[b]
      BY <2>1, <1>8
    <2>3. AtHost(e) = {}
      BY <2>2, <1>1 DEF QuietDue, Quiet
    <2>4. b # "hub"
      <3> SUFFICES ASSUME b = "hub" PROVE FALSE
        OBVIOUS
      <3>1. todo["hub"] # <<>>
        BY <2>2
      <3> QED
        BY <3>1, <1>1, <1>18, AgentsAre, HeadOf
    <2>5. b # "hcd"
      <3> SUFFICES ASSUME b = "hcd" PROVE FALSE
        OBVIOUS
      <3>1. todo["hcd"] # <<>> /\ Head(todo["hcd"]).op \in {"realloc", "kfree", "go"}
        BY <2>2
      <3> QED
        BY <3>1, <1>1, AgentsAre, HeadOf DEF StopOps
    <2>6. b \in Subs /\ e \in Own(b) /\ e \in Eps
      <3>1. b \in Subs
        BY <2>4, <2>5, AgentsAre
      <3>2. todo[b] # <<>> /\ Head(todo[b]).op \in {"realloc", "kfree", "go"} /\ e = Head(todo[b]).ep
        BY <2>2
      <3>3. Head(todo[b]).op \in CallOps
        BY <3>1, <3>2, <1>1, HeadOf
      <3>4. Head(todo[b]).op \in OwnOps
        BY <3>2, <3>3 DEF CallOps, OwnOps
      <3> QED
        BY <3>1, <3>2, <3>4, <1>1, HeadOf
    <2>7. e # h.ep
      BY <2>1, <2>6, <1>4, AgentsAre
    <2> QED
      BY <2>3, <2>6, <2>7, <1>11
  <1>21. CaptList' /\ Capture'
    <2>1. CASE a = "capt"
      <3>1. h.ep = "in"
        BY <2>1, <1>4, AgentsAre
      <3>2. urb' = [urb EXCEPT !["in"][h.v] = "bus"]
        BY <3>1, <1>2
      <3>3. CaptList' /\ \E p \in Pend(todo'["capt"]) : RunEnd(p)
        BY <2>1, <3>2, <1>2, <1>3, <1>4, <1>8, SubmitCaptList
      <3>4. (\E u \in Urbs : urb'["in"][u] = "none") => \A u \in Urbs : urb'["in"][u] = "none"
        <4> SUFFICES ASSUME NEW u \in Urbs, urb'["in"][u] = "none" PROVE FALSE
          OBVIOUS
        <4>1. urb["in"][u] = "none"
          BY <3>1, <1>10, AgentsAre
        <4>2. urb["in"][h.v] = "none"
          BY <4>1, <1>1, <1>4 DEF Capture
        <4> QED
          BY <4>2, <3>1, <1>2
      <3>5. "in" \in subs'["capt"].started
        BY <2>1, <3>1, <1>2, <1>18
      <3> QED
        BY <3>3, <3>4, <3>5 DEF Capture
    <2>2. CASE a # "capt"
      <3>1. h.ep # "in"
        BY <2>2, <1>4, AgentsAre
      <3>2. "in" \in Eps /\ AtHost("in")' = AtHost("in")
        BY <3>1, <1>11, AgentsAre
      <3>3. \A u \in Urbs : urb'["in"][u] = urb["in"][u]
        BY <3>1, <1>10, AgentsAre
      <3>4. SameIn
        BY <3>2, <3>3, <1>1, <1>2 DEF SameIn, Capture, Quiet
      <3>5. CaptList'
        BY <2>2, <3>4, <1>1, <1>2, <1>3, <1>5, ThenCaptList, SizesAssumption
      <3>6. Capture'
        BY <2>2, <3>1, <3>4, <1>1, <1>2, <1>3, <1>5, <1>6, <1>7, ThenCapture
      <3> QED
        BY <3>5, <3>6
    <2> QED
      BY <2>1, <2>2
  <1>22. Shape' /\ Plug'
    BY <1>1, <1>2, <1>8 DEF Shape, Plug
  <1>23. TypeOK'
    BY <1>1, <1>2, <1>10 DEF TypeOK
  <1> QED
    BY <1>12, <1>13, <1>14, <1>15, <1>16, <1>17, <1>19, <1>20, <1>21, <1>22, <1>23 DEF IInv

-----------------------------------------------------------------------------
(* The calls *)

LEMMA FreeBufferSafe ==
  ASSUME IInv, NEW s \in Subs, FreeBuffer(s)
  PROVE  IInv'
  <1> DEFINE h == Head(todo[s])
             r == [subs[s] EXCEPT !.buffer = FALSE, !.reading = FALSE]
  <1>1. TypeOK /\ Shape /\ Lists /\ Owned /\ Alone /\ Uses /\ Starting /\ CaptList /\ Capture
        /\ Plug /\ InHandler /\ Masks /\ QuietDue
    BY DEF IInv
  <1>2. todo[s] # <<>> /\ h.op = "vfree" /\ Then(s, <<>>) /\ UNCHANGED <<ep, urb, chip, irq>>
        /\ subs' = [subs EXCEPT ![s] = r]
    BY DEF FreeBuffer, Due
  <1> HIDE DEF h
  <1>3. h = Head(todo[s]) /\ s \in Agents /\ s # "hub" /\ s # "hcd"
    BY AgentsAre DEF h
  <1>4. h \in Pend(todo[s]) /\ todo[s] \in Seq(Entries)
    BY <1>1, <1>2, <1>3, HeadOf
  <1>5. subs[s] \in SubRec
    BY <1>1, Typed
  <1>6. /\ r \in SubRec /\ r.state = subs[s].state /\ r.locked = subs[s].locked /\ r.reading = FALSE
        /\ r.eps = subs[s].eps /\ r.started = subs[s].started
    BY <1>5 DEF SubRec
  <1> HIDE DEF r
  <1>7. subs' \in [Subs -> SubRec] /\ subs'[s] = r /\ \A t \in Subs : t # s => subs'[t] = subs[t]
    BY <1>1, <1>2, <1>6, SubSet, Typed
  <1>8. Lists0
    BY <1>1 DEF Shape, Lists0
  <1>9. Pend(<<>>) = {} /\ <<>> \in Seq(Entries)
    BY PendTuples
  <1>10. Calm(s, <<>>, h)
    <2>1. h.op # "end" /\ h.op # "wait" /\ h.op # "sync"
      BY <1>2
    <2> QED
      BY <2>1, NoCalls
  <1>11. Fits(<<>>, h) /\ MayCall(s, <<>>, h) /\ (s = "capt" => CaptMay(<<>>, h))
    BY <1>10 DEF Calm
  <1>12. SameCard /\ SameSubs /\ SameUse
    BY <1>2, <1>6, <1>7 DEF SameCard, SameSubs, SameUse
  <1>13. \A t \in Subs : subs'[t].started = subs[t].started
    BY <1>12 DEF SameUse
  <1>14. \A e \in Eps : AtHost(e)' = AtHost(e) /\ (Quiet(e)' <=> Quiet(e))
    BY <1>2 DEF AtHost, Quiet
  <1>15. SameIn
    BY <1>1, <1>2, <1>13, <1>14, AgentsAre DEF SameIn, Capture
  <1>16. /\ todo' \in [Agents -> Seq(Entries)] /\ \A b \in Agents : b # s => todo'[b] = todo[b]
         /\ Pend(todo'[s]) \subseteq Pend(todo[s])
    BY <1>2, <1>3, <1>8, <1>9, ThenTodo
  <1>17. Lists'
    BY <1>1, <1>2, <1>3, <1>8, <1>11, ThenLists
  <1>18. Owned'
    BY <1>1, <1>2, <1>3, <1>8, <1>11, <1>12, ThenOwned
  <1>19. Alone'
    BY <1>1, <1>2, <1>3, <1>8, <1>11, <1>12, ThenAlone
  <1>20. Uses'
    <2>1. h.op \notin {"inc", "dec"} /\ \A o \in Pend(<<>>) : o.op \notin {"inc", "dec"}
      BY <1>2, <1>9
    <2> QED
      BY <2>1, <1>1, <1>2, <1>3, <1>8, <1>9, <1>12, ThenUsesSame
  <1>21. Masks'
    <2>1. \A e \in Eps : \A u \in AtHost(e)' : u \in AtHost(e) /\ (u \in ep[e].active => u \in ep'[e].active)
      BY <1>2, <1>14
    <2>2. h.op # "bit"
      BY <1>2
    <2> QED
      BY <2>1, <2>2, <1>1, <1>2, <1>3, <1>8, <1>9, ThenMasks
  <1>22. QuietDue'
    <2>1. \A e \in Eps : AtHost(e)' \subseteq AtHost(e)
      BY <1>14
    <2>2. h.op # "wait"
      BY <1>2
    <2> QED
      BY <2>1, <2>2, <1>1, <1>2, <1>3, <1>8, <1>9, ThenQuietDue
  <1>23. CaptList'
    BY <1>1, <1>2, <1>3, <1>8, <1>9, <1>11, <1>15, ThenCaptList, SizesAssumption
  <1>24. Capture'
    <2>1. "in" \in subs["capt"].started => "in" \in subs'["capt"].started
      BY <1>13, AgentsAre
    <2>2. h.op \notin {"mute", "dec", "stop", "end"}
      BY <1>2
    <2> QED
      BY <2>1, <2>2, <1>1, <1>2, <1>3, <1>8, <1>11, <1>12, <1>15, ThenCapture
  <1>25. Starting'
    <2>1. \A o \in Pend(todo[s]) : o.op \notin Under \cup {"start"}
      BY <1>1, <1>2, <1>4 DEF Starting
    <2>2. \A t \in Subs : t # s => subs'[t] = subs[t] /\ todo'[t] = todo[t]
      BY <1>7, <1>16, AgentsAre
    <2>3. chip' = chip
      BY <1>2
    <2> QED
      BY <2>1, <2>2, <2>3, <1>1, <1>16 DEF Starting
  <1>26. Plug'
    BY <1>1, <1>2, <1>6, <1>7 DEF Plug
  <1>27. Shape' /\ InHandler'
    BY <1>1, <1>2, <1>16, ZenonT(60) DEF Shape, InHandler
  <1>28. TypeOK'
    BY <1>1, <1>2, <1>7 DEF TypeOK, SubRec, States
  <1> QED
    BY <1>17, <1>18, <1>19, <1>20, <1>21, <1>22, <1>23, <1>24, <1>25, <1>26, <1>27, <1>28 DEF IInv

LEMMA EndSafe ==
  ASSUME IInv, NEW a \in Agents, a # "hub", End(a)
  PROVE  IInv'
  <1> DEFINE h == Head(todo[a])
             r == [subs[h.s] EXCEPT !.state = h.v, !.locked = FALSE, !.reading = FALSE]
  <1>1. TypeOK /\ Shape /\ Lists /\ Owned /\ Alone /\ Uses /\ Starting /\ CaptList /\ Capture
        /\ Plug /\ InHandler /\ Masks /\ QuietDue
    BY DEF IInv
  <1>2. todo[a] # <<>> /\ h.op = "end" /\ Then(a, <<>>) /\ UNCHANGED <<ep, urb, chip, irq>>
        /\ subs' = [subs EXCEPT ![h.s] = r]
    BY DEF End, Due
  <1> HIDE DEF h
  <1>3. h = Head(todo[a])
    BY DEF h
  <1>4. /\ h.s \in Subs /\ h.v \in States /\ (a \in Subs => h.s = a)
        /\ a = "hcd" => h.v = "setup" /\ HcdFor(h.s)
        /\ todo[a] \in Seq(Entries)
    BY <1>1, <1>2, <1>3, HeadOf, AgentsAre DEF States
  <1>5. Tail(todo[a]) = <<>> /\ Pend(todo[a]) = {h}
    <2>1. Ordered(todo[a])
      BY <1>1 DEF Lists
    <2> QED
      BY <2>1, <1>2, <1>3, <1>4, EndIsLast
  <1>6. subs[h.s] \in SubRec
    BY <1>1, <1>4, Typed
  <1>7. /\ r \in SubRec /\ r.state = h.v /\ r.locked = FALSE /\ r.reading = FALSE
        /\ r.eps = subs[h.s].eps /\ r.started = subs[h.s].started
    BY <1>4, <1>6 DEF SubRec
  <1> HIDE DEF r
  <1>8. subs' \in [Subs -> SubRec] /\ subs'[h.s] = r /\ \A t \in Subs : t # h.s => subs'[t] = subs[t]
    BY <1>1, <1>2, <1>4, <1>7, SubSet, Typed
  <1>9. Lists0
    BY <1>1 DEF Shape, Lists0
  <1>10. Pend(<<>>) = {} /\ <<>> \in Seq(Entries) /\ Ordered(<<>>)
    BY PendTuples, OrderedTuples
  <1>11. Fits(<<>>, h) /\ MayCall(a, <<>>, h)
    BY <1>10 DEF Fits, MayCall
  <1>12. SameCard /\ SameUse
    BY <1>2, <1>7, <1>8 DEF SameCard, SameUse
  <1>13. \A t \in Subs : subs'[t].started = subs[t].started /\ subs'[t].eps = subs[t].eps
    BY <1>7, <1>8
  <1>14. \A e \in Eps : AtHost(e)' = AtHost(e) /\ (Quiet(e)' <=> Quiet(e))
    BY <1>2 DEF AtHost, Quiet
  <1>15. SameIn
    BY <1>1, <1>2, <1>13, <1>14, AgentsAre DEF SameIn, Capture
  <1>16. /\ todo' \in [Agents -> Seq(Entries)] /\ \A b \in Agents : b # a => todo'[b] = todo[b]
         /\ todo'[a] = <<>> /\ Pend(todo'[a]) = {}
    <2>1. /\ todo' \in [Agents -> Seq(Entries)] /\ \A b \in Agents : b # a => todo'[b] = todo[b]
          /\ todo'[a] = <<>> \o Tail(todo[a])
      BY <1>2, <1>3, <1>9, <1>10, ThenTodo
    <2>2. <<>> \o <<>> = <<>>
      BY <1>10, ConcatEmptySeq
    <2> QED
      BY <2>1, <2>2, <1>5, <1>10
  <1>17. Lists'
    BY <1>1, <1>2, <1>3, <1>9, <1>11, ThenLists
  <1>18. Owned'
    BY <1>1, <1>2, <1>3, <1>9, <1>11, <1>12, ThenOwned
  <1>19. a \in Subs \/ a = "hcd"
    BY AgentsAre
  <1>20. \A t \in Subs : t # a => todo'[t] = todo[t]
    BY <1>16, AgentsAre
  <1>21. a \in Subs => /\ a = h.s /\ todo'["hcd"] = todo["hcd"] /\ \A t \in Subs : HcdFor(t)' <=> HcdFor(t)
    BY <1>4, <1>16, AgentsAre DEF HcdFor
  <1>22. a = "hcd" => /\ \A t \in Subs : todo'[t] = todo[t] /\ ~HcdFor(t)'
    BY <1>16, <1>20, AgentsAre DEF HcdFor
  <1>23. ASSUME a \in Subs, ~chip.disconnected PROVE ~HcdFor(a)
    BY <1>1, <1>2, <1>23 DEF Alone
  <1>24. Alone'
    <2> SUFFICES ASSUME NEW t \in Subs
                 PROVE  /\ HcdFor(t)' => Idle(t)'
                        /\ HcdFor(t)' /\ ~chip'.disconnected => subs'[t].locked /\ todo'[t] = <<>>
                        /\ subs'[t].state = "running" /\ ~subs'[t].locked =>
                              Idle(t)' /\ (chip'.disconnected \/ todo'[t] = <<>>)
      BY DEF Alone
    <2>1. CASE a = t
      <3>1. Idle(t)'
        BY <2>1, <1>16 DEF Idle
      <3>2. ~(HcdFor(t)' /\ ~chip'.disconnected)
        BY <2>1, <1>2, <1>21, <1>23
      <3>3. todo'[t] = <<>>
        BY <2>1, <1>16
      <3> QED
        BY <3>1, <3>2, <3>3
    <2>2. CASE a = "hcd"
      <3>1. ~HcdFor(t)' /\ (Idle(t)' <=> Idle(t))
        BY <2>2, <1>22 DEF Idle
      <3>2. t = h.s => subs'[t].state # "running"
        BY <2>2, <1>4, <1>7, <1>8
      <3>3. t # h.s => subs'[t] = subs[t]
        BY <1>8
      <3>4. todo'[t] = todo[t] /\ chip'.disconnected = chip.disconnected
        BY <2>2, <1>2, <1>22
      <3> QED
        BY <3>1, <3>2, <3>3, <3>4, <1>1 DEF Alone
    <2>3. CASE a # t /\ a \in Subs
      <3>1. subs'[t] = subs[t] /\ todo'[t] = todo[t] /\ (HcdFor(t)' <=> HcdFor(t)) /\ (Idle(t)' <=> Idle(t))
        BY <2>3, <1>8, <1>20, <1>21 DEF Idle
      <3> QED
        BY <3>1, <1>1, <1>2 DEF Alone
    <2> QED
      BY <2>1, <2>2, <2>3, <1>19
  <1>25. Starting'
    <2>1. \A o \in Pend(todo'[h.s]) : o.op \notin Under \cup {"start"}
      <3>1. CASE a \in Subs
        BY <3>1, <1>4, <1>16
      <3>2. CASE a = "hcd"
        BY <3>2, <1>1, <1>4, <1>22 DEF Alone, Idle, Under
      <3> QED
        BY <3>1, <3>2, <1>19
    <2>2. \A t \in Subs : t # h.s => subs'[t] = subs[t] /\ todo'[t] = todo[t]
      BY <1>4, <1>8, <1>19, <1>20, <1>22
    <2>3. chip' = chip
      BY <1>2
    <2> QED
      BY <2>1, <2>2, <2>3, <1>1, <1>4 DEF Starting
  <1>26. Uses'
    <2>1. h.op \notin {"inc", "dec"} /\ \A o \in Pend(<<>>) : o.op \notin {"inc", "dec"}
      BY <1>2, <1>10
    <2> QED
      BY <2>1, <1>1, <1>2, <1>3, <1>9, <1>10, <1>12, ThenUsesSame
  <1>27. Masks'
    <2>1. \A e \in Eps : \A u \in AtHost(e)' : u \in AtHost(e) /\ (u \in ep[e].active => u \in ep'[e].active)
      BY <1>2, <1>14
    <2>2. h.op # "bit"
      BY <1>2
    <2> QED
      BY <2>1, <2>2, <1>1, <1>2, <1>3, <1>9, <1>10, ThenMasks
  <1>28. QuietDue'
    <2>1. \A e \in Eps : AtHost(e)' \subseteq AtHost(e)
      BY <1>14
    <2>2. h.op # "wait"
      BY <1>2
    <2> QED
      BY <2>1, <2>2, <1>1, <1>2, <1>3, <1>9, <1>10, ThenQuietDue
  <1>29. CaptList'
    <2>1. CASE a = "capt"
      <3>1. todo'["capt"] = <<>> /\ Pend(todo'["capt"]) = {}
        BY <2>1, <1>16
      <3>2. \A i \in 1..Len(todo'["capt"]) : FALSE
        BY <3>1
      <3> QED
        BY <3>1, <3>2 DEF CaptList
    <2>2. CASE a # "capt"
      BY <2>2, <1>1, <1>2, <1>9, <1>10, <1>15, ThenCaptList, SizesAssumption
    <2> QED
      BY <2>1, <2>2
  <1>30. Capture'
    <2>0. "capt" \in Subs /\ "capt" \in Agents /\ "hcd" \in Agents /\ "in" \in Eps
      BY AgentsAre
    <2>1. (\E u \in Urbs : urb'["in"][u] = "none") => \A u \in Urbs : urb'["in"][u] = "none"
      BY <1>1, <1>2 DEF Capture
    <2>2. \A name, e : name # "end" => (Doing("capt", name, e)' <=> Doing("capt", name, e))
      <3>1. CASE a = "play"
        <4>1. todo'["capt"] = todo["capt"] /\ todo'["hcd"] = todo["hcd"]
          BY <3>1, <1>16, <2>0
        <4> QED
          BY <4>1 DEF Doing
      <3>2. CASE a = "capt" \/ a = "hcd"
        <4>1. Pend(todo'["capt"]) \cup Pend(todo'["hcd"]) \subseteq Pend(todo["capt"]) \cup Pend(todo["hcd"])
              /\ Pend(todo["capt"]) \cup Pend(todo["hcd"]) \subseteq Pend(todo'["capt"]) \cup Pend(todo'["hcd"]) \cup {h}
          BY <3>2, <1>5, <1>16, <2>0
        <4> QED
          BY <4>1, <1>2 DEF Doing
      <3> QED
        BY <3>1, <3>2, <1>19, AgentsAre
    <2>3. subs'["capt"].started = subs["capt"].started /\ ep' = ep /\ chip' = chip /\ (Quiet("in")' <=> Quiet("in"))
      BY <1>2, <1>13, <1>14, <2>0
    <2>4. subs'["capt"].state = "prepared" => Quiet("in")' \/ \E o \in Pend(todo'["capt"]) : RunEnd(o)
      <3>1. CASE h.s = "capt"
        <4> SUFFICES ASSUME h.v = "prepared" PROVE Quiet("in")
          BY <3>1, <2>3, <1>7, <1>8
        <4>1. a = "capt"
          BY <3>1, <1>4, <1>19
        <4>2. Quiet("in") \/ \E p \in Pend(todo["capt"]) : p.op = "wait" \/ p.op = "sync"
          BY <4>1, <1>1, <1>2, <1>5 DEF CaptList
        <4> QED
          BY <4>1, <4>2, <1>2, <1>5
      <3>2. CASE h.s # "capt"
        <4>1. subs'["capt"] = subs["capt"] /\ todo'["capt"] = todo["capt"]
          BY <3>2, <2>0, <1>4, <1>8, <1>20
        <4> QED
          BY <4>1, <2>3, <1>1 DEF Capture
      <3> QED
        BY <3>1, <3>2
    <2>5. \/ chip'.disconnected \/ Quiet("in")' \/ ep'["in"].stopping \/ "in" \in subs'["capt"].started
          \/ Doing("capt", "mute", "in")' \/ Doing("capt", "dec", "in")'
      BY <2>2, <2>3, <1>1 DEF Capture
    <2>6. ASSUME "in" \in subs["capt"].started, ~chip.disconnected, ~Doing("capt", "stop", "in")
          PROVE  \/ subs'["capt"].state \in {"running", "paused"} /\ todo'["capt"] = <<>> /\ ~HcdFor("capt")'
                 \/ \E o \in Pend(todo'["capt"]) : RunEnd(o)
      <3>1. \/ subs["capt"].state \in {"running", "paused"} /\ todo["capt"] = <<>> /\ ~HcdFor("capt")
            \/ \E o \in Pend(todo["capt"]) : RunEnd(o)
        BY <2>6, <1>1 DEF Capture
      <3>2. CASE a = "capt"
        <4>1. RunEnd(h)
          BY <3>1, <3>2, <1>2, <1>5
        <4>2. subs'["capt"].state = "running"
          BY <3>2, <4>1, <1>4, <1>7, <1>8, <2>0 DEF RunEnd
        <4>3. ~HcdFor("capt")' /\ todo'["capt"] = <<>>
          BY <3>2, <2>0, <2>6, <1>16, <1>21, <1>23
        <4> QED
          BY <4>2, <4>3
      <3>3. CASE a = "play"
        <4>1. subs'["capt"] = subs["capt"] /\ todo'["capt"] = todo["capt"] /\ (HcdFor("capt")' <=> HcdFor("capt"))
          BY <3>3, <2>0, <1>4, <1>8, <1>20, <1>21, AgentsAre
        <4> QED
          BY <3>1, <4>1
      <3>4. CASE a = "hcd"
        <4>1. todo'["capt"] = todo["capt"] /\ ~HcdFor("capt")'
          BY <3>4, <1>22, <2>0
        <4>2. CASE h.s = "capt"
          <5>1. HcdFor("capt")
            BY <3>4, <4>2, <1>4
          <5> QED
            BY <3>1, <4>1, <5>1
        <4>3. CASE h.s # "capt"
          <5>1. subs'["capt"] = subs["capt"]
            BY <4>3, <1>8, <2>0
          <5> QED
            BY <3>1, <4>1, <5>1
        <4> QED
          BY <4>2, <4>3
      <3> QED
        BY <3>2, <3>3, <3>4, <1>19, AgentsAre
    <2> QED
      BY <2>1, <2>2, <2>3, <2>4, <2>5, <2>6 DEF Capture
  <1>31. Plug'
    BY <1>1, <1>2, <1>7, <1>8, <1>13 DEF Plug
  <1>32. Shape' /\ InHandler'
    BY <1>1, <1>2, <1>16, ZenonT(60) DEF Shape, InHandler
  <1>33. TypeOK'
    BY <1>1, <1>2, <1>8 DEF TypeOK, SubRec, States
  <1> QED
    BY <1>17, <1>18, <1>24, <1>25, <1>26, <1>27, <1>28, <1>29, <1>30, <1>31, <1>32, <1>33 DEF IInv

\* What an application may call for.
PlainOps == {"sync", "stop", "deact", "params", "ready", "start", "retire", "alloc", "vfree"}

Body(L, s) ==
    /\ L \in Seq(Entries)
    /\ \A o \in Pend(L) : o.s = s /\ o.op \in PlainOps /\ (o.op \in OwnOps => o.ep \in Own(s))
    /\ \A i, j \in 1..Len(L) : i < j /\ L[i].op = "start" => L[j].op \in {"start", "retire"}

\* One part of a call after the other.
Cat(X, Y) == X \o Y
StartLess(X) == \A o \in Pend(X) : o.op # "start"
OnlyStarts(X) == \A o \in Pend(X) : o.op \in {"start", "retire"}

LEMMA BodyJoin ==
  ASSUME NEW s, NEW X, NEW Y, Body(X, s), Body(Y, s), StartLess(X) \/ OnlyStarts(Y)
  PROVE  Body(Cat(X, Y), s) /\ Pend(Cat(X, Y)) = Pend(X) \cup Pend(Y)
  <1> DEFINE N == X \o Y
  <1>1. X \in Seq(Entries) /\ Y \in Seq(Entries)
    BY DEF Body
  <1>2. /\ N \in Seq(Entries) /\ Pend(N) = Pend(X) \cup Pend(Y)
        /\ \A i \in 1..Len(N) :
                IF i <= Len(X) THEN i \in 1..Len(X) /\ N[i] = X[i]
                               ELSE i - Len(X) \in 1..Len(Y) /\ N[i] = Y[i - Len(X)]
    BY <1>1, PendCat
  <1>3. Len(X) \in Nat /\ Len(Y) \in Nat /\ Len(N) \in Nat
    BY <1>1, <1>2
  <1> HIDE DEF N
  <1>4. ASSUME NEW i \in 1..Len(N), NEW j \in 1..Len(N), i < j, N[i].op = "start"
        PROVE  N[j].op \in {"start", "retire"}
    <2>1. CASE i <= Len(X)
      <3>1. i \in 1..Len(X) /\ N[i] = X[i]
        BY <2>1, <1>2
      <3>2. CASE j <= Len(X)
        <4>1. j \in 1..Len(X) /\ N[j] = X[j]
          BY <3>2, <1>2
        <4> QED
          BY <3>1, <4>1, <1>4 DEF Body
      <3>3. CASE ~(j <= Len(X))
        <4>1. X[i] \in Pend(X) /\ X[i].op = "start"
          BY <3>1, <1>4 DEF Pend
        <4>2. N[j] \in Pend(Y)
          BY <3>3, <1>2 DEF Pend
        <4> QED
          BY <4>1, <4>2 DEF StartLess, OnlyStarts
      <3> QED
        BY <3>2, <3>3
    <2>2. CASE ~(i <= Len(X))
      <3> DEFINE k == i - Len(X)
                 m == j - Len(X)
      <3>1. k \in 1..Len(Y) /\ N[i] = Y[k]
        BY <2>2, <1>2
      <3>2. ~(j <= Len(X))
        BY <2>2, <1>3, <1>4
      <3>3. m \in 1..Len(Y) /\ N[j] = Y[m]
        BY <3>2, <1>2
      <3>4. k < m
        BY <1>3, <1>4
      <3> HIDE DEF k, m
      <3> QED
        BY <3>1, <3>3, <3>4, <1>4 DEF Body
    <2> QED
      BY <2>1, <2>2
  <1>5. Body(N, s)
    BY <1>2, <1>4 DEF Body
  <1> QED
    BY <1>2, <1>5 DEF N, Cat

\* The call ends by giving its locks back.
WithEnd(X, z) == X \o <<z>>

LEMMA BodyEnd ==
  ASSUME NEW s, NEW X, Body(X, s), NEW z \in Entries, z.op = "end", NEW K, K = WithEnd(X, z)
  PROVE  /\ K \in Seq(Entries) /\ K # <<>> /\ Ordered(K) /\ K[Len(K)] = z
         /\ Pend(K) = Pend(X) \cup {z} /\ Len(K) = Len(X) + 1
         /\ \A i \in 1..Len(X) : K[i] = X[i]
  <1>1. X \in Seq(Entries) /\ <<z>> \in Seq(Entries) /\ Len(X) \in Nat /\ Len(<<z>>) = 1 /\ Pend(<<z>>) = {z}
    BY PendTuples DEF Body
  <1>2. /\ K \in Seq(Entries) /\ Pend(K) = Pend(X) \cup Pend(<<z>>) /\ Len(K) = Len(X) + Len(<<z>>)
        /\ \A i \in 1..Len(K) :
                IF i <= Len(X) THEN i \in 1..Len(X) /\ K[i] = X[i]
                               ELSE i - Len(X) \in 1..Len(<<z>>) /\ K[i] = <<z>>[i - Len(X)]
    BY <1>1, PendCat, ZenonT(60) DEF WithEnd
  <1>3. Len(K) = Len(X) + 1
    BY <1>1, <1>2
  <1>4. \A i \in 1..Len(X) : i \in 1..Len(K) /\ K[i] = X[i] /\ K[i] \in Pend(X)
    BY <1>1, <1>2, <1>3 DEF Pend
  <1>5. K[Len(X) + 1] = z
    <2>1. Len(X) + 1 \in 1..Len(K) /\ ~(Len(X) + 1 <= Len(X)) /\ Len(X) + 1 - Len(X) = 1
      BY <1>1, <1>3
    <2>2. K[Len(X) + 1] = <<z>>[1]
      BY <2>1, <1>2
    <2> QED
      BY <2>2
  <1>6. ASSUME NEW i \in 2..Len(K) PROVE Pair(K[i-1], K[i])
    <2>1. i - 1 \in 1..Len(X) /\ (i \in 1..Len(X) \/ i = Len(X) + 1)
      BY <1>1, <1>3
    <2>2. K[i-1].op \in PlainOps
      BY <2>1, <1>4 DEF Body
    <2>3. K[i].op \in PlainOps \cup {"end"}
      BY <2>1, <1>4, <1>5 DEF Body
    <2> QED
      BY <2>2, <2>3 DEF Pair, PlainOps
  <1>7. ASSUME NEW i \in 1..Len(K), NEW j \in 1..Len(K), i < j, K[i].op = "start"
        PROVE  K[j].op \in {"start", "retire", "end"}
    <2>1. i \in 1..Len(X) /\ (j \in 1..Len(X) \/ j = Len(X) + 1)
      BY <1>1, <1>3, <1>7
    <2>2. CASE j \in 1..Len(X)
      <3>1. X[i].op = "start" /\ K[j] = X[j]
        BY <2>1, <2>2, <1>4, <1>7
      <3> QED
        BY <2>1, <2>2, <3>1, <1>7 DEF Body
    <2>3. CASE j = Len(X) + 1
      BY <2>3, <1>5
    <2> QED
      BY <2>1, <2>2, <2>3
  <1>8. Ordered(K)
    BY <1>6, <1>7 DEF Ordered
  <1>9. K # <<>>
    BY <1>1, <1>2, <1>3
  <1> QED
    BY <1>1, <1>2, <1>3, <1>4, <1>5, <1>8, <1>9

\* start_endpoints and configure_endpoint go through the list the other way.
Backwards(es, name, s) == [i \in 1..Len(es) |-> Op(name, es[Len(es) + 1 - i], s, 0)]
Within(es, s) == es \in Seq(Eps) /\ \A i \in 1..Len(es) : es[i] \in Own(s)
Uniform(X, name) == \A o \in Pend(X) : o.op = name

LEMMA BodyEach ==
  ASSUME NEW s \in Subs, NEW es, Within(es, s),
         NEW name \in {"sync", "stop", "deact", "params", "start"}
  PROVE  /\ Body(ForEach(es, name, s), s) /\ Uniform(ForEach(es, name, s), name)
         /\ Body(Backwards(es, name, s), s) /\ Uniform(Backwards(es, name, s), name)
         /\ es = <<>> => ForEach(es, name, s) = <<>> /\ Backwards(es, name, s) = <<>>
         /\ es # <<>> => \E o \in Pend(ForEach(es, name, s)) : o.op = name /\ o.ep = es[1]
  <1> DEFINE A == ForEach(es, name, s)
             B == Backwards(es, name, s)
  <1>0. es \in Seq(Eps) /\ \A i \in 1..Len(es) : es[i] \in Own(s)
    BY DEF Within
  <1>1. Len(es) \in Nat /\ \A i \in 1..Len(es) : Len(es) + 1 - i \in 1..Len(es)
    BY <1>0
  <1>2. \A e \in Eps : Op(name, e, s, 0) \in Entries /\ Op(name, e, s, 0).op = name /\ Op(name, e, s, 0).ep = e
                       /\ Op(name, e, s, 0).s = s
    BY OpIs DEF CallOps, OwnOps
  <1>3. A = [i \in 1..Len(es) |-> Op(name, es[i], s, 0)]
    BY DEF ForEach
  <1>30. B = [i \in 1..Len(es) |-> Op(name, es[Len(es) + 1 - i], s, 0)]
    BY DEF Backwards
  <1>4. A \in Seq(Entries) /\ Len(A) = Len(es)
    BY <1>0, <1>1, <1>2, <1>3
  <1>5. B \in Seq(Entries) /\ Len(B) = Len(es)
    BY <1>0, <1>1, <1>2, <1>30
  <1>6. \A i \in 1..Len(es) : A[i].op = name /\ A[i].s = s /\ A[i].ep = es[i]
    BY <1>0, <1>2, <1>3
  <1>7. \A i \in 1..Len(es) : B[i].op = name /\ B[i].s = s /\ B[i].ep \in Own(s)
    BY <1>0, <1>1, <1>2, <1>30
  <1> HIDE DEF A, B
  <1>8. name \in PlainOps /\ name \in OwnOps
    BY DEF PlainOps, OwnOps
  <1>9. \A o \in Pend(A) : o.op = name /\ o.s = s /\ o.ep \in Own(s)
    BY <1>0, <1>4, <1>6 DEF Pend
  <1>10. \A o \in Pend(B) : o.op = name /\ o.s = s /\ o.ep \in Own(s)
    BY <1>5, <1>7 DEF Pend
  <1>11. Body(A, s)
    BY <1>4, <1>6, <1>8, <1>9 DEF Body
  <1>12. Body(B, s)
    BY <1>5, <1>7, <1>8, <1>10 DEF Body
  <1>13. es = <<>> => A = <<>> /\ B = <<>>
    BY <1>0, <1>4, <1>5
  <1>14. ASSUME es # <<>> PROVE \E o \in Pend(A) : o.op = name /\ o.ep = es[1]
    <2>1. 1 \in 1..Len(A) /\ 1 \in 1..Len(es)
      BY <1>0, <1>4, <1>14
    <2> QED
      BY <2>1, <1>6 DEF Pend
  <1> QED
    BY <1>9, <1>10, <1>11, <1>12, <1>13, <1>14 DEF A, B, Uniform

LEMMA BodyOne ==
  ASSUME NEW s \in Subs
  PROVE  /\ Body(<<>>, s) /\ Pend(<<>>) = {}
         /\ \A name \in {"ready", "alloc", "vfree"} : Body(<<Op(name, None, s, 0)>>, s)
         /\ Body(<<Op("retire", DataEp(s), s, 0)>>, s)
         /\ \A name, e : Pend(<<Op(name, e, s, 0)>>) = {Op(name, e, s, 0)} /\ Op(name, e, s, 0).op = name
  <1>1. \A name, e : Pend(<<Op(name, e, s, 0)>>) = {Op(name, e, s, 0)} /\ Op(name, e, s, 0).op = name
                     /\ Op(name, e, s, 0).s = s /\ Op(name, e, s, 0).ep = e
    BY PendTuples, OpIs
  <1>2. Body(<<>>, s)
    BY PendTuples DEF Body
  <1>3. ASSUME NEW name \in {"ready", "alloc", "vfree"} PROVE Body(<<Op(name, None, s, 0)>>, s)
    <2> DEFINE x == Op(name, None, s, 0)
    <2>1. x \in Entries
      BY OpIs DEF CallOps
    <2>2. Pend(<<x>>) = {x} /\ x.op = name /\ x.s = s
      BY <1>1
    <2> HIDE DEF x
    <2>3. x.op \in PlainOps /\ x.op \notin OwnOps /\ x.op # "start"
      BY <2>2 DEF PlainOps, OwnOps
    <2>4. <<x>> \in Seq(Entries) /\ Len(<<x>>) = 1
      BY <2>1
    <2>5. Body(<<x>>, s)
      BY <2>2, <2>3, <2>4 DEF Body
    <2> QED
      BY <2>5 DEF x
  <1>4. Body(<<Op("retire", DataEp(s), s, 0)>>, s)
    <2> DEFINE x == Op("retire", DataEp(s), s, 0)
    <2>0. DataEp(s) \in Own(s) /\ DataEp(s) \in Eps
      BY AgentsAre
    <2>1. x \in Entries
      BY <2>0, OpIs DEF CallOps, OwnOps
    <2>2. Pend(<<x>>) = {x} /\ x.op = "retire" /\ x.s = s /\ x.ep \in Own(s)
      BY <2>0, <1>1
    <2> HIDE DEF x
    <2>3. x.op \in PlainOps /\ x.op # "start"
      BY <2>2 DEF PlainOps
    <2>4. <<x>> \in Seq(Entries) /\ Len(<<x>>) = 1
      BY <2>1
    <2>5. Body(<<x>>, s)
      BY <2>2, <2>3, <2>4 DEF Body
    <2> QED
      BY <2>5 DEF x
  <1> QED
    BY <1>1, <1>2, <1>3, <1>4, PendTuples

\* The endpoints that a call goes through are the substream's own.
LEMMA EpsOwn ==
  ASSUME IInv, NEW s \in Subs
  PROVE  /\ subs[s].eps \in Seq(Eps) /\ \A i \in 1..Len(subs[s].eps) : subs[s].eps[i] \in Own(s)
         /\ chip.disconnected => subs[s].eps = <<>>
         /\ ~chip.disconnected /\ s = "capt" => subs[s].eps = <<"in">>
  <1>1. TypeOK /\ Shape /\ Plug
    BY DEF IInv
  <1>2. subs[s].eps \in Seq(Eps)
    BY <1>1, Typed DEF SubRec
  <1>3. subs[s].eps \in {<<>>, <<"in">>, <<"out">>, <<"fb", "out">>}
        /\ (s = "capt" => subs[s].eps \in {<<>>, <<"in">>})
        /\ (s = "play" => subs[s].eps \in {<<>>, <<"out">>, <<"fb", "out">>})
    <2>1. EpsOf("capt", chip.feedback) = <<"in">>
      BY DEF EpsOf
    <2>2. EpsOf("play", "none") = <<"out">>
      BY Zenon DEF EpsOf
    <2>3. EpsOf("play", "explicit") = <<"fb", "out">>
      BY Zenon DEF EpsOf
    <2>4. chip.feedback \in {"none", "explicit"}
      BY <1>1 DEF Shape
    <2>5. subs[s].eps = <<>> \/ subs[s].eps = EpsOf(s, chip.feedback)
      BY <1>1 DEF Plug
    <2> QED
      BY <2>1, <2>2, <2>3, <2>4, <2>5, AgentsAre
  <1>4. \A i \in 1..Len(subs[s].eps) : subs[s].eps[i] \in Own(s)
    <2>1. CASE subs[s].eps = <<>>
      BY <2>1
    <2>2. CASE subs[s].eps = <<"in">>
      <3>1. s = "capt"
        BY <2>2, <1>3, AgentsAre
      <3> QED
        BY <2>2, <3>1, AgentsAre
    <2>3. CASE subs[s].eps = <<"out">>
      <3>1. s = "play"
        BY <2>3, <1>3, AgentsAre
      <3> QED
        BY <2>3, <3>1, AgentsAre
    <2>4. CASE subs[s].eps = <<"fb", "out">>
      <3>1. s = "play"
        BY <2>4, <1>3, AgentsAre
      <3>2. Len(subs[s].eps) = 2 /\ subs[s].eps[1] = "fb" /\ subs[s].eps[2] = "out"
        BY <2>4
      <3>3. \A i \in 1..2 : i = 1 \/ i = 2
        OBVIOUS
      <3> QED
        BY <3>1, <3>2, <3>3, AgentsAre
    <2> QED
      BY <2>1, <2>2, <2>3, <2>4, <1>3
  <1> QED
    <2>1. EpsOf("capt", chip.feedback) = <<"in">>
      BY DEF EpsOf
    <2> QED
      BY <2>1, <1>1, <1>2, <1>4 DEF Plug

\* A call begins.
LEMMA BeginStep ==
  ASSUME IInv, NEW s \in Subs, todo[s] = <<>>, ~subs[s].locked,
         NEW X, Body(X, s), NEW z \in Entries, z.op = "end", z.s = s, z.v \in States,
         todo' = [todo EXCEPT ![s] = WithEnd(X, z)],
         NEW r \in SubRec, subs' = [subs EXCEPT ![s] = r], UNCHANGED <<ep, urb, chip, irq>>,
         r.started = subs[s].started, r.eps = subs[s].eps, r.state = subs[s].state,
         chip.shutdown => ~r.reading,
         chip.disconnected => X = <<>>,
         r.state = "running" /\ ~r.locked => chip.disconnected,
         (\E o \in Pend(X) : o.op = "start") =>
            /\ r.reading \/ r.locked
            /\ r.state \in {"setup", "prepared"} /\ \A o \in Pend(X) : o.op # "vfree",
         s = "capt" =>
            /\ CaptList'
            /\ r.state = "prepared" => Quiet("in")
            /\ r.state \in {"running", "paused"} /\ ~chip.disconnected =>
                  \E o \in Pend(X) : o.op = "stop" /\ o.ep = "in"
  PROVE  IInv'
  <1> DEFINE K == WithEnd(X, z)
  <1>1. TypeOK /\ Shape /\ Lists /\ Owned /\ Alone /\ Uses /\ Starting /\ CaptList /\ Capture
        /\ Plug /\ InHandler /\ Masks /\ QuietDue
    BY DEF IInv
  <1>0. K = WithEnd(X, z)
    OBVIOUS
  <1>3. todo' = [todo EXCEPT ![s] = K]
    OBVIOUS
  <1> HIDE DEF K
  <1>2. K \in Seq(Entries) /\ K # <<>> /\ Ordered(K) /\ K[Len(K)] = z /\ Pend(K) = Pend(X) \cup {z}
    <2>1. Body(X, s) /\ z \in Entries /\ z.op = "end"
      OBVIOUS
    <2>2. K \in Seq(Entries) /\ K # <<>> /\ Ordered(K)
      BY <2>1, <1>0, BodyEnd
    <2>3. K[Len(K)] = z /\ Pend(K) = Pend(X) \cup {z}
      BY <2>1, <1>0, BodyEnd
    <2> QED
      BY <2>2, <2>3
  <1>4. s \in Agents /\ s # "hcd" /\ s # "hub"
    BY AgentsAre
  <1>5. /\ todo' \in [Agents -> Seq(Entries)] /\ todo'[s] = K /\ \A b \in Agents : b # s => todo'[b] = todo[b]
    BY <1>1, <1>2, <1>3, <1>4, ZenonT(60) DEF Shape
  <1>6. subs' \in [Subs -> SubRec] /\ subs'[s] = r /\ \A t \in Subs : t # s => subs'[t] = subs[t]
    BY <1>1, SubSet, Typed
  <1>7. /\ \A t \in Subs : /\ subs'[t].started = subs[t].started /\ subs'[t].eps = subs[t].eps
                           /\ subs'[t].state = subs[t].state
    BY <1>6
  <1>8. /\ \A o \in Pend(X) : o.s = s /\ o.op \in PlainOps /\ (o.op \in OwnOps => o.ep \in Own(s))
    BY DEF Body
  <1>9. \A o \in Pend(K) : o.op \notin Under \cup {"inc", "dec", "mute", "realloc", "kfree"}
    BY <1>2, <1>8 DEF PlainOps, Under
  <1>10. todo'["hcd"] = todo["hcd"] /\ todo'["hub"] = todo["hub"] /\ \A t \in Subs : t # s => todo'[t] = todo[t]
    BY <1>4, <1>5, AgentsAre
  <1>11. \A t \in Subs : HcdFor(t)' <=> HcdFor(t)
    BY <1>10 DEF HcdFor
  <1>12. ~chip.disconnected => ~HcdFor(s)
    BY <1>1 DEF Alone
  <1>13. \A e \in Eps : AtHost(e)' = AtHost(e) /\ (Quiet(e)' <=> Quiet(e))
    BY DEF AtHost, Quiet
  <1>14. Lists'
    BY <1>1, <1>2, <1>5 DEF Lists
  <1>15. Owned'
    <2>1. ASSUME NEW t \in Subs, NEW o \in Pend(todo'[t])
          PROVE  /\ o.s = t /\ o.op \in CallOps
                 /\ o.op \in OwnOps => o.ep \in Own(t)
                 /\ o.op = "end" => o.v \in States
                 /\ o.op \in {"submit", "bit"} => o.v \in Urbs
      <3>1. CASE t # s
        BY <3>1, <2>1, <1>1, <1>10 DEF Owned
      <3>2. CASE t = s /\ o = z
        BY <3>2 DEF CallOps, OwnOps
      <3>3. CASE t = s /\ o \in Pend(X)
        BY <3>3, <1>8 DEF PlainOps, CallOps, OwnOps
      <3> QED
        BY <3>1, <3>2, <3>3, <2>1, <1>2, <1>5
    <2>2. chip'.disconnected = chip.disconnected
      OBVIOUS
    <2> QED
      BY <2>1, <2>2, <1>1, <1>10 DEF Owned
  <1>16. Plug'
    BY <1>1, <1>6, <1>7 DEF Plug
  <1>17. Starting'
    <2>1. ASSUME NEW o \in Pend(K), o.op \in Under \cup {"start"}
          PROVE  /\ ~chip.disconnected /\ (r.reading \/ r.locked) /\ r.state \in {"setup", "prepared"}
                 /\ \A p \in Pend(K) : p.op # "vfree"
      <3>1. o \in Pend(X) /\ o.op = "start"
        BY <2>1, <1>2, <1>9
      <3>2. X # <<>>
        BY <3>1, PendTuples
      <3> QED
        BY <3>1, <3>2, <1>2
    <2>2. \A o \in Pend(K) : o.op \notin Under
      BY <1>9
    <2>3. \A t \in Subs : t # s => subs'[t] = subs[t] /\ todo'[t] = todo[t]
      BY <1>6, <1>10
    <2>4. chip' = chip
      OBVIOUS
    <2>5. todo'[s] = K /\ subs'[s] = r
      BY <1>5, <1>6
    <2>6. ASSUME NEW t \in Subs
          PROVE  /\ \A o \in Pend(todo'[t]) : o.op \in Under \cup {"start"} =>
                      /\ ~chip'.disconnected
                      /\ subs'[t].reading \/ subs'[t].locked
                      /\ subs'[t].state \in {"setup", "prepared"}
                      /\ \A p \in Pend(todo'[t]) : p.op # "vfree"
                 /\ \A o \in Pend(todo'[t]) : o.op \in Under =>
                      /\ o.ep \in subs'[t].started
                      /\ \A p \in Pend(todo'[t]) : p.op \in StartOps
      <3>1. CASE t = s
        BY <3>1, <2>1, <2>2, <2>4, <2>5
      <3>2. CASE t # s
        <4>1. subs'[t] = subs[t] /\ todo'[t] = todo[t]
          BY <3>2, <2>3
        <4> QED
          BY <4>1, <2>4, <1>1 DEF Starting
      <3> QED
        BY <3>1, <3>2
    <2> QED
      BY <2>6 DEF Starting
  <1>18. Alone'
    <2> SUFFICES ASSUME NEW t \in Subs
                 PROVE  /\ HcdFor(t)' => Idle(t)'
                        /\ HcdFor(t)' /\ ~chip'.disconnected => subs'[t].locked /\ todo'[t] = <<>>
                        /\ subs'[t].state = "running" /\ ~subs'[t].locked =>
                              Idle(t)' /\ (chip'.disconnected \/ todo'[t] = <<>>)
      BY DEF Alone
    <2>1. CASE t = s
      <3>1. X = <<>> => Idle(t)'
        BY <2>1, <1>2, <1>5, PendTuples DEF Idle
      <3> QED
        BY <2>1, <3>1, <1>6, <1>11, <1>12
    <2>2. CASE t # s
      <3>1. subs'[t] = subs[t] /\ todo'[t] = todo[t] /\ (Idle(t)' <=> Idle(t))
        BY <2>2, <1>6, <1>10 DEF Idle
      <3> QED
        BY <3>1, <1>1, <1>11 DEF Alone
    <2> QED
      BY <2>1, <2>2
  <1>19. \A t \in Subs : \A name \in {"inc", "dec", "mute"} : \A e : Doing(t, name, e)' <=> Doing(t, name, e)
    <2>1. \A o \in Pend(todo[s]) : FALSE
      BY PendTuples
    <2> QED
      BY <2>1, <1>5, <1>9, <1>10 DEF Doing
  <1>20. Uses'
    <2>1. \A t \in Subs : \A o \in Pend(todo'[t]) \cup Pend(todo'["hcd"]) :
             o.op \in {"inc", "dec"} => o \in Pend(todo[t]) \cup Pend(todo["hcd"])
      BY <1>5, <1>9, <1>10
    <2>2. \A t \in Subs : \A o \in Pend(todo'[t]) : o.op \in {"inc", "dec"} => o \in Pend(todo[t])
      BY <1>5, <1>9, <1>10
    <2>3. \A t \in Subs : \A e \in Own(t) : ep'[e].use = ep[e].use
                 /\ (e \in subs'[t].started <=> e \in subs[t].started)
                 /\ (Doing(t, "inc", e)' <=> Doing(t, "inc", e)) /\ (Doing(t, "dec", e)' <=> Doing(t, "dec", e))
      BY <1>7, <1>19
    <2> QED
      BY <2>1, <2>2, <2>3, <1>1 DEF Uses
  <1>21. InHandler'
    BY <1>1 DEF InHandler
  <1>22. Masks'
    <2>1. \A b \in Agents : Due(b, "bit") => Due(b, "bit")' /\ todo'[b] = todo[b]
      <3>1. ~Due(s, "bit")
        BY DEF Due
      <3> QED
        BY <3>1, <1>5 DEF Due
    <2> QED
      BY <2>1, <1>1, <1>13 DEF Masks
  <1>23. QuietDue'
    <2> SUFFICES ASSUME NEW b \in Agents, todo'[b] # <<>>, Head(todo'[b]).op \in {"realloc", "kfree", "go"},
                        NEW e, e = Head(todo'[b]).ep
                 PROVE  AtHost(e)' = {}
      BY DEF QuietDue, Quiet, AtHost
    <2>1. b # s
      <3>1. Head(K) \in Pend(K)
        BY <1>2, PendOf
      <3>2. Head(K).op \notin {"realloc", "kfree", "go"}
        BY <3>1, <1>9 DEF Under
      <3> QED
        BY <3>2, <1>5
    <2>2. todo'[b] = todo[b]
      BY <2>1, <1>5
    <2>3. AtHost(e) = {}
      BY <2>2, <1>1 DEF QuietDue, Quiet
    <2> QED
      BY <2>3 DEF AtHost
  <1>24. CaptList'
    <2>1. CASE s = "play"
      <3>1. todo'["capt"] = todo["capt"] /\ subs'["capt"].started = subs["capt"].started /\ "in" \in Eps
        BY <2>1, <1>7, <1>10, AgentsAre
      <3> QED
        BY <3>1, <1>1, <1>13 DEF CaptList
    <2>2. CASE s = "capt"
      BY <2>2
    <2> QED
      BY <2>1, <2>2, AgentsAre
  <1>25. Capture'
    <2>1. subs'["capt"].started = subs["capt"].started /\ subs'["capt"].state = subs["capt"].state
          /\ (Quiet("in")' <=> Quiet("in")) /\ (HcdFor("capt")' <=> HcdFor("capt"))
          /\ \A name \in {"inc", "dec", "mute"} : \A e : Doing("capt", name, e)' <=> Doing("capt", name, e)
      BY <1>7, <1>11, <1>13, <1>19, AgentsAre
    <2>2. CASE s = "play"
      <3>1. todo'["capt"] = todo["capt"] /\ todo'["hcd"] = todo["hcd"]
        BY <2>2, <1>10, AgentsAre
      <3>2. Doing("capt", "stop", "in")' <=> Doing("capt", "stop", "in")
        BY <3>1 DEF Doing
      <3> QED
        BY <2>1, <3>1, <3>2, <1>1 DEF Capture
    <2>3. CASE s = "capt"
      <3>1. subs["capt"].state = "prepared" => Quiet("in")
        BY <2>3
      <3>2. ASSUME "in" \in subs["capt"].started, ~chip.disconnected
            PROVE  Doing("capt", "stop", "in")'
        <4>1. \A o \in Pend(todo["capt"]) : FALSE
          BY <2>3, PendTuples
        <4>2. ~HcdFor("capt")
          BY <2>3, <3>2, <1>12
        <4>3. subs["capt"].state \in {"running", "paused"} \/ Doing("capt", "stop", "in")
          BY <3>2, <4>1, <1>1 DEF Capture
        <4>4. CASE Doing("capt", "stop", "in")
          <5>1. PICK o \in Pend(todo["hcd"]) : o.op = "stop" /\ o.ep = "in"
            BY <4>1, <4>4 DEF Doing
          <5> QED
            BY <5>1, <1>10 DEF Doing
        <4>5. CASE subs["capt"].state \in {"running", "paused"}
          <5>1. \E o \in Pend(X) : o.op = "stop" /\ o.ep = "in"
            BY <2>3, <3>2, <4>5
          <5>2. \E o \in Pend(todo'["capt"]) : o.op = "stop" /\ o.ep = "in"
            BY <2>3, <5>1, <1>2, <1>5
          <5> QED
            BY <5>2 DEF Doing
        <4> QED
          BY <4>3, <4>4, <4>5
      <3> QED
        BY <2>1, <3>1, <3>2, <1>1 DEF Capture
    <2> QED
      BY <2>2, <2>3, AgentsAre
  <1>26. Shape'
    BY <1>1, <1>5 DEF Shape
  <1>27. TypeOK'
    BY <1>1, <1>6 DEF TypeOK, SubRec, States
  <1> QED
    BY <1>14, <1>15, <1>16, <1>17, <1>18, <1>20, <1>21, <1>22, <1>23, <1>24, <1>25, <1>26, <1>27 DEF IInv

\* A call of the capture substream that does not start it.
LEMMA BeginCapt ==
  ASSUME NEW X, Body(X, "capt"), NEW z \in Entries, z.op = "end", z.v # "running",
         todo'["capt"] = WithEnd(X, z),
         \A o \in Pend(X) : o.op # "start",
         (\E o \in Pend(X) : o.op = "params") => "in" \notin subs'["capt"].started,
         z.v = "prepared" => \/ Quiet("in")'
                             \/ ep'["in"].stopping /\ \E o \in Pend(X) : o.op = "sync"
  PROVE  CaptList'
  <1> DEFINE K == todo'["capt"]
  <1>1. Pend(K) = Pend(X) \cup {z}
    BY BodyEnd
  <1> HIDE DEF K
  <1>2. \A o \in Pend(X) : o.op \in PlainOps /\ o.op # "start"
    BY DEF Body
  <1>3. \A o \in Pend(K) : o.op \notin {"start", "inc", "go", "submit", "bit", "dec", "mute"}
    BY <1>1, <1>2 DEF PlainOps
  <1>4. \A i \in 1..Len(K) : K[i].op \notin {"start", "inc", "go", "submit"}
    BY <1>3 DEF Pend
  <1>5. \A o \in Pend(K) : ~RunEnd(o)
    BY <1>1, <1>2 DEF PlainOps, RunEnd
  <1>6. \A o \in Pend(K) : o.op = "params" => "in" \notin subs'["capt"].started
    BY <1>1
  <1>7. \A o \in Pend(K) : o.op = "end" /\ o.v = "prepared" =>
           \/ Quiet("in")'
           \/ ep'["in"].stopping /\ \E p \in Pend(K) : p.op = "sync"
    BY <1>1, <1>2 DEF PlainOps
  <1> QED
    BY <1>3, <1>4, <1>5, <1>6, <1>7 DEF CaptList, Under, K

\* Between two calls an endpoint that does not run is stopped or about to stop.
LEMMA AtRest ==
  ASSUME IInv, todo["capt"] = <<>>, ~subs["capt"].locked, ~chip.disconnected,
         subs["capt"].state \notin {"running", "paused"}
  PROVE  /\ "in" \notin subs["capt"].started
         /\ Quiet("in") \/ ep["in"].stopping
         /\ subs["capt"].state = "prepared" => Quiet("in")
  <1>1. Owned /\ Alone /\ Capture
    BY DEF IInv
  <1>2. "capt" \in Subs /\ \A t \in Subs : "in" \in Own(t) => t = "capt"
    BY AgentsAre
  <1>3. ~HcdFor("capt")
    BY <1>1, <1>2 DEF Alone
  <1>4. \A o \in Pend(todo["capt"]) : FALSE
    BY PendTuples
  <1>5. \A name \in {"stop", "mute", "dec"} : ~Doing("capt", name, "in")
    <2> SUFFICES ASSUME NEW o \in Pend(todo["hcd"]), o.op \in {"stop", "mute", "dec"}, o.ep = "in"
                 PROVE  FALSE
      BY <1>4 DEF Doing
    <2>1. o.s \in Subs /\ o.ep \in Own(o.s)
      BY <1>1 DEF Owned, OwnOps
    <2>2. o.s = "capt"
      BY <2>1, <1>2
    <2> QED
      BY <2>2, <1>3 DEF HcdFor
  <1> QED
    BY <1>1, <1>3, <1>4, <1>5 DEF Capture

LEMMA BodyName ==
  ASSUME NEW s \in Subs, NEW name \in {"ready", "alloc", "vfree"}, NEW X, X = <<Op(name, None, s, 0)>>
  PROVE  Body(X, s) /\ \A o \in Pend(X) : o.op = name
  <1>1. Body(X, s)
    BY BodyOne
  <1>2. Pend(X) = {Op(name, None, s, 0)} /\ Op(name, None, s, 0).op = name
    BY BodyOne
  <1> QED
    BY <1>1, <1>2

LEMMA HwParamsSafe ==
  ASSUME IInv, NEW s \in Subs, HwParams(s)
  PROVE  IInv'
  <1> DEFINE k == subs[s].buffer /\ ~Grow
             r == [subs[s] EXCEPT !.buffer = k]
             z == Op("end", None, s, "setup")
             X == <<Op("alloc", None, s, 0)>>
  <1>1. TypeOK /\ Shape /\ Plug
    BY DEF IInv
  <1>2. /\ todo[s] = <<>> /\ ~subs[s].locked /\ ~chip.disconnected
        /\ subs[s].state \in {"open", "setup", "prepared"}
        /\ subs' = [subs EXCEPT ![s] = r] /\ UNCHANGED <<ep, urb, chip, irq>>
        /\ todo' = [todo EXCEPT ![s] = WithEnd(X, z)]
    BY DEF HwParams, CanCall, Call, WithEnd
  <1>3. Body(X, s) /\ \A o \in Pend(X) : o.op = "alloc"
    BY BodyName
  <1>4. z \in Entries /\ z.op = "end" /\ z.s = s /\ z.v = "setup" /\ z.v \in States
    BY OpIs DEF States, CallOps
  <1> HIDE DEF X, z
  <1>5. subs[s] \in SubRec /\ k \in BOOLEAN
    BY <1>1, Typed
  <1> HIDE DEF k
  <1>6. /\ r \in SubRec /\ r.started = subs[s].started /\ r.eps = subs[s].eps
        /\ r.state = subs[s].state /\ r.locked = subs[s].locked /\ r.reading = subs[s].reading
    BY <1>5 DEF SubRec
  <1> HIDE DEF r
  <1>7. chip.shutdown => ~r.reading
    BY <1>1, <1>6 DEF Plug
  <1>8. ASSUME s = "capt"
        PROVE  CaptList' /\ (r.state = "prepared" => Quiet("in")) /\ r.state \notin {"running", "paused"}
    <2>1. todo'["capt"] = WithEnd(X, z)
      BY <1>1, <1>2, <1>8, AgentsAre DEF Shape
    <2>2. CaptList'
      BY <2>1, <1>3, <1>4, <1>8, BeginCapt
    <2> QED
      BY <2>2, <1>2, <1>6, <1>8, AtRest
  <1>9. ~(chip.disconnected \/ (r.state = "running" /\ ~r.locked))
    BY <1>2, <1>6
  <1>10. ~\E o \in Pend(X) : o.op = "start"
    BY <1>3
  <1> QED
    BY <1>2, <1>3, <1>4, <1>6, <1>7, <1>8, <1>9, <1>10, BeginStep

\* A loop over the endpoints of a substream.
LEMMA EachBody ==
  ASSUME IInv, NEW s \in Subs, NEW name \in {"sync", "stop", "deact", "params", "start"}
  PROVE  LET A == ForEach(subs[s].eps, name, s)
             B == Backwards(subs[s].eps, name, s) IN
         /\ Body(A, s) /\ Uniform(A, name)
         /\ Body(B, s) /\ Uniform(B, name)
         /\ chip.disconnected => A = <<>>
         /\ s = "capt" /\ ~chip.disconnected => \E o \in Pend(A) : o.op = name /\ o.ep = "in"
         /\ s = "capt" /\ ~chip.disconnected => B = <<Op(name, "in", "capt", 0)>>
  <1>1. /\ Within(subs[s].eps, s)
        /\ chip.disconnected => subs[s].eps = <<>>
        /\ ~chip.disconnected /\ s = "capt" => subs[s].eps = <<"in">>
    BY EpsOwn DEF Within
  <1>2. ASSUME s = "capt", ~chip.disconnected
        PROVE  /\ \E o \in Pend(ForEach(subs[s].eps, name, s)) : o.op = name /\ o.ep = "in"
               /\ Backwards(subs[s].eps, name, s) = <<Op(name, "in", "capt", 0)>>
    <2>1. subs[s].eps = <<"in">> /\ <<"in">> # <<>> /\ <<"in">>[1] = "in"
      BY <1>1, <1>2
    <2>2. \E o \in Pend(ForEach(subs[s].eps, name, s)) : o.op = name /\ o.ep = "in"
      BY <1>1, <2>1, BodyEach
    <2>3. Backwards(<<"in">>, name, s) = <<Op(name, "in", s, 0)>>
      <3>1. Len(<<"in">>) = 1 /\ <<"in">>[1] = "in" /\ 1..Len(<<"in">>) = {1}
            /\ \A i \in {1} : Len(<<"in">>) + 1 - i = 1
        OBVIOUS
      <3>2. Backwards(<<"in">>, name, s) = [i \in {1} |-> Op(name, "in", s, 0)]
        BY <3>1 DEF Backwards
      <3>3. \A x : <<x>> = [i \in {1} |-> x]
        OBVIOUS
      <3> QED
        BY <3>2, <3>3, Zenon
    <2> QED
      BY <1>2, <2>1, <2>2, <2>3
  <1>3. /\ Body(ForEach(subs[s].eps, name, s), s) /\ Uniform(ForEach(subs[s].eps, name, s), name)
        /\ Body(Backwards(subs[s].eps, name, s), s) /\ Uniform(Backwards(subs[s].eps, name, s), name)
        /\ subs[s].eps = <<>> => ForEach(subs[s].eps, name, s) = <<>>
    BY <1>1, BodyEach
  <1> QED
    BY <1>1, <1>2, <1>3

\* What stop_endpoints calls for.
LEMMA StopBody ==
  ASSUME IInv, NEW s \in Subs, NEW wait \in BOOLEAN
  PROVE  LET X == StopEndpoints(s, wait) IN
         /\ Body(X, s) /\ \A o \in Pend(X) : o.op \in {"stop", "sync"}
         /\ ~wait => \A o \in Pend(X) : o.op = "stop"
         /\ chip.disconnected => X = <<>>
         /\ s = "capt" /\ ~chip.disconnected => \E o \in Pend(X) : o.op = "stop" /\ o.ep = "in"
  <1> DEFINE A == ForEach(subs[s].eps, "stop", s)
             B == IF wait THEN ForEach(subs[s].eps, "sync", s) ELSE <<>>
  <1>1. /\ Body(A, s) /\ Uniform(A, "stop")
        /\ chip.disconnected => A = <<>>
        /\ s = "capt" /\ ~chip.disconnected => \E o \in Pend(A) : o.op = "stop" /\ o.ep = "in"
    BY EachBody
  <1>2. /\ Body(B, s) /\ Uniform(B, "sync")
        /\ chip.disconnected => B = <<>>
        /\ ~wait => Pend(B) = {}
    <2>1. CASE wait
      BY <2>1, EachBody
    <2>2. CASE ~wait
      BY <2>2, BodyOne DEF Uniform
    <2> QED
      BY <2>1, <2>2
  <1>3. StopEndpoints(s, wait) = Cat(A, B)
    BY DEF StopEndpoints, Cat
  <1> HIDE DEF A, B
  <1>4. StartLess(A)
    BY <1>1 DEF StartLess, Uniform
  <1>5. Body(Cat(A, B), s) /\ Pend(Cat(A, B)) = Pend(A) \cup Pend(B)
    BY <1>1, <1>2, <1>4, BodyJoin
  <1>6. \A o \in Pend(Cat(A, B)) : o.op \in {"stop", "sync"} /\ (~wait => o.op = "stop")
    BY <1>1, <1>2, <1>5 DEF Uniform
  <1>7. chip.disconnected => Cat(A, B) = <<>>
    BY <1>1, <1>2 DEF Cat
  <1> QED
    BY <1>1, <1>3, <1>5, <1>6, <1>7

LEMMA HwFreeSafe ==
  ASSUME IInv, NEW s \in Subs, HwFree(s)
  PROVE  IInv'
  <1> DEFINE r == [subs[s] EXCEPT !.reading = ~chip.shutdown]
             z == Op("end", None, s, "open")
             A == StopEndpoints(s, TRUE)
             B == ForEach(subs[s].eps, "deact", s)
             V == <<Op("vfree", None, s, 0)>>
             X == IF chip.shutdown THEN V ELSE Cat(Cat(A, B), V)
  <1>1. TypeOK /\ Shape /\ Plug
    BY DEF IInv
  <1>2. /\ todo[s] = <<>> /\ ~subs[s].locked /\ ~chip.disconnected
        /\ subs[s].state \in {"setup", "prepared"}
        /\ subs' = [subs EXCEPT ![s] = r] /\ UNCHANGED <<ep, urb, chip, irq>>
        /\ todo' = [todo EXCEPT ![s] = WithEnd(X, z)]
    BY DEF HwFree, CanCall, Call, WithEnd, Cat
  <1>3. Body(V, s) /\ \A o \in Pend(V) : o.op = "vfree"
    BY BodyName
  <1>4. Body(A, s) /\ \A o \in Pend(A) : o.op \in {"stop", "sync"}
    BY StopBody
  <1>5. Body(B, s) /\ \A o \in Pend(B) : o.op = "deact"
    BY EachBody DEF Uniform
  <1>6. z \in Entries /\ z.op = "end" /\ z.s = s /\ z.v = "open" /\ z.v \in States
    BY OpIs DEF States, CallOps
  <1> HIDE DEF A, B, V, z
  <1>7. Body(Cat(A, B), s) /\ Pend(Cat(A, B)) = Pend(A) \cup Pend(B)
    <2>1. StartLess(A)
      BY <1>4 DEF StartLess
    <2> QED
      BY <2>1, <1>4, <1>5, BodyJoin
  <1>8. \A o \in Pend(Cat(A, B)) : o.op \in {"stop", "sync", "deact"}
    BY <1>4, <1>5, <1>7
  <1>9. Body(Cat(Cat(A, B), V), s) /\ Pend(Cat(Cat(A, B), V)) = Pend(Cat(A, B)) \cup Pend(V)
    <2>1. StartLess(Cat(A, B))
      BY <1>8 DEF StartLess
    <2> QED
      BY <2>1, <1>3, <1>7, BodyJoin
  <1>10. Body(X, s) /\ \A o \in Pend(X) : o.op \in {"stop", "sync", "deact", "vfree"}
    BY <1>3, <1>8, <1>9
  <1> HIDE DEF X
  <1>11. subs[s] \in SubRec /\ (~chip.shutdown) \in BOOLEAN
    BY <1>1, Typed
  <1>12. /\ r \in SubRec /\ r.started = subs[s].started /\ r.eps = subs[s].eps
         /\ r.state = subs[s].state /\ r.locked = subs[s].locked /\ r.reading = ~chip.shutdown
    BY <1>11 DEF SubRec
  <1> HIDE DEF r
  <1>13. ASSUME s = "capt"
         PROVE  CaptList' /\ (r.state = "prepared" => Quiet("in")) /\ r.state \notin {"running", "paused"}
    <2>1. todo'["capt"] = WithEnd(X, z)
      BY <1>1, <1>2, <1>13, AgentsAre DEF Shape
    <2>2. \A o \in Pend(X) : o.op # "start" /\ o.op # "params"
      BY <1>10
    <2>3. CaptList'
      BY <2>1, <2>2, <1>10, <1>6, <1>13, BeginCapt
    <2> QED
      BY <2>3, <1>2, <1>12, <1>13, AtRest
  <1>14. ~(chip.disconnected \/ (r.state = "running" /\ ~r.locked))
    BY <1>2, <1>12
  <1>15. ~\E o \in Pend(X) : o.op = "start"
    BY <1>10
  <1> QED
    BY <1>2, <1>10, <1>6, <1>12, <1>13, <1>14, <1>15, BeginStep

LEMMA DropSafe ==
  ASSUME IInv, NEW s \in Subs, Drop(s)
  PROVE  IInv'
  <1> DEFINE r == [subs[s] EXCEPT !.locked = TRUE]
             z == Op("end", None, s, "setup")
             A == StopEndpoints(s, FALSE)
             X == IF subs[s].state = "running" THEN A ELSE <<>>
  <1>1. TypeOK /\ Shape /\ Plug
    BY DEF IInv
  <1>2. /\ todo[s] = <<>> /\ ~subs[s].locked /\ ~chip.disconnected
        /\ subs[s].state \in {"running", "prepared"}
        /\ subs' = [subs EXCEPT ![s] = r] /\ UNCHANGED <<ep, urb, chip, irq>>
        /\ todo' = [todo EXCEPT ![s] = WithEnd(X, z)]
    BY DEF Drop, CanCall, Call, WithEnd
  <1>3. /\ Body(A, s) /\ \A o \in Pend(A) : o.op \in {"stop", "sync"}
        /\ s = "capt" => \E o \in Pend(A) : o.op = "stop" /\ o.ep = "in"
    BY <1>2, StopBody
  <1>4. Body(X, s) /\ \A o \in Pend(X) : o.op \in {"stop", "sync"}
    BY <1>3, BodyOne
  <1>5. s = "capt" /\ subs[s].state = "running" => \E o \in Pend(X) : o.op = "stop" /\ o.ep = "in"
    BY <1>3
  <1>6. z \in Entries /\ z.op = "end" /\ z.s = s /\ z.v = "setup" /\ z.v \in States
    BY OpIs DEF States, CallOps
  <1> HIDE DEF A, X, z
  <1>7. subs[s] \in SubRec
    BY <1>1, Typed
  <1>8. /\ r \in SubRec /\ r.started = subs[s].started /\ r.eps = subs[s].eps
        /\ r.state = subs[s].state /\ r.locked /\ r.reading = subs[s].reading
    BY <1>7 DEF SubRec
  <1> HIDE DEF r
  <1>9. chip.shutdown => ~r.reading
    BY <1>1, <1>8 DEF Plug
  <1>10. ASSUME s = "capt"
         PROVE  /\ CaptList' /\ (r.state = "prepared" => Quiet("in"))
                /\ r.state \in {"running", "paused"} => \E o \in Pend(X) : o.op = "stop" /\ o.ep = "in"
    <2>1. todo'["capt"] = WithEnd(X, z)
      BY <1>1, <1>2, <1>10, AgentsAre DEF Shape
    <2>2. \A o \in Pend(X) : o.op # "start" /\ o.op # "params"
      BY <1>4
    <2>3. CaptList'
      BY <2>1, <2>2, <1>4, <1>6, <1>10, BeginCapt
    <2>4. r.state = "prepared" => Quiet("in")
      BY <1>2, <1>8, <1>10, AtRest
    <2> QED
      BY <2>3, <2>4, <1>2, <1>5, <1>8, <1>10
  <1>11. ~(chip.disconnected \/ (r.state = "running" /\ ~r.locked))
    BY <1>2, <1>8
  <1>12. ~\E o \in Pend(X) : o.op = "start"
    BY <1>4
  <1> QED
    BY <1>2, <1>4, <1>6, <1>8, <1>9, <1>10, <1>11, <1>12, BeginStep

LEMMA CloseSafe ==
  ASSUME IInv, NEW s \in Subs, Close(s)
  PROVE  IInv'
  <1> DEFINE r == [subs[s] EXCEPT !.buffer = FALSE]
             z == Op("end", None, s, "closed")
             X == StopEndpoints(s, TRUE)
  <1>1. TypeOK /\ Shape /\ Plug /\ Capture
    BY DEF IInv
  <1>2. /\ todo[s] = <<>> /\ ~subs[s].locked
        /\ subs[s].state = "open" \/ chip.disconnected
        /\ subs' = [subs EXCEPT ![s] = r] /\ UNCHANGED <<ep, urb, chip, irq>>
        /\ todo' = [todo EXCEPT ![s] = WithEnd(X, z)]
    BY DEF Close, Call, WithEnd
  <1>3. /\ Body(X, s) /\ \A o \in Pend(X) : o.op \in {"stop", "sync"}
        /\ chip.disconnected => X = <<>>
    BY StopBody
  <1>4. z \in Entries /\ z.op = "end" /\ z.s = s /\ z.v = "closed" /\ z.v \in States
    BY OpIs DEF States, CallOps
  <1> HIDE DEF X, z
  <1>5. subs[s] \in SubRec
    BY <1>1, Typed
  <1>6. /\ r \in SubRec /\ r.started = subs[s].started /\ r.eps = subs[s].eps
        /\ r.state = subs[s].state /\ r.locked = subs[s].locked /\ r.reading = subs[s].reading
    BY <1>5 DEF SubRec
  <1> HIDE DEF r
  <1>7. chip.shutdown => ~r.reading
    BY <1>1, <1>6 DEF Plug
  <1>8. ASSUME s = "capt"
        PROVE  /\ CaptList' /\ (r.state = "prepared" => Quiet("in"))
               /\ ~(r.state \in {"running", "paused"} /\ ~chip.disconnected)
    <2>1. todo'["capt"] = WithEnd(X, z)
      BY <1>1, <1>2, <1>8, AgentsAre DEF Shape
    <2>2. \A o \in Pend(X) : o.op # "start" /\ o.op # "params"
      BY <1>3
    <2>3. CaptList'
      BY <2>1, <2>2, <1>3, <1>4, <1>8, BeginCapt
    <2>4. \A o \in Pend(todo["capt"]) : FALSE
      BY <1>2, <1>8, PendTuples
    <2>5. r.state = "prepared" => Quiet("in")
      BY <2>4, <1>1, <1>6, <1>8 DEF Capture
    <2> QED
      BY <2>3, <2>5, <1>2, <1>6
  <1>9. chip.disconnected \/ (r.state = "running" /\ ~r.locked) => X = <<>>
    BY <1>2, <1>3, <1>6
  <1>10. ~\E o \in Pend(X) : o.op = "start"
    BY <1>3
  <1> QED
    BY <1>2, <1>3, <1>4, <1>6, <1>7, <1>8, <1>9, <1>10, BeginStep

LEMMA PrepareSafe ==
  ASSUME IInv, NEW s \in Subs, Prepare(s)
  PROVE  IInv'
  <1> DEFINE r == [subs[s] EXCEPT !.reading = TRUE]
             z == Op("end", None, s, "prepared")
             Y == ForEach(subs[s].eps, "sync", s)
             A == StopEndpoints(s, TRUE)
             B == Backwards(subs[s].eps, "params", s)
             V == <<Op("ready", None, s, 0)>>
             C == IF subs[s].need_setup THEN Cat(Cat(A, B), V) ELSE <<>>
             P == IF s = "play" THEN StartEndpoints(s) ELSE <<>>
             X == Cat(Cat(Y, C), P)
  <1>1. TypeOK /\ Shape /\ Plug
    BY DEF IInv
  <1>2. /\ todo[s] = <<>> /\ ~subs[s].locked /\ ~chip.disconnected /\ ~chip.shutdown
        /\ subs[s].state \in {"setup", "prepared"}
        /\ subs' = [subs EXCEPT ![s] = r] /\ UNCHANGED <<ep, urb, chip, irq>>
    BY DEF Prepare, CanCall
  <1>3. todo' = [todo EXCEPT ![s] = WithEnd(X, z)]
    BY DEF Prepare, Call, WithEnd, Cat, Backwards
  <1>4. Body(V, s) /\ \A o \in Pend(V) : o.op = "ready"
    BY BodyName
  <1>5. Body(A, s) /\ \A o \in Pend(A) : o.op \in {"stop", "sync"}
    BY StopBody
  <1>6. Body(B, s) /\ \A o \in Pend(B) : o.op = "params"
    BY EachBody DEF Uniform
  <1>7. /\ Body(Y, s) /\ \A o \in Pend(Y) : o.op = "sync"
        /\ s = "capt" => \E o \in Pend(Y) : o.op = "sync" /\ o.ep = "in"
    BY <1>2, EachBody DEF Uniform
  <1>8. Body(P, s) /\ (\A o \in Pend(P) : o.op = "start") /\ (s = "capt" => P = <<>>)
    <2>1. CASE s = "play"
      <3>1. StartEndpoints(s) = Backwards(subs[s].eps, "start", s)
        BY DEF StartEndpoints, Backwards
      <3>2. P = Backwards(subs[s].eps, "start", s)
        BY <2>1, <3>1
      <3>3. Body(Backwards(subs[s].eps, "start", s), s) /\ Uniform(Backwards(subs[s].eps, "start", s), "start")
        BY EachBody
      <3> QED
        BY <2>1, <3>2, <3>3 DEF Uniform
    <2>2. CASE s # "play"
      BY <2>2, BodyOne
    <2> QED
      BY <2>1, <2>2
  <1>9. z \in Entries /\ z.op = "end" /\ z.s = s /\ z.v = "prepared" /\ z.v \in States
    BY OpIs DEF States, CallOps
  <1> HIDE DEF A, B, V, z, Y, P
  <1>10. Body(Cat(A, B), s) /\ Pend(Cat(A, B)) = Pend(A) \cup Pend(B)
    <2>1. StartLess(A)
      BY <1>5 DEF StartLess
    <2> QED
      BY <2>1, <1>5, <1>6, BodyJoin
  <1>11. Body(Cat(Cat(A, B), V), s) /\ Pend(Cat(Cat(A, B), V)) = Pend(Cat(A, B)) \cup Pend(V)
    <2>1. StartLess(Cat(A, B))
      BY <1>5, <1>6, <1>10 DEF StartLess
    <2> QED
      BY <2>1, <1>4, <1>10, BodyJoin, SMTT(30)
  <1>12. Body(C, s) /\ \A o \in Pend(C) : o.op \in {"stop", "sync", "params", "ready"}
    <2>1. CASE subs[s].need_setup
      BY <2>1, <1>4, <1>5, <1>6, <1>10, <1>11
    <2>2. CASE ~subs[s].need_setup
      BY <2>2, BodyOne
    <2> QED
      BY <2>1, <2>2
  <1> HIDE DEF C
  <1>13. Body(Cat(Y, C), s) /\ Pend(Cat(Y, C)) = Pend(Y) \cup Pend(C)
    <2>1. StartLess(Y)
      BY <1>7 DEF StartLess
    <2> QED
      BY <2>1, <1>7, <1>12, BodyJoin
  <1>14. Body(X, s) /\ Pend(X) = Pend(Cat(Y, C)) \cup Pend(P)
    <2>1. StartLess(Cat(Y, C))
      BY <1>7, <1>12, <1>13 DEF StartLess
    <2> QED
      BY <2>1, <1>8, <1>13, BodyJoin
  <1>15. \A o \in Pend(X) : o.op \in {"stop", "sync", "params", "ready", "start"}
    BY <1>7, <1>8, <1>12, <1>13, <1>14
  <1>16. s = "capt" => /\ \A o \in Pend(X) : o.op # "start"
                       /\ \E o \in Pend(X) : o.op = "sync"
    <2> SUFFICES ASSUME s = "capt"
                 PROVE  (\A o \in Pend(X) : o.op # "start") /\ \E o \in Pend(X) : o.op = "sync"
      OBVIOUS
    <2>1. Pend(P) = {}
      BY <1>8, BodyOne
    <2>2. \A o \in Pend(X) : o.op # "start"
      BY <2>1, <1>7, <1>12, <1>13, <1>14
    <2> QED
      BY <2>2, <1>7, <1>13, <1>14
  <1> HIDE DEF X
  <1>17. subs[s] \in SubRec
    BY <1>1, Typed
  <1>18. /\ r \in SubRec /\ r.started = subs[s].started /\ r.eps = subs[s].eps
         /\ r.state = subs[s].state /\ r.locked = subs[s].locked /\ r.reading
    BY <1>17 DEF SubRec
  <1> HIDE DEF r
  <1>19. ASSUME s = "capt"
         PROVE  CaptList' /\ (r.state = "prepared" => Quiet("in")) /\ r.state \notin {"running", "paused"}
    <2>1. todo'["capt"] = WithEnd(X, z)
      BY <1>1, <1>2, <1>3, <1>19, AgentsAre DEF Shape
    <2>2. /\ "in" \notin subs["capt"].started
          /\ Quiet("in") \/ ep["in"].stopping
          /\ subs["capt"].state = "prepared" => Quiet("in")
      BY <1>2, <1>19, AtRest
    <2>3. subs'["capt"].started = subs["capt"].started
      BY <1>1, <1>2, <1>18, <1>19, Typed
    <2>4. (Quiet("in")' <=> Quiet("in")) /\ ep' = ep
      BY <1>2 DEF Quiet, AtHost
    <2>5. "in" \notin subs'["capt"].started
      BY <2>2, <2>3
    <2>6. Quiet("in")' \/ (ep'["in"].stopping /\ \E o \in Pend(X) : o.op = "sync")
      BY <2>2, <2>4, <1>16, <1>19
    <2>7. CaptList'
      BY <2>1, <2>5, <2>6, <1>9, <1>14, <1>16, <1>19, BeginCapt
    <2> QED
      BY <2>2, <2>7, <1>2, <1>18, <1>19
  <1>20. ~(chip.disconnected \/ (r.state = "running" /\ ~r.locked))
    BY <1>2, <1>18
  <1>21. /\ r.reading \/ r.locked
         /\ r.state \in {"setup", "prepared"} /\ \A o \in Pend(X) : o.op # "vfree"
    BY <1>2, <1>15, <1>18
  <1> QED
    BY <1>2, <1>3, <1>14, <1>9, <1>18, <1>19, <1>20, <1>21, BeginStep

LEMMA StartCaptureSafe ==
  ASSUME IInv, StartCapture
  PROVE  IInv'
  <1> DEFINE r == [subs["capt"] EXCEPT !.locked = TRUE]
             x == Op("start", "in", "capt", 0)
             y == Op("retire", "in", "capt", 0)
             z == Op("end", None, "capt", "running")
             X == Cat(<<x>>, <<y>>)
  <1>0. "capt" \in Subs /\ DataEp("capt") = "in" /\ "in" \in Eps
    BY AgentsAre DEF DataEp
  <1>1. TypeOK /\ Shape /\ Plug
    BY DEF IInv
  <1>2. /\ todo["capt"] = <<>> /\ ~subs["capt"].locked /\ ~chip.disconnected
        /\ subs["capt"].state = "prepared"
        /\ subs' = [subs EXCEPT !["capt"] = r] /\ UNCHANGED <<ep, urb, chip, irq>>
    BY DEF StartCapture, CanCall
  <1>3. Backwards(subs["capt"].eps, "start", "capt") = <<x>> /\ Body(<<x>>, "capt")
    BY <1>0, <1>2, EachBody
  <1>4. StartEndpoints("capt") = Backwards(subs["capt"].eps, "start", "capt")
    BY DEF StartEndpoints, Backwards
  <1>5. todo' = [todo EXCEPT !["capt"] = WithEnd(X, z)]
    BY <1>3, <1>4 DEF StartCapture, Call, WithEnd, Cat
  <1>6. Body(<<y>>, "capt")
    BY <1>0, BodyOne
  <1>7. z \in Entries /\ z.op = "end" /\ z.s = "capt" /\ z.v = "running" /\ z.v \in States
    BY <1>0, OpIs DEF States, CallOps
  <1>8. x.op = "start" /\ y.op = "retire"
    BY OpIs
  <1> HIDE DEF x, y, z
  <1>9. Body(X, "capt") /\ Pend(X) = {x, y} /\ X = <<x, y>>
    <2>1. Pend(<<x>>) = {x} /\ Pend(<<y>>) = {y}
      BY PendTuples
    <2>2. OnlyStarts(<<y>>)
      BY <2>1, <1>8 DEF OnlyStarts
    <2>3. Body(X, "capt") /\ Pend(X) = Pend(<<x>>) \cup Pend(<<y>>)
      BY <2>2, <1>3, <1>6, BodyJoin
    <2> QED
      BY <2>1, <2>3, Joined DEF Cat
  <1>10. todo'["capt"] = <<x, y, z>>
    <2>1. todo'["capt"] = WithEnd(X, z)
      BY <1>1, <1>5, <1>0, AgentsAre DEF Shape
    <2>2. WithEnd(X, z) = <<x, y>> \o <<z>>
      BY <1>9 DEF WithEnd
    <2> QED
      BY <2>1, <2>2, Joined
  <1> HIDE DEF X
  <1>11. subs["capt"] \in SubRec
    BY <1>0, <1>1, Typed
  <1>12. /\ r \in SubRec /\ r.started = subs["capt"].started /\ r.eps = subs["capt"].eps
         /\ r.state = subs["capt"].state /\ r.locked /\ r.reading = subs["capt"].reading
    BY <1>11 DEF SubRec
  <1> HIDE DEF r
  <1>13. chip.shutdown => ~r.reading
    BY <1>0, <1>1, <1>12 DEF Plug
  <1>14. Quiet("in") /\ Quiet("in")'
    <2>1. Quiet("in")
      BY <1>2, AtRest
    <2> QED
      BY <2>1, <1>2 DEF Quiet, AtHost
  <1>15. CaptList'
    <2> DEFINE K == todo'["capt"]
    <2>1. Pend(K) = {x, y, z}
      BY <1>10, PendTuples
    <2>2. Len(K) = 3 /\ K[1] = x /\ K[2] = y /\ K[3] = z
      BY <1>10
    <2>3. 1..Len(K) = {1, 2, 3} /\ Len(K) - 2 = 1
      BY <2>2
    <2> HIDE DEF K
    <2>4. \A i \in 1..Len(K) : /\ K[i].op \in {"start", "inc", "go"} => i = Len(K) - 2
                               /\ K[i].op # "submit"
      BY <2>2, <2>3, <1>7, <1>8
    <2>5. RunEnd(z)
      BY <1>7 DEF RunEnd
    <2>6. \A p \in Pend(K) : p.op \in {"start", "retire", "end"} /\ (p.op = "end" => p = z)
      BY <2>1, <1>7, <1>8
    <2>7. \A p \in Pend(K) : /\ p.op \in StartOps
                             /\ p.op \notin {"wait", "submit", "bit", "params"}
                             /\ p.op = "end" => RunEnd(p) /\ p.v # "prepared"
      BY <2>5, <2>6, <1>7 DEF StartOps
    <2>8. \E p \in Pend(K) : RunEnd(p)
      BY <2>1, <2>5
    <2> QED
      BY <2>4, <2>7, <2>8, <1>14 DEF CaptList, K
  <1>16. ~(chip.disconnected \/ (r.state = "running" /\ ~r.locked)) /\ r.state = "prepared"
    BY <1>2, <1>12
  <1>17. \A o \in Pend(X) : o.op # "vfree"
    BY <1>8, <1>9
  <1> QED
    BY <1>0, <1>2, <1>5, <1>7, <1>9, <1>12, <1>13, <1>14, <1>15, <1>16, <1>17, BeginStep

-----------------------------------------------------------------------------
(* Steps that leave every list as it is *)

IrqRec == [at : {"idle", "retire", "test retire", "fetch retire", "retiring", "test running",
                 "test prepare", "fetch prepare", "preparing", "submit", "clear"},
           ep : Eps, urb : Urbs, user : Subs \cup {None}, slot : {0}, return : {"clear"}]

LEMMA RestStep ==
  ASSUME IInv, UNCHANGED <<chip, todo>>, subs' \in [Subs -> SubRec],
         \A t \in Subs : /\ subs'[t].started = subs[t].started /\ subs'[t].eps = subs[t].eps
                         /\ subs'[t].locked = subs[t].locked /\ subs'[t].reading = subs[t].reading
                         /\ subs'[t].state = subs[t].state \/ todo[t] = <<>>,
         subs'["capt"].state # subs["capt"].state =>
            /\ subs'["capt"].state # "prepared"
            /\ "in" \in subs["capt"].started => subs'["capt"].state \in {"running", "paused"}
                                                /\ subs["capt"].state \in {"running", "paused"},
         ep' \in [Eps -> EpRec],
         \A e \in Eps : /\ ep'[e].use = ep[e].use /\ ep'[e].stopping = ep[e].stopping
                        /\ \A u \in AtHost(e)' : u \in ep[e].active => u \in ep'[e].active,
         urb' \in [Eps -> [Urbs -> Places]],
         \A e \in Eps, u \in Urbs : urb'[e][u] = urb[e][u] \/ (u \in AtHost(e) /\ urb'[e][u] # "none"),
         irq' \in IrqRec, InHandler'
  PROVE  IInv'
  <1>1. TypeOK /\ Shape /\ Lists /\ Owned /\ Plug /\ Starting /\ Alone /\ Uses
        /\ Masks /\ QuietDue /\ CaptList /\ Capture
    BY DEF IInv
  <1>2. todo' = todo /\ chip' = chip
    OBVIOUS
  <1>3. \A e \in Eps : AtHost(e)' \subseteq AtHost(e)
    BY DEF AtHost
  <1>4. \A e \in Eps : Quiet(e) => Quiet(e)'
    BY <1>3 DEF Quiet
  <1>5. "in" \in Eps /\ "capt" \in Subs
    BY AgentsAre
  <1>6. \A s \in Subs : todo[s] = <<>> => \A o \in Pend(todo[s]) : FALSE
    BY PendTuples
  <1>7. Lists' /\ Owned'
    BY <1>1, <1>2 DEF Lists, Owned
  <1>8. Plug'
    BY <1>1, <1>2 DEF Plug
  <1>9. Starting'
    BY <1>1, <1>2, <1>6 DEF Starting
  <1>10. Alone'
    <2>1. \A s \in Subs : (HcdFor(s)' <=> HcdFor(s)) /\ (Idle(s)' <=> Idle(s))
      BY <1>2 DEF HcdFor, Idle
    <2>2. \A s \in Subs : todo[s] = <<>> => Idle(s)
      BY <1>6 DEF Idle
    <2> QED
      BY <1>1, <1>2, <2>1, <2>2 DEF Alone
  <1>11. \A s, name, e : Doing(s, name, e)' <=> Doing(s, name, e)
    BY <1>2 DEF Doing
  <1>12. Uses'
    <2>1. \A s \in Subs : Own(s) \subseteq Eps
      BY AgentsAre
    <2> QED
      BY <1>1, <1>2, <1>11, <2>1 DEF Uses
  <1>13. Masks'
    <2> SUFFICES ASSUME NEW e \in Eps, NEW u \in AtHost(e)'
                 PROVE  \/ u \in ep'[e].active
                        \/ \E a \in Agents : Due(a, "bit")' /\ Head(todo'[a]).ep = e /\ Head(todo'[a]).v = u
      BY DEF Masks
    <2>1. u \in AtHost(e)
      BY <1>3
    <2>2. \A a : Due(a, "bit")' <=> Due(a, "bit")
      BY <1>2 DEF Due
    <2> QED
      BY <1>1, <1>2, <2>1, <2>2 DEF Masks
  <1>14. QuietDue'
    <2> SUFFICES ASSUME NEW a \in Agents, todo[a] # <<>>, Head(todo[a]).op \in {"realloc", "kfree", "go"}
                 PROVE  Quiet(Head(todo[a]).ep)'
      BY <1>2 DEF QuietDue
    <2>1. Quiet(Head(todo[a]).ep)
      BY <1>1 DEF QuietDue
    <2>2. Head(todo[a]).ep \in Eps
      <3> DEFINE h == Head(todo[a])
      <3>1. /\ a \in Subs => h.op \in CallOps /\ (h.op \in OwnOps => h.ep \in Eps)
            /\ a = "hcd" => h.op \in StopOps
            /\ a = "hub" => h.ep \in Eps
        BY <1>1, HeadOf
      <3> HIDE DEF h
      <3>3. h.op \in {"realloc", "kfree", "go"}
        BY DEF h
      <3>4. h.op \notin StopOps /\ (h.op \in CallOps => h.op \in OwnOps)
        BY <3>3 DEF StopOps, CallOps, OwnOps
      <3> QED
        BY <3>1, <3>4, AgentsAre DEF h
    <2> QED
      BY <1>4, <2>1, <2>2
  <1>15. CaptList'
    <2> DEFINE L == todo["capt"]
    <2>1. \A o \in Pend(L) : o.op = "submit" => urb'["in"][o.v] \in {"idle", "none"} /\ (chip.gone => Quiet("in")')
      <3> SUFFICES ASSUME NEW o \in Pend(L), o.op = "submit"
                   PROVE  urb'["in"][o.v] \in {"idle", "none"} /\ (chip.gone => Quiet("in")')
        OBVIOUS
      <3>1. urb["in"][o.v] \in {"idle", "none"} /\ (chip.gone => Quiet("in"))
        BY <1>1 DEF CaptList
      <3>2. o.v \in Urbs
        BY <1>1, <1>5 DEF Owned
      <3>3. o.v \notin AtHost("in")
        BY <3>1 DEF AtHost
      <3> QED
        BY <3>1, <3>2, <3>3, <1>4, <1>5
    <2>2. ep'["in"].stopping = ep["in"].stopping /\ subs'["capt"].started = subs["capt"].started
      BY <1>5
    <2> QED
      BY <2>1, <2>2, <1>1, <1>2, <1>4, <1>5 DEF CaptList
  <1>16. Capture'
    <2>1. (\E u \in Urbs : urb'["in"][u] = "none") => \A u \in Urbs : urb'["in"][u] = "none"
      <3> SUFFICES ASSUME NEW u \in Urbs, urb'["in"][u] = "none" PROVE \A v \in Urbs : urb'["in"][v] = "none"
        OBVIOUS
      <3>1. urb["in"][u] = "none"
        BY <1>5
      <3>2. \A v \in Urbs : urb["in"][v] = "none"
        BY <1>1, <3>1 DEF Capture
      <3>3. \A v \in Urbs : v \notin AtHost("in")
        BY <3>2 DEF AtHost
      <3> QED
        BY <3>2, <3>3, <1>5
    <2>2. subs'["capt"].state = "prepared" => Quiet("in")' \/ \E o \in Pend(todo["capt"]) : RunEnd(o)
      BY <1>1, <1>4, <1>5 DEF Capture
    <2>3. chip.disconnected \/ Quiet("in")' \/ ep'["in"].stopping \/ "in" \in subs'["capt"].started
            \/ Doing("capt", "mute", "in") \/ Doing("capt", "dec", "in")
      BY <1>1, <1>4, <1>5 DEF Capture
    <2>4. "in" \in subs'["capt"].started =>
            \/ chip.disconnected
            \/ subs'["capt"].state \in {"running", "paused"} /\ todo["capt"] = <<>> /\ ~HcdFor("capt")
            \/ Doing("capt", "stop", "in")
            \/ \E o \in Pend(todo["capt"]) : RunEnd(o)
      BY <1>1, <1>5 DEF Capture
    <2>5. HcdFor("capt")' <=> HcdFor("capt")
      BY <1>2 DEF HcdFor
    <2> QED
      BY <2>1, <2>2, <2>3, <2>4, <2>5, <1>2, <1>11 DEF Capture
  <1>17. Shape'
    BY <1>1, <1>2 DEF Shape, IrqRec
  <1>18. TypeOK'
    BY <1>1, <1>2, <1>17 DEF TypeOK, SubRec, EpRec, States, IrqRec
  <1> QED
    BY <1>7, <1>8, <1>9, <1>10, <1>12, <1>13, <1>14, <1>15, <1>16, <1>17, <1>18 DEF IInv

LEMMA OpenSafe ==
  ASSUME IInv, NEW s \in Subs, Open(s)
  PROVE  IInv'
  <1> DEFINE r == [subs[s] EXCEPT !.state = "open"]
  <1>1. TypeOK /\ Shape /\ InHandler
    BY DEF IInv
  <1>2. /\ todo[s] = <<>> /\ ~subs[s].locked /\ ~chip.disconnected /\ subs[s].state = "closed"
        /\ subs' = [subs EXCEPT ![s] = r] /\ UNCHANGED <<ep, urb, chip, todo, irq>>
    BY DEF Open, CanCall
  <1>3. r \in SubRec /\ r = [subs[s] EXCEPT !.state = "open"]
    BY <1>1, Typed DEF SubRec, States
  <1> HIDE DEF r
  <1>4. /\ r.started = subs[s].started /\ r.eps = subs[s].eps /\ r.locked = subs[s].locked
        /\ r.reading = subs[s].reading /\ r.state = "open"
    BY <1>1, <1>3, Typed DEF SubRec
  <1>5. /\ subs' \in [Subs -> SubRec] /\ subs'[s] = r /\ \A t \in Subs : t # s => subs'[t] = subs[t]
    BY <1>1, <1>2, <1>3, Typed, SubSet
  <1>6. \A t \in Subs : /\ subs'[t].started = subs[t].started /\ subs'[t].eps = subs[t].eps
                        /\ subs'[t].locked = subs[t].locked /\ subs'[t].reading = subs[t].reading
                        /\ subs'[t].state = subs[t].state \/ todo[t] = <<>>
    BY <1>2, <1>4, <1>5
  <1>7. subs'["capt"].state # subs["capt"].state =>
            subs'["capt"].state = "open" /\ "in" \notin subs["capt"].started
    <2>1. CASE s = "capt"
      BY <2>1, <1>2, <1>4, <1>5, AtRest
    <2>2. CASE s # "capt"
      BY <2>2, <1>5, AgentsAre
    <2> QED
      BY <2>1, <2>2
  <1>8. irq' \in IrqRec /\ InHandler'
    BY <1>1, <1>2 DEF Shape, IrqRec, InHandler
  <1>9. ep' \in [Eps -> EpRec] /\ urb' \in [Eps -> [Urbs -> Places]]
    BY <1>1, <1>2, Typed
  <1> QED
    BY <1>2, <1>5, <1>6, <1>7, <1>8, <1>9, RestStep

\* A trigger that only sets a state and the callbacks.
LEMMA TriggerStep ==
  ASSUME IInv, NEW s \in Subs, todo[s] = <<>>, NEW x \in {"running", "paused"},
         subs' = [subs EXCEPT ![s].state = x], UNCHANGED <<urb, chip, todo, irq>>,
         s = "capt" => subs[s].state \in {"running", "paused"},
         ep' \in [Eps -> EpRec],
         \A e \in Eps : /\ ep'[e].use = ep[e].use /\ ep'[e].stopping = ep[e].stopping
                        /\ ep'[e].active = ep[e].active
  PROVE  IInv'
  <1> DEFINE r == [subs[s] EXCEPT !.state = x]
  <1>1. TypeOK /\ Shape /\ InHandler
    BY DEF IInv
  <1>2. subs' = [subs EXCEPT ![s] = r]
    OBVIOUS
  <1>3. r \in SubRec /\ r = [subs[s] EXCEPT !.state = x]
    BY <1>1, Typed, ZenonT(60) DEF SubRec, States
  <1> HIDE DEF r
  <1>4. /\ r.started = subs[s].started /\ r.eps = subs[s].eps /\ r.locked = subs[s].locked
        /\ r.reading = subs[s].reading /\ r.state = x
    BY <1>1, <1>3, Typed DEF SubRec
  <1>5. /\ subs' \in [Subs -> SubRec] /\ subs'[s] = r /\ \A t \in Subs : t # s => subs'[t] = subs[t]
    BY <1>1, <1>2, <1>3, Typed, SubSet
  <1>6. \A t \in Subs : /\ subs'[t].started = subs[t].started /\ subs'[t].eps = subs[t].eps
                        /\ subs'[t].locked = subs[t].locked /\ subs'[t].reading = subs[t].reading
                        /\ subs'[t].state = subs[t].state \/ todo[t] = <<>>
    BY <1>4, <1>5
  <1>7. subs'["capt"].state # subs["capt"].state =>
            subs'["capt"].state \in {"running", "paused"} /\ subs["capt"].state \in {"running", "paused"}
    <2>1. CASE s = "capt"
      BY <2>1, <1>4, <1>5
    <2>2. CASE s # "capt"
      BY <2>2, <1>5, AgentsAre
    <2> QED
      BY <2>1, <2>2
  <1>8. irq' \in IrqRec /\ InHandler'
    <2>1. irq' = irq /\ urb' = urb
      OBVIOUS
    <2>2. irq' \in IrqRec
      BY <2>1, <1>1 DEF Shape, IrqRec
    <2>3. InHandler'
      BY <2>1, <1>1 DEF InHandler
    <2> QED
      BY <2>2, <2>3
  <1>9. urb' \in [Eps -> [Urbs -> Places]] /\ urb' = urb
    BY <1>1, Typed
  <1> QED
    BY <1>5, <1>6, <1>7, <1>8, <1>9, RestStep

LEMMA PauseSafe ==
  ASSUME IInv, NEW s \in Subs, NEW push \in BOOLEAN, Pause(s, push)
  PROVE  IInv'
  <1> DEFINE d == DataEp(s)
             r == IF s = "play" THEN [ep[d] EXCEPT !.prepare = ~push, !.retire = TRUE]
                                ELSE [ep[d] EXCEPT !.retire = ~push]
             x == IF push THEN "paused" ELSE "running"
  <1>1. TypeOK
    BY DEF IInv
  <1>2. d \in Eps /\ ep[d] \in EpRec
    BY <1>1, AgentsAre, Typed
  <1>3. r \in EpRec /\ r.use = ep[d].use /\ r.stopping = ep[d].stopping /\ r.active = ep[d].active
    BY <1>2 DEF EpRec
  <1>4. ep' = [ep EXCEPT ![d] = r]
    BY DEF Pause
  <1>5. /\ todo[s] = <<>> /\ subs[s].state \in {"running", "paused"}
        /\ subs' = [subs EXCEPT ![s].state = x] /\ UNCHANGED <<urb, chip, todo, irq>>
    BY DEF Pause, CanCall
  <1>6. x \in {"running", "paused"}
    OBVIOUS
  <1> HIDE DEF d, r, x
  <1>7. ep' \in [Eps -> EpRec] /\ ep'[d] = r /\ \A f \in Eps : f # d => ep'[f] = ep[f]
    BY <1>1, <1>2, <1>3, <1>4, Typed, EpSet
  <1>8. \A e \in Eps : /\ ep'[e].use = ep[e].use /\ ep'[e].stopping = ep[e].stopping
                       /\ ep'[e].active = ep[e].active
    BY <1>3, <1>7
  <1> QED
    BY <1>5, <1>6, <1>7, <1>8, TriggerStep

LEMMA StartPlaybackSafe ==
  ASSUME IInv, StartPlayback
  PROVE  IInv'
  <1> DEFINE r == [ep["out"] EXCEPT !.prepare = TRUE, !.retire = TRUE]
  <1>1. TypeOK
    BY DEF IInv
  <1>2. "out" \in Eps /\ ep["out"] \in EpRec /\ "play" \in Subs /\ "play" # "capt"
    BY <1>1, AgentsAre, Typed
  <1>3. r \in EpRec /\ r.use = ep["out"].use /\ r.stopping = ep["out"].stopping /\ r.active = ep["out"].active
    BY <1>2 DEF EpRec
  <1>4. ep' = [ep EXCEPT !["out"] = r]
    BY DEF StartPlayback
  <1>5. /\ todo["play"] = <<>>
        /\ subs' = [subs EXCEPT !["play"].state = "running"] /\ UNCHANGED <<urb, chip, todo, irq>>
    BY DEF StartPlayback, CanCall
  <1>9. "play" = "capt" => FALSE
    OBVIOUS
  <1> HIDE DEF r
  <1>6. ep' \in [Eps -> EpRec] /\ ep'["out"] = r /\ \A f \in Eps : f # "out" => ep'[f] = ep[f]
    BY <1>1, <1>2, <1>3, <1>4, Typed, EpSet
  <1>7. \A e \in Eps : /\ ep'[e].use = ep[e].use /\ ep'[e].stopping = ep[e].stopping
                       /\ ep'[e].active = ep[e].active
    BY <1>3, <1>6
  <1>8. "running" \in {"running", "paused"}
    OBVIOUS
  <1> QED
    BY <1>2, <1>5, <1>6, <1>7, <1>8, TriggerStep

-----------------------------------------------------------------------------
(* The completion handler *)

\* A step that only moves the handler on.
LEMMA MoveStep ==
  ASSUME IInv, UNCHANGED <<ep, urb, subs, chip, todo>>, irq' \in IrqRec,
         irq'.at = irq.at \/ (irq.at # "idle" /\ irq'.at # "idle"),
         irq'.ep = irq.ep, irq'.urb = irq.urb
  PROVE  IInv'
  <1>1. TypeOK /\ InHandler
    BY DEF IInv
  <1>2. ep' = ep /\ urb' = urb /\ subs' = subs
    OBVIOUS
  <1>3. InHandler'
    BY <1>1, <1>2 DEF InHandler
  <1>4. ep' \in [Eps -> EpRec] /\ urb' \in [Eps -> [Urbs -> Places]] /\ subs' \in [Subs -> SubRec]
    BY <1>1, <1>2, Typed
  <1> QED
    BY <1>2, <1>3, <1>4, RestStep

LEMMA NoSink ==
  ASSUME IInv
  PROVE  /\ \A e : ~Sink(e)
         /\ irq \in IrqRec
  <1>1. chip.feedback # "implicit" /\ irq \in IrqRec
    BY DEF IInv, Shape, IrqRec
  <1> QED
    BY <1>1 DEF Sink

LEMMA MovesSafe ==
  ASSUME IInv, \/ \E empty \in BOOLEAN : HandleSync(empty)
               \/ TestRetire \/ FetchRetire \/ Retired \/ TestPrepare \/ FetchPrepare \/ Prepared
               \/ TestRunning
  PROVE  IInv'
  <1>0. TypeOK /\ Shape
    BY DEF IInv
  <1>1. irq \in IrqRec /\ \A e : ~Sink(e)
    BY NoSink, SMTT(30)
  <1>2. UNCHANGED <<ep, urb, subs, chip, todo>>
    BY <1>1, ZenonT(60) DEF HandleSync, TestRetire, FetchRetire, Retired, TestPrepare, FetchPrepare,
                            Prepared, TestRunning, Callback, Fetch, CallbackReturns
  <1>3. /\ irq.at # "idle"
        /\ \E p \in {"test retire", "fetch retire", "retiring", "test running", "test prepare",
                     "fetch prepare", "preparing", "submit", "clear"} :
              \E w \in Subs \cup {None} :
                 irq' = [irq EXCEPT !.at = p] \/ irq' = [irq EXCEPT !.at = p, !.user = w]
    <2>1. CASE \E empty \in BOOLEAN : HandleSync(empty)
      BY <2>1, <1>1 DEF HandleSync, At, GoTo
    <2>2. CASE TestRetire
      BY <2>2 DEF TestRetire, Callback, At, GoTo
    <2>3. CASE TestPrepare
      BY <2>3 DEF TestPrepare, Callback, At, GoTo
    <2>4. CASE TestRunning
      BY <2>4, <1>1 DEF TestRunning, At, GoTo
    <2>5. CASE FetchRetire
      <3>1. ep[irq.ep].user \in Subs \cup {None}
        BY <1>0, <1>1 DEF TypeOK, IrqRec
      <3> QED
        BY <2>5, <3>1 DEF FetchRetire, Fetch, At
    <2>6. CASE FetchPrepare
      <3>1. ep["out"].user \in Subs \cup {None}
        BY <1>0, AgentsAre DEF TypeOK
      <3> QED
        BY <2>6, <3>1 DEF FetchPrepare, Fetch, At
    <2>7. CASE Retired
      BY <2>7 DEF Retired, CallbackReturns, At
    <2>8. CASE Prepared
      BY <2>8 DEF Prepared, CallbackReturns, At
    <2> QED
      BY <2>1, <2>2, <2>3, <2>4, <2>5, <2>6, <2>7, <2>8, ZenonT(60)
  <1>4. irq' \in IrqRec /\ irq'.at # "idle" /\ irq'.ep = irq.ep /\ irq'.urb = irq.urb
    BY <1>1, <1>3 DEF IrqRec
  <1> QED
    BY <1>2, <1>3, <1>4, MoveStep

\* Between entry and return one URB is in its handler.
LEMMA CompleteSafe ==
  ASSUME IInv, NEW e \in Eps, NEW u \in Urbs, Complete(e, u)
  PROVE  IInv'
  <1>1. TypeOK /\ Shape /\ InHandler
    BY DEF IInv
  <1>2. /\ irq.at = "idle" /\ u \in OnBus(e)
        /\ urb' = [urb EXCEPT ![e][u] = "handler"] /\ UNCHANGED <<ep, subs, chip, todo>>
        /\ irq' = [irq EXCEPT !.ep = e, !.urb = u,
                          !.at = IF urb[e][u] = "unlinked" \/ chip.gone \/ chip.shutdown
                                 THEN "clear" ELSE "retire"]
    BY DEF Complete, At
  <1>3. irq \in IrqRec
    BY NoSink
  <1>4. irq' \in IrqRec /\ irq'.at # "idle" /\ irq'.ep = e /\ irq'.urb = u
    BY <1>2, <1>3 DEF IrqRec
  <1>5. urb \in [Eps -> [Urbs -> Places]]
    BY <1>1, Typed
  <1>6. urb' \in [Eps -> [Urbs -> Places]]
    BY <1>2, <1>5 DEF Places
  <1>7. \A f \in Eps, v \in Urbs : urb'[f][v] = IF f = e /\ v = u THEN "handler" ELSE urb[f][v]
    BY <1>2, <1>5
  <1>8. InHandler'
    BY <1>1, <1>2, <1>4, <1>7 DEF InHandler
  <1>9. u \in AtHost(e)
    BY <1>2 DEF OnBus, AtHost
  <1>10. \A f \in Eps, v \in Urbs : urb'[f][v] = urb[f][v] \/ (v \in AtHost(f) /\ urb'[f][v] # "none")
    BY <1>7, <1>9
  <1>11. ep' \in [Eps -> EpRec] /\ subs' \in [Subs -> SubRec] /\ ep' = ep /\ subs' = subs
    BY <1>1, <1>2, Typed
  <1> QED
    BY <1>2, <1>4, <1>6, <1>8, <1>10, <1>11, RestStep

LEMMA FirstUrb ==
  1 \in Urbs /\ NUrbs \in Nat /\ NUrbs >= 2
  <1>1. NUrbs \in Nat /\ NUrbs >= 2
    BY SizesAssumption
  <1>2. 1 \in 1..NUrbs
    BY <1>1
  <1> QED
    BY <1>1, <1>2 DEF Urbs

\* The handler returns, and its URB is on the bus again or idle.
LEMMA ReturnStep ==
  ASSUME IInv, irq.at # "idle", NEW p \in {"bus", "idle"},
         urb' = [urb EXCEPT ![irq.ep][irq.urb] = p], irq' = Resting, UNCHANGED <<subs, chip, todo>>,
         ep' \in [Eps -> EpRec],
         \A e \in Eps : ep'[e].use = ep[e].use /\ ep'[e].stopping = ep[e].stopping,
         \A e \in Eps : \A u \in ep[e].active :
            u \in ep'[e].active \/ (e = irq.ep /\ u = irq.urb /\ p = "idle")
  PROVE  IInv'
  <1>1. TypeOK /\ Shape /\ InHandler
    BY DEF IInv
  <1>2. irq \in IrqRec /\ irq.ep \in Eps /\ irq.urb \in Urbs
    BY NoSink DEF IrqRec
  <1>3. urb[irq.ep][irq.urb] = "handler"
    BY <1>1 DEF InHandler
  <1>4. urb \in [Eps -> [Urbs -> Places]]
    BY <1>1, Typed
  <1>5. urb' \in [Eps -> [Urbs -> Places]]
    BY <1>2, <1>4 DEF Places
  <1>6. \A e \in Eps, u \in Urbs : urb'[e][u] = IF e = irq.ep /\ u = irq.urb THEN p ELSE urb[e][u]
    BY <1>2, <1>4
  <1>7. irq.urb \in AtHost(irq.ep)
    BY <1>2, <1>3 DEF AtHost
  <1>8. \A e \in Eps, u \in Urbs : urb'[e][u] = urb[e][u] \/ (u \in AtHost(e) /\ urb'[e][u] # "none")
    BY <1>6, <1>7
  <1>9. irq' \in IrqRec /\ irq'.at = "idle"
    BY FirstUrb, AgentsAre DEF Resting, IrqRec
  <1>10. \A e \in Eps, u \in Urbs : urb'[e][u] # "handler"
    BY <1>1, <1>6 DEF InHandler
  <1>11. InHandler'
    BY <1>9, <1>10 DEF InHandler
  <1>12. \A e \in Eps : \A u \in AtHost(e)' : u \in ep[e].active => u \in ep'[e].active
    <2> SUFFICES ASSUME NEW e \in Eps, NEW u \in AtHost(e)', u \in ep[e].active
                 PROVE  u \in ep'[e].active
      OBVIOUS
    <2>1. u \in Urbs /\ urb'[e][u] \in {"bus", "unlinked", "handler"}
      BY DEF AtHost
    <2>2. u \in ep'[e].active \/ (e = irq.ep /\ u = irq.urb /\ p = "idle")
      OBVIOUS
    <2>3. e = irq.ep /\ u = irq.urb => urb'[e][u] = p
      BY <2>1, <1>6
    <2> QED
      BY <2>1, <2>2, <2>3
  <1>13. subs' \in [Subs -> SubRec] /\ subs' = subs
    BY <1>1, Typed
  <1> QED
    BY <1>5, <1>8, <1>9, <1>11, <1>12, <1>13, RestStep

LEMMA ResubmitSafe ==
  ASSUME IInv, Resubmit
  PROVE  IInv'
  <1>1. irq.at = "submit" /\ UNCHANGED <<ep, subs, chip, todo>>
    BY DEF Resubmit, At
  <1>2. CASE Accepts(irq.ep, irq.urb, "handler") /\ urb' = [urb EXCEPT ![irq.ep][irq.urb] = "bus"] /\ irq' = Resting
    <2>1. ep' \in [Eps -> EpRec] /\ ep' = ep
      BY <1>1, Typed DEF IInv
    <2> QED
      BY <1>1, <1>2, <2>1, ReturnStep
  <1>3. CASE GoTo("clear") /\ UNCHANGED urb
    <2>1. irq \in IrqRec
      BY NoSink
    <2>2. irq' \in IrqRec /\ irq'.at = "clear" /\ irq'.ep = irq.ep /\ irq'.urb = irq.urb
      BY <1>3, <2>1 DEF GoTo, IrqRec
    <2> QED
      BY <1>1, <1>3, <2>2, MoveStep
  <1> QED
    BY <1>2, <1>3 DEF Resubmit

LEMMA ClearBitSafe ==
  ASSUME IInv, ClearBit
  PROVE  IInv'
  <1> DEFINE e == irq.ep
             u == irq.urb
             r == [ep[e] EXCEPT !.active = @ \ {u}]
  <1>1. TypeOK /\ InHandler
    BY DEF IInv
  <1>2. irq.at = "clear" /\ irq' = Resting /\ UNCHANGED <<subs, chip, todo>>
        /\ ep' = [ep EXCEPT ![e] = r]
        /\ urb' = [urb EXCEPT ![e][u] = IF urb[e][u] = "handler" THEN "idle" ELSE urb[e][u]]
    BY DEF ClearBit, At
  <1>3. irq \in IrqRec /\ e \in Eps /\ u \in Urbs
    BY NoSink DEF IrqRec
  <1>4. urb[e][u] = "handler"
    BY <1>1, <1>2 DEF InHandler
  <1>5. urb' = [urb EXCEPT ![irq.ep][irq.urb] = "idle"]
    BY <1>2, <1>4
  <1>6. ep[e] \in EpRec
    BY <1>1, <1>3, Typed
  <1>7. r \in EpRec /\ r.use = ep[e].use /\ r.stopping = ep[e].stopping /\ r.active = ep[e].active \ {u}
    BY <1>6 DEF EpRec
  <1> HIDE DEF r
  <1>8. ep' \in [Eps -> EpRec] /\ ep'[e] = r /\ \A f \in Eps : f # e => ep'[f] = ep[f]
    BY <1>1, <1>2, <1>3, <1>7, Typed, EpSet
  <1>9. \A f \in Eps : ep'[f].use = ep[f].use /\ ep'[f].stopping = ep[f].stopping
    BY <1>7, <1>8
  <1>10. \A f \in Eps : \A v \in ep[f].active : v \in ep'[f].active \/ (f = irq.ep /\ v = irq.urb /\ "idle" = "idle")
    BY <1>7, <1>8
  <1> QED
    BY <1>2, <1>5, <1>8, <1>9, <1>10, ReturnStep

LEMMA NoQueue ==
  ASSUME IInv
  PROVE  ~Queueing
  <1>1. irq \in IrqRec
    BY NoSink
  <1>2. irq.at # "queue" /\ irq.at # "set bit" /\ irq.slot = 0
    BY <1>1 DEF IrqRec
  <1> QED
    BY <1>2 DEF Queueing, QueueRound, QueueSubmit, QueueSetBit, At

LEMMA TodoSet ==
  ASSUME todo \in [Agents -> Seq(Entries)], NEW a \in Agents, NEW K \in Seq(Entries),
         todo' = [todo EXCEPT ![a] = K]
  PROVE  /\ todo' \in [Agents -> Seq(Entries)] /\ todo'[a] = K
         /\ \A b \in Agents : b # a => todo'[b] = todo[b]
  OBVIOUS

\* The handler has found an underrun and takes over the stop of the stream.
LEMMA UnderrunStep ==
  ASSUME IInv, NEW s \in Subs, ~subs[s].locked, subs[s].state = "running", todo["hcd"] = <<>>,
         irq' \in IrqRec, irq.at # "idle", irq'.at # "idle", irq'.ep = irq.ep, irq'.urb = irq.urb,
         subs' = [subs EXCEPT ![s].locked = TRUE], UNCHANGED <<ep, urb, chip>>,
         todo' = [todo EXCEPT !["hcd"] = WithEnd(StopEndpoints(s, FALSE), Op("end", None, s, "setup"))]
  PROVE  IInv'
  <1> DEFINE z == Op("end", None, s, "setup")
             X == StopEndpoints(s, FALSE)
             K == WithEnd(X, z)
             r == [subs[s] EXCEPT !.locked = TRUE]
  <1>1. TypeOK /\ Shape /\ Lists /\ Owned /\ Plug /\ Starting /\ Alone /\ Uses
        /\ InHandler /\ Masks /\ QuietDue /\ CaptList /\ Capture
    BY DEF IInv
  <1>2. chip' = chip /\ ep' = ep /\ urb' = urb
    OBVIOUS
  <1>3. /\ Body(X, s) /\ \A o \in Pend(X) : o.op = "stop"
        /\ s = "capt" /\ ~chip.disconnected => \E o \in Pend(X) : o.op = "stop" /\ o.ep = "in"
    BY StopBody
  <1>4. z \in Entries /\ z.op = "end" /\ z.s = s /\ z.v = "setup"
    BY OpIs DEF States, CallOps
  <1>5. todo' = [todo EXCEPT !["hcd"] = K]
    OBVIOUS
  <1> HIDE DEF X, z
  <1>6. /\ K \in Seq(Entries) /\ K # <<>> /\ Ordered(K) /\ K[Len(K)] = z
        /\ Pend(K) = Pend(X) \cup {z}
    BY <1>3, <1>4, BodyEnd
  <1> HIDE DEF K
  <1>7. \A o \in Pend(K) : /\ o.s = s /\ o.op \in {"stop", "end"}
                           /\ o.op = "stop" => o.ep \in Own(s)
                           /\ o.op = "end" => o.v = "setup"
    <2>1. \A o \in Pend(X) : o.s = s /\ o.ep \in Own(s)
      BY <1>3 DEF Body, OwnOps
    <2> QED
      BY <2>1, <1>3, <1>4, <1>6
  <1>8. /\ todo' \in [Agents -> Seq(Entries)] /\ todo'["hcd"] = K
        /\ \A b \in Agents : b # "hcd" => todo'[b] = todo[b]
    <2>1. todo \in [Agents -> Seq(Entries)] /\ "hcd" \in Agents
      BY <1>1, AgentsAre DEF Shape
    <2> QED
      BY <2>1, <1>5, <1>6, TodoSet
  <1>9. \A t \in Subs : todo'[t] = todo[t]
    BY <1>8, AgentsAre
  <1>10. Pend(todo["hcd"]) = {}
    BY PendTuples
  <1>11. subs[s] \in SubRec
    BY <1>1, Typed
  <1>12. /\ r \in SubRec /\ r.started = subs[s].started /\ r.eps = subs[s].eps /\ r.locked
         /\ r.reading = subs[s].reading /\ r.state = subs[s].state
    BY <1>11 DEF SubRec
  <1>13. subs' = [subs EXCEPT ![s] = r]
    OBVIOUS
  <1> HIDE DEF r
  <1>14. /\ subs' \in [Subs -> SubRec] /\ subs'[s] = r /\ \A t \in Subs : t # s => subs'[t] = subs[t]
    BY <1>1, <1>12, <1>13, Typed, SubSet
  <1>15. \A t \in Subs : /\ subs'[t].started = subs[t].started /\ subs'[t].eps = subs[t].eps
                         /\ subs[t].locked => subs'[t].locked
                         /\ subs'[t].reading = subs[t].reading /\ subs'[t].state = subs[t].state
    BY <1>12, <1>14
  <1>16. \A t \in Subs : ~HcdFor(t) /\ (HcdFor(t)' <=> t = s) /\ (Idle(t)' <=> Idle(t))
    <2>1. z \in Pend(K) /\ z.s = s
      BY <1>4, <1>6
    <2> QED
      BY <2>1, <1>7, <1>8, <1>9, <1>10 DEF HcdFor, Idle
  <1>17. Idle(s) /\ (chip.disconnected \/ todo[s] = <<>>)
    BY <1>1 DEF Alone
  <1>18. \A t \in Subs : \A name \in {"inc", "dec", "mute"} : \A e : Doing(t, name, e)' <=> Doing(t, name, e)
    <2>1. \A t \in Subs : Pend(todo'[t]) = Pend(todo[t])
      BY <1>9
    <2>2. \A o \in Pend(todo'["hcd"]) : o.op \notin {"inc", "dec", "mute"}
      BY <1>7, <1>8
    <2> QED
      BY <2>1, <2>2, <1>10 DEF Doing
  <1>19. Lists'
    BY <1>1, <1>4, <1>6, <1>8 DEF Lists
  <1>20. Owned'
    <2>1. \A o \in Pend(todo'["hcd"]) :
            /\ o.s \in Subs /\ o.op \in StopOps
            /\ o.op \in OwnOps => o.ep \in Own(o.s)
            /\ o.op = "end" => o.v = "setup"
            /\ \A p \in Pend(todo'["hcd"]) : p.s = o.s
      BY <1>7, <1>8, ZenonT(60) DEF StopOps, OwnOps
    <2>2. todo'["hub"] = todo["hub"]
      BY <1>8, AgentsAre
    <2> QED
      BY <2>1, <2>2, <1>1, <1>2, <1>9 DEF Owned
  <1>21. Plug'
    BY <1>1, <1>2, <1>15 DEF Plug
  <1>22. Starting'
    BY <1>1, <1>2, <1>9, <1>15, ZenonT(60) DEF Starting
  <1>23. Alone'
    <2> SUFFICES ASSUME NEW t \in Subs
                 PROVE  /\ HcdFor(t)' => Idle(t)'
                        /\ HcdFor(t)' /\ ~chip'.disconnected => subs'[t].locked /\ todo'[t] = <<>>
                        /\ subs'[t].state = "running" /\ ~subs'[t].locked =>
                              Idle(t)' /\ (chip'.disconnected \/ todo'[t] = <<>>)
      BY DEF Alone
    <2>1. CASE t = s
      BY <2>1, <1>2, <1>9, <1>12, <1>14, <1>16, <1>17
    <2>2. CASE t # s
      BY <2>2, <1>1, <1>2, <1>9, <1>14, <1>16 DEF Alone
    <2> QED
      BY <2>1, <2>2
  <1>24. Uses'
    <2>1. \A t \in Subs : \A o \in Pend(todo'[t]) \cup Pend(todo'["hcd"]) :
             o.op \in {"inc", "dec"} => o \in Pend(todo[t]) \cup Pend(todo["hcd"])
      BY <1>7, <1>8, <1>9
    <2>2. \A t \in Subs : Pend(todo'[t]) = Pend(todo[t])
      BY <1>9
    <2>3. \A t \in Subs : \A e \in Own(t) : ep'[e].use = ep[e].use
                 /\ (e \in subs'[t].started <=> e \in subs[t].started)
                 /\ (Doing(t, "inc", e)' <=> Doing(t, "inc", e)) /\ (Doing(t, "dec", e)' <=> Doing(t, "dec", e))
      BY <1>2, <1>15, <1>18
    <2> SUFFICES ASSUME NEW t \in Subs, NEW e \in Own(t)
                 PROVE  /\ \A o \in Pend(todo'[t]) : o.op = "inc" /\ o.ep = e =>
                                o.v = 1 /\ e \in subs'[t].started /\ ep'[e].use = 0
                        /\ \A o \in Pend(todo'[t]) \cup Pend(todo'["hcd"]) : o.op = "dec" /\ o.ep = e =>
                                o.v = 0 /\ e \notin subs'[t].started /\ ep'[e].use = 1
                        /\ e \in subs'[t].started /\ ~Doing(t, "inc", e)' => ep'[e].use = 1
                        /\ e \notin subs'[t].started /\ ~Doing(t, "dec", e)' => ep'[e].use = 0
      BY DEF Uses
    <2>4. /\ \A o \in Pend(todo[t]) : o.op = "inc" /\ o.ep = e =>
                 o.v = 1 /\ e \in subs[t].started /\ ep[e].use = 0
          /\ \A o \in Pend(todo[t]) \cup Pend(todo["hcd"]) : o.op = "dec" /\ o.ep = e =>
                 o.v = 0 /\ e \notin subs[t].started /\ ep[e].use = 1
          /\ e \in subs[t].started /\ ~Doing(t, "inc", e) => ep[e].use = 1
          /\ e \notin subs[t].started /\ ~Doing(t, "dec", e) => ep[e].use = 0
      BY <1>1 DEF Uses
    <2> QED
      BY <2>1, <2>2, <2>3, <2>4
  <1>25. InHandler'
    BY <1>1, <1>2 DEF InHandler
  <1>26. \A e : Quiet(e)' <=> Quiet(e)
    BY <1>2 DEF Quiet, AtHost
  <1>27. \A a \in Agents : todo'[a] = todo[a] \/ (a = "hcd" /\ todo'[a] # <<>> /\ Head(todo'[a]) \in Pend(K))
    <2>1. Head(K) \in Pend(K)
      BY <1>6, PendOf
    <2> QED
      BY <2>1, <1>6, <1>8
  <1>28. Masks'
    <2> SUFFICES ASSUME NEW e \in Eps, NEW u \in AtHost(e)'
                 PROVE  \/ u \in ep'[e].active
                        \/ \E a \in Agents : Due(a, "bit")' /\ Head(todo'[a]).ep = e /\ Head(todo'[a]).v = u
      BY DEF Masks
    <2>1. u \in AtHost(e)
      BY <1>2 DEF AtHost
    <2>2. CASE u \in ep[e].active
      BY <2>2, <1>2
    <2>3. CASE u \notin ep[e].active
      <3>1. PICK a \in Agents : Due(a, "bit") /\ Head(todo[a]).ep = e /\ Head(todo[a]).v = u
        BY <2>1, <2>3, <1>1 DEF Masks
      <3>2. a # "hcd"
        BY <3>1 DEF Due
      <3>3. todo'[a] = todo[a]
        BY <3>2, <1>8
      <3> QED
        BY <3>1, <3>3 DEF Due
    <2> QED
      BY <2>2, <2>3
  <1>29. QuietDue'
    BY <1>1, <1>7, <1>26, <1>27 DEF QuietDue
  <1>30. "capt" \in Subs
    BY AgentsAre
  <1>31. CaptList'
    BY <1>1, <1>2, <1>9, <1>15, <1>26, <1>30 DEF CaptList
  <1>32. Capture'
    <2>1. "in" \in subs'["capt"].started =>
            \/ chip'.disconnected
            \/ subs'["capt"].state \in {"running", "paused"} /\ todo'["capt"] = <<>> /\ ~HcdFor("capt")'
            \/ Doing("capt", "stop", "in")'
            \/ \E o \in Pend(todo'["capt"]) : RunEnd(o)
      <3> SUFFICES ASSUME "in" \in subs["capt"].started, ~chip.disconnected,
                          ~\E o \in Pend(todo["capt"]) : RunEnd(o)
                   PROVE  \/ subs'["capt"].state \in {"running", "paused"} /\ todo'["capt"] = <<>>
                                /\ ~HcdFor("capt")'
                          \/ Doing("capt", "stop", "in")'
        BY <1>2, <1>9, <1>15, <1>30
      <3>1. \/ subs["capt"].state \in {"running", "paused"} /\ todo["capt"] = <<>>
            \/ Doing("capt", "stop", "in")
        BY <1>1 DEF Capture
      <3>2. CASE Doing("capt", "stop", "in")
        BY <3>2, <1>9, <1>10, <1>30 DEF Doing
      <3>3. CASE s = "capt"
        <4>1. \E o \in Pend(todo'["hcd"]) : o.op = "stop" /\ o.ep = "in"
          BY <3>3, <1>3, <1>6, <1>8
        <4> QED
          BY <4>1 DEF Doing
      <3>4. CASE s # "capt" /\ subs["capt"].state \in {"running", "paused"} /\ todo["capt"] = <<>>
        BY <3>4, <1>9, <1>15, <1>16, <1>30
      <3> QED
        BY <3>1, <3>2, <3>3, <3>4
    <2>2. /\ subs'["capt"].state = subs["capt"].state /\ subs'["capt"].started = subs["capt"].started
          /\ todo'["capt"] = todo["capt"] /\ (Quiet("in")' <=> Quiet("in"))
          /\ (Doing("capt", "mute", "in")' <=> Doing("capt", "mute", "in"))
          /\ (Doing("capt", "dec", "in")' <=> Doing("capt", "dec", "in"))
      BY <1>9, <1>15, <1>18, <1>26, <1>30
    <2> QED
      BY <2>1, <2>2, <1>1, <1>2 DEF Capture
  <1>33. Shape'
    BY <1>1, <1>2, <1>8 DEF Shape, IrqRec
  <1>34. TypeOK'
    BY <1>1, <1>2, <1>14, <1>33, Typed DEF TypeOK, Shape, SubRec, States
  <1> QED
    BY <1>19, <1>20, <1>21, <1>22, <1>23, <1>24, <1>25, <1>28, <1>29, <1>31, <1>32, <1>33, <1>34 DEF IInv

LEMMA OverrunSafe ==
  ASSUME IInv, CaptureOverrun \/ PlaybackUnderrun
  PROVE  IInv'
  <1>1. PICK inside \in {"retiring", "preparing"}, s \in Subs, next \in {"test running", "submit"} :
            CallbackStops(inside, s, next)
    BY AgentsAre DEF CaptureOverrun, PlaybackUnderrun
  <1>2. /\ irq.at = inside /\ todo["hcd"] = <<>> /\ ~subs[s].locked /\ subs[s].state = "running"
        /\ irq' = [irq EXCEPT !.at = next, !.user = None]
        /\ subs' = [subs EXCEPT ![s].locked = TRUE] /\ UNCHANGED <<ep, urb, chip>>
    BY <1>1 DEF CallbackStops, At
  <1>3. todo' = [todo EXCEPT !["hcd"] = WithEnd(StopEndpoints(s, FALSE), Op("end", None, s, "setup"))]
    BY <1>1 DEF CallbackStops, WithEnd
  <1>4. irq \in IrqRec /\ irq.at # "idle"
    BY <1>2, NoSink
  <1>5. irq' \in IrqRec /\ irq'.at # "idle" /\ irq'.ep = irq.ep /\ irq'.urb = irq.urb
    BY <1>2, <1>4 DEF IrqRec
  <1> QED
    BY <1>2, <1>3, <1>4, <1>5, UnderrunStep

LEMMA HandlerSafe ==
  ASSUME IInv, Handler
  PROVE  IInv'
  BY MovesSafe, OverrunSafe, ResubmitSafe, ClearBitSafe, NoQueue DEF Handler

-----------------------------------------------------------------------------
(* Unplugging *)

\* What the hub does to the card leaves everything else as it is.
LEMMA PlugStep ==
  ASSUME IInv, UNCHANGED <<ep, urb, subs, todo, irq>>,
         chip' \in [feedback : {"none", "explicit"}, gone : BOOLEAN, shutdown : BOOLEAN,
                    disconnected : BOOLEAN, freed : SUBSET Eps],
         chip'.feedback = chip.feedback, chip'.disconnected = chip.disconnected,
         chip'.shutdown => chip'.gone /\ \A s \in Subs : ~subs[s].reading,
         chip.shutdown => chip'.shutdown,
         chip'.gone => chip.gone \/ \A o \in Pend(todo["capt"]) : o.op # "submit"
  PROVE  IInv'
  <1>1. TypeOK /\ Shape /\ Lists /\ Owned /\ Plug /\ Starting /\ Alone /\ Uses
        /\ InHandler /\ Masks /\ QuietDue /\ CaptList /\ Capture
    BY DEF IInv
  <1>2. ep' = ep /\ urb' = urb /\ subs' = subs /\ todo' = todo /\ irq' = irq
    OBVIOUS
  <1>3. /\ \A e : AtHost(e)' = AtHost(e) /\ (Quiet(e)' <=> Quiet(e))
        /\ \A s, name, e : Doing(s, name, e)' <=> Doing(s, name, e)
        /\ \A s : (HcdFor(s)' <=> HcdFor(s)) /\ (Idle(s)' <=> Idle(s))
        /\ \A a, name : Due(a, name)' <=> Due(a, name)
    BY <1>2 DEF AtHost, Quiet, Doing, HcdFor, Idle, Due
  <1>4. Lists' /\ Owned'
    BY <1>1, <1>2 DEF Lists, Owned
  <1>5. Plug'
    BY <1>1, <1>2 DEF Plug
  <1>6. Starting' /\ Alone'
    BY <1>1, <1>2, <1>3 DEF Starting, Alone
  <1>7. Uses'
    BY <1>1, <1>2, <1>3 DEF Uses
  <1>8. InHandler' /\ Masks' /\ QuietDue'
    BY <1>1, <1>2, <1>3 DEF InHandler, Masks, QuietDue
  <1>9. CaptList'
    <2>1. \A o \in Pend(todo["capt"]) : o.op = "submit" => (chip'.gone => Quiet("in"))
      BY <1>1 DEF CaptList
    <2> QED
      BY <2>1, <1>1, <1>2, <1>3 DEF CaptList
  <1>10. Capture'
    BY <1>1, <1>2, <1>3 DEF Capture
  <1>11. Shape' /\ TypeOK'
    BY <1>1, <1>2 DEF Shape, TypeOK
  <1> QED
    BY <1>4, <1>5, <1>6, <1>7, <1>8, <1>9, <1>10, <1>11 DEF IInv

LEMMA PendDomain ==
  ASSUME NEW S, NEW L \in Seq(S)
  PROVE  \A o \in Pend(L) : \E i \in DOMAIN L : o = L[i]
  <1>1. DOMAIN L = 1..Len(L)
    OBVIOUS
  <1> QED
    BY <1>1 DEF Pend

LEMMA GoneSafe ==
  ASSUME IInv, Unplug # "any time", Gone
  PROVE  IInv'
  <1>1. TypeOK /\ Shape /\ Plug
    BY DEF IInv
  <1>2. /\ chip' = [chip EXCEPT !.gone = TRUE] /\ UNCHANGED <<ep, urb, subs, todo, irq>>
        /\ \A a \in Agents : \A i \in DOMAIN todo[a] : todo[a][i].op # "submit"
    BY SizesAssumption DEF Gone
  <1>3. \A o \in Pend(todo["capt"]) : o.op # "submit"
    <2>1. todo["capt"] \in Seq(Entries) /\ "capt" \in Agents
      BY <1>1, AgentsAre DEF Shape
    <2>2. \A i \in DOMAIN todo["capt"] : todo["capt"][i].op # "submit"
      BY <2>1, <1>2
    <2>3. \A o \in Pend(todo["capt"]) : \E i \in DOMAIN todo["capt"] : o = todo["capt"][i]
      BY <2>1, PendDomain
    <2> QED
      BY <2>2, <2>3
  <1>4. /\ chip' \in [feedback : {"none", "explicit"}, gone : BOOLEAN, shutdown : BOOLEAN,
                      disconnected : BOOLEAN, freed : SUBSET Eps]
        /\ chip'.feedback = chip.feedback /\ chip'.disconnected = chip.disconnected
        /\ chip'.shutdown = chip.shutdown /\ chip'.gone
    BY <1>1, <1>2 DEF Shape
  <1>5. chip.shutdown => \A s \in Subs : ~subs[s].reading
    BY <1>1 DEF Plug
  <1> QED
    BY <1>2, <1>3, <1>4, <1>5, PlugStep

LEMMA ShutdownSafe ==
  ASSUME IInv, Shutdown
  PROVE  IInv'
  <1>1. Shape
    BY DEF IInv
  <1>2. /\ chip' = [chip EXCEPT !.shutdown = TRUE] /\ UNCHANGED <<ep, urb, subs, todo, irq>>
        /\ chip.gone /\ \A s \in Subs : ~subs[s].reading
    BY DEF Shutdown
  <1>3. /\ chip' \in [feedback : {"none", "explicit"}, gone : BOOLEAN, shutdown : BOOLEAN,
                      disconnected : BOOLEAN, freed : SUBSET Eps]
        /\ chip'.feedback = chip.feedback /\ chip'.disconnected = chip.disconnected
        /\ chip'.shutdown /\ chip'.gone
    BY <1>1, <1>2 DEF Shape
  <1> QED
    BY <1>2, <1>3, PlugStep

LEMMA Listed ==
  ASSUME NEW S, NEW n \in Nat, NEW f, f = [i \in 1..n |-> f[i]], \A i \in 1..n : f[i] \in S
  PROVE  f \in Seq(S)
  OBVIOUS

\* The streams forget their endpoints, and the hub goes on to free them.
LEMMA DisconnectSafe ==
  ASSUME IInv, Disconnect
  PROVE  IInv'
  <1> DEFINE H == ForEach(<<"out", "fb", "in">>, "free", None)
  <1>1. TypeOK /\ Shape /\ Lists /\ Owned /\ Plug /\ Starting /\ Alone /\ Uses
        /\ InHandler /\ Masks /\ QuietDue /\ CaptList /\ Capture
    BY DEF IInv
  <1>2. /\ chip.shutdown /\ ~chip.disconnected /\ \A s \in Subs : ~subs[s].locked
        /\ chip' = [chip EXCEPT !.disconnected = TRUE]
        /\ subs' = [s \in Subs |-> [subs[s] EXCEPT !.eps = <<>>]]
        /\ todo' = [todo EXCEPT !["hub"] = H] /\ UNCHANGED <<ep, urb, irq>>
    BY DEF Disconnect
  <1>3. \A i \in 1..Len(H) : H[i].op = "free" /\ H[i].ep \in Eps /\ H[i].s = None
    <2>1. Len(<<"out", "fb", "in">>) = 3 /\ \A i \in 1..3 : <<"out", "fb", "in">>[i] \in Eps
      BY AgentsAre
    <2>2. H = [i \in 1..3 |-> Op("free", <<"out", "fb", "in">>[i], None, 0)]
      BY <2>1 DEF ForEach
    <2>3. Len(H) = 3
      BY <2>2
    <2> QED
      BY <2>1, <2>2, <2>3, OpIs
  <1>4. H \in Seq(Entries)
    <2>1. Len(<<"out", "fb", "in">>) = 3 /\ \A i \in 1..3 : <<"out", "fb", "in">>[i] \in Eps
      BY AgentsAre
    <2>2. \A e \in Eps : Op("free", e, None, 0) \in Entries
      BY OpIs DEF FreeOps
    <2>3. H = [i \in 1..3 |-> Op("free", <<"out", "fb", "in">>[i], None, 0)]
      BY <2>1 DEF ForEach
    <2>4. \A i \in 1..3 : Op("free", <<"out", "fb", "in">>[i], None, 0) \in Entries
      BY <2>1, <2>2
    <2>5. H = [i \in 1..3 |-> H[i]] /\ \A i \in 1..3 : H[i] \in Entries
      BY <2>3, <2>4
    <2> QED
      BY <2>5, Listed
  <1> HIDE DEF H
  <1>5. /\ todo' \in [Agents -> Seq(Entries)] /\ todo'["hub"] = H
        /\ \A b \in Agents : b # "hub" => todo'[b] = todo[b]
    <2>1. todo \in [Agents -> Seq(Entries)] /\ "hub" \in Agents
      BY <1>1, AgentsAre DEF Shape
    <2> QED
      BY <2>1, <1>2, <1>4, TodoSet
  <1>6. \A s \in Subs : todo'[s] = todo[s]
    BY <1>5, AgentsAre
  <1>7. todo'["hcd"] = todo["hcd"]
    BY <1>5, AgentsAre
  <1>8. \A o \in Pend(H) : o.op = "free" /\ o.ep \in Eps /\ o.s = None
    BY <1>3 DEF Pend
  <1>9. chip \in [feedback : {"none", "explicit"}, gone : BOOLEAN, shutdown : BOOLEAN,
                  disconnected : BOOLEAN, freed : SUBSET Eps]
    BY <1>1 DEF Shape
  <1>10. /\ chip' \in [feedback : {"none", "explicit"}, gone : BOOLEAN, shutdown : BOOLEAN,
                       disconnected : BOOLEAN, freed : SUBSET Eps]
         /\ chip'.gone = chip.gone /\ chip'.shutdown = chip.shutdown
         /\ chip'.disconnected /\ chip'.freed = chip.freed
    BY <1>2, <1>9
  <1>11. subs \in [Subs -> SubRec]
    BY <1>1, Typed
  <1>12. /\ subs' \in [Subs -> SubRec]
         /\ \A t \in Subs : /\ subs'[t].state = subs[t].state /\ subs'[t].locked = subs[t].locked
                            /\ subs'[t].reading = subs[t].reading /\ subs'[t].started = subs[t].started
                            /\ subs'[t].eps = <<>>
    <2>1. ASSUME NEW t \in Subs PROVE [subs[t] EXCEPT !.eps = <<>>] \in SubRec
      <3>1. subs[t] \in SubRec /\ <<>> \in Seq(Eps)
        BY <1>11
      <3> QED
        BY <3>1 DEF SubRec
    <2>2. \A t \in Subs : subs'[t] = [subs[t] EXCEPT !.eps = <<>>]
      BY <1>2
    <2>3. subs' \in [Subs -> SubRec]
      BY <1>2, <2>1
    <2> QED
      BY <2>2, <2>3, <1>11 DEF SubRec
  <1>13. ep' = ep /\ urb' = urb /\ irq' = irq
    BY <1>2
  <1>14. /\ \A e : AtHost(e)' = AtHost(e) /\ (Quiet(e)' <=> Quiet(e))
    BY <1>13 DEF AtHost, Quiet
  <1>15. \A t \in Subs : /\ \A name, e : Doing(t, name, e)' <=> Doing(t, name, e)
                         /\ HcdFor(t)' <=> HcdFor(t)
                         /\ Idle(t)' <=> Idle(t)
    BY <1>6, <1>7 DEF Doing, HcdFor, Idle
  <1>16. Lists'
    <2>1. Ordered(H)
      BY <1>3, <1>4 DEF Ordered, Pair
    <2> QED
      BY <2>1, <1>1, <1>5 DEF Lists
  <1>17. Owned'
    <2>1. \A o \in Pend(todo'["hub"]) : /\ o.ep \in Eps /\ o.op \in FreeOps /\ o.s = None
                                        /\ chip'.disconnected
      BY <1>5, <1>8, <1>10 DEF FreeOps
    <2> QED
      BY <2>1, <1>1, <1>6, <1>7 DEF Owned
  <1>18. Plug'
    BY <1>1, <1>2, <1>10, <1>12 DEF Plug
  <1>19. \A s \in Subs : \A o \in Pend(todo[s]) : o.op \notin Under \cup {"start"}
    BY <1>1, <1>2 DEF Starting, Plug
  <1>20. Starting'
    BY <1>6, <1>19 DEF Starting
  <1>21. Alone'
    BY <1>1, <1>10, <1>12, <1>15, <1>6 DEF Alone
  <1>22. Uses'
    BY <1>1, <1>6, <1>7, <1>12, <1>13, <1>15 DEF Uses
  <1>23. InHandler'
    BY <1>1, <1>13 DEF InHandler
  <1>24. Pend(todo["hub"]) = {}
    BY <1>1, <1>2 DEF Owned
  <1>25. \A a : Due(a, "bit") /\ a \in Agents => todo'[a] = todo[a]
    <2>1. \A a \in Agents : todo[a] # <<>> => Head(todo[a]) \in Pend(todo[a])
      BY <1>1, HeadOf
    <2> QED
      BY <2>1, <1>5, <1>24 DEF Due
  <1>26. Masks'
    <2> SUFFICES ASSUME NEW e \in Eps, NEW u \in AtHost(e)'
                 PROVE  \/ u \in ep'[e].active
                        \/ \E a \in Agents : Due(a, "bit")' /\ Head(todo'[a]).ep = e /\ Head(todo'[a]).v = u
      BY DEF Masks
    <2>1. CASE u \in ep[e].active
      BY <2>1, <1>13
    <2>2. CASE u \notin ep[e].active
      <3>1. u \in AtHost(e)
        BY <1>14
      <3>2. PICK a \in Agents : Due(a, "bit") /\ Head(todo[a]).ep = e /\ Head(todo[a]).v = u
        BY <3>1, <2>2, <1>1 DEF Masks
      <3>3. todo'[a] = todo[a]
        BY <3>2, <1>25
      <3> QED
        BY <3>2, <3>3 DEF Due
    <2> QED
      BY <2>1, <2>2
  <1>27. QuietDue'
    <2>1. H # <<>> => Head(H) \in Pend(H)
      BY <1>4, PendOf
    <2>2. H # <<>> => Head(H).op = "free"
      BY <2>1, <1>8
    <2> QED
      BY <2>2, <1>1, <1>5, <1>14 DEF QuietDue
  <1>28. "capt" \in Subs
    BY AgentsAre
  <1>29. CaptList'
    BY <1>1, <1>6, <1>10, <1>12, <1>13, <1>14, <1>28 DEF CaptList
  <1>30. Capture'
    BY <1>1, <1>6, <1>10, <1>12, <1>13, <1>14, <1>28 DEF Capture
  <1>31. Shape'
    BY <1>1, <1>5, <1>10, <1>13 DEF Shape
  <1>32. TypeOK'
    BY <1>1, <1>10, <1>12, <1>13, Typed DEF TypeOK, SubRec, States
  <1> QED
    BY <1>16, <1>17, <1>18, <1>20, <1>21, <1>22, <1>23, <1>26, <1>27, <1>29, <1>30, <1>31, <1>32 DEF IInv

-----------------------------------------------------------------------------
(* The invariant *)

LEMMA StutterSafe ==
  ASSUME IInv, UNCHANGED vars
  PROVE  IInv'
  <1>1. UNCHANGED <<ep, urb, subs, chip, todo, irq>>
    BY DEF vars
  <1>2. irq \in IrqRec
    BY NoSink
  <1> QED
    BY <1>1, <1>2, MoveStep

LEMMA InitIrq ==
  Resting \in [at : {"idle", "retire", "test retire", "fetch retire", "retiring", "test running",
                     "test prepare", "fetch prepare", "preparing", "submit", "clear"},
               ep : Eps, urb : Urbs, user : Subs \cup {None}, slot : {0}, return : {"clear"}]
  BY FirstUrb, AgentsAre DEF Resting

LEMMA InitEp ==
  [use |-> 0, running |-> FALSE, stopping |-> FALSE, active |-> {}, unlinked |-> {},
   user |-> None, slave |-> None, retire |-> FALSE, prepare |-> FALSE,
   ready |-> <<>>, packets |-> 0] \in EpRec
  <1>1. 0 \in 0..(NUrbs - 1) /\ <<>> \in Seq(Urbs) /\ 0 \in Nat
    BY FirstUrb
  <1> QED
    BY <1>1 DEF EpRec

LEMMA InitEps ==
  ASSUME NEW s \in Subs, NEW f \in {"none", "explicit"}
  PROVE  EpsOf(s, f) \in Seq(Eps)
  <1>1. EpsOf(s, f) = <<"in">> \/ EpsOf(s, f) = <<"out">> \/ EpsOf(s, f) = <<"fb", "out">>
    BY Zenon DEF EpsOf
  <1>2. "in" \in Eps /\ "out" \in Eps /\ "fb" \in Eps
    BY AgentsAre
  <1>3. <<"in">> \in Seq(Eps) /\ <<"out">> \in Seq(Eps) /\ <<"fb", "out">> \in Seq(Eps)
    BY <1>2
  <1> QED
    BY <1>1, <1>3

LEMMA InitSub ==
  ASSUME NEW l \in Seq(Eps)
  PROVE  [state |-> "closed", buffer |-> FALSE, need_setup |-> FALSE, started |-> {},
          eps |-> l, locked |-> FALSE, reading |-> FALSE] \in SubRec
  BY DEF SubRec, States

\* At the beginning no agent has anything to do and no endpoint has URBs.
LEMMA InitSafe ==
  ASSUME "implicit" \notin Feedback, Init
  PROVE  IInv
  <1>1. PICK f \in Feedback : chip = [feedback |-> f, gone |-> FALSE, shutdown |-> FALSE,
                                      disconnected |-> FALSE, freed |-> {}]
    BY DEF Init
  <1>2. f \in {"none", "explicit"}
    BY SizesAssumption
  <1>3. /\ chip.feedback = f /\ ~chip.gone /\ ~chip.shutdown /\ ~chip.disconnected /\ chip.freed = {}
        /\ chip \in [feedback : {"none", "explicit"}, gone : BOOLEAN, shutdown : BOOLEAN,
                     disconnected : BOOLEAN, freed : SUBSET Eps]
    BY <1>1, <1>2
  <1>4. todo = [a \in Agents |-> <<>>] /\ irq = Resting
    BY DEF Init
  <1>5. \A a \in Agents : todo[a] = <<>> /\ Pend(todo[a]) = {}
    BY <1>4, PendTuples
  <1>6. todo \in [Agents -> Seq(Entries)]
    BY <1>4
  <1>7. /\ ep \in [Eps -> EpRec]
        /\ \A e \in Eps : ep[e].use = 0
    <2>1. ep = [e \in Eps |->
                 [use |-> 0, running |-> FALSE, stopping |-> FALSE, active |-> {}, unlinked |-> {},
                  user |-> None, slave |-> None, retire |-> FALSE, prepare |-> FALSE,
                  ready |-> <<>>, packets |-> 0]]
      BY DEF Init
    <2> QED
      BY <2>1, InitEp
  <1>8. urb \in [Eps -> [Urbs -> Places]] /\ \A e \in Eps : \A u \in Urbs : urb[e][u] = "none"
    BY DEF Init, Places
  <1>9. \A e \in Eps : AtHost(e) = {}
    BY <1>8 DEF AtHost
  <1>10. /\ subs \in [Subs -> SubRec]
         /\ \A s \in Subs : /\ subs[s].eps = EpsOf(s, f) /\ subs[s].started = {}
                            /\ subs[s].state = "closed" /\ ~subs[s].locked /\ ~subs[s].reading
    <2>1. subs = [s \in Subs |->
                   [state |-> "closed", buffer |-> FALSE, need_setup |-> FALSE, started |-> {},
                    eps |-> EpsOf(s, f), locked |-> FALSE, reading |-> FALSE]]
      BY <1>3 DEF Init
    <2>2. \A s \in Subs : EpsOf(s, f) \in Seq(Eps)
      BY <1>2, InitEps
    <2>3. subs \in [Subs -> SubRec]
      BY <2>1, <2>2, InitSub
    <2> QED
      BY <2>1, <2>3
  <1>11. Subs \subseteq Agents /\ "hcd" \in Agents /\ "hub" \in Agents /\ "capt" \in Subs /\ "capt" \in Agents
         /\ "in" \in Eps /\ \A s \in Subs : Own(s) \subseteq Eps
    BY AgentsAre
  <1>12. \A s \in Subs : todo[s] = <<>> /\ Pend(todo[s]) = {}
    BY <1>5, <1>11
  <1>13. Pend(todo["hcd"]) = {} /\ Pend(todo["hub"]) = {} /\ todo["capt"] = <<>>
    BY <1>5, <1>11
  <1>14. TypeOK
    <2>1. irq.urb \in Urbs /\ irq.slot \in Urbs \cup {0} /\ irq.user \in Subs \cup {None}
      BY <1>4, InitIrq
    <2> QED
      BY <2>1, <1>3, <1>7, <1>8, <1>10, Typed
  <1>15. Shape
    BY <1>3, <1>4, <1>6, InitIrq DEF Shape
  <1>16. Lists
    BY <1>5, OrderedTuples DEF Lists
  <1>17. Owned
    BY <1>12, <1>13 DEF Owned
  <1>18. Plug
    BY <1>3, <1>10 DEF Plug
  <1>19. Starting
    BY <1>12 DEF Starting
  <1>20. Alone
    BY <1>10, <1>12, <1>13 DEF Alone, HcdFor, Idle
  <1>21. Uses
    BY <1>7, <1>10, <1>11, <1>12, <1>13 DEF Uses, Doing
  <1>22. InHandler
    BY <1>4, <1>8 DEF InHandler, Resting
  <1>23. Masks
    BY <1>9 DEF Masks
  <1>24. QuietDue
    BY <1>5 DEF QuietDue
  <1>25. CaptList
    <2>1. Len(<<>>) = 0 /\ 1..0 = {}
      OBVIOUS
    <2> QED
      BY <2>1, <1>11, <1>12, <1>13 DEF CaptList
  <1>26. Capture
    BY <1>8, <1>9, <1>10, <1>11 DEF Capture, Quiet
  <1> QED
    BY <1>14, <1>15, <1>16, <1>17, <1>18, <1>19, <1>20, <1>21, <1>22, <1>23, <1>24, <1>25, <1>26 DEF IInv

LEMMA EndpointSafe ==
  ASSUME IInv, "in" \notin Faulty, NEW a \in Agents, EndpointStep(a)
  PROVE  IInv'
  BY StartEpSafe, IncUseSafe, GoSafe, SubmitSafe, SubmitFailsSafe, SetBitSafe, StopEpSafe, DecUseSafe,
     UnlinkSafe, DetachSafe, MuteSafe, SyncStopSafe, WaitedSafe, SetParamsSafe, ReallocSafe,
     DeactivateEpSafe, FreeEpSafe, KfreeSafe DEF EndpointStep, Wait, WaitTimeout

LEMMA CallSafe ==
  ASSUME IInv, NEW s \in Subs, AppCall(s) \/ CallStep(s)
  PROVE  IInv'
  <1>1. s \in Agents /\ s # "hub"
    BY AgentsAre
  <1> QED
    BY <1>1, AllocBufferSafe, FreeBufferSafe, SetupDoneSafe, SetRetireSafe, EndSafe, OpenSafe, HwParamsSafe,
       HwFreeSafe, PrepareSafe, DropSafe, CloseSafe, PauseSafe DEF AppCall, CallStep

LEMMA NextSafe ==
  ASSUME IInv, Lone, [Next]_vars
  PROVE  IInv'
  <1>1. "in" \notin Faulty /\ Unplug # "any time" /\ "hcd" \in Agents
    BY AgentsAre DEF Lone
  <1>2. ASSUME NEW a \in Agents, EndpointStep(a) PROVE IInv'
    BY <1>1, <1>2, EndpointSafe
  <1>3. ASSUME NEW s \in Subs, AppCall(s) \/ CallStep(s) PROVE IInv'
    BY <1>3, CallSafe
  <1>4. ASSUME End("hcd") PROVE IInv'
    BY <1>1, <1>4, EndSafe
  <1>5. ASSUME NEW e \in Eps, NEW u \in Urbs, Complete(e, u) PROVE IInv'
    BY <1>5, CompleteSafe
  <1>6. ASSUME StartPlayback \/ StartCapture PROVE IInv'
    BY <1>6, StartPlaybackSafe, StartCaptureSafe
  <1>7. ASSUME Handler PROVE IInv'
    BY <1>7, HandlerSafe
  <1>8. ASSUME Gone \/ Shutdown \/ Disconnect PROVE IInv'
    BY <1>1, <1>8, GoneSafe, ShutdownSafe, DisconnectSafe
  <1>9. ASSUME UNCHANGED vars PROVE IInv'
    BY <1>9, StutterSafe
  <1> QED
    BY <1>2, <1>3, <1>4, <1>5, <1>6, <1>7, <1>8, <1>9 DEF Next

LEMMA AlwaysIInv ==
  ASSUME Lone
  PROVE  Spec => []IInv
  <1>1. Init => IInv
    BY InitSafe DEF Lone
  <1>2. IInv /\ [Next]_vars => IInv'
    BY NextSafe
  <1> QED
    BY <1>1, <1>2, PTL DEF Spec

(***************************************************************************)
(* Every variable of endpoints, URBs and substreams keeps its type; that   *)
(* use_count does not fall below zero takes the whole invariant.           *)
(***************************************************************************)
THEOREM TypeCorrect ==
  ASSUME Lone
  PROVE  Spec => []TypeOK
  <1>1. IInv => TypeOK
    BY DEF IInv
  <1> QED
    BY <1>1, AlwaysIInv, PTL

(***************************************************************************)
(* active_mask forgets no URB: one that the host has is in the mask, from  *)
(* which deactivate_urbs unlinks and wait_clear_urbs waits, or the thread  *)
(* that submitted it is about to set its bit.                              *)
(***************************************************************************)
THEOREM HostUrbsAreKnown ==
  ASSUME Lone
  PROVE  Spec => []AtHostIsActive
  <1>1. IInv => AtHostIsActive
    BY ZenonT(60) DEF IInv, Masks, AtHostIsActive
  <1> QED
    BY <1>1, AlwaysIInv, PTL

(***************************************************************************)
(* snd_usb_endpoint_start, which clears both masks without waiting when it *)
(* is called from a trigger, finds every URB of the last run back.         *)
(***************************************************************************)
THEOREM StartsFromRest ==
  ASSUME Lone
  PROVE  Spec => []RestartsFromRest
  <1>1. IInv => RestartsFromRest
    BY DEF IInv, QuietDue, Quiet, Due, RestartsFromRest
  <1> QED
    BY <1>1, AlwaysIInv, PTL

(***************************************************************************)
(* release_urbs frees the URBs of an endpoint, for a new configuration or  *)
(* with the card, only when the host has none of them.                     *)
(***************************************************************************)
THEOREM UrbsFreedWhenIdle ==
  ASSUME Lone
  PROVE  Spec => []FreedWhenIdle
  <1>1. IInv => FreedWhenIdle
    BY DEF IInv, QuietDue, Quiet, Due, FreedWhenIdle
  <1> QED
    BY <1>1, AlwaysIInv, PTL

-----------------------------------------------------------------------------
(* The buffers of the substreams *)

\* No completion of the substream's data endpoint can run a callback.
Still(s) == Quiet(DataEp(s)) \/ chip.shutdown
NoBuf == {"closed", "open"}

\* A substream without a buffer is still.  It has one in every state that needs
\* it, as far as its thread is between two calls, or the handler stops it.
Held ==
    \A s \in Subs :
        /\ subs[s].buffer \/ Still(s)
        /\ subs[s].state \in NoBuf => Still(s)
        /\ todo[s] = <<>> /\ ~chip.disconnected /\ subs[s].state \notin NoBuf => subs[s].buffer
        /\ HcdFor(s) => chip.disconnected \/ subs[s].buffer

\* What the entries of a call may rely on: one that sets up or starts has a
\* buffer, and one that frees it has waited for the data endpoint or will.
Entry(s, o) ==
    /\ o.op = "end" /\ o.v \notin NoBuf =>
          subs[s].buffer \/ chip.disconnected \/ \E p \in Pend(todo[s]) : p.op = "alloc"
    /\ o.op \in Under \cup {"start", "params"} =>
          /\ subs[s].buffer /\ subs[s].state \notin NoBuf
          /\ \A p \in Pend(todo[s]) : p.op = "end" => p.v \notin NoBuf
    /\ o.op = "vfree" \/ (o.op = "end" /\ o.v \in NoBuf) =>
          Still(s) \/ \E p \in Pend(todo[s]) : p.op \in {"deact", "wait"} /\ p.ep = DataEp(s)

Ends == \A s \in Subs : \A o \in Pend(todo[s]) : Entry(s, o)

\* A buffer is freed just before the end of the call, which leaves without one.
FreeLast(L) == \A i \in 1..Len(L) : L[i].op = "vfree" => i = Len(L) - 1 /\ L[i + 1].v \in NoBuf
Frees == \A s \in Subs : FreeLast(todo[s])

\* An endpoint is used by the substream whose data it carries, and the handler
\* is in a callback of that substream, while the card is there.
Users ==
    /\ Unplug = "never" => ~chip.gone
    /\ chip.shutdown => irq.at \in {"idle", "clear"}
    /\ \A e \in Eps : ep[e].user # None => e = DataEp(ep[e].user)
    /\ irq.at \in {"test prepare", "fetch prepare", "preparing"} => irq.ep = "out"
    /\ irq.at \in {"retiring", "preparing"} /\ irq.user # None => irq.ep = DataEp(irq.user)

LEMMA EntrySame ==
  ASSUME NEW s \in Subs, NEW o, Entry(s, o), todo'[s] = todo[s],
         subs'[s].buffer = subs[s].buffer, subs'[s].state \in NoBuf => subs[s].state \in NoBuf,
         Still(s) => Still(s)', chip.disconnected => chip'.disconnected
  PROVE  Entry(s, o)'
  BY DEF Entry

\* A step that no thread makes.
LEMMA HeldRest ==
  ASSUME Held, Ends,
         \A s \in Subs : /\ todo'[s] = todo[s] /\ subs'[s].buffer = subs[s].buffer
                         /\ subs'[s].state \in NoBuf => subs[s].state \in NoBuf
                         /\ subs[s].state \in NoBuf /\ subs'[s].state \notin NoBuf =>
                               chip.disconnected \/ subs[s].buffer
                         /\ Still(s) => Still(s)'
                         /\ HcdFor(s)' => HcdFor(s) \/ chip'.disconnected \/ subs[s].buffer,
         chip.disconnected => chip'.disconnected
  PROVE  Held' /\ Ends'
  <1>1. Held'
    <2> SUFFICES ASSUME NEW s \in Subs
                 PROVE  /\ subs'[s].buffer \/ Still(s)'
                        /\ subs'[s].state \in NoBuf => Still(s)'
                        /\ todo'[s] = <<>> /\ ~chip'.disconnected /\ subs'[s].state \notin NoBuf => subs'[s].buffer
                        /\ HcdFor(s)' => chip'.disconnected \/ subs'[s].buffer
      BY DEF Held
    <2> QED
      BY DEF Held
  <1>2. Ends'
    <2> SUFFICES ASSUME NEW s \in Subs, NEW o \in Pend(todo'[s])
                 PROVE  Entry(s, o)'
      BY DEF Ends
    <2>1. Entry(s, o) /\ todo'[s] = todo[s]
      BY DEF Ends
    <2> QED
      BY <2>1, EntrySame
  <1> QED
    BY <1>1, <1>2

\* What an endpoint step may put in the place of entry h.
Follows(x, h) ==
    /\ x \in Entries /\ x.s = h.s
    /\ x.op \in {"unlink", "wait", "realloc", "kfree", "dec", "detach", "mute"}
          \/ (x.op \in Under /\ h.op \in Under \cup {"start"})
Onward(C, h) == C \in Seq(Entries) /\ \A o \in Pend(C) : Follows(o, h)

LEMMA OnwardTuples ==
  ASSUME NEW h
  PROVE  /\ Onward(<<>>, h)
         /\ \A x : Follows(x, h) => Onward(<<x>>, h)
         /\ \A x, y : Follows(x, h) /\ Follows(y, h) => Onward(<<x, y>>, h)
         /\ \A x, y, z : Follows(x, h) /\ Follows(y, h) /\ Follows(z, h) => Onward(<<x, y, z>>, h)
  <1>1. <<>> \in Seq(Entries)
    OBVIOUS
  <1>2. \A x \in Entries : <<x>> \in Seq(Entries)
    OBVIOUS
  <1>3. \A x, y \in Entries : <<x, y>> \in Seq(Entries)
    OBVIOUS
  <1>4. \A x, y, z \in Entries : <<x, y, z>> \in Seq(Entries)
    OBVIOUS
  <1> QED
    BY <1>1, <1>2, <1>3, <1>4, PendTuples DEF Onward, Follows

LEMMA OnwardOps ==
  ASSUME NEW h, h.ep \in Eps, h.s \in Subs \cup {None}
  PROVE  \A v \in Nat :
            /\ \A name \in {"unlink", "wait", "realloc", "kfree", "dec", "detach", "mute"} :
                  Follows(Op(name, h.ep, h.s, v), h)
            /\ \A name \in Under :
                  h.op \in Under \cup {"start"} => Follows(Op(name, h.ep, h.s, v), h)
  BY OpIs DEF Follows, CallOps, OwnOps, FreeOps, Under

SameBuffers == \A s \in Subs : subs'[s].buffer = subs[s].buffer /\ subs'[s].state = subs[s].state

LEMMA TailMore ==
  ASSUME NEW L \in Seq(Entries), Len(L) >= 1, Len(L) # 1
  PROVE  Tail(L) # <<>> /\ Tail(L) \in Seq(Entries)
  <1>1. Tail(L) \in Seq(Entries) /\ Len(Tail(L)) = Len(L) - 1 /\ Len(L) \in Nat
    OBVIOUS
  <1>2. Len(Tail(L)) # 0
    BY <1>1
  <1>3. Len(<<>>) = 0
    OBVIOUS
  <1> QED
    BY <1>1, <1>2, <1>3, Zenon

\* A step of an agent in the middle of its list.
LEMMA HeldThen ==
  ASSUME IInv, IInv', Held, Ends, NEW a \in Agents, todo[a] # <<>>, NEW h, h = Head(todo[a]),
         NEW C, Onward(C, h), Then(a, C), h.op \notin {"end", "alloc", "vfree"}, SameBuffers,
         chip'.shutdown = chip.shutdown, chip'.disconnected = chip.disconnected,
         \A s \in Subs : Still(s) => Still(s)' \/ (h.op = "submit" /\ a = s),
         \A s \in Subs : a = s /\ h.op = "wait" /\ h.ep = DataEp(s) => Still(s)',
         \A s \in Subs : a = s /\ h.op = "deact" /\ h.ep = DataEp(s) =>
            \E o \in Pend(C) : o.op = "wait" /\ o.ep = h.ep
  PROVE  Held' /\ Ends'
  <1>1. Lists0 /\ C \in Seq(Entries) /\ (\A o \in Pend(C) : Follows(o, h)) /\ Shape /\ Owned /\ Lists'
    BY DEF IInv, Shape, Lists0, Onward
  <1>2. /\ todo[a] \in Seq(Entries)
        /\ \A b \in Agents : b # a => todo'[b] = todo[b]
        /\ todo'[a] = C \o Tail(todo[a])
        /\ Pend(todo[a]) = {h} \cup Pend(Tail(todo[a]))
        /\ Pend(todo'[a]) = Pend(C) \cup Pend(Tail(todo[a]))
    BY <1>1, ThenTodo
  <1>3. CASE a \notin Subs
    <2>1. \A s \in Subs : todo'[s] = todo[s]
      BY <1>2, <1>3, AgentsAre
    <2>2. ASSUME NEW s \in Subs, HcdFor(s)' PROVE HcdFor(s)
      <3>1. PICK o \in Pend(todo'["hcd"]) : o.s = s
        BY <2>2 DEF HcdFor
      <3>2. CASE a # "hcd"
        BY <3>1, <3>2, <1>2, AgentsAre DEF HcdFor
      <3>3. CASE a = "hcd"
        <4>1. o \in Pend(C) \/ o \in Pend(Tail(todo[a]))
          BY <3>1, <3>3, <1>2
        <4>2. CASE o \in Pend(C)
          BY <4>2, <1>1, <1>2, <3>1, <3>3 DEF Follows, HcdFor
        <4>3. CASE o \in Pend(Tail(todo[a]))
          BY <4>3, <1>2, <3>1, <3>3 DEF HcdFor
        <4> QED
          BY <4>1, <4>2, <4>3
      <3> QED
        BY <3>2, <3>3
    <2>3. \A s \in Subs : Still(s) => Still(s)'
      BY <1>3
    <2> QED
      BY <2>1, <2>2, <2>3, HeldRest DEF SameBuffers
  <1>4. CASE a \in Subs
    <2>1. Entry(a, h) /\ \A o \in Pend(Tail(todo[a])) : Entry(a, o)
      BY <1>2, <1>4 DEF Ends
    <2>2. \A s \in Subs : HcdFor(s)' => HcdFor(s)
      BY <1>2, <1>4, AgentsAre DEF HcdFor
    <2>3. subs'[a].buffer = subs[a].buffer /\ subs'[a].state = subs[a].state
      BY <1>4 DEF SameBuffers
    <2>4. Still(a) => Still(a)' \/ h.op = "submit"
      BY <1>4
    <2>5. h.op = "submit" => subs[a].buffer /\ subs[a].state \notin NoBuf
      BY <2>1 DEF Entry, Under
    <2>6. todo'[a] # <<>>
      <3>1. todo[a][Len(todo[a])].op = "end" /\ a # "hub"
        BY <1>4, AgentsAre DEF IInv, Lists
      <3>2. Len(todo[a]) \in Nat /\ Len(todo[a]) >= 1 /\ h = todo[a][1]
        BY <1>2
      <3>3. Len(todo[a]) # 1
        BY <3>1, <3>2
      <3>4. Tail(todo[a]) # <<>> /\ Tail(todo[a]) \in Seq(Entries)
        BY <3>2, <3>3, <1>2, TailMore
      <3>5. Pend(Tail(todo[a])) # {}
        BY <3>4, Empty, Zenon
      <3> QED
        BY <3>5, <1>2, PendTuples
    <2>7. Held'
      <3> SUFFICES ASSUME NEW s \in Subs
                   PROVE  /\ subs'[s].buffer \/ Still(s)'
                          /\ subs'[s].state \in NoBuf => Still(s)'
                          /\ todo'[s] = <<>> /\ ~chip'.disconnected /\ subs'[s].state \notin NoBuf => subs'[s].buffer
                          /\ HcdFor(s)' => chip'.disconnected \/ subs'[s].buffer
        BY DEF Held
      <3>1. CASE s = a
        BY <3>1, <2>2, <2>3, <2>4, <2>5, <2>6 DEF Held
      <3>2. CASE s # a
        <4>1. todo'[s] = todo[s] /\ (Still(s) => Still(s)')
          BY <3>2, <1>2, AgentsAre
        <4> QED
          BY <4>1, <2>2 DEF Held, SameBuffers
      <3> QED
        BY <3>1, <3>2
    <2>8. Ends'
      <3> SUFFICES ASSUME NEW s \in Subs, NEW o \in Pend(todo'[s]) PROVE Entry(s, o)'
        BY DEF Ends
      <3>1. CASE s # a
        <4>1. todo'[s] = todo[s] /\ (Still(s) => Still(s)')
          BY <3>1, <1>2, AgentsAre
        <4>2. Entry(s, o)
          BY <4>1 DEF Ends
        <4>3. subs'[s].buffer = subs[s].buffer /\ subs'[s].state = subs[s].state
          BY DEF SameBuffers
        <4> QED
          BY <4>1, <4>2, <4>3, EntrySame
      <3>2. CASE s = a
        <4> DEFINE T == Pend(Tail(todo[a]))
        <4>1. o \in Pend(C) \cup T /\ Pend(todo[a]) = {h} \cup T /\ Pend(todo'[a]) = Pend(C) \cup T
          BY <3>2, <1>2
        <4>2. \A p \in T : Entry(a, p)
          BY <2>1
        <4> HIDE DEF T
        <4>3. ASSUME o.op = "end", o.v \notin NoBuf
              PROVE  subs'[a].buffer \/ chip'.disconnected \/ \E p \in Pend(todo'[a]) : p.op = "alloc"
          <5>1. o \in T
            BY <4>1, <4>3, <1>1 DEF Follows, Under
          <5>2. subs[a].buffer \/ chip.disconnected \/ \E p \in Pend(todo[a]) : p.op = "alloc"
            BY <5>1, <4>2, <4>3 DEF Entry
          <5> QED
            BY <5>2, <2>3, <4>1
        <4>4. ASSUME o.op \in Under \cup {"start", "params"}
              PROVE  /\ subs'[a].buffer /\ subs'[a].state \notin NoBuf
                     /\ \A p \in Pend(todo'[a]) : p.op = "end" => p.v \notin NoBuf
          <5>1. /\ subs[a].buffer /\ subs[a].state \notin NoBuf
                /\ \A p \in Pend(todo[a]) : p.op = "end" => p.v \notin NoBuf
            <6>1. CASE o \in T
              BY <6>1, <4>2, <4>4 DEF Entry
            <6>2. CASE o \in Pend(C)
              <7>1. h.op \in Under \cup {"start"}
                BY <6>2, <4>4, <1>1 DEF Follows, Under
              <7> QED
                BY <7>1, <2>1 DEF Entry
            <6> QED
              BY <6>1, <6>2, <4>1
          <5>2. \A p \in Pend(C) : p.op # "end"
            BY <1>1 DEF Follows, Under
          <5> QED
            BY <5>1, <5>2, <2>3, <4>1
        <4>5. ASSUME o.op = "vfree" \/ (o.op = "end" /\ o.v \in NoBuf)
              PROVE  Still(a)' \/ \E p \in Pend(todo'[a]) : p.op \in {"deact", "wait"} /\ p.ep = DataEp(a)
          <5>1. o \in T
            BY <4>1, <4>5, <1>1 DEF Follows, Under
          <5>2. Still(a) \/ \E p \in Pend(todo[a]) : p.op \in {"deact", "wait"} /\ p.ep = DataEp(a)
            BY <5>1, <4>2, <4>5 DEF Entry
          <5>3. h.op # "submit"
            <6> SUFFICES ASSUME h.op = "submit" PROVE FALSE
              OBVIOUS
            <6>1. h.op \in Under /\ h \in Pend(todo[a]) /\ o \in Pend(todo[a])
              BY <4>1, <5>1 DEF Under
            <6>2. \A p \in Pend(todo[a]) : p.op # "vfree"
              BY <6>1, <1>4 DEF IInv, Starting
            <6>3. \A p \in Pend(todo[a]) : p.op = "end" => p.v \notin NoBuf
              BY <6>1, <2>1 DEF Entry
            <6> QED
              BY <6>1, <6>2, <6>3, <4>5
          <5>4. CASE Still(a)
            BY <5>3, <5>4, <2>4
          <5>5. CASE \E p \in Pend(todo[a]) : p.op \in {"deact", "wait"} /\ p.ep = DataEp(a)
            <6>1. PICK p \in Pend(todo[a]) : p.op \in {"deact", "wait"} /\ p.ep = DataEp(a)
              BY <5>5
            <6>2. CASE p \in T
              BY <6>1, <6>2, <4>1
            <6>3. CASE p = h
              <7>1. h.op = "wait" => Still(a)'
                BY <6>1, <6>3, <1>4
              <7>2. h.op = "deact" => \E q \in Pend(C) : q.op = "wait" /\ q.ep = DataEp(a)
                BY <6>1, <6>3, <1>4
              <7> QED
                BY <7>1, <7>2, <6>1, <6>3, <4>1
            <6> QED
              BY <6>1, <6>2, <6>3, <4>1
          <5> QED
            BY <5>2, <5>4, <5>5
        <4> QED
          BY <3>2, <4>3, <4>4, <4>5 DEF Entry
      <3> QED
        BY <3>1, <3>2
    <2> QED
      BY <2>7, <2>8
  <1> QED
    BY <1>3, <1>4

\* The second inductive invariant, which rests on the first.
Buffers == Held /\ Ends /\ Frees /\ Users

SameFlags == /\ chip'.gone = chip.gone /\ chip'.shutdown = chip.shutdown
             /\ chip'.disconnected = chip.disconnected

\* An endpoint is given to no other substream.
SameUsers == \A e \in Eps : \/ ep'[e].user \in {None, ep[e].user}
                            \/ e = DataEp(ep'[e].user)

LEMMA UsersSame ==
  ASSUME Users, SameFlags, SameUsers, UNCHANGED irq
  PROVE  Users'
  BY DEF Users, SameFlags, SameUsers

LEMMA FreeThen ==
  ASSUME NEW L \in Seq(Entries), L # <<>>, NEW C \in Seq(Entries), \A o \in Pend(C) : o.op # "vfree",
         FreeLast(L), NEW N, N = C \o Tail(L)
  PROVE  FreeLast(N)
  <1>1. Len(L) \in Nat /\ Len(L) >= 1 /\ Len(C) \in Nat /\ Tail(L) \in Seq(Entries)
        /\ Len(Tail(L)) = Len(L) - 1 /\ \A j \in 1..Len(Tail(L)) : Tail(L)[j] = L[j + 1]
    OBVIOUS
  <1>2. /\ Len(N) = Len(C) + Len(Tail(L))
        /\ \A i \in 1..Len(N) :
                IF i <= Len(C) THEN i \in 1..Len(C) /\ N[i] = C[i]
                               ELSE i - Len(C) \in 1..Len(Tail(L)) /\ N[i] = Tail(L)[i - Len(C)]
    BY <1>1, PendCat
  <1>3. \A i \in 1..Len(C) : C[i].op # "vfree"
    BY DEF Pend
  <1>4. ASSUME NEW i \in 1..Len(N), N[i].op = "vfree"
        PROVE  i = Len(N) - 1 /\ N[i + 1].v \in NoBuf
    <2> DEFINE j == i - Len(C) + 1
    <2>1. ~(i <= Len(C)) /\ i \in Nat
      BY <1>1, <1>2, <1>3, <1>4
    <2>2. j \in 1..Len(L) /\ N[i] = L[j]
      BY <1>1, <1>2, <2>1
    <2>3. j = Len(L) - 1 /\ L[j + 1].v \in NoBuf
      BY <2>2, <1>4 DEF FreeLast
    <2>4. i = Len(N) - 1
      BY <2>1, <2>3, <1>1, <1>2
    <2>5. i + 1 \in 1..Len(N) /\ ~(i + 1 <= Len(C)) /\ i + 1 - Len(C) \in 1..Len(Tail(L))
      BY <2>1, <2>4, <1>1, <1>2
    <2>6. N[i + 1] = Tail(L)[i + 1 - Len(C)] /\ Tail(L)[i + 1 - Len(C)] = L[(i + 1 - Len(C)) + 1]
      BY <2>5, <1>1, <1>2
    <2>7. (i + 1 - Len(C)) + 1 = j + 1
      BY <2>1, <1>1
    <2> QED
      BY <2>3, <2>4, <2>6, <2>7
  <1> QED
    BY <1>4 DEF FreeLast

LEMMA FreeNone ==
  ASSUME NEW L \in Seq(Entries), \A o \in Pend(L) : o.op # "vfree"
  PROVE  FreeLast(L)
  BY DEF FreeLast, Pend

LEMMA FreesThen ==
  ASSUME Frees, Lists0, NEW a \in Agents, todo[a] # <<>>, NEW C \in Seq(Entries), Then(a, C),
         \A o \in Pend(C) : o.op # "vfree"
  PROVE  Frees'
  <1>1. todo[a] \in Seq(Entries) /\ todo'[a] = C \o Tail(todo[a])
        /\ \A b \in Agents : b # a => todo'[b] = todo[b]
    BY ThenTodo
  <1> SUFFICES ASSUME NEW s \in Subs PROVE FreeLast(todo'[s])
    BY DEF Frees
  <1>2. CASE s # a
    BY <1>1, <1>2, AgentsAre DEF Frees
  <1>3. CASE s = a
    BY <1>1, <1>3, FreeThen DEF Frees
  <1> QED
    BY <1>2, <1>3

\* A step of an agent in the middle of its list, by what becomes of the URBs.
LEMMA OnwardStep ==
  ASSUME IInv, IInv', Buffers, NEW a \in Agents, todo[a] # <<>>, NEW h, h = Head(todo[a]),
         NEW C, Onward(C, h), Then(a, C), h.op \notin {"end", "alloc", "vfree"},
         SameBuffers, SameFlags, SameUsers, UNCHANGED irq,
         \A e \in Eps : Quiet(e) => Quiet(e)' \/ (h.op = "submit" /\ h.ep = e),
         \A e \in Eps : h.op = "wait" /\ h.ep = e => Quiet(e)',
         h.op = "deact" => \E o \in Pend(C) : o.op = "wait" /\ o.ep = h.ep
  PROVE  Buffers'
  <1>1. Held /\ Ends /\ Frees /\ Users /\ Shape /\ Owned
    BY DEF Buffers, IInv
  <1>2. Users'
    BY <1>1, UsersSame
  <1>3. ASSUME NEW s \in Subs, Still(s) PROVE Still(s)' \/ (h.op = "submit" /\ a = s)
    <2>1. DataEp(s) \in Eps /\ DataEp(s) \in Own(s)
      BY AgentsAre
    <2>2. CASE chip.shutdown
      BY <2>2 DEF Still, SameFlags
    <2>3. CASE Quiet(DataEp(s)) /\ ~Quiet(DataEp(s))'
      <3>1. h.op = "submit" /\ h.ep = DataEp(s)
        BY <2>1, <2>3
      <3>2. a \in Subs /\ h.ep \in Own(a)
        BY <1>1, <3>1, HeadOf, AgentsAre DEF OwnOps, StopOps, FreeOps
      <3> QED
        BY <2>1, <3>1, <3>2, AgentsAre
    <2> QED
      BY <1>3, <2>2, <2>3 DEF Still
  <1>4. \A s \in Subs : a = s /\ h.op = "wait" /\ h.ep = DataEp(s) => Still(s)'
    BY AgentsAre DEF Still
  <1>5. chip'.shutdown = chip.shutdown /\ chip'.disconnected = chip.disconnected
    BY DEF SameFlags
  <1>6. Held' /\ Ends'
    BY <1>1, <1>3, <1>4, <1>5, HeldThen
  <1>7. Frees'
    <2>1. Lists0 /\ C \in Seq(Entries) /\ \A o \in Pend(C) : o.op # "vfree"
      BY <1>1 DEF Onward, Follows, Under, Lists0, Shape
    <2> QED
      BY <1>1, <2>1, FreesThen
  <1> QED
    BY <1>2, <1>6, <1>7 DEF Buffers

\* The first entry of an agent, if it is about an endpoint.
LEMMA HeadEp ==
  ASSUME IInv, NEW a \in Agents, NEW name \in OwnOps \cup FreeOps, Due(a, name)
  PROVE  LET h == Head(todo[a]) IN
         /\ todo[a] # <<>> /\ h.op = name /\ h.ep \in Eps /\ h.s \in Subs \cup {None}
         /\ ep[h.ep] \in EpRec
  <1>1. Shape /\ Owned /\ TypeOK
    BY DEF IInv
  <1>2. todo[a] # <<>> /\ Head(todo[a]).op = name
    BY DEF Due
  <1>3. name \in OwnOps \/ name = "free" \/ name = "kfree"
    BY DEF OwnOps, FreeOps
  <1>4. Head(todo[a]).ep \in Eps /\ Head(todo[a]).s \in Subs \cup {None}
    BY <1>1, <1>2, <1>3, HeadOf, AgentsAre DEF OwnOps, CallOps, StopOps
  <1> QED
    BY <1>1, <1>2, <1>4, Typed

\* The same with the substreams, the URBs and the card unchanged.
LEMMA PlainStep ==
  ASSUME IInv, IInv', Buffers, NEW a \in Agents, NEW h, todo[a] # <<>>, h = Head(todo[a]),
         NEW C, Onward(C, h), Then(a, C), h.op \notin {"end", "alloc", "vfree", "wait", "submit"},
         h.op = "deact" => \E o \in Pend(C) : o.op = "wait" /\ o.ep = h.ep,
         SameBuffers, UNCHANGED <<urb, chip, irq>>, h.ep \in Eps, NEW r \in EpRec,
         r.user \in {None, ep[h.ep].user} \/ h.ep = DataEp(r.user),
         ep' = [ep EXCEPT ![h.ep] = r]
  PROVE  Buffers'
  <1>1. \A e \in Eps : Quiet(e)' <=> Quiet(e)
    BY DEF Quiet, AtHost
  <1>2. ep'[h.ep] = r /\ \A f \in Eps : f # h.ep => ep'[f] = ep[f]
    BY EpSet, Typed DEF IInv
  <1>3. SameUsers
    <2> SUFFICES ASSUME NEW e \in Eps
                 PROVE  ep'[e].user \in {None, ep[e].user} \/ e = DataEp(ep'[e].user)
      BY DEF SameUsers
    <2> QED
      BY <1>2
  <1>4. SameFlags
    BY DEF SameFlags
  <1> QED
    BY <1>1, <1>3, <1>4, OnwardStep

LEMMA OnwardCat ==
  ASSUME NEW h, NEW C, NEW D, Onward(C, h), Onward(D, h)
  PROVE  Onward(C \o D, h)
  <1>1. C \in Seq(Entries) /\ D \in Seq(Entries)
    BY DEF Onward
  <1>2. C \o D \in Seq(Entries) /\ Pend(C \o D) = Pend(C) \cup Pend(D)
    BY <1>1, PendCat
  <1> QED
    BY <1>2 DEF Onward

LEMMA SetBitHeld ==
  ASSUME IInv, IInv', Buffers, NEW a \in Agents, SetBit(a)
  PROVE  Buffers'
  <1> DEFINE h == Head(todo[a])
             r == [ep[h.ep] EXCEPT !.active = @ \cup {h.v}]
  <1>1. todo[a] # <<>> /\ h.op = "bit" /\ h.ep \in Eps /\ ep[h.ep] \in EpRec
    BY HeadEp DEF SetBit, OwnOps
  <1>2. Then(a, <<>>) /\ ep' = [ep EXCEPT ![h.ep] = r] /\ UNCHANGED <<urb, subs, chip, irq>>
    BY DEF SetBit
  <1>3. h.v \in Urbs
    BY <1>1, HeadOf, AgentsAre, SMTT(30) DEF IInv, OwnOps, StopOps, FreeOps
  <1>4. r \in EpRec /\ r.user = ep[h.ep].user
    BY <1>1, <1>3 DEF EpRec
  <1> HIDE DEF h, r
  <1>5. h = Head(todo[a]) /\ Onward(<<>>, h) /\ SameBuffers
    BY <1>2, OnwardTuples DEF h, SameBuffers
  <1> QED
    BY <1>1, <1>2, <1>4, <1>5, PlainStep

LEMMA DetachHeld ==
  ASSUME IInv, IInv', Buffers, NEW a \in Agents, Detach(a)
  PROVE  Buffers'
  <1> DEFINE h == Head(todo[a])
             r == [ep[h.ep] EXCEPT !.user = None, !.slave = None]
  <1>1. todo[a] # <<>> /\ h.op = "detach" /\ h.ep \in Eps /\ ep[h.ep] \in EpRec
    BY HeadEp DEF Detach, OwnOps
  <1>2. Then(a, <<>>) /\ ep' = [ep EXCEPT ![h.ep] = r] /\ UNCHANGED <<urb, subs, chip, irq>>
    BY DEF Detach
  <1>4. r \in EpRec /\ r.user = None
    BY <1>1 DEF EpRec
  <1> HIDE DEF h, r
  <1>5. h = Head(todo[a]) /\ Onward(<<>>, h) /\ SameBuffers
    BY <1>2, OnwardTuples DEF h, SameBuffers
  <1> QED
    BY <1>1, <1>2, <1>4, <1>5, PlainStep

LEMMA MuteHeld ==
  ASSUME IInv, IInv', Buffers, NEW a \in Agents, Mute(a)
  PROVE  Buffers'
  <1> DEFINE h == Head(todo[a])
             r == [Muted(ep[h.ep]) EXCEPT !.stopping = TRUE]
  <1>1. todo[a] # <<>> /\ h.op = "mute" /\ h.ep \in Eps /\ ep[h.ep] \in EpRec
    BY HeadEp DEF Mute, OwnOps
  <1>2. Then(a, <<>>) /\ ep' = [ep EXCEPT ![h.ep] = r] /\ UNCHANGED <<urb, subs, chip, irq>>
    BY DEF Mute
  <1>4. r \in EpRec /\ r.user = ep[h.ep].user
    BY <1>1 DEF EpRec, Muted
  <1> HIDE DEF h, r
  <1>5. h = Head(todo[a]) /\ Onward(<<>>, h) /\ SameBuffers
    BY <1>2, OnwardTuples DEF h, SameBuffers
  <1> QED
    BY <1>1, <1>2, <1>4, <1>5, PlainStep

LEMMA SyncStopHeld ==
  ASSUME IInv, IInv', Buffers, NEW a \in Agents, SyncStop(a)
  PROVE  Buffers'
  <1> DEFINE h == Head(todo[a])
             w == Op("wait", h.ep, h.s, 0)
             C == IF ep[h.ep].stopping THEN <<w>> ELSE <<>>
             r == ep[h.ep]
  <1>1. todo[a] # <<>> /\ h.op = "sync" /\ h.ep \in Eps /\ r \in EpRec /\ h.s \in Subs \cup {None}
    BY HeadEp DEF SyncStop, OwnOps
  <1>2. Then(a, C) /\ UNCHANGED <<ep, urb, subs, chip, irq>>
    BY DEF SyncStop
  <1>3. ep' = [ep EXCEPT ![h.ep] = r]
    BY <1>1, <1>2, Typed DEF IInv
  <1>4. Onward(C, h)
    <2>1. Follows(w, h)
      BY <1>1, OnwardOps
    <2> HIDE DEF w, h
    <2>2. Onward(<<w>>, h) /\ Onward(<<>>, h)
      BY <2>1, OnwardTuples
    <2> QED
      BY <2>2
  <1> HIDE DEF h, r, C
  <1>5. h = Head(todo[a]) /\ SameBuffers /\ r.user = ep[h.ep].user
    BY <1>2 DEF h, SameBuffers, r
  <1> QED
    BY <1>1, <1>2, <1>3, <1>4, <1>5, PlainStep

LEMMA StopEpHeld ==
  ASSUME IInv, IInv', Buffers, NEW a \in Agents, StopEp(a)
  PROVE  Buffers'
  <1> DEFINE h == Head(todo[a])
             w == Op("dec", h.ep, h.s, ep[h.ep].use - 1)
             C == IF h.ep \in subs[h.s].started /\ ep[h.ep].use # 0 THEN <<w>> ELSE <<>>
             r == ep[h.ep]
  <1>1. todo[a] # <<>> /\ h.op = "stop" /\ h.ep \in Eps /\ r \in EpRec /\ h.s \in Subs \cup {None}
    BY HeadEp DEF StopEp, OwnOps
  <1>2. Then(a, C) /\ UNCHANGED <<ep, urb, chip, irq>>
        /\ subs' = [subs EXCEPT ![h.s].started = @ \ {h.ep}]
    BY ZenonT(60) DEF StopEp
  <1>3. ep' = [ep EXCEPT ![h.ep] = r]
    BY <1>1, <1>2, Typed DEF IInv
  <1>4. Onward(C, h)
    <2>1. Onward(<<>>, h)
      BY OnwardTuples
    <2>2. CASE ep[h.ep].use # 0
      <3>1. ep[h.ep].use - 1 \in Nat
        BY <1>1, <2>2 DEF EpRec
      <3>2. Follows(w, h)
        BY <1>1, <3>1, OnwardOps
      <3> HIDE DEF w, h
      <3>3. Onward(<<w>>, h)
        BY <3>2, OnwardTuples
      <3> QED
        BY <3>3, <2>1
    <2> QED
      BY <2>1, <2>2
  <1>6. SameBuffers
    <2> HIDE DEF h
    <2>1. subs \in [Subs -> SubRec]
      BY Typed DEF IInv
    <2> QED
      BY <1>2, <2>1 DEF SameBuffers, SubRec
  <1> HIDE DEF h, r, C
  <1>5. h = Head(todo[a]) /\ r.user = ep[h.ep].user
    BY <1>2 DEF h, r
  <1> QED
    BY <1>1, <1>2, <1>3, <1>4, <1>5, <1>6, PlainStep

LEMMA DeactivateEpHeld ==
  ASSUME IInv, IInv', Buffers, NEW a \in Agents, DeactivateEp(a)
  PROVE  Buffers'
  <1> DEFINE h == Head(todo[a])
             x == Op("unlink", h.ep, h.s, 0)
             y == Op("wait", h.ep, h.s, 0)
             C == <<x, y>>
             r == Deactivated(ep[h.ep])
  <1>1. todo[a] # <<>> /\ h.op = "deact" /\ h.ep \in Eps /\ ep[h.ep] \in EpRec /\ h.s \in Subs \cup {None}
    BY HeadEp DEF DeactivateEp, OwnOps
  <1>2. Then(a, C) /\ UNCHANGED <<urb, subs, chip, irq>> /\ ep' = [ep EXCEPT ![h.ep] = r]
    BY DEF DeactivateEp
  <1>3. r \in EpRec /\ r.user = ep[h.ep].user
    BY <1>1, Deact, SizesAssumption
  <1>4. Follows(x, h) /\ Follows(y, h) /\ y.op = "wait" /\ y.ep = h.ep
    BY <1>1, OnwardOps, OpIs
  <1> HIDE DEF x, y
  <1>5. Onward(C, h) /\ y \in Pend(C)
    BY <1>4, OnwardTuples, PendTuples
  <1> HIDE DEF h, r, C
  <1>6. h = Head(todo[a]) /\ SameBuffers
    BY <1>2 DEF h, SameBuffers
  <1> QED
    BY <1>1, <1>2, <1>3, <1>4, <1>5, <1>6, PlainStep

LEMMA FreeEpHeld ==
  ASSUME IInv, IInv', Buffers, NEW a \in Agents, FreeEp(a)
  PROVE  Buffers'
  <1> DEFINE h == Head(todo[a])
             x == Op("unlink", h.ep, None, 0)
             y == Op("wait", h.ep, None, 0)
             z == Op("kfree", h.ep, None, 0)
             C == <<x, y, z>>
             r == Deactivated(Muted(ep[h.ep]))
  <1>1. todo[a] # <<>> /\ h.op = "free" /\ h.ep \in Eps /\ ep[h.ep] \in EpRec
    BY HeadEp DEF FreeEp, FreeOps
  <1>2. Then(a, C) /\ UNCHANGED <<urb, subs, chip, irq>> /\ ep' = [ep EXCEPT ![h.ep] = r]
    BY DEF FreeEp
  <1>3. r \in EpRec /\ r.user = ep[h.ep].user
    BY <1>1, Deact, Mutes, SizesAssumption, ZenonT(60)
  <1>4. h.s = None
    BY <1>1, HeadOf, AgentsAre DEF IInv, CallOps, OwnOps, StopOps
  <1>5. Follows(x, h) /\ Follows(y, h) /\ Follows(z, h)
    BY <1>1, <1>4, OnwardOps
  <1> HIDE DEF x, y, z
  <1>6. Onward(C, h)
    BY <1>5, OnwardTuples
  <1> HIDE DEF h, r, C
  <1>7. h = Head(todo[a]) /\ SameBuffers
    BY <1>2 DEF h, SameBuffers
  <1> QED
    BY <1>1, <1>2, <1>3, <1>6, <1>7, PlainStep

LEMMA SetParamsGoesHeld ==
  ASSUME IInv, IInv', Buffers, NEW a \in Agents, SetParams(a), ep[Head(todo[a]).ep].use = 0
  PROVE  Buffers'
  <1> DEFINE h == Head(todo[a])
             x == Op("unlink", h.ep, h.s, 0)
             y == Op("wait", h.ep, h.s, 0)
             z == Op("realloc", h.ep, h.s, 0)
             C == <<x, y, z>>
             r == Deactivated(Muted(ep[h.ep]))
  <1>1. todo[a] # <<>> /\ h.op = "params" /\ h.ep \in Eps /\ ep[h.ep] \in EpRec /\ h.s \in Subs \cup {None}
    BY HeadEp DEF SetParams, OwnOps
  <1>2. Then(a, C) /\ UNCHANGED <<urb, subs, chip, irq>> /\ ep' = [ep EXCEPT ![h.ep] = r]
    BY DEF SetParams
  <1>3. r \in EpRec /\ r.user = ep[h.ep].user
    BY <1>1, Deact, Mutes, SizesAssumption, ZenonT(60)
  <1>5. Follows(x, h) /\ Follows(y, h) /\ Follows(z, h)
    BY <1>1, OnwardOps
  <1> HIDE DEF x, y, z
  <1>6. Onward(C, h)
    BY <1>5, OnwardTuples
  <1> HIDE DEF h, r, C
  <1>7. h = Head(todo[a]) /\ SameBuffers
    BY <1>2 DEF h, SameBuffers
  <1> QED
    BY <1>1, <1>2, <1>3, <1>6, <1>7, PlainStep

LEMMA IncUseHeld ==
  ASSUME IInv, IInv', Buffers, NEW a \in Agents, IncUse(a)
  PROVE  Buffers'
  <1> DEFINE h == Head(todo[a])
             d == IF chip.shutdown THEN ep[h.ep] ELSE Deactivated(ep[h.ep])
             r == [d EXCEPT !.use = 1]
             X == IF chip.shutdown THEN <<>> ELSE <<Op("unlink", h.ep, h.s, 0)>>
             Y == IF h.s = "play" THEN <<Op("wait", h.ep, h.s, 0)>> ELSE <<>>
             Z == <<Op("go", h.ep, h.s, 0)>>
             C == X \o Y \o Z
  <1>1. todo[a] # <<>> /\ h.op = "inc" /\ h.ep \in Eps /\ ep[h.ep] \in EpRec /\ h.s \in Subs \cup {None}
    BY HeadEp DEF IncUse, OwnOps
  <1>2. a \in Subs /\ h.ep \in Own(a) /\ h \in Pend(todo[a])
    BY <1>1, HeadOf, AgentsAre DEF IInv, StopOps, FreeOps, OwnOps
  <1>3. h.v = 1
    BY <1>1, <1>2 DEF IInv, Uses
  <1>4. UNCHANGED <<urb, subs, chip, irq>> /\ ep' = [ep EXCEPT ![h.ep] = r] /\ Then(a, C)
    BY <1>3 DEF IncUse
  <1>5. r \in EpRec /\ r.user = ep[h.ep].user
    <2>1. d \in EpRec /\ d.user = ep[h.ep].user
      BY <1>1, Deact, SizesAssumption
    <2> HIDE DEF d
    <2> QED
      BY <2>1 DEF EpRec
  <1>6. Onward(C, h)
    <2>1. /\ Follows(Op("unlink", h.ep, h.s, 0), h) /\ Follows(Op("wait", h.ep, h.s, 0), h)
          /\ Follows(Op("go", h.ep, h.s, 0), h)
      BY <1>1, OnwardOps DEF Under
    <2>2. Onward(X, h) /\ Onward(Y, h) /\ Onward(Z, h)
      BY <2>1, OnwardTuples
    <2> HIDE DEF X, Y, Z
    <2>3. Onward(X \o Y, h)
      BY <2>2, OnwardCat
    <2> QED
      BY <2>2, <2>3, OnwardCat
  <1> HIDE DEF h, r, C
  <1>7. h = Head(todo[a]) /\ SameBuffers
    BY <1>4 DEF h, SameBuffers
  <1> QED
    BY <1>1, <1>4, <1>5, <1>6, <1>7, PlainStep

LEMMA DecUseHeld ==
  ASSUME IInv, IInv', Buffers, NEW a \in Agents, DecUse(a)
  PROVE  Buffers'
  <1> DEFINE h == Head(todo[a])
             stops == h.v = 0 /\ ~chip.shutdown
             d == IF stops THEN Deactivated(ep[h.ep]) ELSE ep[h.ep]
             r == [d EXCEPT !.use = h.v]
             X == IF stops THEN <<Op("unlink", h.ep, h.s, 0)>> ELSE <<>>
             Y == IF h.v = 0 THEN <<Op("detach", h.ep, h.s, 0), Op("mute", h.ep, h.s, 0)>> ELSE <<>>
             C == X \o Y
  <1>1. todo[a] # <<>> /\ h.op = "dec" /\ h.ep \in Eps /\ ep[h.ep] \in EpRec /\ h.s \in Subs \cup {None}
    BY HeadEp DEF DecUse, OwnOps
  <1>2. h.v = 0
    <2>1. Owned /\ Uses /\ Shape
      BY DEF IInv
    <2>2. a # "hub" /\ h \in Pend(todo[a]) /\ h.op \in OwnOps
      BY <1>1, <2>1, HeadOf DEF FreeOps, OwnOps
    <2>3. h.s \in Subs /\ h.ep \in Own(h.s) /\ a \in {h.s, "hcd"}
      BY <1>1, <2>1, <2>2, HeadOf, AgentsAre
    <2> QED
      BY <2>1, <2>2, <2>3, <1>1 DEF Uses
  <1>4. UNCHANGED <<urb, subs, chip, irq>> /\ ep' = [ep EXCEPT ![h.ep] = r] /\ Then(a, C)
    BY DEF DecUse
  <1>5. r \in EpRec /\ r.user = ep[h.ep].user
    <2>1. d \in EpRec /\ d.user = ep[h.ep].user
      BY <1>1, Deact, SizesAssumption
    <2> HIDE DEF d
    <2> QED
      BY <2>1, <1>2 DEF EpRec
  <1>6. Onward(C, h)
    <2>1. /\ Follows(Op("unlink", h.ep, h.s, 0), h) /\ Follows(Op("detach", h.ep, h.s, 0), h)
          /\ Follows(Op("mute", h.ep, h.s, 0), h)
      BY <1>1, OnwardOps
    <2>2. Onward(X, h) /\ Onward(Y, h)
      BY <2>1, OnwardTuples
    <2> HIDE DEF X, Y
    <2> QED
      BY <2>2, OnwardCat
  <1> HIDE DEF h, r, C
  <1>7. h = Head(todo[a]) /\ SameBuffers
    BY <1>4 DEF h, SameBuffers
  <1> QED
    BY <1>1, <1>4, <1>5, <1>6, <1>7, PlainStep

LEMMA GoHeld ==
  ASSUME IInv, IInv', Buffers, NEW a \in Agents, Go(a)
  PROVE  Buffers'
  <1> DEFINE h == Head(todo[a])
             r == [ep[h.ep] EXCEPT !.active = {}, !.unlinked = {}, !.running = TRUE]
             C == Submits(h)
  <1>1. todo[a] # <<>> /\ h.op = "go" /\ h.ep \in Eps /\ ep[h.ep] \in EpRec
    BY HeadEp DEF Go, OwnOps
  <1>2. h.s \in Subs
    BY <1>1, HeadOf, AgentsAre DEF IInv, StopOps, FreeOps, OwnOps
  <1>3. UNCHANGED <<urb, subs, chip, irq>> /\ Then(a, C)
    BY NoSink DEF Go, Submits
  <1>4. ep' = [ep EXCEPT ![h.ep] = r]
    <2>1. ep' = [ep EXCEPT ![h.ep] = [ep[h.ep] EXCEPT !.active = {}, !.unlinked = {}, !.running = TRUE,
                                                      !.ready = ep[h.ep].ready]]
      BY NoSink DEF Go
    <2>2. [ep[h.ep] EXCEPT !.active = {}, !.unlinked = {}, !.running = TRUE, !.ready = ep[h.ep].ready] = r
      BY <1>1 DEF EpRec
    <2> QED
      BY <2>1, <2>2
  <1>5. r \in EpRec /\ r.user = ep[h.ep].user
    BY <1>1 DEF EpRec
  <1>6. Onward(C, h)
    <2>1. C \in Seq(Entries)
      BY <1>1, <1>2, SubmitsAre
    <2>2. \A o \in Pend(C) : o.op \in {"submit", "bit"} /\ o.s = h.s /\ o \in Entries
      BY <1>1, <1>2, <2>1, SubmitsAre, PendOf
    <2> HIDE DEF C, h
    <2> QED
      BY <2>1, <2>2, <1>1 DEF Onward, Follows, Under
  <1> HIDE DEF h, r, C
  <1>7. h = Head(todo[a]) /\ SameBuffers
    BY <1>3 DEF h, SameBuffers
  <1> QED
    BY <1>1, <1>3, <1>4, <1>5, <1>6, <1>7, PlainStep

LEMMA SameEps ==
  ASSUME UNCHANGED ep
  PROVE  SameUsers
  BY DEF SameUsers

LEMMA UnlinkHeld ==
  ASSUME IInv, IInv', Buffers, NEW a \in Agents, Unlink(a)
  PROVE  Buffers'
  <1> DEFINE h == Head(todo[a])
             hit == ep[h.ep].active \ ep[h.ep].unlinked
             r == [ep[h.ep] EXCEPT !.unlinked = @ \cup hit]
             m == [u \in Urbs |-> IF u \in hit /\ urb[h.ep][u] = "bus" THEN "unlinked" ELSE urb[h.ep][u]]
  <1>1. todo[a] # <<>> /\ h.op = "unlink" /\ h.ep \in Eps /\ ep[h.ep] \in EpRec
    BY HeadEp, ZenonT(60) DEF Unlink, OwnOps
  <1>2. Then(a, <<>>) /\ UNCHANGED <<subs, chip, irq>>
        /\ ep' = [ep EXCEPT ![h.ep] = r] /\ urb' = [urb EXCEPT ![h.ep] = m]
    BY ZenonT(60) DEF Unlink
  <1>3. r \in EpRec /\ r.user = ep[h.ep].user
    BY <1>1 DEF EpRec
  <1>4. urb \in [Eps -> [Urbs -> Places]] /\ ep \in [Eps -> EpRec]
    BY Typed DEF IInv
  <1>5. \A u \in Urbs : m[u] = urb[h.ep][u] \/ (urb[h.ep][u] = "bus" /\ m[u] = "unlinked")
    OBVIOUS
  <1> HIDE DEF m, r, h
  <1>6. ASSUME NEW e \in Eps PROVE Quiet(e)' <=> Quiet(e)
    <2>1. \A u \in Urbs : urb'[e][u] = urb[e][u] \/ (urb[e][u] = "bus" /\ urb'[e][u] = "unlinked")
      BY <1>1, <1>2, <1>4, <1>5
    <2> QED
      BY <2>1 DEF Quiet, AtHost
  <1>7. SameUsers
    BY <1>1, <1>2, <1>3, <1>4, EpSet DEF SameUsers
  <1>8. h = Head(todo[a]) /\ Onward(<<>>, h) /\ SameBuffers /\ SameFlags
    BY <1>2, OnwardTuples DEF h, SameBuffers, SameFlags
  <1> QED
    BY <1>1, <1>2, <1>6, <1>7, <1>8, OnwardStep, SMTT(30)

LEMMA WaitedHeld ==
  ASSUME IInv, IInv', Buffers, NEW a \in Agents, NEW timeout \in BOOLEAN, Waited(a, timeout)
  PROVE  Buffers'
  <1> DEFINE h == Head(todo[a])
             r == [ep[h.ep] EXCEPT !.stopping = FALSE]
  <1>1. Due(a, "wait") /\ todo[a] # <<>> /\ h.op = "wait" /\ h.ep \in Eps /\ ep[h.ep] \in EpRec
    BY HeadEp DEF Waited, OwnOps
  <1>2. Then(a, <<>>) /\ UNCHANGED <<urb, subs, chip, irq>> /\ ep' = [ep EXCEPT ![h.ep] = r]
    BY DEF Waited
  <1>3. ep[h.ep].active \cap AtHost(h.ep) = {}
    BY DEF Waited
  <1>4. Quiet(h.ep)
    BY <1>1, <1>3, WaitQuiet
  <1>5. r \in EpRec /\ r.user = ep[h.ep].user /\ ep \in [Eps -> EpRec]
    BY <1>1, Typed DEF EpRec, IInv
  <1> HIDE DEF r, h
  <1>6. \A e \in Eps : Quiet(e)' <=> Quiet(e)
    BY <1>2 DEF Quiet, AtHost
  <1>7. SameUsers
    BY <1>1, <1>2, <1>5, EpSet DEF SameUsers
  <1>8. h = Head(todo[a]) /\ Onward(<<>>, h) /\ SameBuffers /\ SameFlags
    BY <1>2, OnwardTuples DEF h, SameBuffers, SameFlags
  <1> QED
    BY <1>1, <1>2, <1>4, <1>6, <1>7, <1>8, OnwardStep

LEMMA SubmitHeld ==
  ASSUME IInv, IInv', Buffers, NEW a \in Agents, Submit(a)
  PROVE  Buffers'
  <1> DEFINE h == Head(todo[a])
  <1>1. todo[a] # <<>> /\ h.op = "submit" /\ h.ep \in Eps
    BY HeadEp DEF Submit, OwnOps
  <1>2. Then(a, <<>>) /\ UNCHANGED <<ep, subs, chip, irq>> /\ urb' = [urb EXCEPT ![h.ep][h.v] = "bus"]
    BY DEF Submit
  <1>3. urb \in [Eps -> [Urbs -> Places]]
    BY Typed DEF IInv
  <1> HIDE DEF h
  <1>4. \A e \in Eps : e # h.ep => urb'[e] = urb[e]
    BY <1>1, <1>2, <1>3
  <1>5. \A e \in Eps : Quiet(e) => Quiet(e)' \/ (h.op = "submit" /\ h.ep = e)
    BY <1>1, <1>4 DEF Quiet, AtHost
  <1>6. h = Head(todo[a]) /\ Onward(<<>>, h) /\ SameBuffers /\ SameFlags /\ SameUsers
    BY <1>2, OnwardTuples, SameEps DEF h, SameBuffers, SameFlags
  <1> QED
    BY <1>1, <1>2, <1>5, <1>6, OnwardStep

LEMMA ReallocHeld ==
  ASSUME IInv, IInv', Buffers, NEW a \in Agents, Realloc(a)
  PROVE  Buffers'
  <1> DEFINE h == Head(todo[a])
  <1>1. todo[a] # <<>> /\ h.op = "realloc" /\ h.ep \in Eps
    BY HeadEp DEF Realloc, OwnOps
  <1>2. Then(a, <<>>) /\ UNCHANGED <<ep, subs, chip, irq>>
        /\ urb' = [urb EXCEPT ![h.ep] = [u \in Urbs |-> "idle"]]
    BY DEF Realloc
  <1>3. Quiet(h.ep)
    BY <1>1 DEF IInv, QuietDue
  <1>4. Unlinked
    BY <1>1, <1>2, <1>3, NewUrbs DEF IInv
  <1> HIDE DEF h
  <1>5. \A e \in Eps : Quiet(e)' <=> Quiet(e)
    BY <1>4, UnlinkedSame
  <1>6. h = Head(todo[a]) /\ Onward(<<>>, h) /\ SameBuffers /\ SameFlags /\ SameUsers
    BY <1>2, OnwardTuples, SameEps DEF h, SameBuffers, SameFlags
  <1> QED
    BY <1>1, <1>2, <1>5, <1>6, OnwardStep

LEMMA KfreeHeld ==
  ASSUME IInv, IInv', Buffers, NEW a \in Agents, Kfree(a)
  PROVE  Buffers'
  <1> DEFINE h == Head(todo[a])
  <1>1. todo[a] # <<>> /\ h.op = "kfree" /\ h.ep \in Eps
    BY HeadEp DEF Kfree, FreeOps
  <1>2. Then(a, <<>>) /\ UNCHANGED <<ep, subs, irq>>
        /\ urb' = [urb EXCEPT ![h.ep] = [u \in Urbs |-> "none"]]
        /\ chip' = [chip EXCEPT !.freed = @ \cup {h.ep}]
    BY DEF Kfree
  <1>3. Quiet(h.ep)
    BY <1>1 DEF IInv, QuietDue
  <1>4. Unlinked
    BY <1>1, <1>2, <1>3, NewUrbs DEF IInv
  <1> HIDE DEF h
  <1>5. \A e \in Eps : Quiet(e)' <=> Quiet(e)
    BY <1>4, UnlinkedSame
  <1>6. SameFlags
    BY <1>2 DEF SameFlags, IInv, Shape
  <1>7. h = Head(todo[a]) /\ Onward(<<>>, h) /\ SameBuffers /\ SameUsers
    BY <1>2, OnwardTuples, SameEps DEF h, SameBuffers
  <1> QED
    BY <1>1, <1>2, <1>5, <1>6, <1>7, OnwardStep

\* A start or a configuration that fails: the rest of the call is dropped.
LEMMA AbortHeld ==
  ASSUME IInv, IInv', Buffers, NEW a \in Subs, todo[a] # <<>>, NEW h, h = Head(todo[a]),
         h.op \in {"start", "params", "submit"}, NEW C, Aborting(a, h, C), Abort(a, C),
         SameBuffers, SameUsers, UNCHANGED <<urb, chip, irq>>
  PROVE  Buffers'
  <1>1. Held /\ Ends /\ Frees /\ Users /\ Shape /\ Owned
    BY DEF Buffers, IInv
  <1>2. SameFlags /\ \A s \in Subs : Still(s)' <=> Still(s)
    BY DEF SameFlags, Still, Quiet, AtHost
  <1>3. Users'
    BY <1>1, <1>2, UsersSame
  <1>4. PICK x, z \in Entries :
            /\ x.op = "unlink" /\ z.op = "end" /\ z.v = subs[a].state
            /\ C = <<z>> \/ C = <<x, z>>
    BY DEF Aborting
  <1>5. C \in Seq(Entries) /\ C # <<>> /\ Pend(C) \subseteq {x, z}
    <2>1. CASE C = <<z>>
      BY <2>1, <1>4, PendTuples
    <2>2. CASE C = <<x, z>>
      BY <2>2, <1>4, PendTuples
    <2> QED
      BY <2>1, <2>2, <1>4
  <1>6. todo'[a] = C /\ \A b \in Agents : b # a => todo'[b] = todo[b]
    <2>1. a \in Agents /\ todo' = [todo EXCEPT ![a] = C]
      BY AgentsAre DEF Abort
    <2> QED
      BY <1>1, <1>5, <2>1, TodoSet DEF Shape
  <1>7. h \in Pend(todo[a])
    BY <1>1, HeadOf, AgentsAre
  <1>8. subs[a].buffer /\ subs[a].state \notin NoBuf
    BY <1>1, <1>7 DEF Ends, Entry, Under
  <1>9. \A s \in Subs : HcdFor(s)' <=> HcdFor(s)
    BY <1>6, AgentsAre DEF HcdFor
  <1>10. Held'
    <2> SUFFICES ASSUME NEW s \in Subs
                 PROVE  /\ subs'[s].buffer \/ Still(s)'
                        /\ subs'[s].state \in NoBuf => Still(s)'
                        /\ todo'[s] = <<>> /\ ~chip'.disconnected /\ subs'[s].state \notin NoBuf => subs'[s].buffer
                        /\ HcdFor(s)' => chip'.disconnected \/ subs'[s].buffer
      BY DEF Held
    <2>1. s # a => todo'[s] = todo[s]
      BY <1>6, AgentsAre
    <2> QED
      BY <2>1, <1>1, <1>2, <1>5, <1>6, <1>9 DEF Held, SameBuffers
  <1>11. Ends'
    <2> SUFFICES ASSUME NEW s \in Subs, NEW o \in Pend(todo'[s]) PROVE Entry(s, o)'
      BY DEF Ends
    <2>1. CASE s # a
      <3>1. todo'[s] = todo[s]
        BY <2>1, <1>6, AgentsAre
      <3>2. Entry(s, o) /\ (Still(s) => Still(s)') /\ (chip.disconnected => chip'.disconnected)
        BY <3>1, <1>1, <1>2 DEF Ends
      <3>3. subs'[s].buffer = subs[s].buffer /\ subs'[s].state = subs[s].state
        BY DEF SameBuffers
      <3> QED
        BY <3>1, <3>2, <3>3, EntrySame
    <2>2. CASE s = a
      <3>1. o.op = "unlink" \/ (o.op = "end" /\ o.v \notin NoBuf)
        BY <2>2, <1>4, <1>5, <1>6, <1>8
      <3>2. subs'[a].buffer
        BY <1>8 DEF SameBuffers
      <3> QED
        BY <3>1, <3>2, <2>2 DEF Entry, Under
    <2> QED
      BY <2>1, <2>2
  <1>12. Frees'
    <2>1. FreeLast(C)
      <3>1. \A o \in Pend(C) : o.op # "vfree"
        BY <1>4, <1>5
      <3> QED
        BY <3>1, <1>5, FreeNone
    <2> SUFFICES ASSUME NEW s \in Subs PROVE FreeLast(todo'[s])
      BY DEF Frees
    <2>2. s # a => todo'[s] = todo[s]
      BY <1>6, AgentsAre
    <2> QED
      BY <2>1, <2>2, <1>1, <1>6 DEF Frees
  <1> QED
    BY <1>3, <1>10, <1>11, <1>12 DEF Buffers

LEMMA StartEpHeld ==
  ASSUME IInv, IInv', Buffers, NEW a \in Agents, StartEp(a)
  PROVE  Buffers'
  <1> DEFINE h == Head(todo[a])
             q == IF h.ep = DataEp(h.s) THEN [ep[h.ep] EXCEPT !.user = h.s] ELSE [ep[h.ep] EXCEPT !.slave = "out"]
             x == Op("unlink", h.ep, h.s, 0)
             y == Op("inc", h.ep, h.s, ep[h.ep].use + 1)
             z == Op("end", None, h.s, subs[h.s].state)
  <1>1. todo[a] # <<>> /\ h.op = "start" /\ h.ep \in Eps /\ ep[h.ep] \in EpRec /\ UNCHANGED <<urb, chip, irq>>
    BY HeadEp DEF StartEp, OwnOps
  <1>2. a \in Subs /\ h.s = a
    BY <1>1, HeadOf, AgentsAre DEF IInv, FreeOps, StopOps
  <1>3. subs \in [Subs -> SubRec] /\ ep \in [Eps -> EpRec]
    BY Typed DEF IInv
  <1>4. CASE h.ep \in subs[h.s].started
    <2>1. Then(a, <<>>) /\ UNCHANGED <<ep, subs>>
      BY <1>4 DEF StartEp
    <2>2. ep' = [ep EXCEPT ![h.ep] = ep[h.ep]] /\ SameBuffers
      BY <2>1, <1>1, <1>3 DEF SameBuffers
    <2> HIDE DEF h
    <2>3. h = Head(todo[a]) /\ Onward(<<>>, h)
      BY OnwardTuples DEF h
    <2> QED
      BY <1>1, <2>1, <2>2, <2>3, PlainStep
  <1>5. q \in EpRec /\ (q.user = ep[h.ep].user \/ h.ep = DataEp(q.user))
    BY <1>1, <1>2 DEF EpRec
  <1>6. CASE h.ep \notin subs[h.s].started /\ ~chip.shutdown
    <2>1. Then(a, <<y>>) /\ ep' = [ep EXCEPT ![h.ep] = q]
          /\ subs' = [subs EXCEPT ![h.s].started = @ \cup {h.ep}]
      BY <1>6 DEF StartEp
    <2>2. Onward(<<y>>, h)
      <3>1. ep[h.ep].use + 1 \in Nat
        BY <1>1 DEF EpRec
      <3>2. Follows(y, h)
        BY <1>1, <1>2, <3>1, OnwardOps DEF Under
      <3> HIDE DEF y
      <3> QED
        BY <3>2, OnwardTuples
    <2> HIDE DEF h, q, y
    <2>3. h = Head(todo[a]) /\ SameBuffers
      BY <2>1, <1>3 DEF h, SameBuffers, SubRec
    <2> QED
      BY <1>1, <1>5, <2>1, <2>2, <2>3, PlainStep
  <1>7. CASE h.ep \notin subs[h.s].started /\ chip.shutdown
    <2>1. Abort(a, <<z>>) /\ ep' = [ep EXCEPT ![h.ep] = q] /\ UNCHANGED subs
      BY <1>7 DEF StartEp
    <2>2. subs[a].state \in States
      BY <1>2, <1>3 DEF SubRec
    <2>3. /\ x.op = "unlink" /\ x.ep = h.ep /\ x.s = a /\ x \in Entries
          /\ z.op = "end" /\ z.s = a /\ z.v = subs[a].state /\ z \in Entries
      BY <2>2, <1>1, <1>2, OpIs DEF CallOps, OwnOps
    <2> HIDE DEF x, z, q, h
    <2>4. Aborting(a, h, <<z>>)
      BY <2>3 DEF Aborting
    <2>5. SameUsers
      BY <1>1, <1>3, <1>5, <2>1, EpSet DEF SameUsers
    <2>6. SameBuffers /\ h = Head(todo[a])
      BY <2>1 DEF SameBuffers, h
    <2> QED
      BY <1>1, <1>2, <2>1, <2>4, <2>5, <2>6, AbortHeld, SMTT(30)
  <1> QED
    BY <1>4, <1>6, <1>7, SMTT(30)

LEMMA SetParamsHeld ==
  ASSUME IInv, IInv', Buffers, NEW a \in Agents, SetParams(a)
  PROVE  Buffers'
  <1> DEFINE h == Head(todo[a])
             x == Op("unlink", h.ep, h.s, 0)
             z == Op("end", None, h.s, subs[h.s].state)
  <1>1. CASE ep[h.ep].use = 0
    BY <1>1, SetParamsGoesHeld
  <1>2. CASE ep[h.ep].use # 0
    <2>1. todo[a] # <<>> /\ h.op = "params" /\ h.ep \in Eps
      BY HeadEp DEF SetParams, OwnOps
    <2>2. a \in Subs /\ h.s = a
      BY <2>1, HeadOf, AgentsAre DEF IInv, FreeOps, StopOps
    <2>3. Abort(a, <<z>>) /\ UNCHANGED <<ep, urb, subs, chip, irq>>
      BY <1>2 DEF SetParams
    <2>4. subs[a].state \in States
      BY <2>2, Typed DEF SubRec, IInv
    <2>5. /\ x.op = "unlink" /\ x.ep = h.ep /\ x.s = a /\ x \in Entries
          /\ z.op = "end" /\ z.s = a /\ z.v = subs[a].state /\ z \in Entries
      BY <2>1, <2>2, <2>4, OpIs DEF CallOps, OwnOps
    <2> HIDE DEF x, z, h
    <2>6. Aborting(a, h, <<z>>)
      BY <2>5 DEF Aborting
    <2>7. SameBuffers /\ SameUsers /\ h = Head(todo[a])
      BY <2>3, SameEps DEF SameBuffers, h
    <2> QED
      BY <2>1, <2>2, <2>3, <2>6, <2>7, AbortHeld
  <1> QED
    BY <1>1, <1>2

LEMMA SubmitFailsHeld ==
  ASSUME IInv, IInv', Buffers, NEW a \in Agents, SubmitFails(a)
  PROVE  Buffers'
  <1> DEFINE h == Head(todo[a])
             d == IF chip.shutdown THEN [ep[h.ep] EXCEPT !.running = FALSE] ELSE Deactivated(ep[h.ep])
             q == [d EXCEPT !.use = @ - 1]
             x == Op("unlink", h.ep, h.s, 0)
             z == Op("end", None, h.s, subs[h.s].state)
             C == (IF chip.shutdown THEN <<>> ELSE <<x>>) \o <<z>>
  <1>1. todo[a] # <<>> /\ h.op = "submit" /\ h.ep \in Eps /\ ep[h.ep] \in EpRec
    BY HeadEp DEF SubmitFails, OwnOps
  <1>2. a \in Subs /\ h.s = a
    BY <1>1, HeadOf, AgentsAre, SMTT(30) DEF IInv, FreeOps, StopOps
  <1>3. UNCHANGED <<urb, chip, irq>>
    BY ZenonT(60) DEF SubmitFails
  <1>4. subs' = [subs EXCEPT ![h.s].started = @ \ {h.ep}]
    BY ZenonT(60) DEF SubmitFails
  <1>5. ep' = [ep EXCEPT ![h.ep] = q]
    BY ZenonT(60) DEF SubmitFails
  <1>6. Abort(a, C)
    BY DEF SubmitFails
  <1>7. subs \in [Subs -> SubRec] /\ ep \in [Eps -> EpRec]
    BY Typed DEF IInv
  <1>8. subs[a].state \in States
    BY <1>2, <1>7 DEF SubRec
  <1>9. /\ x.op = "unlink" /\ x.ep = h.ep /\ x.s = a /\ x \in Entries
        /\ z.op = "end" /\ z.s = a /\ z.v = subs[a].state /\ z \in Entries
    BY <1>1, <1>2, <1>8, OpIs DEF CallOps, OwnOps
  <1>10. q.user = ep[h.ep].user
    <2>1. d.user = ep[h.ep].user /\ d \in EpRec
      <3>1. CASE chip.shutdown
        <4>1. d = [ep[h.ep] EXCEPT !.running = FALSE]
          BY <3>1
        <4> QED
          BY <4>1, <1>1 DEF EpRec
      <3>2. CASE ~chip.shutdown
        BY <3>2, <1>1, Deact, SizesAssumption
      <3> QED
        BY <3>1, <3>2
    <2> HIDE DEF d
    <2> QED
      BY <2>1 DEF EpRec
  <1> HIDE DEF x, z, q
  <1>11. C = <<z>> \/ C = <<x, z>>
    <2>1. <<>> \o <<z>> = <<z>>
      <3>1. <<z>> \in Seq({z})
        OBVIOUS
      <3> QED
        BY <3>1, ConcatEmptySeq
    <2>2. <<x>> \o <<z>> = <<x, z>>
      BY Joined
    <2> QED
      BY <2>1, <2>2
  <1> HIDE DEF h, C
  <1>12. Aborting(a, h, C)
    BY <1>9, <1>11 DEF Aborting
  <1>13. SameUsers
    BY <1>1, <1>5, <1>7, <1>10 DEF SameUsers
  <1>14. SameBuffers /\ h = Head(todo[a])
    BY <1>4, <1>7 DEF SameBuffers, h, SubRec
  <1> QED
    BY <1>1, <1>2, <1>3, <1>6, <1>12, <1>13, <1>14, AbortHeld, SMTT(30)

LEMMA EndpointHeld ==
  ASSUME IInv, IInv', Buffers, NEW a \in Agents, EndpointStep(a)
  PROVE  Buffers'
  BY StartEpHeld, IncUseHeld, GoHeld, SubmitHeld, SubmitFailsHeld, SetBitHeld, StopEpHeld, DecUseHeld,
     UnlinkHeld, DetachHeld, MuteHeld, SyncStopHeld, WaitedHeld, SetParamsHeld, ReallocHeld,
     DeactivateEpHeld, FreeEpHeld, KfreeHeld DEF EndpointStep, Wait, WaitTimeout

\* A call begins.
LEMMA CallHeld ==
  ASSUME IInv, IInv', Buffers, NEW s \in Subs, todo[s] = <<>>, ~subs[s].locked,
         NEW X, Body(X, s), NEW z \in Entries, z.op = "end",
         todo' = [todo EXCEPT ![s] = WithEnd(X, z)], UNCHANGED <<ep, urb, chip, irq>>,
         NEW r \in SubRec, subs' = [subs EXCEPT ![s] = r], r.state = subs[s].state,
         r.buffer \/ Still(s),
         z.v \notin NoBuf => r.buffer \/ chip.disconnected \/ \E p \in Pend(X) : p.op = "alloc",
         (\E o \in Pend(X) : o.op \in {"start", "params"}) =>
            r.buffer /\ r.state \notin NoBuf /\ z.v \notin NoBuf,
         z.v \in NoBuf \/ (\E o \in Pend(X) : o.op = "vfree") =>
            Still(s) \/ \E p \in Pend(X) : p.op \in {"deact", "wait"} /\ p.ep = DataEp(s),
         FreeLast(WithEnd(X, z))
  PROVE  Buffers'
  <1> DEFINE K == WithEnd(X, z)
  <1>1. Held /\ Ends /\ Frees /\ Users /\ Shape /\ Alone /\ TypeOK
    BY DEF Buffers, IInv
  <1>2. SameFlags /\ \A t \in Subs : Still(t)' <=> Still(t)
    BY DEF SameFlags, Still, Quiet, AtHost
  <1>3. Users'
    BY <1>1, <1>2, UsersSame, SameEps
  <1>4. K \in Seq(Entries) /\ K # <<>> /\ Pend(K) = Pend(X) \cup {z}
    BY BodyEnd
  <1>5. todo' = [todo EXCEPT ![s] = K] /\ FreeLast(K)
    OBVIOUS
  <1> HIDE DEF K
  <1>6. todo'[s] = K /\ \A b \in Agents : b # s => todo'[b] = todo[b]
    BY <1>1, <1>4, <1>5, TodoSet, AgentsAre DEF Shape
  <1>7. subs'[s] = r /\ \A t \in Subs : t # s => subs'[t] = subs[t]
    BY <1>1, SubSet, Typed
  <1>8. \A t \in Subs : HcdFor(t)' <=> HcdFor(t)
    BY <1>6, AgentsAre DEF HcdFor
  <1>9. HcdFor(s) => chip.disconnected
    BY <1>1 DEF Alone
  <1>10. Held'
    <2> SUFFICES ASSUME NEW t \in Subs
                 PROVE  /\ subs'[t].buffer \/ Still(t)'
                        /\ subs'[t].state \in NoBuf => Still(t)'
                        /\ todo'[t] = <<>> /\ ~chip'.disconnected /\ subs'[t].state \notin NoBuf => subs'[t].buffer
                        /\ HcdFor(t)' => chip'.disconnected \/ subs'[t].buffer
      BY DEF Held
    <2>1. CASE t # s
      <3>1. todo'[t] = todo[t] /\ subs'[t] = subs[t]
        BY <2>1, <1>6, <1>7, AgentsAre
      <3> QED
        BY <3>1, <1>1, <1>2, <1>8 DEF Held
    <2>2. CASE t = s
      BY <2>2, <1>1, <1>2, <1>4, <1>6, <1>7, <1>8, <1>9 DEF Held
    <2> QED
      BY <2>1, <2>2
  <1>11. Ends'
    <2> SUFFICES ASSUME NEW t \in Subs, NEW o \in Pend(todo'[t]) PROVE Entry(t, o)'
      BY DEF Ends
    <2>1. CASE t # s
      <3>1. todo'[t] = todo[t] /\ subs'[t] = subs[t]
        BY <2>1, <1>6, <1>7, AgentsAre
      <3>2. Entry(t, o) /\ (Still(t) => Still(t)') /\ (chip.disconnected => chip'.disconnected)
        BY <3>1, <1>1, <1>2 DEF Ends
      <3> QED
        BY <3>1, <3>2, EntrySame
    <2>2. CASE t = s
      <3>1. o \in Pend(X) \/ o = z
        BY <2>2, <1>4, <1>6
      <3>2. \A p \in Pend(X) : p.op \in PlainOps
        BY DEF Body
      <3>3. \A p \in Pend(X) : p.op # "end" /\ p.op \notin Under
        BY <3>2 DEF PlainOps, Under
      <3>4. ASSUME o.op = "end", o.v \notin NoBuf
            PROVE  subs'[s].buffer \/ chip'.disconnected \/ \E p \in Pend(todo'[s]) : p.op = "alloc"
        <4>1. o = z
          BY <3>1, <3>3, <3>4
        <4> QED
          BY <4>1, <3>4, <1>4, <1>6, <1>7
      <3>5. ASSUME o.op \in Under \cup {"start", "params"}
            PROVE  /\ subs'[s].buffer /\ subs'[s].state \notin NoBuf
                   /\ \A p \in Pend(todo'[s]) : p.op = "end" => p.v \notin NoBuf
        <4>1. o \in Pend(X) /\ o.op \in {"start", "params"}
          BY <3>1, <3>3, <3>5 DEF Under
        <4>2. r.buffer /\ r.state \notin NoBuf /\ z.v \notin NoBuf
          BY <4>1
        <4> QED
          BY <4>2, <3>3, <1>4, <1>6, <1>7
      <3>6. ASSUME o.op = "vfree" \/ (o.op = "end" /\ o.v \in NoBuf)
            PROVE  Still(s)' \/ \E p \in Pend(todo'[s]) : p.op \in {"deact", "wait"} /\ p.ep = DataEp(s)
        <4>1. z.v \in NoBuf \/ (\E q \in Pend(X) : q.op = "vfree")
          BY <3>1, <3>3, <3>6
        <4> QED
          BY <4>1, <1>2, <1>4, <1>6
      <3> QED
        BY <2>2, <3>4, <3>5, <3>6 DEF Entry
    <2> QED
      BY <2>1, <2>2
  <1>12. Frees'
    <2> SUFFICES ASSUME NEW t \in Subs PROVE FreeLast(todo'[t])
      BY DEF Frees
    <2>1. t # s => todo'[t] = todo[t]
      BY <1>6, AgentsAre
    <2> QED
      BY <2>1, <1>1, <1>5, <1>6 DEF Frees
  <1> QED
    BY <1>3, <1>10, <1>11, <1>12 DEF Buffers

\* One that frees nothing.
LEMMA FreeBody ==
  ASSUME NEW s, NEW X, Body(X, s), NEW z \in Entries, z.op = "end",
         \A o \in Pend(X) : o.op # "vfree"
  PROVE  FreeLast(WithEnd(X, z))
  <1>1. WithEnd(X, z) \in Seq(Entries) /\ Pend(WithEnd(X, z)) = Pend(X) \cup {z}
    BY BodyEnd
  <1>2. \A o \in Pend(WithEnd(X, z)) : o.op # "vfree"
    BY <1>1
  <1> QED
    BY <1>1, <1>2, FreeNone

LEMMA HwParamsHeld ==
  ASSUME IInv, IInv', Buffers, ~Grow, NEW s \in Subs, HwParams(s)
  PROVE  Buffers'
  <1> DEFINE r == [subs[s] EXCEPT !.buffer = subs[s].buffer]
             z == Op("end", None, s, "setup")
             X == <<Op("alloc", None, s, 0)>>
  <1>1. Held /\ TypeOK
    BY DEF IInv, Buffers
  <1>2. (subs[s].buffer /\ ~Grow) = subs[s].buffer /\ subs[s] \in SubRec
    BY <1>1, Typed DEF SubRec
  <1>3. /\ todo[s] = <<>> /\ ~subs[s].locked
        /\ subs' = [subs EXCEPT ![s] = r] /\ UNCHANGED <<ep, urb, chip, irq>>
        /\ todo' = [todo EXCEPT ![s] = WithEnd(X, z)]
    <2>1. subs' = [subs EXCEPT ![s].buffer = (subs[s].buffer /\ ~Grow)]
      BY DEF HwParams
    <2>2. subs' = [subs EXCEPT ![s] = r]
      BY <2>1, <1>2
    <2> QED
      BY <2>2 DEF HwParams, CanCall, Call, WithEnd
  <1>4. Body(X, s) /\ \A o \in Pend(X) : o.op = "alloc"
    BY BodyName
  <1>5. \E o \in Pend(X) : o.op = "alloc"
    <2>1. Pend(X) = {Op("alloc", None, s, 0)} /\ Op("alloc", None, s, 0).op = "alloc"
      BY BodyOne
    <2> QED
      BY <2>1
  <1>6. z \in Entries /\ z.op = "end" /\ z.v = "setup"
    BY OpIs DEF States, CallOps
  <1> HIDE DEF X, z
  <1>7. r \in SubRec /\ r.state = subs[s].state /\ r.buffer = subs[s].buffer
    BY <1>2 DEF SubRec
  <1>8. FreeLast(WithEnd(X, z))
    BY <1>4, <1>6, FreeBody
  <1>9. r.buffer \/ Still(s)
    BY <1>1, <1>7 DEF Held
  <1>10. z.v \notin NoBuf /\ \A o \in Pend(X) : o.op \notin {"start", "params", "vfree"}
    BY <1>4, <1>6 DEF NoBuf
  <1> HIDE DEF r
  <1> QED
    BY <1>3, <1>4, <1>5, <1>6, <1>7, <1>8, <1>9, <1>10, CallHeld

LEMMA DropHeld ==
  ASSUME IInv, IInv', Buffers, NEW s \in Subs, Drop(s)
  PROVE  Buffers'
  <1> DEFINE r == [subs[s] EXCEPT !.locked = TRUE]
             z == Op("end", None, s, "setup")
             A == StopEndpoints(s, FALSE)
             X == IF subs[s].state = "running" THEN A ELSE <<>>
  <1>1. Held /\ TypeOK
    BY DEF IInv, Buffers
  <1>2. /\ todo[s] = <<>> /\ ~subs[s].locked /\ ~chip.disconnected
        /\ subs[s].state \in {"running", "prepared"}
        /\ subs' = [subs EXCEPT ![s] = r] /\ UNCHANGED <<ep, urb, chip, irq>>
        /\ todo' = [todo EXCEPT ![s] = WithEnd(X, z)]
    BY DEF Drop, CanCall, Call, WithEnd
  <1>3. Body(A, s) /\ \A o \in Pend(A) : o.op = "stop"
    BY StopBody
  <1>4. Body(X, s) /\ \A o \in Pend(X) : o.op = "stop"
    BY <1>3, BodyOne
  <1>5. z \in Entries /\ z.op = "end" /\ z.v = "setup"
    BY OpIs DEF States, CallOps
  <1> HIDE DEF A, X, z
  <1>6. r \in SubRec /\ r.state = subs[s].state /\ r.buffer = subs[s].buffer
    <2>1. subs[s] \in SubRec
      BY <1>1, Typed
    <2> QED
      BY <2>1 DEF SubRec
  <1> HIDE DEF r
  <1>7. FreeLast(WithEnd(X, z))
    BY <1>4, <1>5, FreeBody
  <1>8. subs[s].buffer
    BY <1>1, <1>2 DEF Held, NoBuf
  <1>9. z.v \notin NoBuf /\ \A o \in Pend(X) : o.op \notin {"start", "params", "vfree"}
    BY <1>4, <1>5 DEF NoBuf
  <1> QED
    BY <1>2, <1>4, <1>5, <1>6, <1>7, <1>8, <1>9, CallHeld

LEMMA CloseHeld ==
  ASSUME IInv, IInv', Buffers, NEW s \in Subs, Close(s)
  PROVE  Buffers'
  <1> DEFINE r == [subs[s] EXCEPT !.buffer = FALSE]
             z == Op("end", None, s, "closed")
             X == StopEndpoints(s, TRUE)
  <1>1. Held /\ TypeOK /\ Plug
    BY DEF IInv, Buffers
  <1>2. /\ todo[s] = <<>> /\ ~subs[s].locked
        /\ subs[s].state = "open" \/ chip.disconnected
        /\ subs' = [subs EXCEPT ![s] = r] /\ UNCHANGED <<ep, urb, chip, irq>>
        /\ todo' = [todo EXCEPT ![s] = WithEnd(X, z)]
    BY DEF Close, Call, WithEnd
  <1>3. Body(X, s) /\ \A o \in Pend(X) : o.op \in {"stop", "sync"}
    BY StopBody
  <1>4. z \in Entries /\ z.op = "end" /\ z.v = "closed"
    BY OpIs DEF States, CallOps
  <1> HIDE DEF X, z
  <1>5. r \in SubRec /\ r.state = subs[s].state
    <2>1. subs[s] \in SubRec
      BY <1>1, Typed
    <2> QED
      BY <2>1 DEF SubRec
  <1> HIDE DEF r
  <1>6. FreeLast(WithEnd(X, z))
    <2>1. \A o \in Pend(X) : o.op # "vfree"
      BY <1>3
    <2> QED
      BY <2>1, <1>3, <1>4, FreeBody
  <1>7. Still(s)
    <2>1. CASE subs[s].state = "open"
      BY <2>1, <1>1 DEF Held, NoBuf
    <2>2. CASE chip.disconnected
      BY <2>2, <1>1 DEF Plug, Still
    <2> QED
      BY <2>1, <2>2, <1>2
  <1>8. z.v \in NoBuf /\ \A o \in Pend(X) : o.op \notin {"start", "params", "vfree"}
    BY <1>3, <1>4 DEF NoBuf
  <1> QED
    BY <1>2, <1>3, <1>4, <1>5, <1>6, <1>7, <1>8, CallHeld

\* The data endpoint of a substream is among those that a call goes through.
LEMMA EachData ==
  ASSUME IInv, NEW s \in Subs, ~chip.disconnected
  PROVE  \E o \in Pend(ForEach(subs[s].eps, "deact", s)) : o.op = "deact" /\ o.ep = DataEp(s)
  <1> DEFINE es == subs[s].eps
             L == ForEach(es, "deact", s)
  <1>1. es = EpsOf(s, chip.feedback) /\ chip.feedback \in {"none", "explicit"}
    BY DEF IInv, Plug, Shape
  <1>2. es \in {<<"in">>, <<"out">>, <<"fb", "out">>} /\ (s = "capt" => es = <<"in">>)
        /\ (s = "play" => es \in {<<"out">>, <<"fb", "out">>})
    <2>1. EpsOf("capt", chip.feedback) = <<"in">>
      BY DEF EpsOf
    <2>2. EpsOf("play", "none") = <<"out">>
      BY Zenon DEF EpsOf
    <2>3. EpsOf("play", "explicit") = <<"fb", "out">>
      BY Zenon DEF EpsOf
    <2> QED
      BY <2>1, <2>2, <2>3, <1>1, AgentsAre
  <1> HIDE DEF es
  <1>3. es \in Seq(Eps) /\ Len(es) \in 1..Len(es) /\ es[Len(es)] = DataEp(s)
    <2>0. "in" \in Eps /\ "out" \in Eps /\ "fb" \in Eps /\ DataEp("capt") = "in" /\ DataEp("play") = "out"
      BY DEF DataEp, Eps
    <2>1. CASE s = "capt"
      <3>1. es = <<"in">> /\ DataEp(s) = "in"
        BY <2>0, <2>1, <1>2
      <3> QED
        BY <2>0, <3>1
    <2>2. CASE s = "play" /\ es = <<"out">>
      BY <2>0, <2>2
    <2>3. CASE s = "play" /\ es = <<"fb", "out">>
      BY <2>0, <2>3
    <2> QED
      BY <2>1, <2>2, <2>3, <1>2, AgentsAre
  <1>4. L = [i \in 1..Len(es) |-> Op("deact", es[i], s, 0)]
    BY DEF ForEach
  <1>5. Len(L) = Len(es) /\ L[Len(es)] = Op("deact", DataEp(s), s, 0)
    <2>1. Len(es) \in Nat
      BY <1>3
    <2> QED
      BY <2>1, <1>3, <1>4
  <1> HIDE DEF L
  <1>6. L[Len(es)] \in Pend(L)
    BY <1>3, <1>5 DEF Pend
  <1> QED
    BY <1>5, <1>6, OpIs DEF L, es

LEMMA HwFreeHeld ==
  ASSUME IInv, IInv', Buffers, NEW s \in Subs, HwFree(s)
  PROVE  Buffers'
  <1> DEFINE r == [subs[s] EXCEPT !.reading = ~chip.shutdown]
             z == Op("end", None, s, "open")
             A == StopEndpoints(s, TRUE)
             B == ForEach(subs[s].eps, "deact", s)
             v == Op("vfree", None, s, 0)
             V == <<v>>
             U == IF chip.shutdown THEN <<>> ELSE Cat(A, B)
             X == Cat(U, V)
  <1>1. Held /\ TypeOK
    BY DEF IInv, Buffers
  <1>2. /\ todo[s] = <<>> /\ ~subs[s].locked /\ ~chip.disconnected
        /\ subs[s].state \in {"setup", "prepared"}
        /\ subs' = [subs EXCEPT ![s] = r] /\ UNCHANGED <<ep, urb, chip, irq>>
    BY DEF HwFree, CanCall
  <1>3. V \in Seq(Entries) /\ Body(V, s) /\ Pend(V) = {v} /\ v.op = "vfree"
    <2>1. Body(V, s) /\ Pend(V) = {v} /\ v.op = "vfree"
      BY BodyOne
    <2> QED
      BY <2>1 DEF Body
  <1>4. Body(A, s) /\ \A o \in Pend(A) : o.op \in {"stop", "sync"}
    BY StopBody
  <1>5. Body(B, s) /\ (\A o \in Pend(B) : o.op = "deact")
        /\ \E o \in Pend(B) : o.op = "deact" /\ o.ep = DataEp(s)
    BY <1>2, EachBody, EachData DEF Uniform
  <1>6. z \in Entries /\ z.op = "end" /\ z.v = "open"
    BY OpIs DEF States, CallOps
  <1>7. todo' = [todo EXCEPT ![s] = WithEnd(X, z)]
    <2>1. CASE ~chip.shutdown
      BY <2>1 DEF HwFree, Call, WithEnd, Cat
    <2>2. CASE chip.shutdown
      <3>1. <<>> \o V = V
        BY <1>3, ConcatEmptySeq
      <3> QED
        BY <2>2, <3>1 DEF HwFree, Call, WithEnd, Cat
    <2> QED
      BY <2>1, <2>2
  <1> HIDE DEF A, B, V, v, z
  <1>8. Body(Cat(A, B), s) /\ Pend(Cat(A, B)) = Pend(A) \cup Pend(B)
    <2>1. StartLess(A)
      BY <1>4 DEF StartLess
    <2> QED
      BY <2>1, <1>4, <1>5, BodyJoin
  <1>9. /\ Body(U, s) /\ \A o \in Pend(U) : o.op \in {"stop", "sync", "deact"}
        /\ ~chip.shutdown => \E o \in Pend(U) : o.op = "deact" /\ o.ep = DataEp(s)
    <2>1. CASE chip.shutdown
      BY <2>1, BodyOne
    <2>2. CASE ~chip.shutdown
      BY <2>2, <1>4, <1>5, <1>8
    <2> QED
      BY <2>1, <2>2
  <1> HIDE DEF U
  <1>10. Body(X, s) /\ Pend(X) = Pend(U) \cup {v}
    <2>1. StartLess(U)
      BY <1>9 DEF StartLess
    <2> QED
      BY <2>1, <1>3, <1>9, BodyJoin
  <1>11. FreeLast(WithEnd(X, z))
    <2> DEFINE K == WithEnd(X, z)
    <2>1. /\ K \in Seq(Entries) /\ K[Len(K)] = z /\ Len(K) = Len(X) + 1 /\ \A i \in 1..Len(X) : K[i] = X[i]
      BY <1>6, <1>10, BodyEnd
    <2>2. U \in Seq(Entries)
      BY <1>9 DEF Body
    <2>3. /\ Len(X) = Len(U) + 1 /\ Len(U) \in Nat
          /\ \A i \in 1..Len(X) : i <= Len(U) => i \in 1..Len(U) /\ X[i] = U[i]
      <3>1. Len(V) = 1 /\ Len(U) \in Nat
        BY <2>2 DEF V
      <3>2. /\ Len(U \o V) = Len(U) + Len(V)
            /\ \A i \in 1..Len(U \o V) :
                  IF i <= Len(U) THEN i \in 1..Len(U) /\ (U \o V)[i] = U[i]
                  ELSE i - Len(U) \in 1..Len(V) /\ (U \o V)[i] = V[i - Len(U)]
        BY <1>3, <2>2, PendCat, Zenon
      <3>3. X = U \o V
        BY DEF Cat
      <3> HIDE DEF X
      <3> QED
        BY <3>1, <3>2, <3>3
    <2>4. \A i \in 1..Len(U) : U[i].op # "vfree"
      BY <1>9 DEF Pend
    <2> HIDE DEF K
    <2>5. ASSUME NEW i \in 1..Len(K), K[i].op = "vfree" PROVE i = Len(K) - 1 /\ K[i + 1].v \in NoBuf
      <3>1. i # Len(K)
        BY <2>1, <2>5, <1>6
      <3>2. i \in 1..Len(X) /\ K[i] = X[i]
        BY <3>1, <2>1, <2>3
      <3>3. ~(i <= Len(U))
        BY <3>2, <2>3, <2>4, <2>5
      <3>4. i = Len(K) - 1 /\ i + 1 = Len(K)
        BY <3>2, <3>3, <2>1, <2>3
      <3> QED
        BY <3>4, <2>1, <1>6 DEF NoBuf
    <2>6. FreeLast(K)
      BY <2>5 DEF FreeLast
    <2> QED
      BY <2>6 DEF K
  <1> HIDE DEF X
  <1>12. r \in SubRec /\ r.state = subs[s].state /\ r.buffer = subs[s].buffer
    <2>1. subs[s] \in SubRec /\ (~chip.shutdown) \in BOOLEAN
      BY <1>1, Typed
    <2> QED
      BY <2>1 DEF SubRec
  <1> HIDE DEF r
  <1>13. z.v \in NoBuf /\ \A o \in Pend(X) : o.op \notin {"start", "params"}
    BY <1>3, <1>6, <1>9, <1>10 DEF NoBuf
  <1>14. Still(s) \/ \E p \in Pend(X) : p.op \in {"deact", "wait"} /\ p.ep = DataEp(s)
    <2>1. CASE chip.shutdown
      BY <2>1 DEF Still
    <2>2. CASE ~chip.shutdown
      BY <2>2, <1>9, <1>10
    <2> QED
      BY <2>1, <2>2
  <1>15. r.buffer \/ Still(s)
    BY <1>1, <1>12 DEF Held
  <1> QED
    BY <1>2, <1>6, <1>7, <1>10, <1>11, <1>12, <1>13, <1>14, <1>15, CallHeld

LEMMA BodyAfter ==
  ASSUME NEW s, NEW X, NEW Y, Body(X, s) /\ Body(Y, s), StartLess(X)
  PROVE  Body(Cat(X, Y), s) /\ Pend(Cat(X, Y)) = Pend(X) \cup Pend(Y)
  BY BodyJoin

LEMMA PrepareHeld ==
  ASSUME IInv, IInv', Buffers, NEW s \in Subs, Prepare(s)
  PROVE  Buffers'
  <1> DEFINE r == [subs[s] EXCEPT !.reading = TRUE]
             z == Op("end", None, s, "prepared")
             Y == ForEach(subs[s].eps, "sync", s)
             A == StopEndpoints(s, TRUE)
             B == Backwards(subs[s].eps, "params", s)
             V == <<Op("ready", None, s, 0)>>
             C == IF subs[s].need_setup THEN Cat(Cat(A, B), V) ELSE <<>>
             P == IF s = "play" THEN StartEndpoints(s) ELSE <<>>
             X == Cat(Cat(Y, C), P)
  <1>1. Held /\ TypeOK
    BY DEF IInv, Buffers
  <1>2. /\ todo[s] = <<>> /\ ~subs[s].locked /\ ~chip.disconnected
        /\ subs[s].state \in {"setup", "prepared"}
        /\ subs' = [subs EXCEPT ![s] = r] /\ UNCHANGED <<ep, urb, chip, irq>>
    BY DEF Prepare, CanCall
  <1>3. todo' = [todo EXCEPT ![s] = WithEnd(X, z)]
    BY DEF Prepare, Call, WithEnd, Cat, Backwards
  <1>4. Body(V, s) /\ \A o \in Pend(V) : o.op = "ready"
    BY BodyName
  <1>5. Body(A, s) /\ \A o \in Pend(A) : o.op \in {"stop", "sync"}
    BY StopBody
  <1>6. Body(B, s) /\ \A o \in Pend(B) : o.op = "params"
    BY EachBody DEF Uniform
  <1>7. Body(Y, s) /\ \A o \in Pend(Y) : o.op = "sync"
    BY EachBody DEF Uniform
  <1>8. Body(P, s) /\ \A o \in Pend(P) : o.op = "start"
    <2>1. StartEndpoints(s) = Backwards(subs[s].eps, "start", s)
      BY DEF StartEndpoints, Backwards
    <2>2. Body(StartEndpoints(s), s) /\ Uniform(StartEndpoints(s), "start")
      BY <2>1, EachBody
    <2> QED
      BY <2>2, BodyOne DEF Uniform
  <1>9. z \in Entries /\ z.op = "end" /\ z.v = "prepared"
    BY OpIs DEF States, CallOps
  <1> HIDE DEF A, B, V, z, Y, P
  <1>10. Body(Cat(A, B), s) /\ Pend(Cat(A, B)) = Pend(A) \cup Pend(B)
    <2>1. StartLess(A)
      BY <1>5 DEF StartLess
    <2> QED
      BY <2>1, <1>5, <1>6, BodyJoin
  <1>11. Body(Cat(Cat(A, B), V), s) /\ Pend(Cat(Cat(A, B), V)) = Pend(Cat(A, B)) \cup Pend(V)
    <2>1. StartLess(Cat(A, B))
      BY <1>5, <1>6, <1>10 DEF StartLess
    <2> QED
      BY <2>1, <1>4, <1>10, BodyJoin
  <1>12. Body(C, s) /\ \A o \in Pend(C) : o.op \in {"stop", "sync", "params", "ready"}
    <2>1. CASE subs[s].need_setup
      BY <2>1, <1>4, <1>5, <1>6, <1>10, <1>11
    <2>2. CASE ~subs[s].need_setup
      BY <2>2, BodyOne
    <2> QED
      BY <2>1, <2>2
  <1> HIDE DEF C
  <1>13. Body(Cat(Y, C), s) /\ Pend(Cat(Y, C)) = Pend(Y) \cup Pend(C)
    <2>1. StartLess(Y)
      BY <1>7 DEF StartLess
    <2>2. Body(Y, s) /\ Body(C, s)
      BY <1>7, <1>12
    <2> QED
      BY <2>1, <2>2, BodyAfter
  <1>14. Body(X, s) /\ Pend(X) = Pend(Cat(Y, C)) \cup Pend(P)
    <2>1. StartLess(Cat(Y, C))
      BY <1>7, <1>12, <1>13 DEF StartLess
    <2> QED
      BY <2>1, <1>8, <1>13, BodyJoin
  <1>15. \A o \in Pend(X) : o.op # "vfree"
    BY <1>7, <1>8, <1>12, <1>13, <1>14
  <1> HIDE DEF X
  <1>16. r \in SubRec /\ r.state = subs[s].state /\ r.buffer = subs[s].buffer
    <2>1. subs[s] \in SubRec
      BY <1>1, Typed
    <2> QED
      BY <2>1 DEF SubRec
  <1> HIDE DEF r
  <1>17. r.buffer /\ r.state \notin NoBuf /\ z.v \notin NoBuf
    BY <1>1, <1>2, <1>9, <1>16 DEF Held, NoBuf
  <1>18. FreeLast(WithEnd(X, z))
    BY <1>9, <1>14, <1>15, FreeBody
  <1> QED
    BY <1>2, <1>3, <1>9, <1>14, <1>15, <1>16, <1>17, <1>18, CallHeld

LEMMA StartCaptureHeld ==
  ASSUME IInv, IInv', Buffers, StartCapture
  PROVE  Buffers'
  <1> DEFINE r == [subs["capt"] EXCEPT !.locked = TRUE]
             A == StartEndpoints("capt")
             V == <<Op("retire", "in", "capt", 0)>>
             z == Op("end", None, "capt", "running")
             X == Cat(A, V)
  <1>0. "capt" \in Subs /\ DataEp("capt") = "in"
    BY AgentsAre DEF DataEp
  <1>1. Held /\ TypeOK
    BY DEF IInv, Buffers
  <1>2. /\ todo["capt"] = <<>> /\ ~subs["capt"].locked /\ ~chip.disconnected
        /\ subs["capt"].state = "prepared"
        /\ subs' = [subs EXCEPT !["capt"] = r] /\ UNCHANGED <<ep, urb, chip, irq>>
        /\ todo' = [todo EXCEPT !["capt"] = WithEnd(X, z)]
    BY DEF StartCapture, CanCall, Call, WithEnd, Cat
  <1>3. Body(A, "capt") /\ \A o \in Pend(A) : o.op = "start"
    <2>1. A = Backwards(subs["capt"].eps, "start", "capt")
      BY DEF StartEndpoints, Backwards
    <2> QED
      BY <2>1, <1>0, EachBody DEF Uniform
  <1>4. Body(V, "capt") /\ \A o \in Pend(V) : o.op = "retire"
    <2>1. Body(V, "capt")
      BY <1>0, BodyOne
    <2>2. Pend(V) = {Op("retire", "in", "capt", 0)} /\ Op("retire", "in", "capt", 0).op = "retire"
      BY <1>0, BodyOne
    <2> QED
      BY <2>1, <2>2
  <1>5. z \in Entries /\ z.op = "end" /\ z.v = "running"
    BY <1>0, OpIs DEF States, CallOps
  <1> HIDE DEF A, V, z
  <1>6. Body(X, "capt") /\ Pend(X) = Pend(A) \cup Pend(V)
    <2>1. OnlyStarts(V)
      BY <1>4 DEF OnlyStarts
    <2> QED
      BY <2>1, <1>3, <1>4, BodyJoin
  <1>7. \A o \in Pend(X) : o.op # "vfree"
    BY <1>3, <1>4, <1>6
  <1> HIDE DEF X
  <1>8. r \in SubRec /\ r.state = subs["capt"].state /\ r.buffer = subs["capt"].buffer
    <2>1. subs["capt"] \in SubRec
      BY <1>0, <1>1, Typed
    <2> QED
      BY <2>1 DEF SubRec
  <1> HIDE DEF r
  <1>9. r.buffer /\ r.state \notin NoBuf /\ z.v \notin NoBuf
    BY <1>0, <1>1, <1>2, <1>5, <1>8 DEF Held, NoBuf
  <1>10. FreeLast(WithEnd(X, z))
    BY <1>5, <1>6, <1>7, FreeBody
  <1> QED
    BY <1>0, <1>2, <1>5, <1>6, <1>7, <1>8, <1>9, <1>10, CallHeld

-----------------------------------------------------------------------------
(* The buffers: the entries that change a substream, and its triggers *)

LEMMA SetupDoneHeld ==
  ASSUME IInv, IInv', Buffers, NEW s \in Subs, SetupDone(s)
  PROVE  Buffers'
  <1> DEFINE h == Head(todo[s])
  <1>1. todo[s] # <<>> /\ h.op = "ready" /\ Then(s, <<>>) /\ UNCHANGED <<ep, urb, chip, irq>>
        /\ subs' = [subs EXCEPT ![s].need_setup = FALSE]
    BY DEF SetupDone, Due
  <1> HIDE DEF h
  <1>2. s \in Agents /\ h = Head(todo[s]) /\ Onward(<<>>, h)
    BY AgentsAre, OnwardTuples DEF h
  <1>3. \A e \in Eps : Quiet(e)' <=> Quiet(e)
    BY <1>1 DEF Quiet, AtHost
  <1>4. SameBuffers
    <2>1. subs \in [Subs -> SubRec]
      BY Typed DEF IInv
    <2> QED
      BY <1>1, <2>1 DEF SameBuffers, SubRec
  <1>5. SameFlags /\ SameUsers
    BY <1>1, SameEps DEF SameFlags
  <1> QED
    BY <1>1, <1>2, <1>3, <1>4, <1>5, OnwardStep

LEMMA SetRetireHeld ==
  ASSUME IInv, IInv', Buffers, NEW s \in Subs, SetRetire(s)
  PROVE  Buffers'
  <1> DEFINE h == Head(todo[s])
             r == [ep[DataEp(s)] EXCEPT !.retire = TRUE]
  <1>1. todo[s] # <<>> /\ h.op = "retire" /\ Then(s, <<>>) /\ UNCHANGED <<urb, subs, chip, irq>>
        /\ ep' = [ep EXCEPT ![DataEp(s)] = r]
    BY DEF SetRetire, Due
  <1>2. ep \in [Eps -> EpRec] /\ DataEp(s) \in Eps
    BY Typed, AgentsAre DEF IInv
  <1>3. r \in EpRec /\ r.user = ep[DataEp(s)].user
    BY <1>2 DEF EpRec
  <1> HIDE DEF h, r
  <1>4. s \in Agents /\ h = Head(todo[s]) /\ Onward(<<>>, h)
    BY AgentsAre, OnwardTuples DEF h
  <1>5. \A e \in Eps : Quiet(e)' <=> Quiet(e)
    BY <1>1 DEF Quiet, AtHost
  <1>6. SameBuffers /\ SameFlags
    BY <1>1 DEF SameBuffers, SameFlags
  <1>7. SameUsers
    BY <1>1, <1>2, <1>3, EpSet DEF SameUsers
  <1> QED
    BY <1>1, <1>4, <1>5, <1>6, <1>7, OnwardStep

\* An entry of thread s that changes the substream.
LEMMA ChangeHeld ==
  ASSUME IInv, Buffers, NEW s \in Subs, todo[s] # <<>>, Then(s, <<>>),
         UNCHANGED <<ep, urb, chip, irq>>, NEW r \in SubRec, subs' = [subs EXCEPT ![s] = r],
         \A o \in Pend(Tail(todo[s])) : Entry(s, o)',
         r.buffer \/ Still(s), r.state \in NoBuf => Still(s),
         Tail(todo[s]) = <<>> /\ ~chip.disconnected /\ r.state \notin NoBuf => r.buffer
  PROVE  Buffers'
  <1>1. Held /\ Ends /\ Frees /\ Users /\ Shape /\ Alone /\ TypeOK /\ Lists0
    BY DEF Buffers, IInv, Shape, Lists0
  <1>2. SameFlags /\ \A t \in Subs : Still(t)' <=> Still(t)
    BY DEF SameFlags, Still, Quiet, AtHost
  <1>3. Users'
    BY <1>1, <1>2, UsersSame, SameEps
  <1>4. <<>> \in Seq(Entries) /\ Pend(<<>>) = {} /\ s \in Agents
    BY PendTuples, AgentsAre
  <1>5. /\ todo[s] \in Seq(Entries) /\ todo'[s] = <<>> \o Tail(todo[s])
        /\ \A b \in Agents : b # s => todo'[b] = todo[b]
    BY <1>1, <1>4, ThenTodo
  <1>6. todo'[s] = Tail(todo[s])
    <2>1. Tail(todo[s]) \in Seq(Entries)
      BY <1>5
    <2> QED
      BY <2>1, <1>5, ConcatEmptySeq
  <1>7. subs'[s] = r /\ \A t \in Subs : t # s => subs'[t] = subs[t]
    BY <1>1, SubSet, Typed
  <1>8. \A t \in Subs : HcdFor(t)' <=> HcdFor(t)
    BY <1>5, AgentsAre DEF HcdFor
  <1>9. HcdFor(s) => chip.disconnected
    BY <1>1 DEF Alone
  <1>10. Held'
    <2> SUFFICES ASSUME NEW t \in Subs
                 PROVE  /\ subs'[t].buffer \/ Still(t)'
                        /\ subs'[t].state \in NoBuf => Still(t)'
                        /\ todo'[t] = <<>> /\ ~chip'.disconnected /\ subs'[t].state \notin NoBuf => subs'[t].buffer
                        /\ HcdFor(t)' => chip'.disconnected \/ subs'[t].buffer
      BY DEF Held
    <2>1. CASE t # s
      <3>1. todo'[t] = todo[t] /\ subs'[t] = subs[t]
        BY <2>1, <1>5, <1>7, AgentsAre
      <3> QED
        BY <3>1, <1>1, <1>2, <1>8 DEF Held
    <2>2. CASE t = s
      BY <2>2, <1>2, <1>6, <1>7, <1>8, <1>9
    <2> QED
      BY <2>1, <2>2
  <1>11. Ends'
    <2> SUFFICES ASSUME NEW t \in Subs, NEW o \in Pend(todo'[t]) PROVE Entry(t, o)'
      BY DEF Ends
    <2>1. CASE t # s
      <3>1. todo'[t] = todo[t] /\ subs'[t] = subs[t]
        BY <2>1, <1>5, <1>7, AgentsAre
      <3>2. Entry(t, o) /\ (Still(t) => Still(t)') /\ (chip.disconnected => chip'.disconnected)
        BY <3>1, <1>1, <1>2 DEF Ends
      <3> QED
        BY <3>1, <3>2, EntrySame
    <2>2. CASE t = s
      BY <2>2, <1>6
    <2> QED
      BY <2>1, <2>2
  <1>12. Frees'
    BY <1>1, <1>4, FreesThen
  <1> QED
    BY <1>3, <1>10, <1>11, <1>12 DEF Buffers

LEMMA AllocBufferHeld ==
  ASSUME IInv, IInv', Buffers, NEW s \in Subs, AllocBuffer(s)
  PROVE  Buffers'
  <1> DEFINE h == Head(todo[s])
             r == [subs[s] EXCEPT !.buffer = TRUE, !.need_setup = TRUE]
  <1>1. todo[s] # <<>> /\ h.op = "alloc" /\ Then(s, <<>>) /\ UNCHANGED <<ep, urb, chip, irq>>
        /\ subs' = [subs EXCEPT ![s] = r]
    BY DEF AllocBuffer, Due
  <1>2. Held /\ Ends /\ TypeOK /\ Shape
    BY DEF Buffers, IInv
  <1>3. subs[s] \in SubRec /\ todo[s] \in Seq(Entries)
    BY <1>2, Typed, AgentsAre DEF Shape
  <1>4. r \in SubRec /\ r.buffer /\ r.state = subs[s].state
    BY <1>3 DEF SubRec
  <1>5. Pend(todo[s]) = {h} \cup Pend(Tail(todo[s]))
    BY <1>1, <1>3, PendOf
  <1>6. todo'[s] = Tail(todo[s])
    <2>1. <<>> \in Seq(Entries)
      BY PendTuples
    <2>2. s \in Agents
      BY AgentsAre
    <2>3. Lists0
      BY <1>2 DEF Shape, Lists0
    <2>4. todo'[s] = <<>> \o Tail(todo[s])
      BY <1>1, <2>1, <2>2, <2>3, ThenTodo
    <2>5. Tail(todo[s]) \in Seq(Entries)
      BY <1>1, <1>3
    <2> QED
      BY <2>4, <2>5, ConcatEmptySeq
  <1> HIDE DEF h, r
  <1>7. subs'[s] = r
    BY <1>1, <1>2, <1>4, SubSet, Typed
  <1>8. Still(s)' <=> Still(s)
    BY <1>1 DEF Still, Quiet, AtHost
  <1>9. ASSUME NEW o \in Pend(Tail(todo[s])) PROVE Entry(s, o)'
    <2>1. Entry(s, o)
      BY <1>2, <1>5 DEF Ends
    <2>2. o.op \in Under \cup {"start", "params"} =>
              subs[s].state \notin NoBuf /\ \A p \in Pend(Tail(todo[s])) : p.op = "end" => p.v \notin NoBuf
      BY <2>1, <1>5 DEF Entry
    <2>3. o.op = "vfree" \/ (o.op = "end" /\ o.v \in NoBuf) =>
              Still(s) \/ \E p \in Pend(Tail(todo[s])) : p.op \in {"deact", "wait"} /\ p.ep = DataEp(s)
      BY <2>1, <1>1, <1>5 DEF Entry
    <2> QED
      BY <2>2, <2>3, <1>4, <1>6, <1>7, <1>8 DEF Entry
  <1>10. r.state \in NoBuf => Still(s)
    BY <1>2, <1>4 DEF Held
  <1> QED
    BY <1>1, <1>4, <1>9, <1>10, ChangeHeld

LEMMA FreeBufferHeld ==
  ASSUME IInv, IInv', Buffers, NEW s \in Subs, FreeBuffer(s)
  PROVE  Buffers'
  <1> DEFINE h == Head(todo[s])
             r == [subs[s] EXCEPT !.buffer = FALSE, !.reading = FALSE]
             z == todo[s][2]
  <1>1. todo[s] # <<>> /\ h.op = "vfree" /\ Then(s, <<>>) /\ UNCHANGED <<ep, urb, chip, irq>>
        /\ subs' = [subs EXCEPT ![s] = r]
    BY DEF FreeBuffer, Due
  <1>2. Held /\ Ends /\ Frees /\ TypeOK /\ Shape /\ Lists
    BY DEF Buffers, IInv
  <1>3. subs[s] \in SubRec /\ todo[s] \in Seq(Entries) /\ s \in Agents /\ s # "hub"
    BY <1>2, Typed, AgentsAre DEF Shape
  <1>4. r \in SubRec /\ r.state = subs[s].state
    BY <1>3 DEF SubRec
  <1>5. Len(todo[s]) = 2 /\ z.op = "end" /\ z.v \in NoBuf
    <2>1. 1 \in 1..Len(todo[s]) /\ todo[s][1] = h
      BY <1>1, <1>3
    <2>2. 1 = Len(todo[s]) - 1 /\ todo[s][1 + 1].v \in NoBuf
      BY <2>1, <1>1, <1>2 DEF Frees, FreeLast
    <2>3. Len(todo[s]) = 2
      BY <2>2, <1>3
    <2> QED
      BY <2>2, <2>3, <1>1, <1>2, <1>3 DEF Lists
  <1>6. Pend(Tail(todo[s])) = {z} /\ Tail(todo[s]) # <<>> /\ Pend(todo[s]) = {h, z}
    <2>1. Tail(todo[s]) \in Seq(Entries) /\ Len(Tail(todo[s])) = 1 /\ Tail(todo[s])[1] = z
      BY <1>3, <1>5
    <2>2. Pend(Tail(todo[s])) = {z}
      BY <2>1 DEF Pend
    <2>3. Tail(todo[s]) # <<>>
      <3>1. Pend(Tail(todo[s])) # {}
        BY <2>2
      <3> QED
        BY <3>1, PendTuples
    <2>4. Pend(todo[s]) = {h} \cup Pend(Tail(todo[s]))
      BY <1>1, <1>3, PendOf
    <2> QED
      BY <2>2, <2>3, <2>4
  <1> HIDE DEF h, r, z
  <1>7. Still(s)
    <2>1. h \in Pend(todo[s]) /\ Entry(s, h)
      BY <1>2, <1>6 DEF Ends
    <2>2. \A p \in Pend(todo[s]) : p.op \notin {"deact", "wait"}
      BY <1>1, <1>5, <1>6
    <2> QED
      BY <2>1, <2>2, <1>1 DEF Entry
  <1>8. Still(s)'
    BY <1>1, <1>7 DEF Still, Quiet, AtHost
  <1>9. \A o \in Pend(Tail(todo[s])) : Entry(s, o)'
    BY <1>5, <1>6, <1>8 DEF Entry, Under
  <1> QED
    BY <1>1, <1>4, <1>6, <1>7, <1>9, ChangeHeld

\* A call or a trigger of a thread is over.
LEMMA EndHeld ==
  ASSUME IInv, IInv', Buffers, NEW s \in Subs, End(s)
  PROVE  Buffers'
  <1> DEFINE h == Head(todo[s])
             r == [subs[s] EXCEPT !.state = h.v, !.locked = FALSE, !.reading = FALSE]
  <1>1. todo[s] # <<>> /\ h.op = "end" /\ Then(s, <<>>) /\ UNCHANGED <<ep, urb, chip, irq>>
        /\ subs' = [subs EXCEPT ![h.s] = [subs[h.s] EXCEPT !.state = h.v, !.locked = FALSE, !.reading = FALSE]]
    BY DEF End, Due
  <1>2. Held /\ Ends /\ TypeOK /\ Shape /\ Lists /\ Owned
    BY DEF Buffers, IInv
  <1>3. subs[s] \in SubRec /\ todo[s] \in Seq(Entries) /\ s \in Agents
    BY <1>2, Typed, AgentsAre DEF Shape
  <1> HIDE DEF h
  <1>4. h = Head(todo[s])
    BY DEF h
  <1>5. Tail(todo[s]) = <<>> /\ Pend(todo[s]) = {h} /\ Pend(Tail(todo[s])) = {}
    <2>1. Ordered(todo[s])
      BY <1>2, <1>3 DEF Lists
    <2> QED
      BY <2>1, <1>1, <1>3, <1>4, EndIsLast, PendTuples
  <1>6. h.s = s /\ h.v \in States /\ Entry(s, h)
    BY <1>1, <1>2, <1>5 DEF Owned, Ends
  <1>7. r \in SubRec /\ r.state = h.v /\ r.buffer = subs[s].buffer
    BY <1>3, <1>6 DEF SubRec
  <1>8. subs' = [subs EXCEPT ![s] = r]
    BY <1>1, <1>6
  <1> HIDE DEF r
  <1>9. r.state \in NoBuf => Still(s)
    BY <1>1, <1>5, <1>6, <1>7 DEF Entry
  <1>10. ~chip.disconnected /\ r.state \notin NoBuf => r.buffer
    BY <1>1, <1>5, <1>6, <1>7 DEF Entry
  <1>11. r.buffer \/ Still(s)
    BY <1>2, <1>7 DEF Held
  <1> QED
    BY <1>1, <1>5, <1>7, <1>8, <1>9, <1>10, <1>11, ChangeHeld

\* A step that leaves the list of every thread as it is.
LEMMA BuffersRest ==
  ASSUME Buffers, Users',
         \A s \in Subs : /\ todo'[s] = todo[s] /\ subs'[s].buffer = subs[s].buffer
                         /\ subs'[s].state \in NoBuf => subs[s].state \in NoBuf
                         /\ subs[s].state \in NoBuf /\ subs'[s].state \notin NoBuf =>
                               chip.disconnected \/ subs[s].buffer
                         /\ Still(s) => Still(s)'
                         /\ HcdFor(s)' => HcdFor(s) \/ chip'.disconnected \/ subs[s].buffer,
         chip.disconnected => chip'.disconnected
  PROVE  Buffers'
  <1>1. Held' /\ Ends'
    BY HeldRest DEF Buffers
  <1>2. Frees'
    BY DEF Buffers, Frees
  <1> QED
    BY <1>1, <1>2 DEF Buffers

\* The handler is through with the stop of a stream.
LEMMA HcdEndHeld ==
  ASSUME IInv, IInv', Buffers, End("hcd")
  PROVE  Buffers'
  <1> DEFINE h == Head(todo["hcd"])
             t == h.s
             r == [subs[t] EXCEPT !.state = h.v, !.locked = FALSE, !.reading = FALSE]
  <1>1. todo["hcd"] # <<>> /\ h.op = "end" /\ Then("hcd", <<>>) /\ UNCHANGED <<ep, urb, chip, irq>>
        /\ subs' = [subs EXCEPT ![t] = r]
    BY DEF End, Due
  <1>2. Held /\ Users /\ TypeOK /\ Shape /\ Lists /\ Owned
    BY DEF Buffers, IInv
  <1>3. todo["hcd"] \in Seq(Entries) /\ "hcd" \in Agents /\ Lists0
    BY <1>2, AgentsAre DEF Shape, Lists0
  <1> HIDE DEF h
  <1>4. h = Head(todo["hcd"])
    BY DEF h
  <1>5. Tail(todo["hcd"]) = <<>> /\ Pend(todo["hcd"]) = {h}
    <2>1. Ordered(todo["hcd"])
      BY <1>2, <1>3 DEF Lists
    <2> QED
      BY <2>1, <1>1, <1>3, <1>4, EndIsLast
  <1>6. t \in Subs /\ h.v = "setup" /\ HcdFor(t)
    BY <1>1, <1>2, <1>5 DEF Owned, HcdFor
  <1>7. r \in SubRec /\ r.state = "setup" /\ r.buffer = subs[t].buffer
    <2>1. subs[t] \in SubRec
      BY <1>2, <1>6, Typed
    <2> QED
      BY <2>1, <1>6 DEF SubRec, States
  <1> HIDE DEF t, r
  <1>8. subs'[t] = r /\ \A s \in Subs : s # t => subs'[s] = subs[s]
    BY <1>1, <1>2, <1>6, <1>7, SubSet, Typed
  <1>9. <<>> \in Seq(Entries) /\ Pend(<<>>) = {}
    BY PendTuples
  <1>10. Pend(todo'["hcd"]) = {} /\ \A b \in Agents : b # "hcd" => todo'[b] = todo[b]
    BY <1>1, <1>3, <1>5, <1>9, ThenTodo
  <1>11. \A s \in Subs : todo'[s] = todo[s] /\ ~HcdFor(s)'
    BY <1>10, AgentsAre DEF HcdFor
  <1>12. chip.disconnected \/ subs[t].buffer
    BY <1>2, <1>6 DEF Held
  <1>13. "setup" \notin NoBuf
    BY DEF NoBuf
  <1>14. \A s \in Subs : Still(s)' <=> Still(s)
    BY <1>1 DEF Still, Quiet, AtHost
  <1>15. Users'
    BY <1>1, <1>2, UsersSame, SameEps DEF SameFlags
  <1>16. ASSUME NEW s \in Subs
         PROVE  /\ subs'[s].buffer = subs[s].buffer
                /\ subs'[s].state \in NoBuf => subs[s].state \in NoBuf
                /\ subs[s].state \in NoBuf /\ subs'[s].state \notin NoBuf => chip.disconnected \/ subs[s].buffer
    <2>1. CASE s = t
      BY <2>1, <1>7, <1>8, <1>12, <1>13
    <2>2. CASE s # t
      BY <2>2, <1>8
    <2> QED
      BY <2>1, <2>2
  <1>17. chip' = chip
    BY <1>1
  <1> QED
    BY <1>11, <1>14, <1>15, <1>16, <1>17, BuffersRest

-----------------------------------------------------------------------------
(* The buffers: calls without entries, the handler and the hub *)

LEMMA OpenHeld ==
  ASSUME IInv, IInv', Buffers, NEW s \in Subs, Open(s)
  PROVE  Buffers'
  <1> DEFINE r == [subs[s] EXCEPT !.state = "open"]
  <1>1. subs[s].state = "closed" /\ UNCHANGED <<ep, urb, chip, todo, irq>>
        /\ subs' = [subs EXCEPT ![s] = r]
    BY DEF Open, CanCall
  <1>2. TypeOK /\ Users
    BY DEF IInv, Buffers
  <1>3. r \in SubRec /\ r.state = "open" /\ r.buffer = subs[s].buffer
    <2>1. subs[s] \in SubRec
      BY <1>2, Typed
    <2> QED
      BY <2>1 DEF SubRec, States
  <1> HIDE DEF r
  <1>4. subs'[s] = r /\ \A t \in Subs : t # s => subs'[t] = subs[t]
    BY <1>1, <1>2, <1>3, SubSet, Typed
  <1>5. ASSUME NEW t \in Subs
        PROVE  /\ subs'[t].buffer = subs[t].buffer
               /\ subs'[t].state \in NoBuf => subs[t].state \in NoBuf
               /\ subs[t].state \in NoBuf /\ subs'[t].state \notin NoBuf => chip.disconnected \/ subs[t].buffer
    <2>1. CASE t = s
      BY <2>1, <1>1, <1>3, <1>4 DEF NoBuf
    <2>2. CASE t # s
      BY <2>2, <1>4
    <2> QED
      BY <2>1, <2>2
  <1>6. \A t \in Subs : todo'[t] = todo[t] /\ (Still(t)' <=> Still(t)) /\ (HcdFor(t)' <=> HcdFor(t))
    BY <1>1 DEF Still, Quiet, AtHost, HcdFor
  <1>7. Users'
    BY <1>1, <1>2, UsersSame, SameEps DEF SameFlags
  <1>8. chip' = chip
    BY <1>1
  <1> QED
    BY <1>5, <1>6, <1>7, <1>8, BuffersRest

\* A trigger that only sets a state and the callbacks.
LEMMA TriggerHeld ==
  ASSUME IInv, Buffers, NEW s \in Subs, NEW x \in {"running", "paused"},
         subs[s].state \notin NoBuf,
         subs' = [subs EXCEPT ![s].state = x], UNCHANGED <<urb, chip, todo, irq>>, SameUsers
  PROVE  Buffers'
  <1> DEFINE r == [subs[s] EXCEPT !.state = x]
  <1>1. subs' = [subs EXCEPT ![s] = r]
    OBVIOUS
  <1>2. TypeOK /\ Users
    BY DEF IInv, Buffers
  <1>3. r \in SubRec /\ r.state = x /\ r.buffer = subs[s].buffer
    <2>1. subs[s] \in SubRec
      BY <1>2, Typed
    <2> QED
      BY <2>1 DEF SubRec, States
  <1> HIDE DEF r
  <1>4. subs'[s] = r /\ \A t \in Subs : t # s => subs'[t] = subs[t]
    BY <1>1, <1>2, <1>3, SubSet, Typed
  <1>5. ASSUME NEW t \in Subs
        PROVE  /\ subs'[t].buffer = subs[t].buffer
               /\ subs'[t].state \in NoBuf => subs[t].state \in NoBuf
               /\ subs[t].state \in NoBuf /\ subs'[t].state \notin NoBuf => chip.disconnected \/ subs[t].buffer
    <2>1. CASE t = s
      BY <2>1, <1>3, <1>4 DEF NoBuf
    <2>2. CASE t # s
      BY <2>2, <1>4
    <2> QED
      BY <2>1, <2>2
  <1>6. \A t \in Subs : todo'[t] = todo[t] /\ (Still(t)' <=> Still(t)) /\ (HcdFor(t)' <=> HcdFor(t))
    BY DEF Still, Quiet, AtHost, HcdFor
  <1>7. Users'
    BY <1>2, UsersSame DEF SameFlags
  <1>8. chip' = chip
    OBVIOUS
  <1> QED
    BY <1>5, <1>6, <1>7, <1>8, BuffersRest

LEMMA PauseHeld ==
  ASSUME IInv, IInv', Buffers, NEW s \in Subs, NEW push \in BOOLEAN, Pause(s, push)
  PROVE  Buffers'
  <1> DEFINE d == DataEp(s)
             r == IF s = "play" THEN [ep[d] EXCEPT !.prepare = ~push, !.retire = TRUE]
                                ELSE [ep[d] EXCEPT !.retire = ~push]
             x == IF push THEN "paused" ELSE "running"
  <1>1. TypeOK
    BY DEF IInv
  <1>2. d \in Eps /\ ep[d] \in EpRec
    BY <1>1, AgentsAre, Typed
  <1>3. r \in EpRec /\ r.user = ep[d].user
    BY <1>2 DEF EpRec
  <1>4. ep' = [ep EXCEPT ![d] = r]
    BY DEF Pause
  <1>5. /\ subs[s].state \in {"running", "paused"}
        /\ subs' = [subs EXCEPT ![s].state = x] /\ UNCHANGED <<urb, chip, todo, irq>>
    BY DEF Pause, CanCall
  <1>6. x \in {"running", "paused"} /\ subs[s].state \notin NoBuf
    BY <1>5 DEF NoBuf
  <1> HIDE DEF d, r, x
  <1>7. ep'[d] = r /\ \A f \in Eps : f # d => ep'[f] = ep[f]
    BY <1>1, <1>2, <1>3, <1>4, Typed, EpSet
  <1>8. SameUsers
    BY <1>3, <1>7 DEF SameUsers
  <1> QED
    BY <1>5, <1>6, <1>8, TriggerHeld

LEMMA StartPlaybackHeld ==
  ASSUME IInv, IInv', Buffers, StartPlayback
  PROVE  Buffers'
  <1> DEFINE r == [ep["out"] EXCEPT !.prepare = TRUE, !.retire = TRUE]
  <1>1. TypeOK
    BY DEF IInv
  <1>2. "out" \in Eps /\ ep["out"] \in EpRec /\ "play" \in Subs
    BY <1>1, AgentsAre, Typed
  <1>3. r \in EpRec /\ r.user = ep["out"].user
    BY <1>2 DEF EpRec
  <1>4. ep' = [ep EXCEPT !["out"] = r]
    BY DEF StartPlayback
  <1>5. /\ subs["play"].state = "prepared"
        /\ subs' = [subs EXCEPT !["play"].state = "running"] /\ UNCHANGED <<urb, chip, todo, irq>>
    BY DEF StartPlayback, CanCall
  <1>6. "running" \in {"running", "paused"} /\ subs["play"].state \notin NoBuf
    BY <1>5 DEF NoBuf
  <1> HIDE DEF r
  <1>7. ep'["out"] = r /\ \A f \in Eps : f # "out" => ep'[f] = ep[f]
    BY <1>1, <1>2, <1>3, <1>4, Typed, EpSet
  <1>8. SameUsers
    BY <1>3, <1>7 DEF SameUsers
  <1> QED
    BY <1>2, <1>5, <1>6, <1>8, TriggerHeld

\* A step of the handler, by what it does to the URBs.
LEMMA HandlerStep ==
  ASSUME Buffers, UNCHANGED <<subs, chip, todo>>, SameUsers,
         \A e \in Eps : AtHost(e)' \subseteq AtHost(e),
         chip.shutdown => irq'.at \in {"idle", "clear"},
         irq'.at \in {"test prepare", "fetch prepare", "preparing"} => irq'.ep = "out",
         irq'.at \in {"retiring", "preparing"} /\ irq'.user # None => irq'.ep = DataEp(irq'.user)
  PROVE  Buffers'
  <1>1. Users'
    BY DEF Buffers, Users, SameUsers
  <1>2. \A s \in Subs : DataEp(s) \in Eps
    BY AgentsAre
  <1>3. \A s \in Subs : Still(s) => Still(s)'
    BY <1>2 DEF Still, Quiet
  <1>4. \A s \in Subs : HcdFor(s)' <=> HcdFor(s)
    BY DEF HcdFor
  <1> QED
    BY <1>1, <1>3, <1>4, BuffersRest

LEMMA CompleteHeld ==
  ASSUME IInv, IInv', Buffers, NEW e \in Eps, NEW u \in Urbs, Complete(e, u)
  PROVE  Buffers'
  <1>1. /\ irq.at = "idle" /\ u \in OnBus(e)
        /\ urb' = [urb EXCEPT ![e][u] = "handler"] /\ UNCHANGED <<ep, subs, chip, todo>>
        /\ irq' = [irq EXCEPT !.ep = e, !.urb = u,
                          !.at = IF urb[e][u] = "unlinked" \/ chip.gone \/ chip.shutdown
                                 THEN "clear" ELSE "retire"]
    BY DEF Complete, At
  <1>2. irq \in IrqRec
    BY NoSink
  <1>3. irq'.at \in {"clear", "retire"} /\ (chip.shutdown => irq'.at = "clear")
    BY <1>1, <1>2 DEF IrqRec
  <1>4. urb \in [Eps -> [Urbs -> Places]]
    BY Typed DEF IInv
  <1>5. \A f \in Eps, v \in Urbs : urb'[f][v] = IF f = e /\ v = u THEN "handler" ELSE urb[f][v]
    BY <1>1, <1>4
  <1>6. u \in AtHost(e)
    BY <1>1 DEF OnBus, AtHost
  <1>7. \A f \in Eps : AtHost(f)' \subseteq AtHost(f)
    BY <1>5, <1>6 DEF AtHost
  <1>8. SameUsers
    BY <1>1, SameEps
  <1> QED
    BY <1>1, <1>3, <1>7, <1>8, HandlerStep

LEMMA MovesHeld ==
  ASSUME IInv, IInv', Buffers,
         \/ \E empty \in BOOLEAN : HandleSync(empty)
         \/ TestRetire \/ FetchRetire \/ Retired \/ TestPrepare \/ FetchPrepare \/ Prepared
         \/ TestRunning
  PROVE  Buffers'
  <1>1. irq \in IrqRec /\ (\A e : ~Sink(e)) /\ Users /\ ep \in [Eps -> EpRec]
    BY NoSink, Typed, SMTT(30) DEF IInv, Buffers
  <1>2. UNCHANGED <<ep, urb, subs, chip, todo>>
    BY <1>1 DEF HandleSync, TestRetire, FetchRetire, Retired, TestPrepare, FetchPrepare, Prepared,
                TestRunning, Callback, Fetch, CallbackReturns
  <1>3. irq.at \notin {"idle", "clear"}
    BY DEF HandleSync, TestRetire, FetchRetire, Retired, TestPrepare, FetchPrepare, Prepared,
           TestRunning, Callback, Fetch, CallbackReturns, At
  <1>4. ~chip.shutdown
    BY <1>1, <1>3 DEF Users
  <1> DEFINE Kept == irq'.at \in {"test prepare", "fetch prepare", "preparing"} => irq'.ep = "out"
             Mine == irq'.at \in {"retiring", "preparing"} /\ irq'.user # None => irq'.ep = DataEp(irq'.user)
  <1>5. Kept /\ Mine
    <2>1. CASE \E empty \in BOOLEAN : HandleSync(empty)
      <3>1. irq' = [irq EXCEPT !.at = "test retire"]
        BY <2>1, <1>1 DEF HandleSync, GoTo
      <3> QED
        BY <3>1, <1>1 DEF IrqRec
    <2>2. CASE TestRetire
      <3>1. irq'.at \in {"fetch retire", "test running"}
        BY <2>2, <1>1 DEF TestRetire, Callback, GoTo, IrqRec
      <3> QED
        BY <3>1
    <2>3. CASE TestPrepare
      <3>1. irq.at = "test prepare" /\ irq'.at \in {"fetch prepare", "submit"} /\ irq'.ep = irq.ep
        BY <2>3, <1>1 DEF TestPrepare, Callback, At, GoTo, IrqRec
      <3> QED
        BY <3>1, <1>1 DEF Users
    <2>4. CASE TestRunning
      <3>1. irq'.at \in {"clear", "submit"} \/ (irq'.at = "test prepare" /\ irq.ep = "out" /\ irq'.ep = irq.ep)
        BY <2>4, <1>1 DEF TestRunning, GoTo, IsOut, IrqRec
      <3> QED
        BY <3>1
    <2>5. CASE FetchRetire
      <3>1. irq'.at = "retiring" /\ irq'.ep = irq.ep /\ irq'.user = ep[irq.ep].user /\ irq.ep \in Eps
        BY <2>5, <1>1 DEF FetchRetire, Fetch, IrqRec
      <3> QED
        BY <3>1, <1>1 DEF Users
    <2>6. CASE FetchPrepare
      <3>1. irq.at = "fetch prepare" /\ irq'.at = "preparing" /\ irq'.ep = irq.ep /\ irq'.user = ep["out"].user
        BY <2>6, <1>1 DEF FetchPrepare, Fetch, At, IrqRec
      <3>2. "out" \in Eps
        BY AgentsAre
      <3> QED
        BY <3>1, <3>2, <1>1 DEF Users
    <2>7. CASE Retired
      <3>1. irq'.at = "test running"
        BY <2>7, <1>1 DEF Retired, CallbackReturns, IrqRec
      <3> QED
        BY <3>1
    <2>8. CASE Prepared
      <3>1. irq'.at = "submit"
        BY <2>8, <1>1 DEF Prepared, CallbackReturns, IrqRec
      <3> QED
        BY <3>1
    <2> QED
      BY <2>1, <2>2, <2>3, <2>4, <2>5, <2>6, <2>7, <2>8
  <1>6. SameUsers
    BY <1>2, SameEps
  <1>7. \A e \in Eps : AtHost(e)' \subseteq AtHost(e)
    BY <1>2 DEF AtHost
  <1> QED
    BY <1>2, <1>4, <1>5, <1>6, <1>7, HandlerStep

LEMMA ResubmitHeld ==
  ASSUME IInv, IInv', Buffers, Resubmit
  PROVE  Buffers'
  <1>1. irq.at = "submit" /\ UNCHANGED <<ep, subs, chip, todo>>
    BY DEF Resubmit, At
  <1>2. irq \in IrqRec /\ InHandler /\ urb \in [Eps -> [Urbs -> Places]]
    BY NoSink, Typed DEF IInv
  <1>3. irq'.at \in {"idle", "clear"}
    <2>1. CASE irq' = Resting
      BY <2>1 DEF Resting
    <2>2. CASE GoTo("clear")
      BY <2>2, <1>2 DEF GoTo, IrqRec
    <2> QED
      BY <2>1, <2>2 DEF Resubmit
  <1>4. irq.ep \in Eps /\ irq.urb \in Urbs /\ irq.urb \in AtHost(irq.ep)
    BY <1>1, <1>2 DEF IrqRec, InHandler, AtHost
  <1>5. \A e \in Eps : AtHost(e)' \subseteq AtHost(e)
    <2>1. CASE urb' = [urb EXCEPT ![irq.ep][irq.urb] = "bus"]
      <3>1. \A e \in Eps, u \in Urbs : urb'[e][u] = urb[e][u] \/ (e = irq.ep /\ u = irq.urb)
        BY <2>1, <1>2
      <3> QED
        BY <3>1, <1>4 DEF AtHost
    <2>2. CASE UNCHANGED urb
      BY <2>2 DEF AtHost
    <2> QED
      BY <2>1, <2>2 DEF Resubmit
  <1>6. SameUsers
    BY <1>1, SameEps
  <1> QED
    BY <1>1, <1>3, <1>5, <1>6, HandlerStep

LEMMA ClearBitHeld ==
  ASSUME IInv, IInv', Buffers, ClearBit
  PROVE  Buffers'
  <1> DEFINE e == irq.ep
             u == irq.urb
             r == [ep[e] EXCEPT !.active = @ \ {u}]
  <1>1. irq.at = "clear" /\ irq' = Resting /\ UNCHANGED <<subs, chip, todo>>
        /\ ep' = [ep EXCEPT ![e] = r]
        /\ urb' = [urb EXCEPT ![e][u] = IF urb[e][u] = "handler" THEN "idle" ELSE urb[e][u]]
    BY DEF ClearBit, At
  <1>2. irq \in IrqRec /\ TypeOK /\ urb \in [Eps -> [Urbs -> Places]]
    BY NoSink, Typed DEF IInv
  <1>3. e \in Eps /\ u \in Urbs /\ ep[e] \in EpRec
    BY <1>2, Typed DEF IrqRec
  <1>4. r \in EpRec /\ r.user = ep[e].user
    BY <1>3 DEF EpRec
  <1> HIDE DEF r
  <1>5. ep'[e] = r /\ \A f \in Eps : f # e => ep'[f] = ep[f]
    BY <1>1, <1>2, <1>3, <1>4, Typed, EpSet
  <1>6. SameUsers
    BY <1>4, <1>5 DEF SameUsers
  <1>7. \A f \in Eps, v \in Urbs : urb'[f][v] = urb[f][v] \/ urb'[f][v] = "idle"
    BY <1>1, <1>2, <1>3
  <1>8. \A f \in Eps : AtHost(f)' \subseteq AtHost(f)
    BY <1>7 DEF AtHost
  <1>9. irq'.at = "idle"
    BY <1>1 DEF Resting
  <1> QED
    BY <1>1, <1>6, <1>8, <1>9, HandlerStep

\* The handler takes over the stop of a stream: a running one has its buffer.
LEMMA StopsHeld ==
  ASSUME IInv, Buffers, NEW s \in Subs, ~subs[s].locked, subs[s].state = "running",
         Users',
         subs' = [subs EXCEPT ![s].locked = TRUE], UNCHANGED <<ep, urb, chip>>,
         todo' = [todo EXCEPT !["hcd"] = WithEnd(StopEndpoints(s, FALSE), Op("end", None, s, "setup"))]
  PROVE  Buffers'
  <1> DEFINE z == Op("end", None, s, "setup")
             X == StopEndpoints(s, FALSE)
             K == WithEnd(X, z)
             r == [subs[s] EXCEPT !.locked = TRUE]
  <1>2. subs' = [subs EXCEPT ![s] = r] /\ todo' = [todo EXCEPT !["hcd"] = K] /\ chip' = chip /\ ep' = ep
        /\ urb' = urb
    OBVIOUS
  <1>3. Held /\ Users /\ TypeOK /\ Shape /\ Alone /\ irq \in IrqRec
    BY NoSink DEF IInv, Buffers
  <1>4. Body(X, s)
    BY StopBody
  <1>5. z \in Entries /\ z.op = "end" /\ z.s = s /\ z.v = "setup"
    BY OpIs DEF States, CallOps
  <1> HIDE DEF X, z
  <1>6. K \in Seq(Entries) /\ Pend(K) = Pend(X) \cup {z}
    BY <1>4, <1>5, BodyEnd
  <1>7. \A o \in Pend(K) : o.s = s
    BY <1>4, <1>5, <1>6 DEF Body
  <1> HIDE DEF K
  <1>8. todo'["hcd"] = K /\ \A b \in Agents : b # "hcd" => todo'[b] = todo[b]
    <2>1. todo \in [Agents -> Seq(Entries)] /\ "hcd" \in Agents
      BY <1>3, AgentsAre DEF Shape
    <2> QED
      BY <2>1, <1>2, <1>6, TodoSet
  <1>9. \A t \in Subs : todo'[t] = todo[t] /\ (HcdFor(t)' => t = s)
    BY <1>7, <1>8, AgentsAre DEF HcdFor
  <1>10. chip.disconnected \/ subs[s].buffer
    <2>1. chip.disconnected \/ todo[s] = <<>>
      BY <1>2, <1>3 DEF Alone
    <2> QED
      BY <2>1, <1>2, <1>3 DEF Held, NoBuf
  <1>11. r \in SubRec /\ r.state = subs[s].state /\ r.buffer = subs[s].buffer
    <2>1. subs[s] \in SubRec
      BY <1>3, Typed
    <2> QED
      BY <2>1 DEF SubRec
  <1> HIDE DEF r
  <1>12. subs'[s] = r /\ \A t \in Subs : t # s => subs'[t] = subs[t]
    BY <1>2, <1>3, <1>11, SubSet, Typed
  <1>13. \A t \in Subs : subs'[t].buffer = subs[t].buffer /\ subs'[t].state = subs[t].state
    BY <1>11, <1>12
  <1>14. \A t \in Subs : Still(t)' <=> Still(t)
    BY <1>2 DEF Still, Quiet, AtHost
  <1>16. \A t \in Subs : HcdFor(t)' => chip'.disconnected \/ subs[t].buffer
    BY <1>2, <1>9, <1>10
  <1>17. chip' = chip /\ Buffers
    BY <1>2
  <1> QED
    BY <1>9, <1>13, <1>14, <1>16, <1>17, BuffersRest

LEMMA OverrunHeld ==
  ASSUME IInv, IInv', Buffers, CaptureOverrun \/ PlaybackUnderrun
  PROVE  Buffers'
  <1>1. PICK inside \in {"retiring", "preparing"}, s \in Subs, next \in {"test running", "submit"} :
            CallbackStops(inside, s, next)
    BY AgentsAre DEF CaptureOverrun, PlaybackUnderrun
  <1>2. /\ irq.at = inside /\ ~subs[s].locked /\ subs[s].state = "running"
        /\ irq' = [irq EXCEPT !.at = next, !.user = None]
        /\ subs' = [subs EXCEPT ![s].locked = TRUE] /\ UNCHANGED <<ep, urb, chip>>
        /\ todo' = [todo EXCEPT !["hcd"] = WithEnd(StopEndpoints(s, FALSE), Op("end", None, s, "setup"))]
    BY <1>1 DEF CallbackStops, At, WithEnd
  <1>3. irq \in IrqRec
    BY NoSink
  <1>4. irq'.at \in {"test running", "submit"} /\ irq.at \in {"retiring", "preparing"}
    BY <1>2, <1>3 DEF IrqRec
  <1>5. Users'
    <2>1. Users
      BY DEF Buffers
    <2>2. ~chip.shutdown
      BY <1>4, <2>1 DEF Users
    <2> QED
      BY <2>1, <2>2, <1>2, <1>4 DEF Users
  <1> QED
    BY <1>2, <1>5, StopsHeld

LEMMA HandlerHeld ==
  ASSUME IInv, IInv', Buffers, Handler
  PROVE  Buffers'
  BY MovesHeld, OverrunHeld, ResubmitHeld, ClearBitHeld, NoQueue DEF Handler

LEMMA PlugHeld ==
  ASSUME IInv, IInv', Buffers, Lone, Gone \/ Shutdown
  PROVE  Buffers'
  <1>1. Users /\ Shape
    BY DEF IInv, Buffers
  <1>2. UNCHANGED <<ep, urb, subs, todo, irq>>
    BY DEF Gone, Shutdown
  <1>3. chip'.disconnected = chip.disconnected /\ (chip.shutdown => chip'.shutdown)
    BY <1>1 DEF Gone, Shutdown, Shape
  <1>4. Users'
    <2>1. CASE Gone
      <3>1. Unplug # "never" /\ chip'.shutdown = chip.shutdown
        BY <2>1, <1>1 DEF Gone, Shape
      <3> QED
        BY <3>1, <1>1, <1>2 DEF Users
    <2>2. CASE Shutdown
      <3>1. chip.gone /\ (Unplug = "at rest" => irq.at \in {"idle", "clear"}) /\ chip'.gone = chip.gone
        BY <2>2, <1>1 DEF Shutdown, Shape
      <3>2. Unplug = "at rest"
        BY <3>1, <1>1, SizesAssumption DEF Lone, Users
      <3> QED
        BY <3>1, <3>2, <1>1, <1>2 DEF Users
    <2> QED
      BY <2>1, <2>2
  <1>5. \A s \in Subs : (Still(s) => Still(s)') /\ (HcdFor(s)' <=> HcdFor(s)) /\ todo'[s] = todo[s]
                        /\ subs'[s] = subs[s]
    BY <1>2, <1>3 DEF Still, Quiet, AtHost, HcdFor
  <1> QED
    BY <1>3, <1>4, <1>5, BuffersRest

LEMMA DisconnectHeld ==
  ASSUME IInv, IInv', Buffers, Disconnect
  PROVE  Buffers'
  <1> DEFINE H == ForEach(<<"out", "fb", "in">>, "free", None)
  <1>1. Users /\ Shape /\ subs \in [Subs -> SubRec]
    BY Typed DEF IInv, Buffers
  <1>2. /\ chip' = [chip EXCEPT !.disconnected = TRUE]
        /\ subs' = [s \in Subs |-> [subs[s] EXCEPT !.eps = <<>>]]
        /\ todo' = [todo EXCEPT !["hub"] = H] /\ UNCHANGED <<ep, urb, irq>>
    BY DEF Disconnect
  <1> HIDE DEF H
  <1>3. chip'.gone = chip.gone /\ chip'.shutdown = chip.shutdown /\ chip'.disconnected
    BY <1>1, <1>2 DEF Shape
  <1>4. \A b \in Agents : b # "hub" => todo'[b] = todo[b]
    BY <1>1, <1>2 DEF Shape
  <1>5. \A s \in Subs : todo'[s] = todo[s] /\ (HcdFor(s)' <=> HcdFor(s))
    BY <1>4, AgentsAre DEF HcdFor
  <1>6. \A s \in Subs : subs'[s].buffer = subs[s].buffer /\ subs'[s].state = subs[s].state
    BY <1>1, <1>2 DEF SubRec
  <1>7. \A s \in Subs : Still(s)' <=> Still(s)
    BY <1>2, <1>3 DEF Still, Quiet, AtHost
  <1>8. Users'
    BY <1>1, <1>2, <1>3 DEF Users
  <1> QED
    BY <1>3, <1>5, <1>6, <1>7, <1>8, BuffersRest

LEMMA StutterHeld ==
  ASSUME Buffers, UNCHANGED vars
  PROVE  Buffers'
  <1>1. UNCHANGED <<ep, urb, subs, chip, todo, irq>>
    BY DEF vars
  <1>2. Users'
    BY <1>1, UsersSame, SameEps DEF Buffers, SameFlags
  <1>3. \A s \in Subs : (Still(s)' <=> Still(s)) /\ (HcdFor(s)' <=> HcdFor(s)) /\ todo'[s] = todo[s]
                        /\ subs'[s] = subs[s]
    BY <1>1 DEF Still, Quiet, AtHost, HcdFor
  <1>4. chip' = chip
    BY <1>1
  <1> QED
    BY <1>2, <1>3, <1>4, BuffersRest

\* At the beginning no substream has a buffer, and no endpoint has URBs.
LEMMA InitHeld ==
  ASSUME Init
  PROVE  Buffers
  <1>1. todo = [a \in Agents |-> <<>>] /\ irq = Resting
    BY DEF Init
  <1>2. \A a \in Agents : todo[a] = <<>> /\ Pend(todo[a]) = {} /\ Len(todo[a]) = 0
    BY <1>1, PendTuples
  <1>3. ~chip.gone /\ ~chip.shutdown /\ ~chip.disconnected
    BY DEF Init
  <1>4. \A e \in Eps : ep[e].user = None
    BY DEF Init
  <1>5. \A s \in Subs : subs[s].state = "closed"
    BY DEF Init
  <1>6. \A e \in Eps : \A u \in Urbs : urb[e][u] = "none"
    BY DEF Init
  <1>7. \A s \in Subs : Still(s)
    <2>1. \A e \in Eps : AtHost(e) = {}
      BY <1>6 DEF AtHost
    <2> QED
      BY <2>1, AgentsAre DEF Still, Quiet
  <1>8. \A s \in Subs : todo[s] = <<>> /\ Pend(todo[s]) = {} /\ Len(todo[s]) = 0 /\ ~HcdFor(s)
    BY <1>2, AgentsAre DEF HcdFor
  <1>9. Held
    BY <1>5, <1>7, <1>8 DEF Held, NoBuf
  <1>10. Ends
    BY <1>8 DEF Ends
  <1>11. Frees
    <2>1. 1..0 = {}
      OBVIOUS
    <2> QED
      BY <2>1, <1>8 DEF Frees, FreeLast
  <1>12. Users
    BY <1>1, <1>3, <1>4 DEF Users, Resting
  <1> QED
    BY <1>9, <1>10, <1>11, <1>12 DEF Buffers

LEMMA CallsHeld ==
  ASSUME IInv, IInv', Buffers, ~Grow, NEW s \in Subs, AppCall(s) \/ CallStep(s)
  PROVE  Buffers'
  BY AllocBufferHeld, FreeBufferHeld, SetupDoneHeld, SetRetireHeld, EndHeld, OpenHeld, HwParamsHeld,
     HwFreeHeld, PrepareHeld, DropHeld, CloseHeld, PauseHeld DEF AppCall, CallStep

LEMMA NextHeld ==
  ASSUME IInv, Buffers, Lone, ~Grow, [Next]_vars
  PROVE  Buffers'
  <1>0. IInv'
    BY NextSafe
  <1>1. ASSUME NEW a \in Agents, EndpointStep(a) PROVE Buffers'
    BY <1>0, <1>1, EndpointHeld
  <1>2. ASSUME NEW s \in Subs, AppCall(s) \/ CallStep(s) PROVE Buffers'
    BY <1>0, <1>2, CallsHeld
  <1>3. ASSUME End("hcd") PROVE Buffers'
    BY <1>0, <1>3, HcdEndHeld
  <1>4. ASSUME NEW e \in Eps, NEW u \in Urbs, Complete(e, u) PROVE Buffers'
    BY <1>0, <1>4, CompleteHeld
  <1>5. ASSUME StartPlayback \/ StartCapture PROVE Buffers'
    BY <1>0, <1>5, StartPlaybackHeld, StartCaptureHeld
  <1>6. ASSUME Handler PROVE Buffers'
    BY <1>0, <1>6, HandlerHeld
  <1>7. ASSUME Gone \/ Shutdown \/ Disconnect PROVE Buffers'
    BY <1>0, <1>7, PlugHeld, DisconnectHeld
  <1>8. ASSUME UNCHANGED vars PROVE Buffers'
    BY <1>8, StutterHeld
  <1> QED
    BY <1>1, <1>2, <1>3, <1>4, <1>5, <1>6, <1>7, <1>8 DEF Next

\* A handler that is in a callback has an URB of the user's data endpoint.
LEMMA CallbackHeld ==
  ASSUME IInv, Buffers
  PROVE  CallbackHasBuffer
  <1> SUFFICES ASSUME irq.at \in {"retiring", "preparing"}, irq.user # None
               PROVE  subs[irq.user].buffer
    BY DEF CallbackHasBuffer
  <1>1. irq \in IrqRec /\ InHandler /\ Users /\ Held
    BY NoSink DEF IInv, Buffers
  <1>2. irq.user \in Subs /\ irq.ep = DataEp(irq.user) /\ ~chip.shutdown
    BY <1>1 DEF IrqRec, Users
  <1>3. irq.urb \in AtHost(irq.ep)
    BY <1>1 DEF InHandler, IrqRec, AtHost
  <1>4. ~Still(irq.user)
    BY <1>2, <1>3 DEF Still, Quiet
  <1> QED
    BY <1>1, <1>2, <1>4 DEF Held

(***************************************************************************)
(* retire_capture_urb and prepare_playback_urb copy from or to a buffer    *)
(* that is there: hw_free and hw_params have waited for the URBs of the    *)
(* substream before they free it.  Grow would let hw_params replace the    *)
(* buffer of a substream that is configured, which frees it first.         *)
(***************************************************************************)
THEOREM CallbacksHaveBuffers ==
  ASSUME Lone, ~Grow
  PROVE  Spec => []CallbackHasBuffer
  <1>1. Init => Buffers
    BY InitHeld
  <1>2. IInv /\ Buffers /\ [Next]_vars => Buffers'
    BY NextHeld
  <1>3. IInv /\ Buffers => CallbackHasBuffer
    BY CallbackHeld
  <1> QED
    BY <1>1, <1>2, <1>3, AlwaysIInv, PTL DEF Spec

=============================================================================
