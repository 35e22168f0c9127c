--------------------------- MODULE SeqFifo_proofs ---------------------------
(***************************************************************************)
(* Theorems about SeqFifo: its types, that the list is whole, that every   *)
(* cell is accounted for, that no reader sleeps over an event, and that    *)
(* the FIFO implements EventQueue.                                         *)
(*                                                                         *)
(* The list is a recursive function of the pointers; what is needed of it  *)
(* is proved with an induction principle for sets of numbers, which is     *)
(* derived here from the well-foundedness of < on the natural numbers.     *)
(***************************************************************************)
EXTENDS SeqFifo, FiniteSetTheorems, SequenceTheorems, WellFoundedInduction, TLAPS

(***************************************************************************)
(* The list and the owners of cells.                                       *)
(***************************************************************************)
\* s is what is linked from head to tail.
IsList(s) ==
    /\ s \in Seq(Cells)
    /\ \A i, j \in 1..Len(s) : s[i] = s[j] => i = j
    /\ head = IF s = <<>> THEN None ELSE s[1]
    /\ tail = IF s = <<>> THEN None ELSE s[Len(s)]
    /\ \A i \in 1..Len(s) : next[s[i]] = IF i = Len(s) THEN None ELSE s[i + 1]

List == Chain(head)
Of(s) == {s[i] : i \in 1..Len(s)}
Hand(t) == Of(pc[t].got)
Hands == UNION {Hand(t) : t \in Threads}
Roots == Of(List) \cup Hands

\* A cell is in the list or in one hand only.
Apart ==
    /\ \A t \in Threads : Hand(t) \cap Of(List) = {}
    /\ \A t, u \in Threads : t # u => Hand(t) \cap Hand(u) = {}

(***************************************************************************)
(* The cells R that are in the list or in a hand, with the cells chained   *)
(* to them in h, and the free cells f are all the cells of the pools in    *)
(* use, and each is there once.                                            *)
(***************************************************************************)
ChainedIn(h) == UNION {h[c].more : c \in Cells}

Accounted(R, h, f, l) ==
    /\ \A c \in Cells : h[c].more # {} => c \in R
    /\ \A c \in Cells : h[c].more \cap R = {}
    /\ \A c, d \in Cells : c # d => h[c].more \cap h[d].more = {}
    /\ \A p \in Pools : f[p] \cap (R \cup ChainedIn(h)) = {}
    /\ \A c \in Cells : c \in R \cup ChainedIn(h) \cup f[c[1]] <=> l[c[1]] # "unused"
    /\ \A c \in R : h[c].event \in Events

(***************************************************************************)
(* What a thread has at each place, and what it manages.                   *)
(***************************************************************************)
PcHolds(r) ==
    /\ r.at \in {"dup", "refused", "full"} => Len(r.got) <= 1
    /\ r.at \in {"append", "copy"} => Len(r.got) = 1
    /\ r.at \notin {"dup", "refused", "full", "append", "copy", "release"} => r.got = <<>>
    /\ r.at \in {"dup", "release", "done"} => r.pool \in Pools
    /\ r.at = "dup" => r.event \in Events

PlacesHold == \A t \in Threads : PcHolds(pc[t])

\* A cell that is not yet in the list is linked to none.
NewIsLast ==
    \A t \in Threads : pc[t].at \in {"dup", "append"} =>
        \A c \in Hand(t) : next[c] = None

Resizing(t) == pc[t].at \in {"release", "done"}
PoolsHold ==
    /\ life[pool] = "open"
    /\ \A t \in Threads :
          /\ pc[t].at = "release" => life[pc[t].pool] = "open" /\ pc[t].pool # pool
          /\ pc[t].at = "done" => life[pc[t].pool] = "closing"
    /\ \A t, u \in Threads : t # u /\ Resizing(t) /\ Resizing(u) => pc[t].pool # pc[u].pool

PcRecords == [at : Places, event : Events \cup {None},
              pool : Pools \cup {None}, got : Seq(Cells)]

Types ==
    /\ pool \in Pools /\ cells \in Int /\ overflow \in BOOLEAN /\ use \subseteq Threads
    /\ next \in [Cells -> Cells \cup {None}]
    /\ holds \in [Cells -> [event : Events \cup {None}, more : SUBSET Cells]]
    /\ free \in [Pools -> SUBSET Cells]
    /\ \A p \in Pools : free[p] \subseteq {c \in Cells : c[1] = p}
    /\ life \in [Pools -> {"unused", "open", "closing"}]
    /\ pc \in [Threads -> PcRecords]

Counted == cells = Len(List)

Inv ==
    /\ Types /\ IsList(List) /\ Counted /\ Apart /\ Accounted(Roots, holds, free, life)
    /\ PlacesHold /\ NewIsLast /\ PoolsHold

(***************************************************************************)
(* Induction.                                                              *)
(***************************************************************************)
Less == OpToRel(<, Nat)

LEMMA LessIsWellFounded ==
  IsWellFoundedOn(Less, Nat) /\ \A x, y \in Nat : <<x, y>> \in Less <=> x < y
  <1>1. IsWellFoundedOn(Less, Nat)
    BY NatLessThanWellFounded DEF Less
  <1>2. \A x, y \in Nat : <<x, y>> \in Less <=> x < y
    BY DEF Less, OpToRel
  <1> QED
    BY <1>1, <1>2

\* A set of numbers with 0, and with the successor of each of its members, has all.
LEMMA Induction ==
  ASSUME NEW T \in SUBSET Nat, 0 \in T, \A n \in T : n + 1 \in T
  PROVE  T = Nat
  <1> DEFINE C == Nat \ T
  <1> SUFFICES ASSUME C # {}
               PROVE  FALSE
    OBVIOUS
  <1>1. C \subseteq Nat
    OBVIOUS
  <1> HIDE DEF C
  <1>2. PICK x \in C : \A y \in C : ~(<<y, x>> \in Less)
    <2>1. IsWellFoundedOn(Less, Nat)
      BY LessIsWellFounded
    <2> QED
      BY <1>1, <2>1, WFMin
  <1>3. x \in Nat /\ x # 0 /\ x \notin T
    BY <1>2 DEF C
  <1>4. x - 1 \in Nat /\ x - 1 < x
    BY <1>3
  <1>5. x - 1 \in T
    BY <1>1, <1>2, <1>3, <1>4, LessIsWellFounded DEF C
  <1> QED
    BY <1>3, <1>4, <1>5

(***************************************************************************)
(* Cells and lists of cells.                                               *)
(***************************************************************************)
CellsOf(p) == {c \in Cells : c[1] = p}

LEMMA CellsOfPool ==
  ASSUME NEW p \in Pools
  PROVE  /\ CellsOf(p) = {p} \X (1..Size[p])
         /\ IsFiniteSet(CellsOf(p)) /\ Cardinality(CellsOf(p)) = Size[p]
  <1>1. Size[p] \in Nat \ {0}
    BY SeqFifoAssumption
  <1>2. CellsOf(p) = {p} \X (1..Size[p])
    BY DEF CellsOf, Cells
  <1>3. IsFiniteSet({p}) /\ Cardinality({p}) = 1
    BY FS_Singleton
  <1>4. IsFiniteSet(1..Size[p]) /\ Cardinality(1..Size[p]) = Size[p]
    BY <1>1, FS_Interval, SMTT(30)
  <1>5. IsFiniteSet({p} \X (1..Size[p])) /\ Cardinality({p} \X (1..Size[p])) = 1 * Size[p]
    BY <1>3, <1>4, FS_Product, ZenonT(60)
  <1> QED
    BY <1>1, <1>2, <1>5

LEMMA PoolOfCell == \A c \in Cells : c[1] \in Pools
  BY DEF Cells

LEMMA CellsAreFinite == IsFiniteSet(Cells) /\ Cardinality(Cells) \in Nat
  <1> DEFINE f == [p \in Pools |-> {p} \X (1..Size[p])]
             T == {f[p] : p \in Pools}
  <1>1. f \in Surjection(Pools, T)
    BY DEF Surjection
  <1>2. IsFiniteSet(T)
    BY <1>1, FS_Surjection, SeqFifoAssumption
  <1>3. \A S \in T : IsFiniteSet(S)
    BY CellsOfPool
  <1>4. Cells = UNION T
    BY DEF Cells
  <1> QED
    BY <1>2, <1>3, <1>4, FS_UNION, FS_CardinalityType

Once(s) == \A i, j \in 1..Len(s) : s[i] = s[j] => i = j

\* A sequence without repetitions has as many members as it is long.
LEMMA LengthIsCardinality ==
  ASSUME NEW s \in Seq(Cells), Once(s)
  PROVE  /\ Of(s) \subseteq Cells /\ Cardinality(Of(s)) = Len(s)
         /\ Len(s) \in Nat /\ Len(s) <= Cardinality(Cells)
  <1>1. Len(s) \in Nat /\ s \in [1..Len(s) -> Cells]
    BY LenProperties
  <1>2. s \in [1..Len(s) -> Of(s)]
    BY <1>1 DEF Of
  <1>3. s \in Bijection(1..Len(s), Of(s))
    BY <1>2 DEF Bijection, Injection, IsInjective, Surjection, Of, Once
  <1>4. IsFiniteSet(1..Len(s)) /\ Cardinality(1..Len(s)) = Len(s)
    BY <1>1, FS_Interval, SMTT(30)
  <1>5. Cardinality(Of(s)) = Len(s)
    BY <1>3, <1>4, FS_Bijection DEF ExistsBijection
  <1>6. Of(s) \in SUBSET Cells
    BY <1>1 DEF Of
  <1>7. Cardinality(Of(s)) <= Cardinality(Cells)
    BY <1>6, CellsAreFinite, FS_Subset
  <1> QED
    BY <1>1, <1>5, <1>6, <1>7

\* What is linked from head to tail is what Chain finds.
LEMMA ChainIsList ==
  ASSUME NEW s, IsList(s)
  PROVE  Chain(head) = s
  <1> DEFINE N == Cardinality(Cells)
             f == [n \in 0..N |-> IF n < Len(s) THEN s[n + 1] ELSE None]
             Step(g) == [n \in 0..N |-> IF n = 0 THEN head
                                        ELSE IF g[n - 1] = None THEN None ELSE next[g[n - 1]]]
  <1>1. s \in Seq(Cells) /\ Once(s)
    BY DEF IsList, Once
  <1>2. N \in Nat /\ Len(s) \in Nat /\ Len(s) <= N
    BY <1>1, LengthIsCardinality, CellsAreFinite
  <1>3. \A i \in 1..Len(s) : s[i] \in Cells /\ s[i] # None
    BY <1>1, ElementOfSeq, SeqFifoAssumption
  <1> HIDE DEF N
  <1>4. f = Step(f)
    <2> SUFFICES ASSUME NEW n \in 0..N
                 PROVE  f[n] = IF n = 0 THEN head
                               ELSE IF f[n - 1] = None THEN None ELSE next[f[n - 1]]
      BY <1>2
    <2>1. CASE n = 0
      BY <1>1, <1>2, <2>1, EmptySeq DEF IsList
    <2>2. CASE n # 0 /\ n <= Len(s)
      <3>1. n - 1 \in 0..N /\ n \in 1..Len(s) /\ f[n - 1] = s[n] /\ s[n] # None
        BY <1>2, <1>3, <2>2
      <3>2. next[s[n]] = IF n = Len(s) THEN None ELSE s[n + 1]
        BY <3>1 DEF IsList
      <3> QED
        BY <1>2, <2>2, <3>1, <3>2
    <2>3. CASE n > Len(s)
      <3>1. n - 1 \in 0..N /\ f[n - 1] = None /\ f[n] = None
        BY <1>2, <2>3
      <3> QED
        BY <1>2, <2>3, <3>1
    <2> QED
      BY <1>2, <2>1, <2>2, <2>3
  <1>5. ASSUME NEW g, g = Step(g)
        PROVE  /\ g = [n \in 0..N |-> g[n]]
               /\ 0 \in 0..N /\ g[0] = head
               /\ \A n \in 1..N : g[n] = IF g[n - 1] = None THEN None ELSE next[g[n - 1]]
    BY <1>2, <1>5
  <1>6. ASSUME NEW g, g = Step(g)
        PROVE  g = f
    <2> HIDE DEF f, Step
    <2> DEFINE T == {n \in Nat : n <= N => g[n] = f[n]}
    <2>1. 0 \in T
      BY <1>4, <1>5, <1>6
    <2>2. ASSUME NEW n \in T
          PROVE  n + 1 \in T
      <3> SUFFICES ASSUME n + 1 <= N
                   PROVE  g[n + 1] = f[n + 1]
        BY <2>2
      <3>1. n \in Nat /\ n + 1 \in 1..N /\ (n + 1) - 1 = n
        BY <1>2, <2>2
      <3>2. g[n] = f[n]
        BY <1>2, <2>2, <3>1
      <3>3. g[n + 1] = IF g[n] = None THEN None ELSE next[g[n]]
        BY <1>5, <1>6, <3>1
      <3>4. f[n + 1] = IF f[n] = None THEN None ELSE next[f[n]]
        BY <1>4, <1>5, <3>1
      <3> QED
        BY <3>2, <3>3, <3>4
    <2> HIDE DEF T
    <2>3. T = Nat
      <3>1. T \in SUBSET Nat
        BY DEF T
      <3> QED
        BY <2>1, <2>2, <3>1, Induction
    <2>4. \A n \in 0..N : g[n] = f[n]
      <3>1. \A n \in 0..N : n \in Nat /\ n <= N
        BY <1>2
      <3> QED
        BY <2>3, <3>1 DEF T
    <2>5. g = [n \in 0..N |-> g[n]] /\ f = [n \in 0..N |-> f[n]]
      BY <1>4, <1>5, <1>6
    <2> QED
      BY <2>4, <2>5
  <1> DEFINE nth == CHOOSE g : g = Step(g)
  <1>7. nth = f
    <2> HIDE DEF f, Step
    <2> QED
      BY <1>4, <1>6
  <1>7a. Chain(head) = [i \in 1..Cardinality({n \in 0..N - 1 : f[n] # None}) |-> f[i - 1]]
    <2>1. Chain(head) = [i \in 1..Cardinality({n \in 0..N - 1 : nth[n] # None}) |-> nth[i - 1]]
      BY DEF Chain, N
    <2> HIDE DEF nth
    <2> QED
      BY <1>7, <2>1
  <1> HIDE DEF f
  <1>8. {n \in 0..N - 1 : f[n] # None} = 0..Len(s) - 1
    BY <1>2, <1>3 DEF f
  <1>9. Cardinality(0..Len(s) - 1) = Len(s)
    <2>1. Len(s) - 1 \in Int
      BY <1>2
    <2>2. Cardinality(0..Len(s) - 1) = IF 0 > Len(s) - 1 THEN 0 ELSE Len(s) - 1 - 0 + 1
      BY <2>1, FS_Interval
    <2> QED
      BY <1>2, <2>2
  <1>10. \A i \in 1..Len(s) : f[i - 1] = s[i]
    BY <1>2 DEF f
  <1>11. s = [i \in 1..Len(s) |-> s[i]]
    BY <1>1, LenProperties
  <1> QED
    BY <1>7a, <1>8, <1>9, <1>10, <1>11

LEMMA ListIs == \A s \in Seq(Cells) : IsList(s) => List = s
  BY ChainIsList DEF List

LEMMA ListWillBe == (\A s \in Seq(Cells) : IsList(s) => List = s)'
  BY ListIs, PTL

LEMMA ListBecomes ==
  ASSUME NEW s \in Seq(Cells), Once(s),
         head' = IF s = <<>> THEN None ELSE s[1],
         tail' = IF s = <<>> THEN None ELSE s[Len(s)],
         \A i \in 1..Len(s) : next'[s[i]] = IF i = Len(s) THEN None ELSE s[i + 1]
  PROVE  List' = s /\ IsList(List)'
  <1>1. IsList(s)'
    BY DEF IsList, Once
  <1>2. List' = s
    BY <1>1, ListWillBe
  <1> QED
    BY <1>1, <1>2 DEF IsList

LEMMA ListParts ==
  ASSUME IsList(List)
  PROVE  /\ List \in Seq(Cells) /\ Once(List) /\ Len(List) \in Nat
         /\ \A i \in 1..Len(List) : List[i] \in Cells /\ List[i] \in Of(List)
         /\ head = IF List = <<>> THEN None ELSE List[1]
         /\ tail = IF List = <<>> THEN None ELSE List[Len(List)]
         /\ \A i \in 1..Len(List) : next[List[i]] = IF i = Len(List) THEN None ELSE List[i + 1]
         /\ (List = <<>> <=> Len(List) = 0) /\ Of(List) \subseteq Cells
         /\ (head = None <=> List = <<>>)
  <1> DEFINE s == List
  <1>1. s \in Seq(Cells) /\ Once(s) /\ Len(s) \in Nat
    BY LenProperties DEF IsList, Once
  <1>2. s = <<>> <=> Len(s) = 0
    BY <1>1, EmptySeq
  <1>3. \A i \in 1..Len(s) : s[i] \in Cells /\ s[i] \in Of(s)
    BY <1>1, ElementOfSeq DEF Of
  <1>4. Of(s) \subseteq Cells
    BY <1>3 DEF Of
  <1>5. /\ head = IF s = <<>> THEN None ELSE s[1]
        /\ tail = IF s = <<>> THEN None ELSE s[Len(s)]
        /\ \A i \in 1..Len(s) : next[s[i]] = IF i = Len(s) THEN None ELSE s[i + 1]
    BY DEF IsList
  <1>6. head = None <=> s = <<>>
    BY <1>1, <1>2, <1>3, <1>5, SeqFifoAssumption
  <1> QED
    BY <1>1, <1>2, <1>3, <1>4, <1>5, <1>6

LEMMA HeadIsCell ==
  ASSUME IsList(List), head # None
  PROVE  head \in Cells /\ head \in Of(List)
  <1>1. PICK s : s = List
    OBVIOUS
  <1>2. /\ Len(s) \in Nat /\ \A i \in 1..Len(s) : s[i] \in Cells /\ s[i] \in Of(s)
        /\ Len(s) # 0 /\ head = s[1]
    BY <1>1, ListParts
  <1> QED
    BY <1>1, <1>2

\* The list stays what it is when its ends and the pointers of its cells do.
LEMMA ListStays ==
  ASSUME IsList(List), head' = head, tail' = tail, \A c \in Of(List) : next'[c] = next[c]
  PROVE  List' = List /\ IsList(List)'
  <1>1. PICK s : s = List
    OBVIOUS
  <1>2. /\ s \in Seq(Cells) /\ Once(s)
        /\ head' = IF s = <<>> THEN None ELSE s[1]
        /\ tail' = IF s = <<>> THEN None ELSE s[Len(s)]
        /\ \A i \in 1..Len(s) : next'[s[i]] = IF i = Len(s) THEN None ELSE s[i + 1]
    BY <1>1, ListParts
  <1>3. List' = s /\ IsList(List)'
    BY <1>2, ListBecomes
  <1> QED
    BY <1>1, <1>3

LEMMA ListEmptied ==
  ASSUME head' = None, tail' = None
  PROVE  List' = <<>> /\ IsList(List)'
  <1>1. <<>> \in Seq(Cells) /\ Len(<<>>) = 0
    BY EmptySeq
  <1>2. Once(<<>>)
    BY <1>1 DEF Once
  <1>3. PICK s : s = <<>>
    OBVIOUS
  <1>4. /\ s \in Seq(Cells) /\ Once(s) /\ head' = None /\ tail' = None /\ s = <<>>
        /\ \A i \in 1..Len(s) : next'[s[i]] = IF i = Len(s) THEN None ELSE s[i + 1]
    BY <1>1, <1>2, <1>3
  <1>5. List' = s /\ IsList(List)'
    BY <1>4, ListBecomes
  <1> QED
    BY <1>3, <1>5

LEMMA ListAppended ==
  ASSUME Types, IsList(List), NEW c \in Cells \ Of(List), next[c] = None,
         next' = IF tail # None THEN [next EXCEPT ![tail] = c] ELSE next,
         tail' = c, head' = IF head = None THEN c ELSE head
  PROVE  List' = Append(List, c) /\ IsList(List)'
  <1>1. PICK s : s = List
    OBVIOUS
  <1>2. /\ s \in Seq(Cells) /\ Once(s) /\ Len(s) \in Nat
        /\ \A i \in 1..Len(s) : s[i] \in Cells /\ s[i] # c
        /\ head = IF s = <<>> THEN None ELSE s[1]
        /\ tail = IF s = <<>> THEN None ELSE s[Len(s)]
        /\ \A i \in 1..Len(s) : next[s[i]] = IF i = Len(s) THEN None ELSE s[i + 1]
        /\ (s = <<>> <=> Len(s) = 0)
        /\ (head = None <=> s = <<>>)
    BY <1>1, ListParts DEF Of
  <1> DEFINE q == Append(s, c)
  <1>3. /\ q \in Seq(Cells) /\ Len(q) = Len(s) + 1 /\ q[Len(s) + 1] = c
        /\ \A i \in 1..Len(s) : q[i] = s[i]
    BY <1>2
  <1> HIDE DEF q
  <1>4. Once(q)
    BY <1>2, <1>3 DEF Once
  <1>5. q # <<>>
    BY <1>2, <1>3, EmptySeq
  <1>6. tail' = q[Len(q)]
    BY <1>3
  <1>7. head' = q[1]
    <2>1. CASE s = <<>>
      BY <1>2, <1>3, <2>1
    <2>2. CASE s # <<>>
      <3>1. 1 \in 1..Len(s)
        BY <1>2, <2>2
      <3> QED
        BY <1>2, <1>3, <2>2, <3>1
    <2> QED
      BY <2>1, <2>2
  <1>8. ASSUME NEW i \in 1..Len(q)
        PROVE  next'[q[i]] = IF i = Len(q) THEN None ELSE q[i + 1]
    <2>1. CASE s = <<>>
      <3>1. i = Len(q) /\ q[i] = c /\ tail = None
        BY <1>2, <1>3, <2>1
      <3> QED
        BY <3>1
    <2>2. CASE s # <<>>
      <3>1. Len(s) \in 1..Len(s) /\ tail = s[Len(s)] /\ tail \in Cells /\ tail # c
        BY <1>2, <2>2
      <3>2. next' = [next EXCEPT ![tail] = c] /\ next \in [Cells -> Cells \cup {None}]
        BY <3>1, SeqFifoAssumption DEF Types
      <3>3. CASE i = Len(q)
        BY <1>3, <3>1, <3>2, <3>3
      <3>4. CASE i = Len(s)
        <4>1. q[i] = tail /\ q[i + 1] = c /\ i # Len(q)
          BY <1>2, <1>3, <3>1, <3>4
        <4> QED
          BY <3>1, <3>2, <4>1
      <3>5. CASE i < Len(s)
        <4>1. i \in 1..Len(s) /\ i + 1 \in 1..Len(s) /\ i # Len(s) /\ i # Len(q)
          BY <1>2, <1>3, <3>5
        <4>2. q[i] = s[i] /\ q[i + 1] = s[i + 1] /\ next[s[i]] = s[i + 1]
          BY <1>2, <1>3, <4>1
        <4>3. s[i] # tail /\ s[i] \in Cells
          BY <1>2, <3>1, <4>1 DEF Once
        <4> QED
          BY <3>2, <4>1, <4>2, <4>3
      <3> QED
        BY <1>2, <1>3, <3>3, <3>4, <3>5
    <2> QED
      BY <2>1, <2>2
  <1>9. List' = q /\ IsList(List)'
    BY <1>3, <1>4, <1>5, <1>6, <1>7, <1>8, ListBecomes, SMTT(30)
  <1> QED
    BY <1>1, <1>9 DEF q

LEMMA ListTaken ==
  ASSUME Types, IsList(List), head # None,
         head' = next[head], tail' = IF tail = head THEN None ELSE tail,
         next' = [next EXCEPT ![head] = None]
  PROVE  /\ List # <<>> /\ List' = Tail(List) /\ IsList(List)'
         /\ head = Head(List) /\ head \in Cells /\ head \in Of(List)
         /\ Of(List)' = Of(List) \ {head} /\ Len(List') = Len(List) - 1
  <1>1. PICK s : s = List
    OBVIOUS
  <1>2. /\ s \in Seq(Cells) /\ Once(s) /\ Len(s) \in Nat
        /\ \A i \in 1..Len(s) : s[i] \in Cells /\ s[i] \in Of(s)
        /\ head = IF s = <<>> THEN None ELSE s[1]
        /\ tail = IF s = <<>> THEN None ELSE s[Len(s)]
        /\ \A i \in 1..Len(s) : next[s[i]] = IF i = Len(s) THEN None ELSE s[i + 1]
        /\ (s = <<>> <=> Len(s) = 0)
        /\ (head = None <=> s = <<>>)
    BY <1>1, ListParts
  <1>3. s # <<>> /\ head = s[1] /\ tail = s[Len(s)] /\ 1 \in 1..Len(s) /\ Len(s) \in 1..Len(s)
    BY <1>2
  <1> DEFINE q == Tail(s)
  <1>4. q \in Seq(Cells) /\ Len(q) = Len(s) - 1 /\ \A i \in 1..Len(q) : q[i] = s[i + 1]
    BY <1>2, <1>3
  <1> HIDE DEF q
  <1>5. Once(q)
    <2> SUFFICES ASSUME NEW i \in 1..Len(q), NEW j \in 1..Len(q), q[i] = q[j]
                 PROVE  i = j
      BY DEF Once
    <2>1. i + 1 \in 1..Len(s) /\ j + 1 \in 1..Len(s) /\ s[i + 1] = s[j + 1]
      BY <1>2, <1>4
    <2>2. i + 1 = j + 1
      BY <1>2, <2>1 DEF Once
    <2> QED
      BY <1>2, <1>4, <2>2
  <1>6. q = <<>> <=> Len(s) = 1
    BY <1>2, <1>3, <1>4, EmptySeq
  <1>7. head' = IF q = <<>> THEN None ELSE q[1]
    <2>1. CASE q = <<>>
      BY <1>2, <1>3, <1>6, <2>1
    <2>2. CASE q # <<>>
      <3>1. Len(s) # 1 /\ 1 \in 1..Len(q)
        BY <1>2, <1>3, <1>4, <1>6, <2>2
      <3> QED
        BY <1>2, <1>3, <1>4, <2>2, <3>1
    <2> QED
      BY <2>1, <2>2
  <1>8. tail' = IF q = <<>> THEN None ELSE q[Len(q)]
    <2>1. CASE q = <<>>
      BY <1>3, <1>6, <2>1
    <2>2. CASE q # <<>>
      <3>1. Len(s) # 1 /\ Len(q) \in 1..Len(q) /\ Len(q) + 1 = Len(s)
        BY <1>2, <1>3, <1>4, <1>6, <2>2
      <3>2. tail # head
        BY <1>2, <1>3, <3>1 DEF Once
      <3>3. q[Len(q)] = s[Len(q) + 1]
        BY <1>4, <3>1
      <3> QED
        BY <1>3, <2>2, <3>1, <3>2, <3>3
    <2> QED
      BY <2>1, <2>2
  <1>9. ASSUME NEW i \in 1..Len(q)
        PROVE  next'[q[i]] = IF i = Len(q) THEN None ELSE q[i + 1]
    <2>1. i + 1 \in 1..Len(s) /\ i + 1 # 1 /\ q[i] = s[i + 1] /\ (i = Len(q) <=> i + 1 = Len(s))
      BY <1>2, <1>4
    <2>2. s[i + 1] # head /\ s[i + 1] \in Cells
      BY <1>2, <1>3, <2>1 DEF Once
    <2>3. next'[q[i]] = next[s[i + 1]]
      BY <2>1, <2>2 DEF Types
    <2>4. i # Len(q) => q[i + 1] = s[(i + 1) + 1]
      BY <1>2, <1>4
    <2> QED
      BY <1>2, <2>1, <2>3, <2>4
  <1>10. List' = q /\ IsList(List)'
    BY <1>4, <1>5, <1>7, <1>8, <1>9, ListBecomes
  <1>11. Of(q) = Of(s) \ {head}
    <2>1. ASSUME NEW i \in 1..Len(q)
          PROVE  q[i] \in Of(s) \ {head}
      <3>1. i + 1 \in 1..Len(s) /\ i + 1 # 1 /\ q[i] = s[i + 1]
        BY <1>2, <1>4
      <3> QED
        BY <1>2, <1>3, <3>1 DEF Once
    <2>2. ASSUME NEW c \in Of(s) \ {head}
          PROVE  c \in Of(q)
      <3>1. PICK i \in 1..Len(s) : c = s[i]
        BY <2>2 DEF Of
      <3>2. i # 1
        BY <1>3, <2>2, <3>1
      <3>3. i - 1 \in 1..Len(q) /\ q[i - 1] = s[i]
        <4>1. i - 1 \in 1..Len(q) /\ (i - 1) + 1 = i
          BY <1>2, <1>4, <3>2
        <4> QED
          BY <1>4, <4>1
      <3> QED
        BY <3>1, <3>3 DEF Of
    <2> QED
      BY <2>1, <2>2 DEF Of
  <1>12. head = Head(s)
    BY <1>2, <1>3
  <1>13. Of(List)' = Of(q)
    BY <1>10 DEF Of
  <1> QED
    BY <1>1, <1>2, <1>3, <1>4, <1>10, <1>11, <1>12, <1>13 DEF q

LEMMA ListPutBack ==
  ASSUME Types, IsList(List), NEW c \in Cells \ Of(List), head # None,
         next' = [next EXCEPT ![c] = head], head' = c, tail' = tail
  PROVE  /\ List' = <<c>> \o List /\ IsList(List)'
         /\ Of(List)' = Of(List) \cup {c} /\ Len(List') = Len(List) + 1
  <1>1. PICK s : s = List
    OBVIOUS
  <1>2. /\ s \in Seq(Cells) /\ Once(s) /\ Len(s) \in Nat
        /\ \A i \in 1..Len(s) : s[i] \in Cells /\ s[i] \in Of(s) /\ s[i] # c
        /\ head = IF s = <<>> THEN None ELSE s[1]
        /\ tail = IF s = <<>> THEN None ELSE s[Len(s)]
        /\ \A i \in 1..Len(s) : next[s[i]] = IF i = Len(s) THEN None ELSE s[i + 1]
        /\ (s = <<>> <=> Len(s) = 0)
        /\ (head = None <=> s = <<>>)
    BY <1>1, ListParts DEF Of
  <1>3. s # <<>> /\ head = s[1] /\ tail = s[Len(s)] /\ 1 \in 1..Len(s) /\ Len(s) \in 1..Len(s)
    BY <1>2
  <1> DEFINE q == <<c>> \o s
  <1>4. /\ q \in Seq(Cells) /\ Len(q) = Len(s) + 1 /\ q[1] = c
        /\ \A i \in 2..Len(q) : q[i] = s[i - 1]
    <2>1. <<c>> \in Seq(Cells) /\ Len(<<c>>) = 1 /\ <<c>>[1] = c
      OBVIOUS
    <2>2. /\ q \in Seq(Cells) /\ Len(q) = Len(<<c>>) + Len(s)
          /\ \A i \in 1..Len(<<c>>) + Len(s) :
                q[i] = IF i <= Len(<<c>>) THEN <<c>>[i] ELSE s[i - Len(<<c>>)]
      BY <1>2, <2>1, ConcatProperties
    <2>3. Len(q) = Len(s) + 1 /\ 1 \in 1..Len(<<c>>) + Len(s) /\ (1 <= Len(<<c>>))
      BY <1>2, <2>1, <2>2
    <2>4. q[1] = c
      BY <2>1, <2>2, <2>3
    <2>5. ASSUME NEW i \in 2..Len(q)
          PROVE  q[i] = s[i - 1]
      <3>1. i \in 1..Len(<<c>>) + Len(s) /\ ~(i <= Len(<<c>>)) /\ i - Len(<<c>>) = i - 1
        BY <1>2, <2>1, <2>3
      <3> QED
        BY <2>2, <3>1
    <2> HIDE DEF q
    <2> QED
      BY <2>2, <2>3, <2>4, <2>5
  <1> HIDE DEF q
  <1>5. Once(q)
    <2>1. ASSUME NEW i \in 2..Len(q)
          PROVE  q[i] # c /\ i - 1 \in 1..Len(s)
      <3>1. i - 1 \in 1..Len(s)
        BY <1>2, <1>4
      <3>2. q[i] = s[i - 1]
        BY <1>4
      <3> QED
        BY <1>2, <3>1, <3>2
    <2>2. ASSUME NEW i \in 2..Len(q), NEW j \in 2..Len(q), q[i] = q[j]
          PROVE  i = j
      <3>1. s[i - 1] = s[j - 1]
        BY <1>4, <2>2
      <3>2. i - 1 = j - 1
        BY <1>2, <2>1, <3>1 DEF Once
      <3> QED
        BY <3>2
    <2>3. \A i \in 1..Len(q) : i = 1 \/ i \in 2..Len(q)
      BY <1>2, <1>4
    <2> QED
      BY <1>4, <2>1, <2>2, <2>3 DEF Once
  <1>6. q # <<>>
    BY <1>2, <1>4, EmptySeq
  <1>7. tail' = q[Len(q)]
    <2>1. Len(q) \in 2..Len(q) /\ Len(q) - 1 = Len(s)
      BY <1>2, <1>3, <1>4
    <2> QED
      BY <1>3, <1>4, <2>1
  <1>8. ASSUME NEW i \in 1..Len(q)
        PROVE  next'[q[i]] = IF i = Len(q) THEN None ELSE q[i + 1]
    <2>1. CASE i = 1
      <3>1. 2 \in 2..Len(q) /\ 2 - 1 = 1 /\ i # Len(q)
        BY <1>2, <1>3, <1>4, <2>1
      <3>2. q[2] = s[1]
        BY <1>4, <3>1
      <3>3. next'[c] = head
        BY DEF Types
      <3> QED
        BY <1>3, <1>4, <2>1, <3>1, <3>2, <3>3
    <2>2. CASE i # 1
      <3>1. i - 1 \in 1..Len(s) /\ i \in 2..Len(q) /\ (i = Len(q) <=> i - 1 = Len(s))
            /\ (i - 1) + 1 = i
        BY <1>2, <1>4, <2>2
      <3>2. q[i] = s[i - 1] /\ s[i - 1] \in Cells /\ s[i - 1] # c
        BY <1>2, <1>4, <3>1
      <3>3. next'[q[i]] = next[s[i - 1]]
        BY <3>2 DEF Types
      <3>4. i # Len(q) => i + 1 \in 2..Len(q) /\ (i + 1) - 1 = i
        BY <1>2, <1>4, <3>1
      <3>5. i # Len(q) => q[i + 1] = s[i]
        BY <1>4, <3>4
      <3> QED
        BY <1>2, <3>1, <3>3, <3>5
    <2> QED
      BY <2>1, <2>2
  <1>9. List' = q /\ IsList(List)'
    BY <1>4, <1>5, <1>6, <1>7, <1>8, ListBecomes
  <1>10. Of(q) = Of(s) \cup {c}
    <2>1. ASSUME NEW i \in 1..Len(q)
          PROVE  q[i] \in Of(s) \cup {c}
      <3>1. CASE i # 1
        <4>1. i \in 2..Len(q) /\ i - 1 \in 1..Len(s)
          BY <1>2, <1>4, <3>1
        <4> QED
          BY <1>2, <1>4, <4>1
      <3> QED
        BY <1>4, <3>1
    <2>2. ASSUME NEW i \in 1..Len(s)
          PROVE  s[i] \in Of(q)
      <3>1. i + 1 \in 2..Len(q) /\ i + 1 \in 1..Len(q) /\ (i + 1) - 1 = i
        BY <1>2, <1>4
      <3>2. q[i + 1] = s[i]
        BY <1>4, <3>1
      <3> QED
        BY <3>1, <3>2 DEF Of
    <2>3. c \in Of(q)
      <3>1. 1 \in 1..Len(q)
        BY <1>2, <1>4
      <3> QED
        BY <1>4, <3>1 DEF Of
    <2> QED
      BY <2>1, <2>2, <2>3 DEF Of
  <1>11. Of(List)' = Of(q)
    BY <1>9 DEF Of
  <1> QED
    BY <1>1, <1>4, <1>9, <1>10, <1>11 DEF q

(***************************************************************************)
(* What becomes of the account when cells are freed and allocated.         *)
(***************************************************************************)
UsedAsBefore == \A p \in Pools : life'[p] # "unused" <=> life[p] # "unused"

\* Events of the list or of a hand are freed with the cells chained to them.
LEMMA CellsFreed ==
  ASSUME Types, NEW R \in SUBSET Cells, Accounted(R, holds, free, life),
         NEW cs \in SUBSET R, Frees(cs), UsedAsBefore
  PROVE  Accounted(R \ cs, holds', free', life')
  <1> DEFINE W == WithMore(cs)
  <1>1. /\ \A c \in Cells : holds[c].more # {} => c \in R
        /\ \A c \in Cells : holds[c].more \cap R = {}
        /\ \A c, d \in Cells : c # d => holds[c].more \cap holds[d].more = {}
        /\ \A p \in Pools : free[p] \cap (R \cup ChainedIn(holds)) = {}
        /\ \A c \in Cells : c \in R \cup ChainedIn(holds) \cup free[c[1]] <=> life[c[1]] # "unused"
        /\ \A c \in R : holds[c].event \in Events
    BY DEF Accounted
  <1>2. \A c : c \in W <=> c \in cs \/ \E d \in cs : c \in holds[d].more
    BY DEF WithMore
  <1>3. \A c : c \in ChainedIn(holds) <=> \E d \in Cells : c \in holds[d].more
    BY DEF ChainedIn
  <1>4. \A c : c \in ChainedIn(holds') <=> \E d \in Cells : c \in holds'[d].more
    BY DEF ChainedIn
  <1>5. \A c \in Cells : holds'[c] = IF c \in W THEN Blank ELSE holds[c]
    BY DEF Frees
  <1>6. \A p \in Pools : free'[p] = free[p] \cup {c \in W : c[1] = p}
    BY DEF Frees
  <1> HIDE DEF W
  <1>7. \A c \in W : c \in cs \/ (c \notin R /\ c \in ChainedIn(holds))
    BY <1>1, <1>2, <1>3
  <1>8. \A d \in Cells : d \in W /\ d \notin cs => holds[d].more = {}
    BY <1>1, <1>7
  <1>9. \A c : c \in ChainedIn(holds') <=> c \in ChainedIn(holds) /\ c \notin W
    <2>1. ASSUME NEW c, c \in ChainedIn(holds')
          PROVE  c \in ChainedIn(holds) /\ c \notin W
      <3>1. PICK d \in Cells : c \in holds'[d].more
        BY <1>4, <2>1
      <3>2. d \notin W /\ c \in holds[d].more
        BY <1>5, <3>1 DEF Blank
      <3>3. c \notin cs
        BY <1>1, <3>2
      <3>4. \A e \in cs : c \notin holds[e].more
        BY <1>1, <1>2, <3>2
      <3> QED
        BY <1>2, <1>3, <3>2, <3>3, <3>4
    <2>2. ASSUME NEW c, c \in ChainedIn(holds), c \notin W
          PROVE  c \in ChainedIn(holds')
      <3>1. PICK d \in Cells : c \in holds[d].more
        BY <1>3, <2>2
      <3>2. d \notin W
        BY <1>2, <1>8, <2>2, <3>1
      <3> QED
        BY <1>4, <1>5, <3>1, <3>2
    <2> QED
      BY <2>1, <2>2
  <1>10. \A c \in Cells : holds'[c].more # {} => holds'[c] = holds[c] /\ c \notin W
    BY <1>5 DEF Blank
  <1>11. \A c \in R \ cs : c \notin W
    BY <1>7
  <1>12. \A c \in Cells : holds'[c].more # {} => c \in R \ cs
    BY <1>1, <1>2, <1>10
  <1>13. \A c \in Cells : holds'[c].more \subseteq holds[c].more
    BY <1>5, <1>10
  <1>14. /\ \A c \in Cells : holds'[c].more \cap (R \ cs) = {}
         /\ \A c, d \in Cells : c # d => holds'[c].more \cap holds'[d].more = {}
    BY <1>1, <1>13
  <1>15. \A p \in Pools : free'[p] \cap ((R \ cs) \cup ChainedIn(holds')) = {}
    BY <1>1, <1>6, <1>9, <1>11
  <1>16. ASSUME NEW c \in Cells
         PROVE  c \in (R \ cs) \cup ChainedIn(holds') \cup free'[c[1]] <=> life'[c[1]] # "unused"
    <2>1. c[1] \in Pools
      BY PoolOfCell
    <2>2. c \in free'[c[1]] <=> c \in free[c[1]] \/ c \in W
      BY <1>6, <2>1
    <2>3. c \in (R \ cs) \cup ChainedIn(holds') \cup free'[c[1]]
            <=> c \in R \cup ChainedIn(holds) \cup free[c[1]]
      BY <1>2, <1>7, <1>9, <2>2
    <2> QED
      BY <1>1, <2>1, <2>3 DEF UsedAsBefore
  <1>17. \A c \in R \ cs : holds'[c].event \in Events
    BY <1>1, <1>5, <1>11
  <1> QED
    BY <1>12, <1>14, <1>15, <1>16, <1>17 DEF Accounted

\* The first cell of an event: it is in the hand of its sender.
LEMMA FirstAllocated ==
  ASSUME Types, NEW R \in SUBSET Cells, Accounted(R, holds, free, life),
         NEW p \in Pools, NEW c \in free[p], NEW e \in Events,
         free' = [free EXCEPT ![p] = free[p] \ {c}],
         holds' = [holds EXCEPT ![c] = [event |-> e, more |-> {}]], life' = life
  PROVE  Accounted(R \cup {c}, holds', free', life')
  <1>1. c \in Cells /\ c[1] = p /\ c \notin R /\ c \notin ChainedIn(holds)
    BY DEF Types, Accounted
  <1>2. \A d \in Cells : holds'[d].more = holds[d].more
    <2>1. holds[c].more = {}
      BY <1>1 DEF Accounted
    <2> QED
      BY <1>1, <2>1 DEF Types
  <1>3. \A d \in Cells : c \notin holds[d].more
    BY <1>1 DEF ChainedIn
  <1>4. ChainedIn(holds') = ChainedIn(holds)
    BY <1>2 DEF ChainedIn
  <1>5. \A q \in Pools : free'[q] = free[q] \ {c}
    BY <1>1 DEF Types
  <1>6. /\ \A d \in Cells : holds'[d].more # {} => d \in R \cup {c}
        /\ \A d \in Cells : holds'[d].more \cap (R \cup {c}) = {}
        /\ \A d, g \in Cells : d # g => holds'[d].more \cap holds'[g].more = {}
    BY <1>2, <1>3 DEF Accounted
  <1>7. \A q \in Pools : free'[q] \cap ((R \cup {c}) \cup ChainedIn(holds')) = {}
    BY <1>4, <1>5 DEF Accounted
  <1>8. ASSUME NEW d \in Cells
        PROVE  d \in (R \cup {c}) \cup ChainedIn(holds') \cup free'[d[1]] <=> life'[d[1]] # "unused"
    <2>1. d[1] \in Pools
      BY PoolOfCell
    <2>2. d \in free'[d[1]] <=> d \in free[d[1]] /\ d # c
      BY <1>5, <2>1
    <2>3. c \in free[c[1]]
      BY <1>1
    <2>4. d \in (R \cup {c}) \cup ChainedIn(holds') \cup free'[d[1]]
            <=> d \in R \cup ChainedIn(holds) \cup free[d[1]]
      BY <1>4, <2>2, <2>3
    <2> QED
      BY <2>4 DEF Accounted
  <1>9. \A d \in R \cup {c} : holds'[d].event \in Events
    BY <1>1 DEF Accounted, Types
  <1> QED
    BY <1>6, <1>7, <1>8, <1>9 DEF Accounted

\* Its second cell is chained to the first.
LEMMA SecondAllocated ==
  ASSUME Types, NEW R \in SUBSET Cells, Accounted(R, holds, free, life),
         NEW p \in Pools, NEW c \in free[p], NEW r \in R,
         free' = [free EXCEPT ![p] = free[p] \ {c}],
         holds' = [holds EXCEPT ![r] = [holds[r] EXCEPT !.more = holds[r].more \cup {c}]],
         life' = life
  PROVE  Accounted(R, holds', free', life')
  <1>1. c \in Cells /\ c[1] = p /\ c \notin R /\ c \notin ChainedIn(holds) /\ r \in Cells
    BY DEF Types, Accounted
  <1>2. \A d \in Cells : /\ holds'[d].more = IF d = r THEN holds[d].more \cup {c} ELSE holds[d].more
                         /\ holds'[d].event = holds[d].event
    <2> DEFINE q == [holds[r] EXCEPT !.more = holds[r].more \cup {c}]
    <2>1. q.more = holds[r].more \cup {c} /\ q.event = holds[r].event
      BY <1>1 DEF Types
    <2>2. \A d \in Cells : holds'[d] = IF d = r THEN q ELSE holds[d]
      BY <1>1 DEF Types
    <2> HIDE DEF q
    <2> QED
      BY <2>1, <2>2
  <1>3. \A d \in Cells : c \notin holds[d].more
    BY <1>1 DEF ChainedIn
  <1>4. \A d : d \in ChainedIn(holds') <=> d \in ChainedIn(holds) \/ d = c
    <2>1. \A d : d \in ChainedIn(holds) <=> \E g \in Cells : d \in holds[g].more
      BY DEF ChainedIn
    <2>2. \A d : d \in ChainedIn(holds') <=> \E g \in Cells : d \in holds'[g].more
      BY DEF ChainedIn
    <2>3. c \in holds'[r].more
      BY <1>1, <1>2
    <2>4. \A d, g : g \in Cells => (d \in holds'[g].more <=> d \in holds[g].more \/ (g = r /\ d = c))
      BY <1>2
    <2> QED
      BY <1>1, <2>1, <2>2, <2>4
  <1>5. \A q \in Pools : free'[q] = free[q] \ {c}
    BY <1>1 DEF Types
  <1>6. /\ \A d \in Cells : holds'[d].more # {} => d \in R
        /\ \A d \in Cells : holds'[d].more \cap R = {}
        /\ \A d, g \in Cells : d # g => holds'[d].more \cap holds'[g].more = {}
    BY <1>1, <1>2, <1>3 DEF Accounted
  <1>7. \A q \in Pools : free'[q] \cap (R \cup ChainedIn(holds')) = {}
    BY <1>4, <1>5 DEF Accounted
  <1>8. ASSUME NEW d \in Cells
        PROVE  d \in R \cup ChainedIn(holds') \cup free'[d[1]] <=> life'[d[1]] # "unused"
    <2>1. d[1] \in Pools
      BY PoolOfCell
    <2>2. d \in free'[d[1]] <=> d \in free[d[1]] /\ d # c
      BY <1>5, <2>1
    <2>3. c \in free[c[1]]
      BY <1>1
    <2>4. d \in R \cup ChainedIn(holds') \cup free'[d[1]]
            <=> d \in R \cup ChainedIn(holds) \cup free[d[1]]
      BY <1>4, <2>2, <2>3
    <2> QED
      BY <2>4 DEF Accounted
  <1>9. \A d \in R : holds'[d].event \in Events
    BY <1>2 DEF Accounted
  <1> QED
    BY <1>6, <1>7, <1>8, <1>9 DEF Accounted

\* A pool is freed when all its cells are.
LEMMA PoolFreed ==
  ASSUME Types, NEW R \in SUBSET Cells, Accounted(R, holds, free, life),
         NEW p \in Pools, Cardinality(free[p]) = Size[p], holds' = holds,
         free' = [free EXCEPT ![p] = {}], life' = [life EXCEPT ![p] = "unused"]
  PROVE  Accounted(R, holds', free', life')
  <1>1. free[p] \in SUBSET CellsOf(p)
    BY DEF Types, CellsOf
  <1>2. free[p] = CellsOf(p)
    <2>1. IsFiniteSet(CellsOf(p)) /\ Cardinality(CellsOf(p)) = Size[p]
      BY CellsOfPool
    <2> QED
      BY <1>1, <2>1, FS_Subset
  <1>3. /\ \A q \in Pools : free'[q] = IF q = p THEN {} ELSE free[q]
        /\ \A q \in Pools : life'[q] = IF q = p THEN "unused" ELSE life[q]
    BY DEF Types
  <1>4. \A c \in Cells : c[1] = p => c \notin R \cup ChainedIn(holds)
    BY <1>2 DEF Accounted, CellsOf
  <1>5. \A q \in Pools : free'[q] \cap (R \cup ChainedIn(holds')) = {}
    BY <1>3 DEF Accounted
  <1>6. ASSUME NEW c \in Cells
        PROVE  c \in R \cup ChainedIn(holds') \cup free'[c[1]] <=> life'[c[1]] # "unused"
    <2>1. c[1] \in Pools
      BY PoolOfCell
    <2>2. CASE c[1] = p
      BY <1>3, <1>4, <2>1, <2>2
    <2>3. CASE c[1] # p
      BY <1>3, <2>1, <2>3 DEF Accounted
    <2> QED
      BY <2>2, <2>3
  <1> QED
    BY <1>5, <1>6 DEF Accounted

\* A pool that is taken into use has all its cells free.
LEMMA PoolOpened ==
  ASSUME Types, NEW R \in SUBSET Cells, Accounted(R, holds, free, life),
         NEW p \in Pools, life[p] = "unused", holds' = holds,
         free' = [free EXCEPT ![p] = CellsOf(p)], life' = [life EXCEPT ![p] = "open"]
  PROVE  Accounted(R, holds', free', life')
  <1>1. /\ \A q \in Pools : free'[q] = IF q = p THEN CellsOf(p) ELSE free[q]
        /\ \A q \in Pools : life'[q] = IF q = p THEN "open" ELSE life[q]
    BY DEF Types
  <1>2. \A c \in Cells : c[1] = p => c \notin R \cup ChainedIn(holds)
    BY DEF Accounted
  <1>3. \A q \in Pools : free'[q] \cap (R \cup ChainedIn(holds')) = {}
    BY <1>1, <1>2 DEF Accounted, CellsOf
  <1>4. ASSUME NEW c \in Cells
        PROVE  c \in R \cup ChainedIn(holds') \cup free'[c[1]] <=> life'[c[1]] # "unused"
    <2>1. c[1] \in Pools
      BY PoolOfCell
    <2>2. CASE c[1] = p
      <3>1. c \in CellsOf(p)
        BY <2>2 DEF CellsOf
      <3>2. free'[c[1]] = CellsOf(p) /\ life'[c[1]] # "unused"
        BY <1>1, <2>2
      <3> QED
        BY <3>1, <3>2
    <2>3. CASE c[1] # p
      BY <1>1, <2>1, <2>3 DEF Accounted
    <2> QED
      BY <2>2, <2>3
  <1> QED
    BY <1>3, <1>4 DEF Accounted

LEMMA NothingChanged ==
  ASSUME NEW R, Accounted(R, holds, free, life), holds' = holds, free' = free, life' = life
  PROVE  Accounted(R, holds', free', life')
  OBVIOUS

(***************************************************************************)
(* One thread goes on.                                                     *)
(***************************************************************************)
\* Thread t is at a, with g in its hand.
MovedTo(t, a, g) ==
    /\ pc' \in [Threads -> PcRecords]
    /\ \A u \in Threads \ {t} : pc'[u] = pc[u]
    /\ pc'[t].at = a /\ pc'[t].got = g

SameEvent(t) == pc'[t].event = pc[t].event /\ pc'[t].pool = pc[t].pool

LEMMA PcFields ==
  ASSUME Types, NEW t \in Threads
  PROVE  /\ pc[t] \in PcRecords /\ pc[t].at \in Places /\ pc[t].event \in Events \cup {None}
         /\ pc[t].pool \in Pools \cup {None} /\ pc[t].got \in Seq(Cells)
  BY DEF Types, PcRecords

LEMMA PlaceChanged ==
  ASSUME Types, NEW t \in Threads, NEW a \in Places, Goes(t, a)
  PROVE  MovedTo(t, a, pc[t].got) /\ SameEvent(t)
  <1> DEFINE q == [pc[t] EXCEPT !.at = a]
  <1>1. q \in PcRecords /\ q.at = a /\ q.got = pc[t].got /\ q.event = pc[t].event
        /\ q.pool = pc[t].pool
    BY PcFields DEF PcRecords
  <1>2. pc' = [pc EXCEPT ![t] = q]
    BY DEF Goes
  <1> HIDE DEF q
  <1>3. pc' \in [Threads -> PcRecords] /\ pc'[t] = q /\ \A u \in Threads \ {t} : pc'[u] = pc[u]
    BY <1>1, <1>2 DEF Types
  <1> QED
    BY <1>1, <1>3 DEF MovedTo, SameEvent

LEMMA HandChanged ==
  ASSUME Types, NEW t \in Threads, NEW a \in Places, NEW g \in Seq(Cells),
         pc' = [pc EXCEPT ![t].at = a, ![t].got = g] \/ pc' = [pc EXCEPT ![t].got = g, ![t].at = a]
  PROVE  MovedTo(t, a, g) /\ SameEvent(t)
  <1> DEFINE q == [pc[t] EXCEPT !.at = a, !.got = g]
  <1>1. q \in PcRecords /\ q.at = a /\ q.got = g /\ q.event = pc[t].event /\ q.pool = pc[t].pool
    BY PcFields DEF PcRecords
  <1>2. pc' = [pc EXCEPT ![t] = q]
    BY PcFields, ZenonT(60) DEF Types, PcRecords
  <1> HIDE DEF q
  <1>3. pc' \in [Threads -> PcRecords] /\ pc'[t] = q /\ \A u \in Threads \ {t} : pc'[u] = pc[u]
    BY <1>1, <1>2 DEF Types
  <1> QED
    BY <1>1, <1>3 DEF MovedTo, SameEvent

LEMMA RecordChanged ==
  ASSUME Types, NEW t \in Threads, NEW q \in PcRecords, pc' = [pc EXCEPT ![t] = q]
  PROVE  MovedTo(t, q.at, q.got) /\ pc'[t] = q
  BY DEF MovedTo, Types

LEMMA IdleRecord == Idle \in PcRecords /\ Idle.at = "idle" /\ Idle.got = <<>>
  BY EmptySeq DEF Idle, PcRecords, Places

LEMMA BecameIdle ==
  ASSUME Types, NEW t \in Threads, pc' = [pc EXCEPT ![t] = Idle]
  PROVE  MovedTo(t, "idle", <<>>)
  <1>1. MovedTo(t, Idle.at, Idle.got)
    BY IdleRecord, RecordChanged
  <1> QED
    BY <1>1, IdleRecord

LEMMA OfEmpty == Of(<<>>) = {}
  BY EmptySeq DEF Of

LEMMA OneIsSome == \A s \in Seq(Cells) : Len(s) = 1 => s # <<>>
  BY EmptySeq

LEMMA OneCell == \A c \in Cells : <<c>> \in Seq(Cells) /\ Len(<<c>>) = 1 /\ Of(<<c>>) = {c}
  <1> SUFFICES ASSUME NEW c \in Cells
               PROVE  <<c>> \in Seq(Cells) /\ Len(<<c>>) = 1 /\ Of(<<c>>) = {c}
    OBVIOUS
  <1>1. <<c>> \in Seq(Cells) /\ Len(<<c>>) = 1 /\ <<c>>[1] = c
    OBVIOUS
  <1> QED
    BY <1>1 DEF Of

\* The cells of t and of the list become others, of which only fresh are new.
LEMMA RootsMoved ==
  ASSUME Types, IsList(List), Apart, NEW t \in Threads, NEW a, NEW g, MovedTo(t, a, g),
         NEW L, List' = L, NEW fresh \in SUBSET Cells, fresh \cap Roots = {},
         Of(g) \cap Of(L) = {}, Of(g) \cup Of(L) \subseteq Hand(t) \cup Of(List) \cup fresh,
         fresh \subseteq Of(g) \cup Of(L)
  PROVE  /\ Apart'
         /\ Roots' = (Roots \ ((Hand(t) \cup Of(List)) \ (Of(g) \cup Of(L)))) \cup fresh
         /\ Roots \subseteq Cells
  <1> DEFINE H(u) == Of(pc'[u].got)
  <1>1. H(t) = Of(g) /\ \A u \in Threads \ {t} : H(u) = Hand(u)
    BY DEF MovedTo, Hand
  <1>2. Of(List)' = Of(L)
    BY DEF Of
  <1>3. Hands' = UNION {H(u) : u \in Threads}
    BY DEF Hands, Hand, Of
  <1>4. \A u \in Threads : Hand(u) \subseteq Roots /\ Hand(u) \cap Of(List) = {}
    BY DEF Roots, Hands, Apart
  <1>5. \A u, v \in Threads : u # v => Hand(u) \cap Hand(v) = {}
    BY DEF Apart
  <1>6. Apart'
    <2>1. \A u \in Threads : H(u) \cap Of(L) = {}
      BY <1>1, <1>4, <1>5
    <2>2. \A u, v \in Threads : u # v => H(u) \cap H(v) = {}
      BY <1>1, <1>4, <1>5
    <2>3. \A u \in Threads : Hand(u)' = H(u)
      BY DEF Hand, Of
    <2> HIDE DEF H
    <2> QED
      BY <1>2, <2>1, <2>2, <2>3 DEF Apart
  <1> HIDE DEF H
  <1>7. \A c : c \in Roots <=> c \in Of(List) \/ \E u \in Threads : c \in Hand(u)
    BY DEF Roots, Hands
  <1>8. \A c : c \in Roots' <=> c \in Of(L) \/ \E u \in Threads : c \in H(u)
    BY <1>2, <1>3 DEF Roots
  <1>9. ASSUME NEW c
        PROVE  c \in Roots' <=>
                 c \in (Roots \ ((Hand(t) \cup Of(List)) \ (Of(g) \cup Of(L)))) \cup fresh
    <2>1. c \in Roots' <=> c \in Of(L) \cup Of(g) \/ \E u \in Threads \ {t} : c \in Hand(u)
      BY <1>1, <1>8
    <2>2. c \in Roots <=> c \in Of(List) \cup Hand(t) \/ \E u \in Threads \ {t} : c \in Hand(u)
      BY <1>7
    <2>3. \A u \in Threads \ {t} : c \in Hand(u) => c \notin Of(List) \cup Hand(t)
      BY <1>4, <1>5
    <2> QED
      BY <2>1, <2>2, <2>3
  <1>10. Roots \subseteq Cells
    <2>1. Of(List) \subseteq Cells
      BY ListParts
    <2>2. ASSUME NEW u \in Threads
          PROVE  Hand(u) \subseteq Cells
      <3>1. pc[u].got \in Seq(Cells)
        BY PcFields
      <3> QED
        BY <3>1, ElementOfSeq DEF Hand, Of
    <2> QED
      BY <1>7, <2>1, <2>2
  <1> QED
    BY <1>6, <1>9, <1>10

\* What holds of the places of the others still does.
LEMMA PlacesMoved ==
  ASSUME Types, IsList(List), Apart, PlacesHold, NewIsLast,
         NEW t \in Threads, NEW a, NEW g, MovedTo(t, a, g),
         PcHolds(pc'[t]), NEW fresh, fresh \cap Roots = {},
         \A c \in Cells : c \notin Hand(t) \cup Of(List) \cup fresh => next'[c] = next[c],
         a \in {"dup", "append"} => \A c \in Of(g) : next'[c] = None
  PROVE  PlacesHold' /\ NewIsLast'
  <1>1. pc'[t].at = a /\ pc'[t].got = g /\ \A u \in Threads \ {t} : pc'[u] = pc[u]
    BY DEF MovedTo
  <1>2. PlacesHold'
    <2>1. \A u \in Threads : PcHolds(pc'[u])
      BY <1>1 DEF PlacesHold
    <2> QED
      BY <2>1 DEF PlacesHold, PcHolds
  <1>3. ASSUME NEW u \in Threads, pc'[u].at \in {"dup", "append"}, NEW c \in Of(pc'[u].got)
        PROVE  next'[c] = None
    <2>1. CASE u = t
      BY <1>1, <1>3, <2>1
    <2>2. CASE u # t
      <3>1. c \in Hand(u) /\ pc[u].at \in {"dup", "append"}
        BY <1>1, <1>3, <2>2 DEF Hand
      <3>2. c \in Roots /\ c \notin Hand(t) \cup Of(List)
        BY <2>2, <3>1 DEF Apart, Roots, Hands
      <3>3. pc[u].got \in Seq(Cells)
        BY PcFields
      <3>4. c \in Cells
        BY <3>1, <3>3, ElementOfSeq DEF Hand, Of
      <3>5. next[c] = None
        BY <3>1 DEF NewIsLast
      <3> QED
        BY <3>2, <3>4, <3>5
    <2> QED
      BY <2>1, <2>2
  <1>4. NewIsLast'
    BY <1>3 DEF NewIsLast, Hand, Of
  <1> QED
    BY <1>2, <1>4

\* The pools are not touched by one who does not resize.
LEMMA PoolsStay ==
  ASSUME PoolsHold, NEW t \in Threads, NEW a, NEW g, MovedTo(t, a, g),
         a \notin {"release", "done"}, pool' = pool, life' = life
  PROVE  PoolsHold' /\ UsedAsBefore
  <1>1. pc'[t].at = a /\ \A u \in Threads \ {t} : pc'[u] = pc[u]
    BY DEF MovedTo
  <1>2. \A u \in Threads : Resizing(u)' => u # t /\ pc'[u] = pc[u] /\ Resizing(u)
    BY <1>1 DEF Resizing
  <1>3. \A u \in Threads : pc'[u].at \in {"release", "done"} => Resizing(u)'
    BY DEF Resizing
  <1> QED
    BY <1>2, <1>3 DEF PoolsHold, UsedAsBefore

(***************************************************************************)
(* The steps.                                                              *)
(***************************************************************************)
\* A step that leaves the list and all cells where they are.
LEMMA QuietStep ==
  ASSUME Inv, NEW t \in Threads, NEW a, MovedTo(t, a, pc[t].got), PcHolds(pc'[t]),
         a \notin {"release", "done"}, a \in {"dup", "append"} => pc[t].got = <<>>,
         overflow' \in BOOLEAN, use' \subseteq Threads, UNCHANGED <<list, pools>>
  PROVE  Inv'
  <1> DEFINE g == pc[t].got
  <1>1. /\ Types /\ IsList(List) /\ Apart /\ Accounted(Roots, holds, free, life) /\ PlacesHold
        /\ NewIsLast /\ PoolsHold /\ Counted
    BY DEF Inv
  <1>2. /\ pool' = pool /\ head' = head /\ tail' = tail /\ cells' = cells /\ next' = next
        /\ holds' = holds /\ free' = free /\ life' = life
    BY DEF list, pools
  <1>3. List' = List /\ IsList(List)'
    BY <1>1, <1>2, ListStays
  <1>4. PICK L : L = List
    OBVIOUS
  <1>5. g = pc[t].got /\ Of(g) = Hand(t) /\ Hand(t) \cap Of(List) = {}
    BY <1>1 DEF Hand, Apart
  <1> HIDE DEF g
  <1>6. Apart' /\ Roots' = (Roots \ ((Hand(t) \cup Of(List)) \ (Of(g) \cup Of(L)))) \cup {}
        /\ Roots \subseteq Cells
    <2>1. /\ MovedTo(t, a, g) /\ List' = L /\ Of(g) \cap Of(L) = {} /\ {} \cap Roots = {}
          /\ Of(g) \cup Of(L) \subseteq Hand(t) \cup Of(List) \cup {}
      BY <1>3, <1>4, <1>5
    <2> QED
      BY <1>1, <2>1, RootsMoved, ZenonT(60)
  <1>7. Roots' = Roots
    BY <1>4, <1>5, <1>6
  <1>8. Accounted(Roots, holds, free, life)'
    <2>1. Accounted(Roots', holds', free', life')
      BY <1>1, <1>2, <1>7
    <2> QED
      BY <2>1 DEF Accounted, ChainedIn
  <1>9. PlacesHold' /\ NewIsLast'
    <2>1. a \in {"dup", "append"} => \A c \in Of(g) : next'[c] = None
      BY <1>5, OfEmpty
    <2>2. MovedTo(t, a, g) /\ {} \cap Roots = {}
      BY <1>5
    <2>3. \A c \in Cells : c \notin Hand(t) \cup Of(List) \cup {} => next'[c] = next[c]
      BY <1>2
    <2> QED
      BY <1>1, <2>1, <2>2, <2>3, PlacesMoved
  <1>10. PoolsHold'
    BY <1>1, <1>2, PoolsStay
  <1>11. Types'
    BY <1>1, <1>2 DEF Types, MovedTo
  <1>12. Counted'
    BY <1>1, <1>2, <1>3 DEF Counted
  <1> QED
    BY <1>3, <1>6, <1>8, <1>9, <1>10, <1>11, <1>12 DEF Inv

LEMMA PlaceOf ==
  ASSUME Inv, NEW t \in Threads
  PROVE  Types /\ PcHolds(pc[t]) /\ Hand(t) \subseteq Roots /\ pc[t].got \in Seq(Cells)
  <1>1. Types /\ PcHolds(pc[t])
    BY DEF Inv, PlacesHold
  <1> QED
    BY <1>1, PcFields DEF Roots, Hands

LEMMA SendStep ==
  ASSUME Inv, NEW s \in Senders, NEW e \in Events, Send(s, e)
  PROVE  Inv'
  <1>1. s \in Threads
    BY DEF Threads
  <1>2. Types /\ PcHolds(pc[s]) /\ pool \in Pools /\ use \subseteq Threads /\ overflow \in BOOLEAN
    BY <1>1, PlaceOf DEF Types
  <1>3. pc[s].got = <<>>
    BY <1>2 DEF Send, PcHolds
  <1>4. PICK a \in {"refused", "dup"} : a = IF More(e) >= Size[pool] THEN "refused" ELSE "dup"
    OBVIOUS
  <1> DEFINE q == [at |-> a, event |-> e, pool |-> pool, got |-> <<>>]
  <1>5. q \in PcRecords /\ q.at = a /\ q.got = <<>> /\ q.event = e /\ q.pool = pool
    BY <1>2, <1>4, EmptySeq DEF PcRecords, Places
  <1>6. pc' = [pc EXCEPT ![s] = q]
    BY <1>4 DEF Send
  <1> HIDE DEF q
  <1>7. MovedTo(s, a, pc[s].got) /\ pc'[s] = q
    BY <1>1, <1>2, <1>3, <1>5, <1>6, RecordChanged
  <1>8. PcHolds(pc'[s])
    BY <1>2, <1>4, <1>5, <1>7, EmptySeq DEF PcHolds
  <1>9. a \notin {"release", "done"} /\ overflow' \in BOOLEAN /\ use' \subseteq Threads
        /\ UNCHANGED <<list, pools>>
    BY <1>1, <1>2, <1>4 DEF Send
  <1> QED
    BY <1>1, <1>3, <1>7, <1>8, <1>9, QuietStep

LEMMA AllocFailsStep ==
  ASSUME Inv, NEW s \in Senders, AllocFails(s)
  PROVE  Inv'
  <1>1. s \in Threads
    BY DEF Threads
  <1>2. Types /\ PcHolds(pc[s]) /\ use \subseteq Threads /\ overflow \in BOOLEAN
    BY <1>1, PlaceOf DEF Types
  <1>3. PICK a \in {"refused", "full"} : Goes(s, a)
    BY DEF AllocFails
  <1>4. MovedTo(s, a, pc[s].got) /\ SameEvent(s)
    BY <1>1, <1>2, <1>3, PlaceChanged DEF Places
  <1>5. PcHolds(pc'[s])
    BY <1>2, <1>3, <1>4 DEF PcHolds, MovedTo, AllocFails
  <1>6. overflow' \in BOOLEAN /\ use' \subseteq Threads /\ UNCHANGED <<list, pools>>
    BY <1>2 DEF AllocFails
  <1> QED
    BY <1>1, <1>3, <1>4, <1>5, <1>6, QuietStep

LEMMA ReadStep ==
  ASSUME Inv, NEW r \in Readers, Read(r)
  PROVE  Inv'
  <1>1. r \in Threads
    BY DEF Threads
  <1>2. Types /\ PcHolds(pc[r]) /\ use \subseteq Threads /\ overflow \in BOOLEAN
    BY <1>1, PlaceOf DEF Types
  <1>3. PICK a \in {"clear", "take"} : Goes(r, a)
    BY DEF Read
  <1>4. MovedTo(r, a, pc[r].got) /\ SameEvent(r)
    BY <1>1, <1>2, <1>3, PlaceChanged DEF Places
  <1>5. PcHolds(pc'[r])
    BY <1>2, <1>3, <1>4 DEF PcHolds, MovedTo, Read
  <1>6. overflow' \in BOOLEAN /\ use' \subseteq Threads /\ UNCHANGED <<list, pools>>
    BY <1>1, <1>2 DEF Read
  <1> QED
    BY <1>1, <1>3, <1>4, <1>5, <1>6, QuietStep

\* One with empty hands returns.
LEMMA LeavesStep ==
  ASSUME Inv, NEW t \in Threads, pc[t].got = <<>>, Leaves(t), UNCHANGED <<list, pools, overflow>>
  PROVE  Inv'
  <1>1. Types /\ use \subseteq Threads /\ overflow \in BOOLEAN
    BY PlaceOf DEF Types
  <1>2. MovedTo(t, "idle", pc[t].got)
    BY <1>1, BecameIdle DEF Leaves
  <1>3. PcHolds(pc'[t])
    BY <1>2 DEF PcHolds, MovedTo
  <1>4. overflow' \in BOOLEAN /\ use' \subseteq Threads
    BY <1>1 DEF Leaves
  <1>5. PICK a : a = "idle"
    OBVIOUS
  <1>6. MovedTo(t, a, pc[t].got) /\ a \notin {"release", "done"} /\ a \notin {"dup", "append"}
        /\ UNCHANGED <<list, pools>>
    BY <1>2, <1>5
  <1> QED
    BY <1>3, <1>4, <1>6, QuietStep

LEMMA EmptyStep ==
  ASSUME Inv, NEW r \in Readers, Empty(r)
  PROVE  Inv'
  <1>1. r \in Threads
    BY DEF Threads
  <1>2. Types /\ PcHolds(pc[r]) /\ use \subseteq Threads /\ overflow \in BOOLEAN
    BY <1>1, PlaceOf DEF Types
  <1>3. pc[r].got = <<>>
    BY <1>2 DEF PcHolds, Empty
  <1>4. CASE pc[r].at = "take"
    <2>1. Goes(r, "asleep") /\ use' = use /\ overflow' = overflow /\ UNCHANGED <<list, pools>>
      BY <1>4 DEF Empty
    <2>2. MovedTo(r, "asleep", pc[r].got) /\ SameEvent(r)
      BY <1>1, <1>2, <2>1, PlaceChanged DEF Places
    <2>3. PcHolds(pc'[r])
      BY <1>3, <2>2 DEF PcHolds, MovedTo
    <2>4. PICK a : a = "asleep"
      OBVIOUS
    <2>5. MovedTo(r, a, pc[r].got) /\ a \notin {"release", "done"} /\ a \notin {"dup", "append"}
      BY <2>2, <2>4
    <2> QED
      BY <1>1, <1>2, <2>1, <2>3, <2>5, QuietStep
  <1>5. CASE pc[r].at # "take"
    <2>1. Leaves(r) /\ UNCHANGED <<list, pools, overflow>>
      BY <1>5 DEF Empty
    <2> QED
      BY <1>1, <1>3, <2>1, LeavesStep
  <1> QED
    BY <1>4, <1>5

LEMMA InterruptedStep ==
  ASSUME Inv, NEW r \in Readers, Interrupted(r)
  PROVE  Inv'
  <1>1. r \in Threads
    BY DEF Threads
  <1>2. pc[r].got = <<>>
    BY <1>1, PlaceOf DEF PcHolds, Interrupted
  <1> QED
    BY <1>1, <1>2, LeavesStep DEF Interrupted

LEMMA ClearStep ==
  ASSUME Inv, NEW r \in Readers, Clear(r)
  PROVE  Inv'
  <1>1. r \in Threads
    BY DEF Threads
  <1>2. Types /\ PcHolds(pc[r]) /\ use \subseteq Threads
    BY <1>1, PlaceOf DEF Types
  <1>3. MovedTo(r, "clear", pc[r].got)
    BY <1>1, <1>2, PlaceChanged DEF Places, Clear
  <1>4. PcHolds(pc'[r])
    BY <1>2, <1>3 DEF PcHolds, MovedTo, Clear
  <1>5. overflow' \in BOOLEAN /\ use' \subseteq Threads /\ UNCHANGED <<list, pools>>
    BY <1>2 DEF Clear
  <1>6. PICK a : a = "clear"
    OBVIOUS
  <1>7. MovedTo(r, a, pc[r].got) /\ a \notin {"release", "done"} /\ a \notin {"dup", "append"}
    BY <1>3, <1>6
  <1> QED
    BY <1>1, <1>4, <1>5, <1>7, QuietStep

\* Those who sleep go on, and the sender returns.
LEMMA WakeStep ==
  ASSUME Inv, NEW s \in Senders, Wake(s)
  PROVE  Inv'
  <1>1. /\ Types /\ IsList(List) /\ Apart /\ Accounted(Roots, holds, free, life) /\ PlacesHold
        /\ NewIsLast /\ PoolsHold /\ Counted /\ s \in Threads
    BY DEF Inv, Threads
  <1>2. /\ pool' = pool /\ head' = head /\ tail' = tail /\ cells' = cells /\ next' = next
        /\ holds' = holds /\ free' = free /\ life' = life /\ overflow' = overflow
        /\ use' = use \ {s} /\ pc[s].at = "wake"
    BY DEF Wake, list, pools
  <1>3. List' = List /\ IsList(List)'
    BY <1>1, <1>2, ListStays
  <1>4. ASSUME NEW t \in Threads
        PROVE  /\ pc'[t] \in PcRecords /\ pc'[t].got = pc[t].got /\ PcHolds(pc'[t])
               /\ pc'[t] = pc[t] \/ (pc'[t].at \in {"idle", "take"} /\ pc[t].at \in {"wake", "asleep"})
    <2>1. pc[t] \in PcRecords /\ PcHolds(pc[t])
      BY <1>1 DEF Types, PlacesHold
    <2>2. CASE t = s
      <3>1. pc'[t] = Idle /\ pc[t].got = <<>>
        BY <1>1, <1>2, <2>1, <2>2 DEF Wake, PcHolds
      <3> QED
        BY <1>2, <2>2, <3>1, IdleRecord DEF PcHolds
    <2>3. CASE t # s /\ pc[t].at = "asleep"
      <3> DEFINE q == [pc[t] EXCEPT !.at = "take"]
      <3>1. pc'[t] = q
        BY <2>3 DEF Wake
      <3>2. q \in PcRecords /\ q.at = "take" /\ q.got = pc[t].got
        BY <2>1 DEF PcRecords, Places
      <3> HIDE DEF q
      <3>3. pc[t].got = <<>>
        BY <2>1, <2>3 DEF PcHolds
      <3> QED
        BY <2>3, <3>1, <3>2, <3>3 DEF PcHolds
    <2>4. CASE t # s /\ pc[t].at # "asleep"
      BY <2>1, <2>4 DEF Wake
    <2> QED
      BY <2>2, <2>3, <2>4
  <1>5. pc' = [t \in Threads |-> pc'[t]]
    BY DEF Wake
  <1>6. \A t \in Threads : Hand(t)' = Hand(t)
    BY <1>4 DEF Hand
  <1>7. Roots' = Roots /\ Apart'
    BY <1>1, <1>3, <1>6 DEF Roots, Hands, Apart
  <1>8. Types' /\ Counted'
    BY <1>1, <1>2, <1>3, <1>4, <1>5 DEF Types, Counted
  <1>9. Accounted(Roots, holds, free, life)'
    <2>1. Accounted(Roots', holds', free', life')
      BY <1>1, <1>2, <1>7
    <2> QED
      BY <2>1 DEF Accounted, ChainedIn
  <1>10. PlacesHold'
    BY <1>4 DEF PlacesHold, PcHolds
  <1>11. NewIsLast'
    BY <1>1, <1>2, <1>4, <1>6 DEF NewIsLast
  <1>12. PoolsHold'
    <2>1. \A t \in Threads : pc'[t].at \in {"release", "done"} => pc'[t] = pc[t]
      BY <1>4
    <2> QED
      BY <1>1, <1>2, <2>1 DEF PoolsHold, Resizing
  <1> QED
    BY <1>3, <1>7, <1>8, <1>9, <1>10, <1>11, <1>12 DEF Inv

\* Cells go to or from the list L, the hand g of t, and the free ones.
CellsGo(t, a, g, L, fresh, new) ==
    /\ MovedTo(t, a, g) /\ PcHolds(pc'[t]) /\ Types' /\ PoolsHold'
    /\ List' = L /\ IsList(List)' /\ cells' = Len(L)
    /\ fresh \in SUBSET Cells /\ fresh \cap Roots = {} /\ Of(g) \cap Of(L) = {}
    /\ Of(g) \cup Of(L) \subseteq Hand(t) \cup Of(List) \cup fresh
    /\ fresh \subseteq Of(g) \cup Of(L) /\ new \cap Roots = {}
    /\ \A c \in Cells : c \notin Hand(t) \cup Of(List) \cup new => next'[c] = next[c]
    /\ a \in {"dup", "append"} => \A c \in Of(g) : next'[c] = None
    /\ Accounted((Roots \ ((Hand(t) \cup Of(List)) \ (Of(g) \cup Of(L)))) \cup fresh,
                 holds', free', life')

LEMMA CellsMove ==
  ASSUME Inv, NEW t \in Threads, NEW a, NEW g, NEW L, NEW fresh, NEW new,
         CellsGo(t, a, g, L, fresh, new)
  PROVE  Inv'
  <1>1. Types /\ IsList(List) /\ Apart /\ PlacesHold /\ NewIsLast
    BY DEF Inv
  <1>2. Apart' /\ Roots' = (Roots \ ((Hand(t) \cup Of(List)) \ (Of(g) \cup Of(L)))) \cup fresh
    BY <1>1, RootsMoved DEF CellsGo
  <1>3. Accounted(Roots, holds, free, life)'
    <2>1. Accounted(Roots', holds', free', life')
      BY <1>2 DEF CellsGo
    <2> QED
      BY <2>1 DEF Accounted, ChainedIn
  <1>4. PlacesHold' /\ NewIsLast'
    BY <1>1, PlacesMoved DEF CellsGo
  <1>5. Counted'
    BY DEF Counted, CellsGo
  <1> QED
    BY <1>2, <1>3, <1>4, <1>5 DEF Inv, CellsGo

LEMMA ToSetIsOf == \A s \in Seq(Cells) : ToSet(s) = Of(s) /\ Of(s) \subseteq Cells
  <1> SUFFICES ASSUME NEW s \in Seq(Cells)
               PROVE  ToSet(s) = Of(s) /\ Of(s) \subseteq Cells
    OBVIOUS
  <1>1. DOMAIN s = 1..Len(s) /\ \A i \in 1..Len(s) : s[i] \in Cells
    BY LenProperties, ElementOfSeq
  <1> QED
    BY <1>1 DEF ToSet, Of

LEMMA FreesTypes ==
  ASSUME Types, NEW cs \in SUBSET Cells, Frees(cs)
  PROVE  /\ holds' \in [Cells -> [event : Events \cup {None}, more : SUBSET Cells]]
         /\ free' \in [Pools -> SUBSET Cells]
         /\ \A p \in Pools : free'[p] \subseteq {c \in Cells : c[1] = p}
  <1> DEFINE W == WithMore(cs)
  <1>1. W \subseteq Cells
    BY DEF WithMore, Types
  <1>2. /\ holds' = [c \in Cells |-> IF c \in W THEN Blank ELSE holds[c]]
        /\ free' = [p \in Pools |-> free[p] \cup {c \in W : c[1] = p}]
    BY DEF Frees
  <1> HIDE DEF W
  <1>3. Blank \in [event : Events \cup {None}, more : SUBSET Cells]
    BY DEF Blank
  <1> QED
    BY <1>1, <1>2, <1>3 DEF Types

\* What is known of the cell that a sender gets.
LEMMA FreeCell ==
  ASSUME Inv, NEW p \in Pools, NEW c \in free[p]
  PROVE  c \in Cells /\ c \notin Roots /\ {c} \in SUBSET Cells /\ {c} \cap Roots = {}
  BY DEF Inv, Types, Accounted

LEMMA Parts ==
  ASSUME Inv, NEW t \in Threads
  PROVE  /\ Types /\ PcHolds(pc[t]) /\ IsList(List) /\ Counted /\ PoolsHold
         /\ Accounted(Roots, holds, free, life) /\ Roots \in SUBSET Cells
  <1>1. Types /\ IsList(List) /\ Apart
    BY DEF Inv
  <1>2. Of(List) \subseteq Cells
    BY <1>1, ListParts
  <1>3. \A u \in Threads : Hand(u) \subseteq Cells
    BY <1>1, PcFields, ToSetIsOf DEF Hand
  <1>4. Roots \subseteq Cells
    BY <1>2, <1>3 DEF Roots, Hands
  <1> QED
    BY <1>1, <1>4, PlaceOf DEF Inv

LEMMA FirstCellStep ==
  ASSUME Inv, NEW s \in Senders, Alloc(s), pc[s].got = <<>>
  PROVE  Inv'
  <1>1. s \in Threads
    BY DEF Threads
  <1>2. /\ Types /\ PcHolds(pc[s]) /\ IsList(List) /\ Counted /\ PoolsHold
        /\ Accounted(Roots, holds, free, life) /\ Roots \in SUBSET Cells
    BY <1>1, Parts
  <1>3. PICK p \in Pools, e \in Events : p = pc[s].pool /\ e = pc[s].event
    BY <1>2 DEF Alloc, PcHolds
  <1>4. PICK c \in free[p] :
          /\ free' = [free EXCEPT ![p] = free[p] \ {c}]
          /\ next' = [next EXCEPT ![c] = None]
          /\ holds' = [holds EXCEPT ![c] = [event |-> e, more |-> {}]]
          /\ pc' = [pc EXCEPT ![s].got = <<c>>, ![s].at = IF More(e) = 0 THEN "append" ELSE "dup"]
    <2>1. PICK c \in free[pc[s].pool] :
            /\ free' = [free EXCEPT ![pc[s].pool] = @ \ {c}]
            /\ next' = [next EXCEPT ![c] = None]
            /\ holds' = [holds EXCEPT ![c] = [event |-> pc[s].event, more |-> {}]]
            /\ pc' = [pc EXCEPT ![s].got = <<c>>,
                                ![s].at = IF More(pc[s].event) = 0 THEN "append" ELSE "dup"]
      BY DEF Alloc
    <2>2. free' = [free EXCEPT ![p] = free[p] \ {c}]
      BY <1>2, <1>3, <2>1 DEF Types
    <2> QED
      BY <1>3, <2>1, <2>2
  <1>5. /\ pool' = pool /\ head' = head /\ tail' = tail /\ cells' = cells /\ life' = life
        /\ overflow' = overflow /\ use' = use
    BY DEF Alloc
  <1>6. c \in Cells /\ c \notin Roots /\ {c} \in SUBSET Cells /\ {c} \cap Roots = {}
    BY <1>4, FreeCell
  <1>7. PICK a \in {"append", "dup"} : a = IF More(e) = 0 THEN "append" ELSE "dup"
    OBVIOUS
  <1>8. PICK g \in Seq(Cells) : g = <<c>> /\ Len(g) = 1 /\ Of(g) = {c}
    <2>1. <<c>> \in Seq(Cells) /\ Len(<<c>>) = 1 /\ Of(<<c>>) = {c}
      BY <1>6, OneCell
    <2> QED
      BY <2>1
  <1>9. MovedTo(s, a, g) /\ SameEvent(s)
    <2>1. pc' = [pc EXCEPT ![s].got = g, ![s].at = a] /\ a \in Places
      BY <1>4, <1>7, <1>8 DEF Places
    <2> QED
      BY <1>1, <1>2, <2>1, HandChanged
  <1>10. PcHolds(pc'[s])
    BY <1>2, <1>7, <1>8, <1>9 DEF PcHolds, MovedTo, SameEvent, Alloc
  <1>11. \A d \in Cells : next'[d] = IF d = c THEN None ELSE next[d]
    BY <1>2, <1>4, <1>6 DEF Types
  <1>12. List' = List /\ IsList(List)'
    <2>1. \A d \in Of(List) : next'[d] = next[d]
      BY <1>2, <1>6, <1>11 DEF Roots
    <2> QED
      BY <1>2, <1>5, <2>1, ListStays
  <1>13. PICK L : L = List
    OBVIOUS
  <1>14. Hand(s) = {} /\ Of(g) \cap Of(L) = {} /\ Of(L) \subseteq Roots
    BY <1>6, <1>8, <1>13, OfEmpty DEF Hand, Roots
  <1>15. Accounted(Roots \cup {c}, holds', free', life')
    BY <1>2, <1>4, <1>5, FirstAllocated
  <1>16. (Roots \ ((Hand(s) \cup Of(List)) \ (Of(g) \cup Of(L)))) \cup {c} = Roots \cup {c}
    BY <1>13, <1>14
  <1>17. PoolsHold'
    <2>1. a \notin {"release", "done"}
      BY <1>7
    <2> QED
      BY <1>1, <1>2, <1>5, <1>9, <2>1, PoolsStay
  <1>18. Types'
    <2>1. holds' \in [Cells -> [event : Events \cup {None}, more : SUBSET Cells]]
      <3>1. [event |-> e, more |-> {}] \in [event : Events \cup {None}, more : SUBSET Cells]
        OBVIOUS
      <3> QED
        BY <1>2, <1>4, <1>6, <3>1 DEF Types
    <2>2. free' \in [Pools -> SUBSET Cells] /\ \A q \in Pools : free'[q] \subseteq free[q]
      BY <1>2, <1>4 DEF Types
    <2>3. next' \in [Cells -> Cells \cup {None}]
      BY <1>2, <1>4 DEF Types
    <2>4. /\ pool' \in Pools /\ cells' \in Int /\ overflow' \in BOOLEAN /\ use' \subseteq Threads
          /\ life' \in [Pools -> {"unused", "open", "closing"}]
          /\ \A q \in Pools : free'[q] \subseteq {d \in Cells : d[1] = q}
      BY <1>2, <1>5, <2>2 DEF Types
    <2> QED
      BY <1>9, <2>1, <2>2, <2>3, <2>4 DEF Types, MovedTo
  <1>19. /\ List' = L /\ cells' = Len(L) /\ Of(g) \cup Of(L) \subseteq Hand(s) \cup Of(List) \cup {c}
         /\ {c} \subseteq Of(g) \cup Of(L)
         /\ \A d \in Cells : d \notin Hand(s) \cup Of(List) \cup {c} => next'[d] = next[d]
         /\ (a \in {"dup", "append"} => \A d \in Of(g) : next'[d] = None)
         /\ Accounted((Roots \ ((Hand(s) \cup Of(List)) \ (Of(g) \cup Of(L)))) \cup {c},
                      holds', free', life')
    BY <1>2, <1>5, <1>6, <1>8, <1>11, <1>12, <1>13, <1>15, <1>16 DEF Counted
  <1>20. CellsGo(s, a, g, L, {c}, {c})
    BY <1>6, <1>9, <1>10, <1>12, <1>14, <1>17, <1>18, <1>19 DEF CellsGo
  <1> QED
    BY <1>1, <1>20, CellsMove

LEMMA SecondCellStep ==
  ASSUME Inv, NEW s \in Senders, Alloc(s), Len(pc[s].got) = 1
  PROVE  Inv'
  <1>1. s \in Threads
    BY DEF Threads
  <1>2. /\ Types /\ PcHolds(pc[s]) /\ IsList(List) /\ Counted /\ PoolsHold
        /\ Accounted(Roots, holds, free, life) /\ Roots \in SUBSET Cells
    BY <1>1, Parts
  <1>3. PICK p \in Pools : p = pc[s].pool
    BY <1>2 DEF Alloc, PcHolds
  <1>4. PICK g \in Seq(Cells) : g = pc[s].got
    BY <1>1, PlaceOf
  <1>5. Len(g) = 1 /\ g[1] \in Of(g) /\ Of(g) = Hand(s)
    BY <1>4 DEF Of, Hand
  <1>6. PICK r \in Roots : r = g[1]
    BY <1>1, <1>5 DEF Roots, Hands
  <1>7. PICK c \in free[p] :
          /\ free' = [free EXCEPT ![p] = free[p] \ {c}]
          /\ next' = [next EXCEPT ![c] = None]
          /\ holds' = [holds EXCEPT ![r] = [holds[r] EXCEPT !.more = holds[r].more \cup {c}]]
          /\ Goes(s, "append")
    <2>1. PICK c \in free[pc[s].pool] :
            /\ free' = [free EXCEPT ![pc[s].pool] = @ \ {c}]
            /\ next' = [next EXCEPT ![c] = None]
            /\ holds' = [holds EXCEPT ![pc[s].got[1]].more = @ \cup {c}]
            /\ Goes(s, "append")
      <3>1. pc[s].got # <<>>
        BY <1>4, OneIsSome
      <3> QED
        BY <3>1 DEF Alloc
    <2>2. free' = [free EXCEPT ![p] = free[p] \ {c}]
      BY <1>2, <1>3, <2>1 DEF Types
    <2>3. holds' = [holds EXCEPT ![r] = [holds[r] EXCEPT !.more = holds[r].more \cup {c}]]
      BY <1>2, <1>4, <1>6, <2>1 DEF Types
    <2> QED
      BY <1>3, <2>1, <2>2, <2>3
  <1>8. /\ pool' = pool /\ head' = head /\ tail' = tail /\ cells' = cells /\ life' = life
        /\ overflow' = overflow /\ use' = use
    BY DEF Alloc
  <1>9. c \in Cells /\ c \notin Roots /\ {c} \cap Roots = {}
    BY <1>7, FreeCell
  <1>10. PICK a \in Places : a = "append" /\ a \notin {"release", "done"}
    BY DEF Places
  <1>11. MovedTo(s, a, g) /\ SameEvent(s)
    BY <1>1, <1>2, <1>4, <1>7, <1>10, PlaceChanged
  <1>12. PcHolds(pc'[s])
    BY <1>5, <1>11, <1>10 DEF PcHolds, MovedTo
  <1>13. \A d \in Cells : next'[d] = IF d = c THEN None ELSE next[d]
    BY <1>2, <1>7, <1>9 DEF Types
  <1>14. List' = List /\ IsList(List)'
    <2>1. \A d \in Of(List) : next'[d] = next[d]
      BY <1>2, <1>9, <1>13 DEF Roots
    <2> QED
      BY <1>2, <1>8, <2>1, ListStays
  <1>15. PICK L : L = List
    OBVIOUS
  <1>16. Of(g) \cap Of(L) = {}
    BY <1>1, <1>5, <1>15 DEF Inv, Apart
  <1>17. Accounted(Roots, holds', free', life')
    BY <1>2, <1>7, <1>8, SecondAllocated
  <1>18. (Roots \ ((Hand(s) \cup Of(List)) \ (Of(g) \cup Of(L)))) \cup {} = Roots
    BY <1>5, <1>15
  <1>19. PoolsHold'
    BY <1>1, <1>2, <1>8, <1>11, <1>10, PoolsStay
  <1>20. Types'
    <2>1. holds' \in [Cells -> [event : Events \cup {None}, more : SUBSET Cells]]
      <3> DEFINE q == [holds[r] EXCEPT !.more = holds[r].more \cup {c}]
      <3>1. q \in [event : Events \cup {None}, more : SUBSET Cells]
        <4>1. /\ holds[r] \in [event : Events \cup {None}, more : SUBSET Cells]
              /\ holds[r].more \in SUBSET Cells
          BY <1>2, <1>6 DEF Types
        <4>2. holds[r].more \cup {c} \in SUBSET Cells
          BY <1>9, <4>1
        <4> QED
          BY <4>1, <4>2
      <3>2. holds' = [holds EXCEPT ![r] = q]
        BY <1>7
      <3> HIDE DEF q
      <3> QED
        BY <1>2, <3>1, <3>2 DEF Types
    <2>2. free' \in [Pools -> SUBSET Cells] /\ \A q \in Pools : free'[q] \subseteq free[q]
      BY <1>2, <1>7 DEF Types
    <2>3. next' \in [Cells -> Cells \cup {None}]
      BY <1>2, <1>7 DEF Types
    <2>4. /\ pool' \in Pools /\ cells' \in Int /\ overflow' \in BOOLEAN /\ use' \subseteq Threads
          /\ life' \in [Pools -> {"unused", "open", "closing"}]
          /\ \A q \in Pools : free'[q] \subseteq {d \in Cells : d[1] = q}
      BY <1>2, <1>8, <2>2 DEF Types
    <2> QED
      BY <1>11, <2>1, <2>2, <2>3, <2>4 DEF Types, MovedTo
  <1>21. \A d \in Of(g) : next'[d] = None
    <2>1. \A d \in Hand(s) : next[d] = None
      BY <1>1 DEF Inv, NewIsLast, Alloc
    <2> QED
      BY <1>2, <1>5, <1>6, <1>9, <1>13, <2>1 DEF Of
  <1>22. /\ List' = L /\ cells' = Len(L) /\ Of(g) \cup Of(L) \subseteq Hand(s) \cup Of(List) \cup {}
         /\ {} \subseteq Of(g) \cup Of(L) /\ {} \in SUBSET Cells /\ {} \cap Roots = {}
         /\ \A d \in Cells : d \notin Hand(s) \cup Of(List) \cup {c} => next'[d] = next[d]
         /\ Accounted((Roots \ ((Hand(s) \cup Of(List)) \ (Of(g) \cup Of(L)))) \cup {},
                      holds', free', life')
    BY <1>2, <1>5, <1>8, <1>9, <1>13, <1>14, <1>15, <1>17, <1>18 DEF Counted
  <1>23. CellsGo(s, a, g, L, {}, {c})
    BY <1>9, <1>11, <1>12, <1>14, <1>16, <1>19, <1>20, <1>21, <1>22 DEF CellsGo
  <1> QED
    BY <1>1, <1>23, CellsMove

\* All that t has in its hand is freed.
LEMMA HandFreed ==
  ASSUME Inv, NEW t \in Threads, NEW a, MovedTo(t, a, <<>>), PcHolds(pc'[t]),
         a \notin {"dup", "append"}, Frees(ToSet(pc[t].got)), UsedAsBefore, PoolsHold',
         pool' \in Pools, life' \in [Pools -> {"unused", "open", "closing"}],
         overflow' \in BOOLEAN, use' \subseteq Threads, UNCHANGED <<head, tail, cells, next>>
  PROVE  Inv'
  <1>1. /\ Types /\ IsList(List) /\ Counted
        /\ Accounted(Roots, holds, free, life) /\ Roots \in SUBSET Cells
    BY Parts
  <1>2. ToSet(pc[t].got) = Hand(t) /\ Hand(t) \in SUBSET Cells /\ Hand(t) \in SUBSET Roots
    BY PlaceOf, ToSetIsOf DEF Hand
  <1>3. PICK cs \in SUBSET Roots : cs = Hand(t) /\ cs \in SUBSET Cells /\ Frees(cs)
    BY <1>2
  <1>4. Accounted(Roots \ cs, holds', free', life')
    BY <1>1, <1>3, CellsFreed
  <1>5. head' = head /\ tail' = tail /\ cells' = cells /\ next' = next
    OBVIOUS
  <1>6. List' = List /\ IsList(List)'
    BY <1>1, <1>5, ListStays
  <1>7. PICK L : L = List
    OBVIOUS
  <1>8. PICK g : g = <<>> /\ Of(g) = {}
    BY OfEmpty
  <1>9. Hand(t) \cap Of(List) = {}
    BY DEF Inv, Apart
  <1>10. Types'
    <2>1. /\ holds' \in [Cells -> [event : Events \cup {None}, more : SUBSET Cells]]
          /\ free' \in [Pools -> SUBSET Cells]
          /\ \A p \in Pools : free'[p] \subseteq {c \in Cells : c[1] = p}
      BY <1>1, <1>3, FreesTypes
    <2> QED
      BY <1>1, <1>5, <2>1 DEF Types, MovedTo
  <1>11. (Roots \ ((Hand(t) \cup Of(List)) \ (Of(g) \cup Of(L)))) \cup {} = Roots \ cs
    BY <1>3, <1>7, <1>8, <1>9
  <1>12. /\ MovedTo(t, a, g) /\ List' = L /\ cells' = Len(L) /\ Of(g) \cap Of(L) = {}
         /\ Of(g) \cup Of(L) \subseteq Hand(t) \cup Of(List) \cup {}
         /\ {} \subseteq Of(g) \cup Of(L) /\ {} \in SUBSET Cells /\ {} \cap Roots = {}
         /\ \A d \in Cells : d \notin Hand(t) \cup Of(List) \cup {} => next'[d] = next[d]
         /\ Accounted((Roots \ ((Hand(t) \cup Of(List)) \ (Of(g) \cup Of(L)))) \cup {},
                      holds', free', life')
    BY <1>1, <1>4, <1>5, <1>6, <1>7, <1>8, <1>11 DEF Counted
  <1>13. CellsGo(t, a, g, L, {}, {})
    BY <1>6, <1>8, <1>10, <1>12 DEF CellsGo
  <1> QED
    BY <1>13, CellsMove

LEMMA LostStep ==
  ASSUME Inv, NEW s \in Senders, Lost(s)
  PROVE  Inv'
  <1>1. s \in Threads
    BY DEF Threads
  <1>2. Types /\ PoolsHold /\ use \subseteq Threads /\ overflow \in BOOLEAN
    BY <1>1, Parts DEF Types
  <1>3. PICK a : a = "idle" /\ a \notin {"dup", "append"} /\ a \notin {"release", "done"}
    OBVIOUS
  <1>4. MovedTo(s, a, <<>>)
    BY <1>1, <1>2, <1>3, BecameIdle DEF Lost, Leaves
  <1>5. PcHolds(pc'[s])
    BY <1>3, <1>4 DEF PcHolds, MovedTo
  <1>6. /\ pool' = pool /\ life' = life /\ UNCHANGED <<head, tail, cells, next>>
        /\ Frees(ToSet(pc[s].got)) /\ overflow' \in BOOLEAN /\ use' \subseteq Threads
    BY <1>2 DEF Lost, Leaves
  <1>7. PoolsHold' /\ UsedAsBefore
    BY <1>1, <1>2, <1>3, <1>4, <1>6, PoolsStay
  <1>8. pool' \in Pools /\ life' \in [Pools -> {"unused", "open", "closing"}]
    BY <1>2, <1>6 DEF Types
  <1> QED
    BY <1>1, <1>3, <1>4, <1>5, <1>6, <1>7, <1>8, HandFreed

LEMMA CopiedStep ==
  ASSUME Inv, NEW r \in Readers, NEW again \in BOOLEAN, Copied(r, again)
  PROVE  Inv'
  <1>1. r \in Threads
    BY DEF Threads
  <1>2. Types /\ PoolsHold /\ use \subseteq Threads /\ overflow \in BOOLEAN
    BY <1>1, Parts DEF Types
  <1>3. PICK a \in {"idle", "again"} : MovedTo(r, a, <<>>) /\ use' \subseteq Threads
    <2>1. CASE again
      <3>1. pc' = [pc EXCEPT ![r].at = "again", ![r].got = <<>>] /\ use' = use
        BY <2>1 DEF Copied
      <3>2. <<>> \in Seq(Cells) /\ "again" \in Places
        BY EmptySeq DEF Places
      <3> QED
        BY <1>1, <1>2, <3>1, <3>2, HandChanged
    <2>2. CASE ~again
      BY <1>1, <1>2, <2>2, BecameIdle DEF Copied, Leaves
    <2> QED
      BY <2>1, <2>2
  <1>4. a \notin {"dup", "append"} /\ a \notin {"release", "done"}
    BY <1>3
  <1>5. PcHolds(pc'[r])
    BY <1>3 DEF PcHolds, MovedTo
  <1>6. /\ pool' = pool /\ life' = life /\ UNCHANGED <<head, tail, cells, next>>
        /\ Frees(ToSet(pc[r].got)) /\ overflow' \in BOOLEAN
    BY <1>2 DEF Copied
  <1>7. PoolsHold' /\ UsedAsBefore
    BY <1>1, <1>2, <1>3, <1>4, <1>6, PoolsStay
  <1>8. pool' \in Pools /\ life' \in [Pools -> {"unused", "open", "closing"}]
    BY <1>2, <1>6 DEF Types
  <1> QED
    BY <1>1, <1>3, <1>4, <1>5, <1>6, <1>7, <1>8, HandFreed

\* The pool that is given up is not the one in use, and nobody else gives it up.
LEMMA ReleaseStep ==
  ASSUME Inv, NEW r \in Readers, ReleaseCells(r)
  PROVE  Inv'
  <1>1. r \in Threads
    BY DEF Threads
  <1>2. Types /\ PoolsHold /\ PcHolds(pc[r]) /\ use \subseteq Threads /\ overflow \in BOOLEAN
    BY <1>1, Parts DEF Types
  <1>3. PICK a : a = "done" /\ a \notin {"dup", "append"}
    OBVIOUS
  <1>4. MovedTo(r, a, <<>>) /\ SameEvent(r)
    <2>1. pc' = [pc EXCEPT ![r].at = a, ![r].got = <<>>]
      BY <1>3 DEF ReleaseCells
    <2>2. <<>> \in Seq(Cells) /\ a \in Places
      BY <1>3, EmptySeq DEF Places
    <2> QED
      BY <1>1, <1>2, <2>1, <2>2, HandChanged
  <1>5. PcHolds(pc'[r])
    BY <1>2, <1>3, <1>4 DEF PcHolds, MovedTo, SameEvent, ReleaseCells
  <1>6. /\ pool' = pool /\ UNCHANGED <<head, tail, cells, next>>
        /\ Frees(ToSet(pc[r].got)) /\ overflow' \in BOOLEAN /\ use' \subseteq Threads
    BY <1>2 DEF ReleaseCells
  <1>7. PICK p \in Pools : p = pc[r].pool /\ life[p] = "open" /\ p # pool
    BY <1>1, <1>2 DEF ReleaseCells, PcHolds, PoolsHold
  <1>8. /\ life' \in [Pools -> {"unused", "open", "closing"}]
        /\ \A q \in Pools : life'[q] = IF q = p THEN "closing" ELSE life[q]
    BY <1>2, <1>7 DEF Types, ReleaseCells
  <1>9. UsedAsBefore
    BY <1>7, <1>8 DEF UsedAsBefore
  <1>10. PoolsHold'
    <2>1. /\ pc'[r].at = "done" /\ pc'[r].pool = p /\ pc[r].at = "release"
          /\ \A u \in Threads \ {r} : pc'[u] = pc[u]
      BY <1>3, <1>4, <1>7 DEF MovedTo, SameEvent, ReleaseCells
    <2>2. \A u \in Threads \ {r} : Resizing(u) => pc[u].pool # p /\ pc[u].pool \in Pools
      <3>1. \A u \in Threads \ {r} : Resizing(u) => pc[u].pool # p
        BY <1>1, <1>2, <1>7, <2>1 DEF PoolsHold, Resizing
      <3>2. \A u \in Threads : Resizing(u) => pc[u].pool \in Pools
        BY DEF Inv, PlacesHold, PcHolds, Resizing
      <3> QED
        BY <3>1, <3>2
    <2>3. life'[pool'] = "open"
      BY <1>2, <1>6, <1>7, <1>8 DEF PoolsHold, Types
    <2>4. \A u \in Threads :
            /\ pc'[u].at = "release" => life'[pc'[u].pool] = "open" /\ pc'[u].pool # pool'
            /\ pc'[u].at = "done" => life'[pc'[u].pool] = "closing"
      BY <1>2, <1>6, <1>8, <2>1, <2>2 DEF PoolsHold, Resizing
    <2>5. \A u \in Threads : Resizing(u)' => Resizing(u) /\ pc'[u].pool = pc[u].pool
      BY <1>7, <2>1 DEF Resizing
    <2> QED
      BY <1>2, <2>3, <2>4, <2>5 DEF PoolsHold
  <1>11. pool' \in Pools
    BY <1>2, <1>6 DEF Types
  <1> QED
    BY <1>1, <1>3, <1>4, <1>5, <1>6, <1>8, <1>9, <1>10, <1>11, HandFreed

\* The cell of t goes to the list, or one of the list to t.
LEMMA CellsPass ==
  ASSUME Inv, NEW t \in Threads, NEW a, NEW g \in Seq(Cells), MovedTo(t, a, g), PcHolds(pc'[t]),
         a \notin {"dup", "append"}, a \notin {"release", "done"},
         NEW L, List' = L, IsList(List)', cells' = Len(L), Of(g) \cap Of(L) = {},
         Of(g) \cup Of(L) = Hand(t) \cup Of(List), next' \in [Cells -> Cells \cup {None}],
         \A c \in Cells : c \notin Hand(t) \cup Of(List) => next'[c] = next[c],
         UNCHANGED <<pool, holds, pools, overflow>>, use' \subseteq Threads
  PROVE  Inv'
  <1>1. Types /\ IsList(List) /\ Counted /\ PoolsHold
        /\ Accounted(Roots, holds, free, life) /\ Roots \in SUBSET Cells
    BY Parts
  <1>2. pool' = pool /\ holds' = holds /\ free' = free /\ life' = life /\ overflow' = overflow
    BY DEF pools
  <1>3. PoolsHold'
    BY <1>1, <1>2, PoolsStay
  <1>4. cells' \in Int
    <2>1. List' \in Seq(Cells)
      BY DEF IsList
    <2> QED
      BY <2>1, LenProperties
  <1>5. Types'
    BY <1>1, <1>2, <1>4 DEF Types, MovedTo
  <1>6. (Roots \ ((Hand(t) \cup Of(List)) \ (Of(g) \cup Of(L)))) \cup {} = Roots
    OBVIOUS
  <1>7. Accounted((Roots \ ((Hand(t) \cup Of(List)) \ (Of(g) \cup Of(L)))) \cup {},
                  holds', free', life')
    BY <1>1, <1>2, <1>6
  <1>8. /\ {} \in SUBSET Cells /\ {} \cap Roots = {} /\ {} \subseteq Of(g) \cup Of(L)
        /\ Of(g) \cup Of(L) \subseteq Hand(t) \cup Of(List) \cup {}
        /\ \A c \in Cells : c \notin Hand(t) \cup Of(List) \cup {} => next'[c] = next[c]
    OBVIOUS
  <1>9. CellsGo(t, a, g, L, {}, {})
    BY <1>3, <1>5, <1>7, <1>8 DEF CellsGo
  <1> QED
    BY <1>9, CellsMove

\* One that has a cell has one.
LEMMA CellInHand ==
  ASSUME Inv, NEW t \in Threads, pc[t].at \in {"append", "copy"}
  PROVE  /\ pc[t].got[1] \in Cells \ Of(List) /\ Hand(t) = {pc[t].got[1]}
         /\ pc[t].got[1] \in Roots
  <1>1. PICK g \in Seq(Cells) : g = pc[t].got
    BY PlaceOf
  <1>2. Len(g) = 1
    BY <1>1, Parts DEF PcHolds
  <1>3. g[1] \in Cells /\ Of(g) = {g[1]}
    BY <1>2, ElementOfSeq DEF Of
  <1>4. Hand(t) = {g[1]}
    BY <1>1, <1>3 DEF Hand
  <1>5. g[1] \notin Of(List)
    BY <1>4 DEF Inv, Apart
  <1> QED
    BY <1>1, <1>3, <1>4, <1>5 DEF Roots, Hands

LEMMA EnqueueStep ==
  ASSUME Inv, NEW s \in Senders, Enqueue(s)
  PROVE  Inv' /\ List' = Append(List, pc[s].got[1])
  <1>1. s \in Threads
    BY DEF Threads
  <1>2. Types /\ IsList(List) /\ Counted /\ PcHolds(pc[s])
    BY <1>1, Parts
  <1>3. PICK c \in Cells \ Of(List) : c = pc[s].got[1] /\ Hand(s) = {c}
    BY <1>1, CellInHand DEF Enqueue
  <1>4. next[c] = None
    BY <1>1, <1>3 DEF Inv, NewIsLast, Enqueue
  <1>5. /\ next' = IF tail # None THEN [next EXCEPT ![tail] = c] ELSE next
        /\ tail' = c /\ head' = IF head = None THEN c ELSE head
    BY <1>3 DEF Enqueue
  <1>6. List' = Append(List, c) /\ IsList(List)'
    BY <1>2, <1>4, <1>5, ListAppended
  <1>7. PICK L : L = Append(List, c)
    OBVIOUS
  <1>8. Len(L) = Len(List) + 1 /\ Of(L) = Of(List) \cup {c}
    <2>1. PICK s0 \in Seq(Cells) : s0 = List /\ Len(s0) \in Nat
      BY <1>2, ListParts
    <2>2. /\ L = Append(s0, c) /\ Len(L) = Len(s0) + 1 /\ L[Len(s0) + 1] = c
          /\ \A i \in 1..Len(s0) : L[i] = s0[i]
      BY <1>7, <2>1
    <2>3. 1..Len(L) = 1..Len(s0) \cup {Len(s0) + 1}
      BY <2>1, <2>2
    <2>4. Of(L) = Of(s0) \cup {c}
      BY <2>2, <2>3 DEF Of
    <2> QED
      BY <2>1, <2>2, <2>4
  <1>9. PICK g \in Seq(Cells) : g = <<>> /\ Of(g) = {}
    BY EmptySeq, OfEmpty
  <1>10. PICK a \in Places : a = "wake" /\ a \notin {"dup", "append"} /\ a \notin {"release", "done"}
    BY DEF Places
  <1>11. MovedTo(s, a, g)
    <2>1. pc' = [pc EXCEPT ![s].at = a, ![s].got = g]
      BY <1>9, <1>10 DEF Enqueue
    <2> QED
      BY <1>1, <1>2, <2>1, HandChanged
  <1>12. PcHolds(pc'[s])
    BY <1>9, <1>10, <1>11 DEF PcHolds, MovedTo
  <1>13. cells' = Len(L)
    BY <1>2, <1>8 DEF Enqueue, Counted
  <1>14. next' \in [Cells -> Cells \cup {None}]
    BY <1>2, <1>5 DEF Types
  <1>15. ASSUME NEW d \in Cells, d \notin Hand(s) \cup Of(List)
         PROVE  next'[d] = next[d]
    <2>1. CASE tail = None
      BY <1>5, <2>1
    <2>2. CASE tail # None
      <3>1. tail \in Of(List)
        BY <1>2, <2>2, ListParts
      <3>2. d # tail
        BY <1>15, <3>1
      <3> QED
        BY <1>2, <1>5, <2>2, <3>2 DEF Types
    <2> QED
      BY <2>1, <2>2
  <1>16. UNCHANGED <<pool, holds, pools, overflow>> /\ use' \subseteq Threads
    BY <1>2 DEF Enqueue, Types
  <1>17. Of(g) \cap Of(L) = {} /\ Of(g) \cup Of(L) = Hand(s) \cup Of(List) /\ List' = L
    BY <1>3, <1>6, <1>7, <1>8, <1>9
  <1>18. Inv'
    BY <1>1, <1>6, <1>10, <1>11, <1>12, <1>13, <1>14, <1>15, <1>16, <1>17, CellsPass
  <1> QED
    BY <1>3, <1>6, <1>18

LEMMA TakeStep ==
  ASSUME Inv, NEW r \in Readers, Take(r)
  PROVE  Inv' /\ List # <<>> /\ List' = Tail(List) /\ Head(List) = head
  <1>1. r \in Threads
    BY DEF Threads
  <1>2. Types /\ IsList(List) /\ Counted /\ PcHolds(pc[r])
    BY <1>1, Parts
  <1>3. /\ head # None /\ head' = next[head] /\ tail' = IF tail = head THEN None ELSE tail
        /\ next' = [next EXCEPT ![head] = None] /\ cells' = cells - 1
        /\ pc' = [pc EXCEPT ![r].at = "copy", ![r].got = <<head>>]
    BY DEF Take, CellOut
  <1>4. /\ List # <<>> /\ List' = Tail(List) /\ IsList(List)'
        /\ head = Head(List) /\ head \in Cells /\ head \in Of(List)
        /\ Of(List)' = Of(List) \ {head} /\ Len(List') = Len(List) - 1
    BY <1>2, <1>3, ListTaken
  <1>5. PICK L : L = List'
    OBVIOUS
  <1>6. Of(L) = Of(List) \ {head} /\ Len(L) = Len(List) - 1
    BY <1>4, <1>5 DEF Of
  <1>7. PICK g \in Seq(Cells) : g = <<head>> /\ Of(g) = {head} /\ Len(g) = 1
    <2>1. <<head>> \in Seq(Cells) /\ Of(<<head>>) = {head} /\ Len(<<head>>) = 1
      BY <1>4, OneCell
    <2> QED
      BY <2>1
  <1>8. Hand(r) = {}
    BY <1>2, OfEmpty DEF Hand, Take, PcHolds
  <1>9. PICK a \in Places : a = "copy" /\ a \notin {"dup", "append"} /\ a \notin {"release", "done"}
    BY DEF Places
  <1>10. MovedTo(r, a, g)
    <2>1. pc' = [pc EXCEPT ![r].at = a, ![r].got = g]
      BY <1>3, <1>7, <1>9
    <2> QED
      BY <1>1, <1>2, <2>1, HandChanged
  <1>11. PcHolds(pc'[r])
    BY <1>7, <1>9, <1>10 DEF PcHolds, MovedTo
  <1>12. cells' = Len(L)
    BY <1>2, <1>3, <1>6 DEF Counted
  <1>13. next' \in [Cells -> Cells \cup {None}]
         /\ \A d \in Cells : d \notin Hand(r) \cup Of(List) => next'[d] = next[d]
    BY <1>2, <1>3, <1>4 DEF Types
  <1>14. UNCHANGED <<pool, holds, pools, overflow>> /\ use' \subseteq Threads
    BY <1>2 DEF Take, Types
  <1>15. Of(g) \cap Of(L) = {} /\ Of(g) \cup Of(L) = Hand(r) \cup Of(List) /\ List' = L
    BY <1>4, <1>5, <1>6, <1>7, <1>8
  <1>16. Inv'
    BY <1>1, <1>4, <1>9, <1>10, <1>11, <1>12, <1>13, <1>14, <1>15, CellsPass
  <1> QED
    BY <1>4, <1>16

\* Never when it is the last one: that is where the tail would be wrong.
LEMMA PutBackStep ==
  ASSUME Inv, PutsBack # "any time", NEW r \in Readers, PutBack(r)
  PROVE  Inv' /\ List' = <<pc[r].got[1]>> \o List
  <1>1. r \in Threads
    BY DEF Threads
  <1>2. Types /\ IsList(List) /\ Counted /\ PcHolds(pc[r])
    BY <1>1, Parts
  <1>3. PICK c \in Cells \ Of(List) : c = pc[r].got[1] /\ Hand(r) = {c}
    BY <1>1, CellInHand DEF PutBack
  <1>4. /\ head # None /\ next' = [next EXCEPT ![c] = head] /\ head' = c /\ tail' = tail
        /\ cells' = cells + 1 /\ Leaves(r)
    BY <1>3 DEF PutBack
  <1>5. /\ List' = <<c>> \o List /\ IsList(List)'
        /\ Of(List)' = Of(List) \cup {c} /\ Len(List') = Len(List) + 1
    BY <1>2, <1>4, ListPutBack
  <1>6. PICK L : L = List'
    OBVIOUS
  <1>7. Of(L) = Of(List) \cup {c} /\ Len(L) = Len(List) + 1
    BY <1>5, <1>6 DEF Of
  <1>8. PICK g \in Seq(Cells) : g = <<>> /\ Of(g) = {}
    BY EmptySeq, OfEmpty
  <1>9. PICK a \in Places : a = "idle" /\ a \notin {"dup", "append"} /\ a \notin {"release", "done"}
    BY DEF Places
  <1>10. MovedTo(r, a, g)
    BY <1>1, <1>2, <1>4, <1>8, <1>9, BecameIdle DEF Leaves
  <1>11. PcHolds(pc'[r])
    BY <1>8, <1>9, <1>10 DEF PcHolds, MovedTo
  <1>12. cells' = Len(L)
    BY <1>2, <1>4, <1>7 DEF Counted
  <1>13. next' \in [Cells -> Cells \cup {None}]
         /\ \A d \in Cells : d \notin Hand(r) \cup Of(List) => next'[d] = next[d]
    <2>1. head \in Cells
      BY <1>2, <1>4, HeadIsCell
    <2> QED
      BY <1>2, <1>3, <1>4, <2>1, ZenonT(60) DEF Types
  <1>14. UNCHANGED <<pool, holds, pools, overflow>> /\ use' \subseteq Threads
    BY <1>2, <1>4 DEF PutBack, Types, Leaves
  <1>15. Of(g) \cap Of(L) = {} /\ Of(g) \cup Of(L) = Hand(r) \cup Of(List) /\ List' = L
    BY <1>3, <1>6, <1>7, <1>8
  <1>16. Inv'
    BY <1>1, <1>5, <1>9, <1>10, <1>11, <1>12, <1>13, <1>14, <1>15, CellsPass
  <1> QED
    BY <1>3, <1>5, <1>16

LEMMA DrainStep ==
  ASSUME Inv, NEW r \in Readers, Drain(r)
  PROVE  Inv' /\ List' = <<>>
  <1>1. r \in Threads
    BY DEF Threads
  <1>2. /\ Types /\ IsList(List) /\ Counted /\ PcHolds(pc[r]) /\ PoolsHold
        /\ Accounted(Roots, holds, free, life) /\ Roots \in SUBSET Cells
    BY <1>1, Parts
  <1>3. PICK cs \in SUBSET Roots : cs = Of(List) /\ cs \in SUBSET Cells
    BY <1>2, ListParts DEF Roots
  <1>4. /\ Frees(cs) /\ next' = [c \in Cells |-> IF c \in cs THEN None ELSE next[c]]
        /\ tail' = IF tail \in cs THEN None ELSE tail
        /\ cells' = cells - Cardinality(cs) /\ head' = None /\ Goes(r, "idle")
    <2>1. ToSet(Chain(head)) = cs
      BY <1>2, <1>3, ListParts, ToSetIsOf DEF List
    <2> QED
      BY <2>1 DEF Drain
  <1>5. tail' = None
    <2>1. CASE List = <<>>
      <3>1. tail = None
        BY <1>2, <2>1, ListParts
      <3> QED
        BY <1>4, <3>1
    <2>2. CASE List # <<>>
      <3>1. tail = List[Len(List)] /\ Len(List) \in 1..Len(List)
        BY <1>2, <2>2, ListParts
      <3>2. tail \in cs
        BY <1>2, <1>3, <3>1, ListParts
      <3> QED
        BY <1>4, <3>2
    <2> QED
      BY <2>1, <2>2
  <1>6. List' = <<>> /\ IsList(List)'
    BY <1>4, <1>5, ListEmptied
  <1>7. Cardinality(cs) = Len(List) /\ Len(List) \in Nat
    BY <1>2, <1>3, ListParts, LengthIsCardinality
  <1>8. PICK L \in Seq(Cells) : L = <<>> /\ Of(L) = {} /\ Len(L) = 0
    BY EmptySeq, OfEmpty
  <1>9. cells' = Len(L)
    BY <1>2, <1>4, <1>7, <1>8 DEF Counted
  <1>10. pc[r].got = <<>> /\ Hand(r) = {}
    BY <1>2, OfEmpty DEF Hand, Drain, PcHolds
  <1>11. PICK a \in Places : a = "idle" /\ a \notin {"dup", "append"} /\ a \notin {"release", "done"}
    BY DEF Places
  <1>12. MovedTo(r, a, L)
    BY <1>1, <1>2, <1>4, <1>8, <1>10, <1>11, PlaceChanged
  <1>13. PcHolds(pc'[r])
    BY <1>8, <1>11, <1>12 DEF PcHolds, MovedTo
  <1>14. pool' = pool /\ life' = life /\ overflow' = overflow /\ use' = use
    BY DEF Drain
  <1>15. PoolsHold' /\ UsedAsBefore
    BY <1>1, <1>2, <1>11, <1>12, <1>14, PoolsStay
  <1>16. Accounted(Roots \ cs, holds', free', life')
    BY <1>2, <1>3, <1>4, <1>15, CellsFreed
  <1>17. (Roots \ ((Hand(r) \cup Of(List)) \ (Of(L) \cup Of(L)))) \cup {} = Roots \ cs
    BY <1>3, <1>8, <1>10
  <1>18. Types'
    <2>1. /\ holds' \in [Cells -> [event : Events \cup {None}, more : SUBSET Cells]]
          /\ free' \in [Pools -> SUBSET Cells]
          /\ \A p \in Pools : free'[p] \subseteq {c \in Cells : c[1] = p}
      BY <1>2, <1>3, <1>4, FreesTypes
    <2>2. next' \in [Cells -> Cells \cup {None}] /\ cells' \in Int
      BY <1>2, <1>4, <1>8, <1>9 DEF Types
    <2> QED
      BY <1>2, <1>12, <1>14, <2>1, <2>2 DEF Types, MovedTo
  <1>19. /\ List' = L /\ {} \in SUBSET Cells /\ {} \cap Roots = {} /\ Of(L) \cap Of(L) = {}
         /\ Of(L) \cup Of(L) \subseteq Hand(r) \cup Of(List) \cup {}
         /\ {} \subseteq Of(L) \cup Of(L)
         /\ \A c \in Cells : c \notin Hand(r) \cup Of(List) \cup {} => next'[c] = next[c]
         /\ Accounted((Roots \ ((Hand(r) \cup Of(List)) \ (Of(L) \cup Of(L)))) \cup {},
                      holds', free', life')
    BY <1>3, <1>4, <1>6, <1>8, <1>16, <1>17
  <1>20. CellsGo(r, a, L, L, {}, {})
    BY <1>6, <1>9, <1>11, <1>12, <1>13, <1>15, <1>18, <1>19 DEF CellsGo
  <1> QED
    BY <1>1, <1>6, <1>20, CellsMove

\* The old list goes to the hand of the one that resizes.
LEMMA ResizeStep ==
  ASSUME Inv, NEW r \in Readers, NEW p \in Pools, Resize(r, p)
  PROVE  Inv' /\ List' = <<>>
  <1>1. r \in Threads
    BY DEF Threads
  <1>2. /\ Types /\ IsList(List) /\ Counted /\ PcHolds(pc[r]) /\ PoolsHold
        /\ Accounted(Roots, holds, free, life) /\ Roots \in SUBSET Cells
    BY <1>1, Parts
  <1>3. PICK g \in Seq(Cells) : g = List /\ Of(g) = Of(List)
    BY <1>2, ListParts
  <1>4. /\ pool' = p /\ life' = [life EXCEPT ![p] = "open"] /\ free' = [free EXCEPT ![p] = CellsOf(p)]
        /\ head' = None /\ tail' = None /\ cells' = 0 /\ next' = next /\ holds' = holds
        /\ overflow' = overflow /\ use' = use /\ life[p] = "unused" /\ pc[r].at = "idle"
    BY DEF Resize, CellsOf
  <1>5. PICK a \in Places : a = "release" /\ a \notin {"dup", "append"}
    BY DEF Places
  <1> DEFINE q == [at |-> a, event |-> None, pool |-> pool, got |-> g]
  <1>6. q \in PcRecords /\ q.at = a /\ q.got = g /\ q.pool = pool
    BY <1>2 DEF PcRecords, Types
  <1>7. pc' = [pc EXCEPT ![r] = q]
    BY <1>3, <1>5 DEF Resize, List
  <1> HIDE DEF q
  <1>8. MovedTo(r, a, g) /\ pc'[r] = q
    BY <1>1, <1>2, <1>6, <1>7, RecordChanged
  <1>9. PcHolds(pc'[r])
    BY <1>2, <1>5, <1>6, <1>8 DEF PcHolds, Types
  <1>10. List' = <<>> /\ IsList(List)'
    BY <1>4, ListEmptied
  <1>11. PICK L \in Seq(Cells) : L = <<>> /\ Of(L) = {} /\ Len(L) = 0
    BY EmptySeq, OfEmpty
  <1>12. Hand(r) = {}
    BY <1>2, <1>4, OfEmpty DEF Hand, PcHolds
  <1>13. Accounted(Roots, holds', free', life')
    BY <1>2, <1>4, PoolOpened
  <1>14. (Roots \ ((Hand(r) \cup Of(List)) \ (Of(g) \cup Of(L)))) \cup {} = Roots
    BY <1>3, <1>11, <1>12
  <1>15. \A o \in Pools : life'[o] = IF o = p THEN "open" ELSE life[o]
    BY <1>2, <1>4 DEF Types
  <1>16. PoolsHold'
    <2>1. pool \in Pools /\ life[pool] = "open" /\ pool # p
      BY <1>2, <1>4 DEF Types, PoolsHold
    <2>2. \A u \in Threads \ {r} : pc'[u] = pc[u]
      BY <1>8 DEF MovedTo
    <2>3. pc'[r].at = "release" /\ pc'[r].pool = pool
      BY <1>5, <1>6, <1>8
    <2>4. ASSUME NEW u \in Threads \ {r}, Resizing(u)
          PROVE  pc[u].pool \in Pools /\ pc[u].pool # p /\ pc[u].pool # pool
      <3>1. pc[u].pool \in Pools
        BY <2>4 DEF Inv, PlacesHold, PcHolds, Resizing
      <3>2. \/ life[pc[u].pool] = "open" /\ pc[u].pool # pool
            \/ life[pc[u].pool] = "closing"
        BY <1>2, <2>4 DEF PoolsHold, Resizing
      <3> QED
        BY <1>4, <2>1, <3>1, <3>2
    <2>5. life'[pool'] = "open"
      BY <1>4, <1>15
    <2>6. \A u \in Threads :
            /\ pc'[u].at = "release" => life'[pc'[u].pool] = "open" /\ pc'[u].pool # pool'
            /\ pc'[u].at = "done" => life'[pc'[u].pool] = "closing"
      BY <1>2, <1>4, <1>15, <2>1, <2>2, <2>3, <2>4 DEF PoolsHold, Resizing
    <2>7. \A u \in Threads \ {r} : Resizing(u)' <=> Resizing(u)
      BY <2>2 DEF Resizing
    <2>8. \A u, v \in Threads : u # v /\ Resizing(u)' /\ Resizing(v)' => pc'[u].pool # pc'[v].pool
      BY <1>2, <2>2, <2>3, <2>4, <2>7 DEF PoolsHold
    <2> QED
      BY <2>5, <2>6, <2>8 DEF PoolsHold
  <1>17. Types'
    <2>1. life' \in [Pools -> {"unused", "open", "closing"}]
      BY <1>2, <1>4 DEF Types
    <2>2. free' \in [Pools -> SUBSET Cells]
          /\ \A o \in Pools : free'[o] \subseteq {d \in Cells : d[1] = o}
      BY <1>2, <1>4 DEF Types, CellsOf
    <2> QED
      BY <1>2, <1>4, <1>8, <2>1, <2>2 DEF Types, MovedTo
  <1>18. /\ List' = L /\ {} \in SUBSET Cells /\ {} \cap Roots = {} /\ Of(g) \cap Of(L) = {}
         /\ Of(g) \cup Of(L) \subseteq Hand(r) \cup Of(List) \cup {}
         /\ {} \subseteq Of(g) \cup Of(L) /\ cells' = Len(L)
         /\ \A c \in Cells : c \notin Hand(r) \cup Of(List) \cup {} => next'[c] = next[c]
         /\ Accounted((Roots \ ((Hand(r) \cup Of(List)) \ (Of(g) \cup Of(L)))) \cup {},
                      holds', free', life')
    BY <1>3, <1>4, <1>10, <1>11, <1>12, <1>13, <1>14
  <1>19. CellsGo(r, a, g, L, {}, {})
    BY <1>5, <1>8, <1>9, <1>10, <1>16, <1>17, <1>18 DEF CellsGo
  <1> QED
    BY <1>1, <1>10, <1>19, CellsMove

\* The pool is freed when all its cells have come back.
LEMMA PoolDoneStep ==
  ASSUME Inv, GivesUp = FALSE, NEW r \in Readers, PoolDone(r)
  PROVE  Inv' /\ List' = List
  <1>1. r \in Threads
    BY DEF Threads
  <1>2. /\ Types /\ IsList(List) /\ Counted /\ PcHolds(pc[r]) /\ PoolsHold
        /\ Accounted(Roots, holds, free, life) /\ Roots \in SUBSET Cells
    BY <1>1, Parts
  <1>3. PICK p \in Pools : p = pc[r].pool /\ life[p] = "closing"
    BY <1>1, <1>2 DEF PoolDone, PcHolds, PoolsHold
  <1>4. /\ Cardinality(free[p]) = Size[p]
        /\ life' = [life EXCEPT ![p] = "unused"] /\ free' = [free EXCEPT ![p] = {}]
        /\ pc' = [pc EXCEPT ![r] = Idle] /\ pc[r].at = "done"
        /\ pool' = pool /\ head' = head /\ tail' = tail /\ cells' = cells /\ next' = next
        /\ holds' = holds /\ overflow' = overflow /\ use' = use
    BY <1>3 DEF PoolDone, list
  <1>5. Accounted(Roots, holds', free', life')
    BY <1>2, <1>4, PoolFreed
  <1>6. List' = List /\ IsList(List)'
    BY <1>2, <1>4, ListStays
  <1>7. PICK L : L = List
    OBVIOUS
  <1>8. PICK g \in Seq(Cells) : g = <<>> /\ Of(g) = {}
    BY EmptySeq, OfEmpty
  <1>9. PICK a : a = "idle" /\ a \notin {"dup", "append"}
    OBVIOUS
  <1>10. MovedTo(r, a, g)
    BY <1>1, <1>2, <1>4, <1>8, <1>9, BecameIdle
  <1>11. PcHolds(pc'[r])
    BY <1>8, <1>9, <1>10 DEF PcHolds, MovedTo
  <1>12. Hand(r) = {}
    BY <1>2, <1>4, OfEmpty DEF Hand, PcHolds
  <1>13. (Roots \ ((Hand(r) \cup Of(List)) \ (Of(g) \cup Of(L)))) \cup {} = Roots
    BY <1>7, <1>8, <1>12
  <1>14. \A o \in Pools : life'[o] = IF o = p THEN "unused" ELSE life[o]
    BY <1>2, <1>4 DEF Types
  <1>15. PoolsHold'
    <2>1. pool \in Pools /\ life[pool] = "open" /\ pool # p
      BY <1>2, <1>3 DEF Types, PoolsHold
    <2>2. pc'[r].at = "idle" /\ \A u \in Threads \ {r} : pc'[u] = pc[u]
      BY <1>9, <1>10 DEF MovedTo
    <2>3. ASSUME NEW u \in Threads, Resizing(u)'
          PROVE  /\ u # r /\ pc'[u] = pc[u] /\ Resizing(u) /\ pc[u].pool \in Pools
                 /\ pc[u].pool # p
      <3>1. u # r /\ pc'[u] = pc[u] /\ Resizing(u)
        BY <2>2, <2>3 DEF Resizing
      <3>2. pc[u].pool \in Pools
        BY <3>1 DEF Inv, PlacesHold, PcHolds, Resizing
      <3>3. pc[u].pool # p
        BY <1>1, <1>2, <1>3, <1>4, <3>1 DEF PoolsHold, Resizing
      <3> QED
        BY <3>1, <3>2, <3>3
    <2>4. life'[pool'] = "open"
      BY <1>4, <1>14, <2>1
    <2>5. \A u \in Threads : pc'[u].at \in {"release", "done"} => Resizing(u)'
      BY DEF Resizing
    <2>6. \A u \in Threads :
            /\ pc'[u].at = "release" => life'[pc'[u].pool] = "open" /\ pc'[u].pool # pool'
            /\ pc'[u].at = "done" => life'[pc'[u].pool] = "closing"
      BY <1>2, <1>4, <1>14, <2>3, <2>5 DEF PoolsHold
    <2> QED
      BY <1>2, <2>3, <2>4, <2>6 DEF PoolsHold
  <1>16. Types'
    <2>1. life' \in [Pools -> {"unused", "open", "closing"}]
      BY <1>2, <1>4 DEF Types
    <2>2. free' \in [Pools -> SUBSET Cells]
          /\ \A o \in Pools : free'[o] \subseteq {d \in Cells : d[1] = o}
      BY <1>2, <1>4 DEF Types
    <2> QED
      BY <1>2, <1>4, <1>10, <2>1, <2>2 DEF Types, MovedTo
  <1>17. Hand(r) \cap Of(List) = {}
    BY <1>12
  <1>18. /\ List' = L /\ {} \in SUBSET Cells /\ {} \cap Roots = {} /\ Of(g) \cap Of(L) = {}
         /\ Of(g) \cup Of(L) \subseteq Hand(r) \cup Of(List) \cup {}
         /\ {} \subseteq Of(g) \cup Of(L) /\ cells' = Len(L)
         /\ \A c \in Cells : c \notin Hand(r) \cup Of(List) \cup {} => next'[c] = next[c]
         /\ Accounted((Roots \ ((Hand(r) \cup Of(List)) \ (Of(g) \cup Of(L)))) \cup {},
                      holds', free', life')
    BY <1>2, <1>4, <1>5, <1>6, <1>7, <1>8, <1>12, <1>13 DEF Counted
  <1>19. CellsGo(r, a, g, L, {}, {})
    BY <1>6, <1>9, <1>10, <1>11, <1>15, <1>16, <1>18 DEF CellsGo
  <1> QED
    BY <1>1, <1>6, <1>19, CellsMove

LEMMA AllocStep ==
  ASSUME Inv, NEW s \in Senders, Alloc(s)
  PROVE  Inv'
  <1>1. s \in Threads
    BY DEF Threads
  <1>2. PICK g \in Seq(Cells) : g = pc[s].got
    BY <1>1, PlaceOf
  <1>3. PICK n \in Nat : n = Len(g)
    BY LenProperties
  <1>4. n <= 1
    BY <1>1, <1>2, <1>3, Parts DEF PcHolds, Alloc
  <1>5. n = 0 \/ n = 1
    BY <1>4
  <1>6. CASE n = 0
    <2>1. g = <<>>
      BY <1>3, <1>6, EmptySeq
    <2> QED
      BY <1>2, <2>1, FirstCellStep
  <1>7. CASE n = 1
    BY <1>2, <1>3, <1>7, SecondCellStep
  <1> QED
    BY <1>5, <1>6, <1>7

LEMMA InvInit == Init => Inv
  <1> SUFFICES ASSUME Init
               PROVE  Inv
    OBVIOUS
  <1>1. PICK p \in Pools :
          /\ pool = p
          /\ life = [q \in Pools |-> IF q = p THEN "open" ELSE "unused"]
          /\ free = [q \in Pools |-> IF q = p THEN {c \in Cells : c[1] = p} ELSE {}]
    BY DEF Init
  <1>2. /\ head = None /\ tail = None /\ cells = 0 /\ overflow = FALSE /\ use = {}
        /\ next = [c \in Cells |-> None] /\ holds = [c \in Cells |-> Blank]
        /\ \A t \in Threads : pc[t] = Idle
        /\ pc = [t \in Threads |-> Idle]
    BY DEF Init
  <1>3. PICK s \in Seq(Cells) : s = <<>> /\ Len(s) = 0 /\ Of(s) = {}
    BY EmptySeq, OfEmpty
  <1>4. IsList(s)
    BY <1>2, <1>3 DEF IsList
  <1>5. List = s /\ IsList(List) /\ Counted
    <2>1. List = s
      BY <1>4, ListIs
    <2> QED
      BY <1>2, <1>3, <1>4, <2>1 DEF Counted
  <1>6. \A t \in Threads : Hand(t) = {}
    BY <1>2, <1>3, IdleRecord DEF Hand
  <1>7. Roots = {} /\ Apart
    BY <1>3, <1>5, <1>6 DEF Roots, Hands, Apart
  <1>8. Types
    <2>1. Blank \in [event : Events \cup {None}, more : SUBSET Cells]
      BY DEF Blank
    <2>2. next \in [Cells -> Cells \cup {None}]
      BY <1>2
    <2>3. pc \in [Threads -> PcRecords]
      BY <1>2, IdleRecord
    <2>4. holds \in [Cells -> [event : Events \cup {None}, more : SUBSET Cells]]
      BY <1>2, <2>1
    <2>5. pool \in Pools /\ cells \in Int /\ overflow \in BOOLEAN /\ use \subseteq Threads
      <3>1. pool \in Pools /\ cells \in Int
        BY <1>1, <1>2
      <3>2. overflow \in BOOLEAN /\ use \subseteq Threads
        BY <1>2
      <3> QED
        BY <3>1, <3>2
    <2>6. life \in [Pools -> {"unused", "open", "closing"}]
      BY <1>1
    <2>7. \A q \in Pools : free[q] \subseteq {c \in Cells : c[1] = q}
      BY <1>1
    <2>8. free \in [Pools -> SUBSET Cells]
      <3>1. free = [q \in Pools |-> free[q]]
        BY <1>1
      <3>2. \A q \in Pools : free[q] \in SUBSET Cells
        BY <2>7
      <3> QED
        BY <3>1, <3>2
    <2> QED
      BY <2>2, <2>3, <2>4, <2>5, <2>6, <2>7, <2>8 DEF Types
  <1>9. Accounted(Roots, holds, free, life)
    <2>1. \A c \in Cells : holds[c].more = {}
      BY <1>2 DEF Blank
    <2>2. ChainedIn(holds) = {}
      BY <2>1 DEF ChainedIn
    <2>3. \A c \in Cells : c \in free[c[1]] <=> life[c[1]] # "unused"
      BY <1>1, PoolOfCell
    <2> QED
      BY <1>7, <2>1, <2>2, <2>3 DEF Accounted
  <1>10. PlacesHold /\ NewIsLast
    <2>1. PcHolds(Idle)
      BY IdleRecord DEF PcHolds
    <2> QED
      BY <1>2, <1>6, <2>1 DEF PlacesHold, NewIsLast
  <1>11. PoolsHold
    BY <1>1, <1>2, IdleRecord DEF PoolsHold, Resizing
  <1> QED
    BY <1>5, <1>7, <1>8, <1>9, <1>10, <1>11 DEF Inv

LEMMA InvStays ==
  ASSUME Inv, UNCHANGED vars
  PROVE  Inv' /\ List' = List
  <1>1. /\ pool' = pool /\ head' = head /\ tail' = tail /\ cells' = cells /\ next' = next
        /\ holds' = holds /\ free' = free /\ life' = life /\ overflow' = overflow
        /\ use' = use /\ pc' = pc
    BY DEF vars, list, pools
  <1>2. List' = List /\ IsList(List)'
    BY <1>1, ListStays DEF Inv
  <1>3. (\A t \in Threads : Hand(t)' = Hand(t)) /\ Hands' = Hands /\ Of(List)' = Of(List)
    BY <1>1, <1>2 DEF Hand, Hands, Of
  <1>4. Roots' = Roots
    BY <1>3 DEF Roots
  <1>5. Accounted(Roots, holds, free, life)'
    <2>1. Accounted(Roots', holds', free', life')
      BY <1>1, <1>4 DEF Inv
    <2> QED
      BY <2>1 DEF Accounted, ChainedIn
  <1>6. Types' /\ Counted' /\ PlacesHold' /\ PoolsHold'
    BY <1>1, <1>2 DEF Inv, Types, Counted, PlacesHold, PcHolds, PoolsHold, Resizing
  <1>7. Apart' /\ NewIsLast'
    BY <1>1, <1>3 DEF Inv, Apart, NewIsLast
  <1> QED
    BY <1>2, <1>5, <1>6, <1>7 DEF Inv

LEMMA InvNext ==
  ASSUME Inv, PutsBack # "any time", GivesUp = FALSE, [Next]_vars
  PROVE  Inv'
  <1>1. ASSUME NEW s \in Senders, Sends(s)
        PROVE  Inv'
    BY <1>1, SendStep, AllocStep, AllocFailsStep, LostStep, EnqueueStep, WakeStep DEF Sends
  <1>2. ASSUME NEW r \in Readers, Reads(r)
        PROVE  Inv'
    BY <1>2, ReadStep, TakeStep, EmptyStep, InterruptedStep, PutBackStep, CopiedStep DEF Reads
  <1>3. ASSUME NEW r \in Readers, Manages(r)
        PROVE  Inv'
    BY <1>3, ClearStep, DrainStep, ReleaseStep, PoolDoneStep, ResizeStep DEF Manages
  <1>4. CASE UNCHANGED vars
    BY <1>4, InvStays
  <1> QED
    BY <1>1, <1>2, <1>3, <1>4 DEF Next

LEMMA Invariance ==
  ASSUME PutsBack # "any time", GivesUp = FALSE
  PROVE  Spec => []Inv
  <1>1. Inv /\ [Next]_vars => Inv'
    BY InvNext
  <1> QED
    BY <1>1, InvInit, PTL DEF Spec

(***************************************************************************)
(* The theorems.                                                           *)
(***************************************************************************)
LEMMA InvImpliesTypeOK == Inv => TypeOK
  <1> SUFFICES ASSUME Inv
               PROVE  TypeOK
    OBVIOUS
  <1>1. Types /\ IsList(List) /\ Counted
    BY DEF Inv
  <1>2. PICK s \in Seq(Cells) : s = List /\ Once(s) /\ Len(s) \in Nat
    BY <1>1, ListParts
  <1>3. cells \in 0..Cardinality(Cells)
    <2>1. Len(s) <= Cardinality(Cells)
      BY <1>2, LengthIsCardinality
    <2> QED
      BY <1>1, <1>2, <2>1, CellsAreFinite DEF Counted
  <1>4. head \in Cells \cup {None}
    BY <1>1, HeadIsCell
  <1>5. tail \in Cells \cup {None}
    <2>1. /\ tail = IF s = <<>> THEN None ELSE s[Len(s)]
          /\ \A i \in 1..Len(s) : s[i] \in Cells
          /\ s = <<>> <=> Len(s) = 0
      BY <1>1, <1>2, ListParts
    <2> QED
      BY <1>2, <2>1
  <1> QED
    BY <1>1, <1>3, <1>4, <1>5 DEF TypeOK, Types, PcRecords

LEMMA InvImpliesLinked == Inv => Linked
  <1> SUFFICES ASSUME Inv
               PROVE  Linked
    OBVIOUS
  <1>1. IsList(List) /\ Counted
    BY DEF Inv
  <1> QED
    BY <1>1, ListParts DEF Linked, Counted, List, Last

LEMMA InvImpliesCellsAccounted == Inv => CellsAccounted
  <1> SUFFICES ASSUME Inv, NEW p \in Pools
               PROVE  /\ life[p] # "unused" =>
                            {c \in Cells : c[1] = p} = free[p] \cup Listed(p) \cup InHands(p)
                      /\ life[p] = "unused" => Listed(p) \cup InHands(p) = {}
                      /\ free[p] \cap (Listed(p) \cup InHands(p)) = {}
                      /\ Listed(p) \cap InHands(p) = {}
    BY DEF CellsAccounted
  <1>1. Types /\ IsList(List) /\ Apart /\ Accounted(Roots, holds, free, life)
    BY DEF Inv
  <1>2. ToSet(Chain(head)) = Of(List) /\ Of(List) \subseteq Cells
    BY <1>1, ListParts, ToSetIsOf DEF List
  <1>3. ASSUME NEW t \in Threads
        PROVE  ToSet(pc[t].got) = Hand(t) /\ Hand(t) \subseteq Cells
    BY <1>1, PcFields, ToSetIsOf DEF Hand
  <1>4. UNION {ToSet(pc[t].got) : t \in Threads} = Hands /\ Hands \subseteq Cells
    BY <1>3 DEF Hands
  <1>5. \A c : /\ c \in Listed(p) <=> c \in WithMore(Of(List)) /\ c[1] = p
               /\ c \in InHands(p) <=> c \in WithMore(Hands) /\ c[1] = p
    BY <1>2, <1>4 DEF Listed, InHands
  <1>6. \A c : /\ c \in WithMore(Of(List)) <=>
                     c \in Of(List) \/ \E d \in Of(List) : c \in holds[d].more
               /\ c \in WithMore(Hands) <=> c \in Hands \/ \E d \in Hands : c \in holds[d].more
    BY DEF WithMore
  <1>7. Of(List) \cap Hands = {}
    BY <1>1 DEF Apart, Hands
  <1>8. \A c : c \in Roots <=> c \in Of(List) \/ c \in Hands
    BY DEF Roots
  <1>9. \A c : c \in ChainedIn(holds) <=> \E d \in Cells : c \in holds[d].more
    BY DEF ChainedIn
  <1>10. /\ \A c \in Cells : holds[c].more # {} => c \in Roots
         /\ \A c \in Cells : holds[c].more \cap Roots = {}
         /\ \A c, d \in Cells : c # d => holds[c].more \cap holds[d].more = {}
         /\ free[p] \cap (Roots \cup ChainedIn(holds)) = {}
         /\ \A c \in Cells : c \in Roots \cup ChainedIn(holds) \cup free[c[1]]
                               <=> life[c[1]] # "unused"
    BY <1>1 DEF Accounted
  <1>11. \A d \in Cells : holds[d].more \subseteq Cells
    BY <1>1 DEF Types
  <1>12. \A c : c \in WithMore(Of(List)) \cup WithMore(Hands) <=> c \in Roots \cup ChainedIn(holds)
    BY <1>2, <1>4, <1>6, <1>8, <1>9, <1>10
  <1>13. WithMore(Of(List)) \cap WithMore(Hands) = {}
    BY <1>2, <1>4, <1>6, <1>7, <1>8, <1>10
  <1>14. \A c : c \in Roots \cup ChainedIn(holds) => c \in Cells
    BY <1>2, <1>4, <1>8, <1>9, <1>11
  <1>15. \A c \in free[p] : c \in Cells /\ c[1] = p
    BY <1>1 DEF Types
  <1>16. \A c : c \in Listed(p) \cup InHands(p) <=> c \in Roots \cup ChainedIn(holds) /\ c[1] = p
    BY <1>5, <1>12
  <1>17. free[p] \cap (Listed(p) \cup InHands(p)) = {} /\ Listed(p) \cap InHands(p) = {}
    BY <1>5, <1>10, <1>13, <1>16
  <1>18. ASSUME life[p] = "unused"
         PROVE  Listed(p) \cup InHands(p) = {}
    BY <1>10, <1>14, <1>16, <1>18
  <1>19. ASSUME life[p] # "unused", NEW c
         PROVE  c \in {d \in Cells : d[1] = p} <=> c \in free[p] \cup Listed(p) \cup InHands(p)
    BY <1>10, <1>14, <1>15, <1>16, <1>19
  <1> QED
    BY <1>17, <1>18, <1>19

\* Type correctness: the types of the variables; the counter of the list never goes
\* below zero or above the number of cells.
THEOREM TypeCorrect ==
  ASSUME PutsBack # "any time", GivesUp = FALSE
  PROVE  Spec => []TypeOK
  BY Invariance, InvImpliesTypeOK, PTL

\* The tail is the last cell that is reached from the head, and f->cells counts the
\* list, when snd_seq_fifo_cell_putback never meets an empty list.
THEOREM ListIsWhole ==
  ASSUME PutsBack # "any time", GivesUp = FALSE
  PROVE  Spec => []Linked
  BY Invariance, InvImpliesLinked, PTL

\* Every cell of a pool in use is free, in the list or in one hand, and none of a pool
\* that snd_seq_pool_done has freed is anywhere: for any number of threads, pools and
\* cells, with resizing at any time.
THEOREM NoCellIsLost ==
  ASSUME PutsBack # "any time", GivesUp = FALSE
  PROVE  Spec => []CellsAccounted
  BY Invariance, InvImpliesCellsAccounted, PTL

(***************************************************************************)
(* No reader sleeps over an event.                                         *)
(***************************************************************************)
LEMMA NobodyFallsAsleep ==
  ASSUME NoReaderMissed, Types, NEW t \in Threads, NEW a, NEW g, MovedTo(t, a, g),
         pc[t].at # "wake", a = "asleep" => head' = None,
         head' # None => head # None \/ (a = "wake" /\ t \in Senders)
  PROVE  NoReaderMissed'
  <1> SUFFICES ASSUME NEW r \in Readers, pc'[r].at = "asleep", head' # None
               PROVE  \E s \in Senders : pc'[s].at = "wake"
    BY DEF NoReaderMissed
  <1>1. pc'[t].at = a /\ \A u \in Threads \ {t} : pc'[u] = pc[u]
    BY DEF MovedTo
  <1>2. r # t /\ pc[r].at = "asleep"
    BY <1>1 DEF Threads
  <1>3. CASE head # None
    <2>1. PICK s \in Senders : pc[s].at = "wake"
      BY <1>2, <1>3 DEF NoReaderMissed
    <2>2. pc'[s].at = "wake"
      BY <1>1, <2>1 DEF Threads
    <2> QED
      BY <2>2
  <1>4. CASE a = "wake" /\ t \in Senders
    BY <1>1, <1>4
  <1> QED
    BY <1>3, <1>4

LEMMA PlaceNames ==
  /\ "clear" \in Places /\ "take" \in Places /\ "asleep" \in Places /\ "copy" \in Places
  /\ "again" \in Places /\ "idle" \in Places /\ "release" \in Places /\ "done" \in Places
  /\ "append" \in Places /\ "dup" \in Places /\ "refused" \in Places /\ "full" \in Places
  /\ "wake" \in Places /\ <<>> \in Seq(Cells)
  BY EmptySeq DEF Places

\* Where a sender goes, other than when it wakes the readers.
LEMMA SenderMoves ==
  ASSUME Inv, NEW s \in Senders, Sends(s)
  PROVE  \/ Wake(s)
         \/ /\ pc[s].at \in {"idle", "dup", "refused", "full", "append"}
            /\ \E a \in {"refused", "dup", "full", "append", "idle", "wake"} : \E g :
                  MovedTo(s, a, g) /\ (a = "wake" \/ head' = head)
  <1>1. s \in Threads
    BY DEF Threads
  <1>2. Types /\ PcHolds(pc[s]) /\ pool \in Pools
    BY <1>1, PlaceOf DEF Types
  <1> DEFINE Goal == /\ pc[s].at \in {"idle", "dup", "refused", "full", "append"}
                     /\ \E a \in {"refused", "dup", "full", "append", "idle", "wake"} : \E g :
                           MovedTo(s, a, g) /\ (a = "wake" \/ head' = head)
  <1>3. ASSUME NEW e \in Events, Send(s, e)
        PROVE  Goal
    <2>1. PICK a \in {"refused", "dup"} : a = IF More(e) >= Size[pool] THEN "refused" ELSE "dup"
      OBVIOUS
    <2> DEFINE q == [at |-> a, event |-> e, pool |-> pool, got |-> <<>>]
    <2>2. q \in PcRecords /\ q.at = a
      BY <1>2, <2>1, EmptySeq DEF PcRecords, Places
    <2>3. pc' = [pc EXCEPT ![s] = q]
      BY <1>3, <2>1 DEF Send
    <2> HIDE DEF q
    <2>4. MovedTo(s, a, q.got)
      BY <1>1, <1>2, <2>2, <2>3, RecordChanged
    <2>5. pc[s].at = "idle" /\ head' = head
      BY <1>3 DEF Send, list
    <2> QED
      BY <2>4, <2>5
  <1>4. CASE Alloc(s)
    <2>1. pc[s].at = "dup" /\ head' = head
      BY <1>4 DEF Alloc
    <2>2. PICK c \in free[pc[s].pool] :
            \/ pc' = [pc EXCEPT ![s].got = <<c>>,
                                ![s].at = IF More(pc[s].event) = 0 THEN "append" ELSE "dup"]
            \/ Goes(s, "append")
      BY <1>4 DEF Alloc
    <2>3. PICK a \in {"append", "dup"} : a = IF More(pc[s].event) = 0 THEN "append" ELSE "dup"
      OBVIOUS
    <2>4. a \in Places
      BY <2>3, PlaceNames
    <2>5. CASE pc' = [pc EXCEPT ![s].got = <<c>>, ![s].at = a]
      <3>1. pc[s].pool \in Pools
        BY <1>2, <1>4 DEF Alloc, PcHolds
      <3>2. c \in Cells
        BY <1>2, <2>2, <3>1 DEF Types
      <3>3. <<c>> \in Seq(Cells)
        BY <3>2, OneCell
      <3>4. MovedTo(s, a, <<c>>)
        BY <1>1, <1>2, <2>4, <2>5, <3>3, HandChanged
      <3> QED
        BY <2>1, <2>3, <3>4
    <2>6. CASE Goes(s, "append")
      <3>1. MovedTo(s, "append", pc[s].got)
        BY <1>1, <1>2, <2>6, PlaceNames, PlaceChanged
      <3> QED
        BY <2>1, <3>1
    <2> QED
      BY <2>2, <2>3, <2>5, <2>6
  <1>5. CASE AllocFails(s)
    <2>1. pc[s].at = "dup" /\ head' = head
      BY <1>5 DEF AllocFails, list
    <2>2. PICK a \in {"refused", "full"} : Goes(s, a)
      BY <1>5 DEF AllocFails
    <2>3. MovedTo(s, a, pc[s].got)
      BY <1>1, <1>2, <2>2, PlaceNames, PlaceChanged
    <2> QED
      BY <2>1, <2>2, <2>3
  <1>6. CASE Lost(s)
    <2>1. pc[s].at \in {"refused", "full"} /\ head' = head
      BY <1>6 DEF Lost
    <2>2. MovedTo(s, "idle", <<>>)
      BY <1>1, <1>2, <1>6, BecameIdle DEF Lost, Leaves
    <2> QED
      BY <2>1, <2>2
  <1>7. CASE Enqueue(s)
    <2>1. pc[s].at = "append" /\ pc' = [pc EXCEPT ![s].at = "wake", ![s].got = <<>>]
      BY <1>7 DEF Enqueue
    <2>2. MovedTo(s, "wake", <<>>)
      BY <1>1, <1>2, <2>1, PlaceNames, HandChanged
    <2> QED
      BY <2>1, <2>2
  <1> QED
    BY <1>3, <1>4, <1>5, <1>6, <1>7 DEF Sends

LEMMA TakeMoves ==
  ASSUME Inv, NEW r \in Readers, Take(r)
  PROVE  MovedTo(r, "copy", <<head>>)
  <1>1. pc' = [pc EXCEPT ![r].at = "copy", ![r].got = <<head>>] /\ r \in Threads
    BY DEF Take, CellOut, Threads
  <1>2. Types /\ head \in Cells
    BY HeadIsCell DEF Inv, Take, CellOut
  <1>3. <<head>> \in Seq(Cells)
    BY <1>2, OneCell
  <1> QED
    BY <1>1, <1>2, <1>3, PlaceNames, HandChanged

\* Where a reader goes, other than when it takes an event.
LEMMA ReaderMoves ==
  ASSUME Inv, NEW r \in Readers, Reads(r) \/ Manages(r)
  PROVE  /\ pc[r].at # "wake"
         /\ \/ Take(r)
            \/ /\ PutBack(r) \/ head' = head \/ head' = None
               /\ \E a \in {"clear", "take", "idle", "asleep", "again", "done", "release"} : \E g :
                     MovedTo(r, a, g) /\ (a = "asleep" => Empty(r))
  <1>1. r \in Threads
    BY DEF Threads
  <1>2. Types /\ PcHolds(pc[r]) /\ IsList(List)
    BY <1>1, Parts
  <1> DEFINE Goal ==
        /\ pc[r].at # "wake"
        /\ \/ Take(r)
           \/ /\ PutBack(r) \/ head' = head \/ head' = None
              /\ \E a \in {"clear", "take", "idle", "asleep", "again", "done", "release"} : \E g :
                    MovedTo(r, a, g) /\ (a = "asleep" => Empty(r))
  <1>3. CASE Read(r) \/ Clear(r) \/ Drain(r)
    <2>1. PICK a \in {"clear", "take", "idle"} : Goes(r, a)
      BY <1>3 DEF Read, Clear, Drain
    <2>2. MovedTo(r, a, pc[r].got)
      BY <1>1, <1>2, <2>1, PlaceNames, PlaceChanged
    <2>3. pc[r].at # "wake" /\ (head' = head \/ head' = None)
      BY <1>3 DEF Read, Clear, Drain, list
    <2>4. a # "asleep"
      BY <2>1
    <2> QED
      BY <2>1, <2>2, <2>3, <2>4
  <1>4. CASE Take(r)
    BY <1>4 DEF Take
  <1>5. CASE Empty(r)
    <2>1. pc[r].at # "wake" /\ head' = head
      BY <1>5 DEF Empty, list
    <2>2. CASE Goes(r, "asleep")
      <3>1. MovedTo(r, "asleep", pc[r].got)
        BY <1>1, <1>2, <2>2, PlaceNames, PlaceChanged
      <3> QED
        BY <1>5, <2>1, <3>1
    <2>3. CASE Leaves(r)
      <3>1. MovedTo(r, "idle", <<>>)
        BY <1>1, <1>2, <2>3, BecameIdle DEF Leaves
      <3> QED
        BY <1>5, <2>1, <3>1
    <2> QED
      BY <1>5, <2>2, <2>3 DEF Empty
  <1>6. CASE Interrupted(r) \/ PutBack(r) \/ PoolDone(r)
    <2>1. MovedTo(r, "idle", <<>>)
      BY <1>1, <1>2, <1>6, BecameIdle DEF Interrupted, PutBack, PoolDone, Leaves
    <2>2. pc[r].at # "wake" /\ (PutBack(r) \/ head' = head)
      BY <1>6 DEF Interrupted, PutBack, PoolDone, list
    <2>3. "idle" # "asleep"
      OBVIOUS
    <2> QED
      BY <2>1, <2>2, <2>3
  <1>7. ASSUME NEW again \in BOOLEAN, Copied(r, again)
        PROVE  Goal
    <2>1. pc[r].at # "wake" /\ head' = head
      BY <1>7 DEF Copied
    <2>2. PICK a \in {"again", "idle"} : MovedTo(r, a, <<>>)
      <3>1. CASE again
        <4>1. pc' = [pc EXCEPT ![r].at = "again", ![r].got = <<>>]
          BY <1>7, <3>1 DEF Copied
        <4> QED
          BY <1>1, <1>2, <4>1, PlaceNames, HandChanged
      <3>2. CASE ~again
        BY <1>1, <1>2, <1>7, <3>2, BecameIdle DEF Copied, Leaves
      <3> QED
        BY <3>1, <3>2
    <2>3. a # "asleep"
      BY <2>2
    <2> QED
      BY <2>1, <2>2, <2>3
  <1>8. CASE ReleaseCells(r)
    <2>1. pc' = [pc EXCEPT ![r].at = "done", ![r].got = <<>>]
      BY <1>8 DEF ReleaseCells
    <2>2. MovedTo(r, "done", <<>>)
      BY <1>1, <1>2, <2>1, PlaceNames, HandChanged
    <2>3. pc[r].at # "wake" /\ head' = head /\ "done" # "asleep"
      BY <1>8 DEF ReleaseCells
    <2> QED
      BY <2>2, <2>3
  <1>9. ASSUME NEW p \in Pools, Resize(r, p)
        PROVE  Goal
    <2> DEFINE q == [at |-> "release", event |-> None, pool |-> pool, got |-> Chain(head)]
    <2>1. q \in PcRecords /\ q.at = "release"
      BY <1>2, PlaceNames, ListParts DEF PcRecords, Types, List
    <2>2. pc' = [pc EXCEPT ![r] = q] /\ head' = None /\ pc[r].at # "wake"
      BY <1>9 DEF Resize
    <2> HIDE DEF q
    <2>3. MovedTo(r, "release", q.got)
      BY <1>1, <1>2, <2>1, <2>2, RecordChanged
    <2>4. "release" # "asleep"
      OBVIOUS
    <2> QED
      BY <2>2, <2>3, <2>4
  <1> HIDE DEF Goal
  <1>10. Goal
    BY <1>3, <1>4, <1>5, <1>6, <1>7, <1>8, <1>9 DEF Reads, Manages, Goal
  <1> QED
    BY <1>10 DEF Goal

LEMMA ReaderNextOfSenders ==
  ASSUME Inv, NoReaderMissed, NEW s \in Senders, Sends(s)
  PROVE  NoReaderMissed'
  <1>1. s \in Threads /\ Types
    BY DEF Threads, Inv
  <1>2. CASE Wake(s)
    <2>1. ASSUME NEW r \in Readers
          PROVE  pc'[r].at # "asleep"
      <3>1. r \in Threads /\ pc[r] \in PcRecords
        BY <1>1, PcFields DEF Threads
      <3>2. CASE r = s
        BY <1>2, <3>1, <3>2, IdleRecord DEF Wake
      <3>3. CASE r # s /\ pc[r].at = "asleep"
        <4> DEFINE q == [pc[r] EXCEPT !.at = "take"]
        <4>1. pc'[r] = q
          BY <1>2, <3>1, <3>3 DEF Wake
        <4>2. q.at = "take"
          BY <3>1 DEF PcRecords
        <4> HIDE DEF q
        <4> QED
          BY <4>1, <4>2
      <3>4. CASE r # s /\ pc[r].at # "asleep"
        BY <1>2, <3>1, <3>4 DEF Wake
      <3> QED
        BY <3>2, <3>3, <3>4
    <2> QED
      BY <2>1 DEF NoReaderMissed
  <1>3. CASE ~Wake(s)
    <2>1. PICK a, g : /\ a \in {"refused", "dup", "full", "append", "idle", "wake"}
                     /\ MovedTo(s, a, g) /\ (a = "wake" \/ head' = head)
      BY <1>3, SenderMoves
    <2>2. pc[s].at # "wake" /\ a # "asleep"
      BY <1>3, <2>1, SenderMoves
    <2> QED
      BY <1>1, <2>1, <2>2, NobodyFallsAsleep
  <1> QED
    BY <1>2, <1>3

LEMMA ReaderNextOfReaders ==
  ASSUME Inv, NoReaderMissed, PutsBack # "any time", NEW r \in Readers, Reads(r) \/ Manages(r)
  PROVE  NoReaderMissed'
  <1>1. r \in Threads /\ Types /\ pc[r].at # "wake"
    BY ReaderMoves DEF Threads, Inv
  <1>2. CASE Take(r)
    <2>1. PICK a, g : MovedTo(r, a, g) /\ a = "copy"
      BY <1>2, TakeMoves
    <2>2. head # None /\ a # "asleep"
      BY <1>2, <2>1 DEF Take, CellOut
    <2> QED
      BY <1>1, <2>1, <2>2, NobodyFallsAsleep
  <1>3. CASE ~Take(r)
    <2>1. /\ PutBack(r) \/ head' = head \/ head' = None
          /\ \E a \in {"clear", "take", "idle", "asleep", "again", "done", "release"} : \E g :
                MovedTo(r, a, g) /\ (a = "asleep" => Empty(r))
      BY <1>3, ReaderMoves
    <2>2. PICK a, g : MovedTo(r, a, g) /\ (a = "asleep" => Empty(r))
      BY <2>1
    <2>3. head' # None => head # None
      BY <2>1 DEF PutBack
    <2>4. a = "asleep" => head' = None
      BY <2>2 DEF Empty, list
    <2> QED
      BY <1>1, <2>2, <2>3, <2>4, NobodyFallsAsleep
  <1> QED
    BY <1>2, <1>3

\* A reader that sleeps while there is an event is about to be woken: input_sleep is
\* looked at after the event is in the list, and nothing but an event from a sender
\* makes an empty list one that is not.
THEOREM NoReaderIsMissed ==
  ASSUME PutsBack # "any time", GivesUp = FALSE
  PROVE  Spec => []NoReaderMissed
  <1>1. Init => NoReaderMissed
    BY DEF Init, NoReaderMissed
  <1>2. ASSUME Inv, NoReaderMissed, [Next]_vars
        PROVE  NoReaderMissed'
    <2>1. CASE UNCHANGED vars
      BY <1>2, <2>1 DEF vars, list, NoReaderMissed
    <2> QED
      BY <1>2, <2>1, ReaderNextOfSenders, ReaderNextOfReaders DEF Next
  <1>3. Inv /\ NoReaderMissed /\ [Next]_vars => NoReaderMissed'
    BY <1>2
  <1>4. Spec => []Inv
    BY Invariance
  <1> QED
    BY <1>1, <1>3, <1>4, PTL DEF Spec

(***************************************************************************)
(* The FIFO is a queue.                                                    *)
(***************************************************************************)
\* The event that reader r is looking at.
Looking(r) == IF pc[r].at = "copy" THEN holds[pc[r].got[1]].event ELSE None

LookingAt == [r \in Readers |-> Looking(r)]

\* A freed cell is none of those that stay.
LEMMA EventsStay ==
  ASSUME Types, NEW R \in SUBSET Cells, Accounted(R, holds, free, life),
         NEW cs \in SUBSET R, Frees(cs)
  PROVE  \A c \in R \ cs : holds'[c] = holds[c]
  <1> SUFFICES ASSUME NEW c \in R \ cs
               PROVE  holds'[c] = holds[c]
    OBVIOUS
  <1>1. \A d \in cs : c \notin holds[d].more
    BY DEF Accounted
  <1>2. c \notin WithMore(cs)
    BY <1>1 DEF WithMore
  <1> QED
    BY <1>2 DEF Frees

LEMMA WaitingStays ==
  ASSUME IsList(List), List' = List, \A c \in Of(List) : holds'[c].event = holds[c].event
  PROVE  Waiting' = Waiting
  BY DEF Waiting, Of, List

\* The events in the hands of the others are what they were.
OthersKeep(t) == \A u \in Threads \ {t} : \A c \in Hand(u) : holds'[c].event = holds[c].event

LEMMA LookingMoves ==
  ASSUME Inv, NEW t \in Threads, NEW a, NEW g, MovedTo(t, a, g), OthersKeep(t)
  PROVE  LookingAt' = [r \in Readers |-> IF r = t THEN IF a = "copy" THEN holds'[g[1]].event ELSE None
                                         ELSE Looking(r)]
  <1>1. pc'[t].at = a /\ pc'[t].got = g /\ \A u \in Threads \ {t} : pc'[u] = pc[u]
    BY DEF MovedTo
  <1>2. ASSUME NEW r \in Readers, r # t, pc[r].at = "copy"
        PROVE  pc[r].got[1] \in Hand(r)
    <2>1. r \in Threads
      BY DEF Threads
    <2> QED
      BY <1>2, <2>1, CellInHand
  <1>3. ASSUME NEW r \in Readers
        PROVE  (IF pc'[r].at = "copy" THEN holds'[pc'[r].got[1]].event ELSE None)
                 = IF r = t THEN IF a = "copy" THEN holds'[g[1]].event ELSE None ELSE Looking(r)
    <2>1. CASE r = t
      BY <1>1, <2>1
    <2>2. CASE r # t
      <3>1. pc'[r] = pc[r] /\ r \in Threads \ {t}
        BY <1>1, <2>2 DEF Threads
      <3>2. pc[r].at = "copy" => holds'[pc[r].got[1]].event = holds[pc[r].got[1]].event
        BY <1>2, <2>2, <3>1 DEF OthersKeep
      <3> QED
        BY <2>2, <3>1, <3>2 DEF Looking
    <2> QED
      BY <2>1, <2>2
  <1>4. LookingAt' = [r \in Readers |->
                        IF pc'[r].at = "copy" THEN holds'[pc'[r].got[1]].event ELSE None]
    BY DEF LookingAt, Looking
  <1> QED
    BY <1>3, <1>4

\* A thread that neither looks at an event nor begins to.
LEMMA LookingStays ==
  ASSUME Inv, NEW t \in Threads, NEW a, NEW g, MovedTo(t, a, g), OthersKeep(t),
         pc[t].at # "copy", a # "copy"
  PROVE  LookingAt' = LookingAt
  <1>1. LookingAt' = [r \in Readers |-> IF r = t THEN None ELSE Looking(r)]
    BY LookingMoves
  <1>2. \A r \in Readers : r = t => Looking(r) = None
    BY DEF Looking
  <1> QED
    BY <1>1, <1>2 DEF LookingAt

\* What the parts say of the cells in the list and in the other hands.
LEMMA ElsewhereIsApart ==
  ASSUME Inv, NEW t \in Threads
  PROVE  /\ \A u \in Threads \ {t} : Hand(u) \subseteq Roots \ Hand(t) /\ Hand(u) \cap Of(List) = {}
         /\ Of(List) \subseteq Roots \ Hand(t)
  BY DEF Inv, Apart, Roots, Hands

LEMMA HandFreedKeeps ==
  ASSUME Inv, NEW t \in Threads, Frees(ToSet(pc[t].got)), head' = head, tail' = tail, next' = next
  PROVE  Waiting' = Waiting /\ OthersKeep(t)
  <1>1. /\ Types /\ IsList(List)
        /\ Accounted(Roots, holds, free, life) /\ Roots \in SUBSET Cells
    BY Parts
  <1>2. PICK cs \in SUBSET Roots : cs = Hand(t) /\ Frees(cs)
    BY PlaceOf, ToSetIsOf DEF Hand
  <1>3. \A c \in Roots \ cs : holds'[c] = holds[c]
    BY <1>1, <1>2, EventsStay
  <1>4. List' = List
    BY <1>1, ListStays
  <1>5. \A c \in Of(List) : holds'[c].event = holds[c].event
    BY <1>2, <1>3, ElsewhereIsApart
  <1>6. OthersKeep(t)
    BY <1>2, <1>3, ElsewhereIsApart DEF OthersKeep
  <1> QED
    BY <1>1, <1>4, <1>5, <1>6, WaitingStays

\* Where the cells keep what they hold.
LEMMA SameCellsKeep ==
  ASSUME Inv, NEW t \in Threads, holds' = holds
  PROVE  OthersKeep(t) /\ (List' = List => Waiting' = Waiting)
  <1>1. IsList(List)
    BY DEF Inv
  <1> QED
    BY <1>1, WaitingStays DEF OthersKeep

LEMMA AllocKeeps ==
  ASSUME Inv, NEW s \in Senders, Alloc(s)
  PROVE  Waiting' = Waiting /\ OthersKeep(s)
  <1>1. s \in Threads
    BY DEF Threads
  <1>2. Types /\ IsList(List) /\ PcHolds(pc[s]) /\ Roots \in SUBSET Cells
    BY <1>1, Parts
  <1>3. PICK p \in Pools : p = pc[s].pool
    BY <1>2 DEF Alloc, PcHolds
  <1>4. PICK c \in free[p] :
          /\ next' = [next EXCEPT ![c] = None]
          /\ \/ holds' = [holds EXCEPT ![c] = [event |-> pc[s].event, more |-> {}]]
             \/ holds' = [holds EXCEPT ![pc[s].got[1]].more = @ \cup {c}]
    BY <1>3 DEF Alloc
  <1>5. c \in Cells /\ c \notin Roots
    BY <1>4, FreeCell
  <1>6. ASSUME NEW d \in Roots
        PROVE  holds'[d].event = holds[d].event /\ next'[d] = next[d]
    <2>1. d # c /\ d \in Cells /\ next'[d] = next[d]
      BY <1>2, <1>4, <1>5 DEF Types
    <2>2. CASE holds' = [holds EXCEPT ![c] = [event |-> pc[s].event, more |-> {}]]
      BY <1>2, <2>1, <2>2 DEF Types
    <2>3. CASE holds' = [holds EXCEPT ![pc[s].got[1]].more = @ \cup {c}]
      BY <1>2, <2>1, <2>3 DEF Types
    <2> QED
      BY <1>4, <2>1, <2>2, <2>3
  <1>7. List' = List
    <2>1. \A d \in Of(List) : next'[d] = next[d]
      BY <1>6 DEF Roots
    <2> QED
      BY <1>2, <2>1, ListStays DEF Alloc
  <1>8. \A d \in Of(List) : holds'[d].event = holds[d].event
    BY <1>6 DEF Roots
  <1>9. OthersKeep(s)
    BY <1>6 DEF OthersKeep, Roots, Hands
  <1> QED
    BY <1>2, <1>7, <1>8, <1>9, WaitingStays

EventsOf(h, s) == [i \in 1..Len(s) |-> h[s[i]].event]

Contents == [Cells -> [event : Events \cup {None}, more : SUBSET Cells]]

LEMMA EventsOfSeq ==
  ASSUME NEW h \in Contents, NEW s \in Seq(Cells)
  PROVE  /\ EventsOf(h, s) \in Seq(Events \cup {None}) /\ Len(EventsOf(h, s)) = Len(s)
         /\ Len(s) \in Nat
         /\ \A i \in 1..Len(s) : EventsOf(h, s)[i] = h[s[i]].event
  <1> DEFINE n == Len(s)
             w == [i \in 1..n |-> h[s[i]].event]
  <1>1. n \in Nat /\ \A i \in 1..n : s[i] \in Cells
    BY LenProperties, ElementOfSeq
  <1>2. \A i \in 1..n : h[s[i]].event \in Events \cup {None}
    BY <1>1 DEF Contents
  <1>3. w \in [1..n -> Events \cup {None}]
    BY <1>2
  <1>4. w \in Seq(Events \cup {None})
    BY <1>1, <1>3, SeqDef
  <1>5. DOMAIN w = 1..n /\ Len(w) \in Nat /\ DOMAIN w = 1..Len(w)
    BY <1>3, <1>4, LenProperties
  <1>6. Len(w) = n
    BY <1>1, <1>5
  <1>7. EventsOf(h, s) = w
    BY DEF EventsOf
  <1> QED
    BY <1>1, <1>4, <1>6, <1>7

LEMMA EventsOfAppend ==
  ASSUME NEW h \in Contents, NEW s \in Seq(Cells), NEW c \in Cells
  PROVE  EventsOf(h, Append(s, c)) = Append(EventsOf(h, s), h[c].event)
  <1> DEFINE S == Events \cup {None}
  <1>0. PICK q : q = Append(s, c)
    OBVIOUS
  <1>1. /\ q \in Seq(Cells) /\ Len(q) = Len(s) + 1 /\ q[Len(s) + 1] = c
        /\ \A i \in 1..Len(s) : q[i] = s[i]
    BY <1>0, AppendProperties
  <1>2. PICK w \in Seq(S) :
          /\ w = EventsOf(h, s) /\ Len(w) = Len(s) /\ Len(s) \in Nat
          /\ \A i \in 1..Len(s) : w[i] = h[s[i]].event
    BY EventsOfSeq
  <1>3. PICK v \in Seq(S) :
          /\ v = EventsOf(h, q) /\ Len(v) = Len(q)
          /\ \A i \in 1..Len(q) : v[i] = h[q[i]].event
    BY <1>1, EventsOfSeq
  <1>4. PICK e \in S : e = h[c].event
    BY DEF Contents
  <1>5. PICK u \in Seq(S) :
          /\ u = Append(w, e) /\ Len(u) = Len(w) + 1 /\ u[Len(w) + 1] = e
          /\ \A i \in 1..Len(w) : u[i] = w[i]
    <2> HIDE DEF S
    <2>1. /\ Append(w, e) \in Seq(S) /\ Len(Append(w, e)) = Len(w) + 1
          /\ Append(w, e)[Len(w) + 1] = e /\ \A i \in 1..Len(w) : Append(w, e)[i] = w[i]
      BY AppendProperties
    <2> QED
      BY <2>1
  <1> HIDE DEF S
  <1>6. Len(v) = Len(u) /\ \A i \in 1..Len(v) : v[i] = u[i]
    <2>1. Len(v) = Len(s) + 1 /\ Len(u) = Len(s) + 1
      BY <1>1, <1>2, <1>3, <1>5
    <2>2. ASSUME NEW i \in 1..Len(v)
          PROVE  v[i] = u[i]
      <3>1. CASE i = Len(s) + 1
        BY <1>1, <1>2, <1>3, <1>4, <1>5, <2>1, <3>1
      <3>2. CASE i \in 1..Len(s)
        BY <1>1, <1>2, <1>3, <1>5, <2>1, <3>2
      <3> QED
        BY <1>2, <2>1, <3>1, <3>2
    <2> QED
      BY <2>1, <2>2
  <1>7. v = u
    BY <1>6, SeqEqual
  <1> QED
    BY <1>0, <1>2, <1>3, <1>4, <1>5, <1>7

LEMMA EventsOfTail ==
  ASSUME NEW h \in Contents, NEW s \in Seq(Cells), s # <<>>
  PROVE  /\ EventsOf(h, s) # <<>> /\ EventsOf(h, Tail(s)) = Tail(EventsOf(h, s))
         /\ Head(EventsOf(h, s)) = h[Head(s)].event
  <1> DEFINE S == Events \cup {None}
  <1>1. PICK q \in Seq(Cells) :
          /\ q = Tail(s) /\ Len(q) = Len(s) - 1 /\ \A i \in 1..Len(q) : q[i] = s[i + 1]
    BY HeadTailProperties
  <1>2. PICK w \in Seq(S) :
          /\ w = EventsOf(h, s) /\ Len(w) = Len(s) /\ Len(s) \in Nat
          /\ \A i \in 1..Len(s) : w[i] = h[s[i]].event
    BY EventsOfSeq
  <1>3. PICK v \in Seq(S) :
          /\ v = EventsOf(h, q) /\ Len(v) = Len(q)
          /\ \A i \in 1..Len(q) : v[i] = h[q[i]].event
    BY EventsOfSeq
  <1>4. Len(s) \in Nat \ {0}
    BY EmptySeq
  <1>5. Len(w) # 0 /\ w # <<>>
    BY <1>2, <1>4, EmptySeq
  <1>6. PICK u \in Seq(S) :
          /\ u = Tail(w) /\ Len(u) = Len(w) - 1 /\ \A i \in 1..Len(u) : u[i] = w[i + 1]
    BY <1>5, HeadTailProperties
  <1> HIDE DEF S
  <1>7. Len(v) = Len(u) /\ \A i \in 1..Len(v) : v[i] = u[i]
    <2>1. Len(v) = Len(s) - 1 /\ Len(u) = Len(s) - 1
      BY <1>1, <1>2, <1>3, <1>6
    <2>2. ASSUME NEW i \in 1..Len(v)
          PROVE  v[i] = u[i]
      <3>1. i + 1 \in 1..Len(s) /\ i \in 1..Len(q) /\ i \in 1..Len(u)
        BY <1>1, <1>2, <1>4, <2>1
      <3> QED
        BY <1>1, <1>2, <1>3, <1>6, <3>1, SMTT(30)
    <2> QED
      BY <2>1, <2>2
  <1>8. v = u
    BY <1>7, SeqEqual
  <1>9. Head(w) = h[Head(s)].event
    <2>1. Head(w) = w[1] /\ Head(s) = s[1] /\ 1 \in 1..Len(s)
      BY <1>4, <1>5
    <2> QED
      BY <1>2, <2>1
  <1> QED
    BY <1>1, <1>2, <1>3, <1>5, <1>6, <1>8, <1>9

LEMMA EventsOfPutBack ==
  ASSUME NEW h \in Contents, NEW s \in Seq(Cells), NEW c \in Cells
  PROVE  EventsOf(h, <<c>> \o s) = <<h[c].event>> \o EventsOf(h, s)
  <1> DEFINE S == Events \cup {None}
  <1>1. PICK o \in Seq(Cells) : o = <<c>> /\ Len(o) = 1 /\ o[1] = c
    BY OneCell
  <1>2. PICK q \in Seq(Cells) :
          /\ q = o \o s /\ Len(q) = Len(o) + Len(s)
          /\ \A i \in 1..Len(o) + Len(s) : q[i] = IF i <= Len(o) THEN o[i] ELSE s[i - Len(o)]
    <2>1. /\ o \o s \in Seq(Cells) /\ Len(o \o s) = Len(o) + Len(s)
          /\ \A i \in 1..Len(o) + Len(s) :
                (o \o s)[i] = IF i <= Len(o) THEN o[i] ELSE s[i - Len(o)]
      BY ConcatProperties
    <2> QED
      BY <2>1
  <1>3. PICK w \in Seq(S) :
          /\ w = EventsOf(h, s) /\ Len(w) = Len(s) /\ Len(s) \in Nat
          /\ \A i \in 1..Len(s) : w[i] = h[s[i]].event
    BY EventsOfSeq
  <1>4. PICK v \in Seq(S) :
          /\ v = EventsOf(h, q) /\ Len(v) = Len(q)
          /\ \A i \in 1..Len(q) : v[i] = h[q[i]].event
    BY EventsOfSeq
  <1>5. PICK e \in S : e = h[c].event
    BY DEF Contents
  <1>6. <<e>> \in Seq(S) /\ Len(<<e>>) = 1 /\ <<e>>[1] = e
    OBVIOUS
  <1>7. PICK u \in Seq(S) :
          /\ u = <<e>> \o w /\ Len(u) = Len(<<e>>) + Len(w)
          /\ \A i \in 1..Len(<<e>>) + Len(w) :
                u[i] = IF i <= Len(<<e>>) THEN <<e>>[i] ELSE w[i - Len(<<e>>)]
    <2> HIDE DEF S
    <2>1. /\ <<e>> \o w \in Seq(S) /\ Len(<<e>> \o w) = Len(<<e>>) + Len(w)
          /\ \A i \in 1..Len(<<e>>) + Len(w) :
                (<<e>> \o w)[i] = IF i <= Len(<<e>>) THEN <<e>>[i] ELSE w[i - Len(<<e>>)]
      BY <1>6, ConcatProperties
    <2> QED
      BY <2>1
  <1> HIDE DEF S
  <1>8. Len(v) = Len(s) + 1 /\ Len(u) = Len(s) + 1 /\ Len(q) = Len(s) + 1
    BY <1>1, <1>2, <1>3, <1>4, <1>6, <1>7
  <1>9. ASSUME NEW i \in 1..Len(v)
        PROVE  v[i] = u[i]
    <2>1. i \in 1..Len(q) /\ i \in 1..Len(o) + Len(s) /\ i \in 1..Len(<<e>>) + Len(w)
      BY <1>1, <1>2, <1>3, <1>6, <1>8
    <2>2. v[i] = h[q[i]].event
      BY <1>4, <2>1
    <2>3. CASE i = 1
      <3>1. i <= Len(o) /\ i <= Len(<<e>>)
        BY <1>1, <1>6, <2>3
      <3>2. q[i] = c /\ u[i] = e
        BY <1>1, <1>2, <1>6, <1>7, <2>1, <2>3, <3>1
      <3> QED
        BY <1>5, <2>2, <3>2
    <2>4. CASE i # 1
      <3>1. ~(i <= Len(o)) /\ ~(i <= Len(<<e>>)) /\ i - 1 \in 1..Len(s)
            /\ i - Len(o) = i - 1 /\ i - Len(<<e>>) = i - 1
        BY <1>1, <1>3, <1>6, <1>8, <2>4
      <3>2. q[i] = s[i - 1] /\ u[i] = w[i - 1]
        BY <1>2, <1>7, <2>1, <3>1
      <3> QED
        BY <1>3, <2>2, <3>1, <3>2
    <2> QED
      BY <2>3, <2>4
  <1>10. v = u
    BY <1>8, <1>9, SeqEqual
  <1> QED
    BY <1>1, <1>2, <1>3, <1>4, <1>5, <1>7, <1>10

LEMMA WaitingIs == Waiting = EventsOf(holds, List)
  BY DEF Waiting, EventsOf, List

LEMMA WaitingBecomes ==
  ASSUME NEW h, NEW s, holds' = h, List' = s
  PROVE  Waiting' = EventsOf(h, s)
  BY DEF Waiting, EventsOf, List

LEMMA NothingWaits ==
  ASSUME NEW h \in Contents
  PROVE  EventsOf(h, <<>>) = <<>>
  <1>1. PICK s \in Seq(Cells) : s = <<>> /\ Len(s) = 0
    BY EmptySeq
  <1>2. EventsOf(h, s) \in Seq(Events \cup {None}) /\ Len(EventsOf(h, s)) = 0
    BY <1>1, EventsOfSeq
  <1>3. EventsOf(h, s) = <<>>
    BY <1>2, EmptySeq
  <1> QED
    BY <1>1, <1>3

\* What waits and what is looked at do not change.
QueueStays == Waiting' = Waiting /\ LookingAt' = LookingAt

LEMMA QueueOfSenders ==
  ASSUME Inv, NEW s \in Senders, Sends(s)
  PROVE  \/ QueueStays
         \/ LookingAt' = LookingAt /\ \E e \in Events : Waiting' = Append(Waiting, e)
  <1>1. s \in Threads
    BY DEF Threads
  <1>2. Types /\ IsList(List) /\ holds \in Contents
    BY <1>1, Parts DEF Types, Contents
  <1>3. CASE Wake(s)
    <2>1. holds' = holds /\ head' = head /\ tail' = tail /\ next' = next
      BY <1>3 DEF Wake, list
    <2>2. List' = List
      BY <1>2, <2>1, ListStays
    <2>3. Waiting' = Waiting
      BY <1>1, <2>1, <2>2, SameCellsKeep
    <2>4. ASSUME NEW r \in Readers
          PROVE  Looking(r)' = Looking(r)
      <3>1. r \in Threads /\ pc[r] \in PcRecords
        BY <1>2, PcFields DEF Threads
      <3>2. CASE r = s
        BY <1>3, <3>1, <3>2, IdleRecord DEF Wake, Looking
      <3>3. CASE r # s /\ pc[r].at = "asleep"
        <4> DEFINE q == [pc[r] EXCEPT !.at = "take"]
        <4>1. pc'[r] = q
          BY <1>3, <3>1, <3>3 DEF Wake
        <4>2. q.at = "take"
          BY <3>1 DEF PcRecords
        <4> HIDE DEF q
        <4> QED
          BY <3>3, <4>1, <4>2 DEF Looking
      <3>4. CASE r # s /\ pc[r].at # "asleep"
        <4>1. pc'[r] = pc[r]
          BY <1>3, <3>1, <3>4 DEF Wake
        <4> QED
          BY <2>1, <4>1 DEF Looking
      <3> QED
        BY <3>2, <3>3, <3>4
    <2> QED
      BY <2>3, <2>4 DEF QueueStays, LookingAt
  <1>4. CASE ~Wake(s)
    <2>1. PICK a, g : a \in {"refused", "dup", "full", "append", "idle", "wake"} /\ MovedTo(s, a, g)
      BY <1>4, SenderMoves
    <2>2. pc[s].at # "copy" /\ a # "copy"
      BY <1>4, <2>1, SenderMoves
    <2>3. OthersKeep(s) => LookingAt' = LookingAt
      BY <1>1, <2>1, <2>2, LookingStays
    <2>4. CASE (\E e \in Events : Send(s, e)) \/ AllocFails(s)
      <3>1. holds' = holds /\ head' = head /\ tail' = tail /\ next' = next
        BY <2>4 DEF Send, AllocFails, list
      <3>2. List' = List
        BY <1>2, <3>1, ListStays
      <3> QED
        BY <1>1, <2>3, <3>1, <3>2, SameCellsKeep DEF QueueStays
    <2>5. CASE Alloc(s)
      BY <2>3, <2>5, AllocKeeps DEF QueueStays
    <2>6. CASE Lost(s)
      BY <1>1, <2>3, <2>6, HandFreedKeeps DEF QueueStays, Lost
    <2>7. CASE Enqueue(s)
      <3>1. PICK c \in Cells : c = pc[s].got[1] /\ c \in Roots
        BY <1>1, <2>7, CellInHand DEF Enqueue
      <3>2. PICK e \in Events : e = holds[c].event
        BY <3>1 DEF Inv, Accounted
      <3>3. holds' = holds /\ List' = Append(List, c)
        BY <2>7, <3>1, EnqueueStep DEF Enqueue
      <3>4. PICK l \in Seq(Cells) : l = List
        BY <1>2, ListParts
      <3>5. EventsOf(holds, Append(l, c)) = Append(EventsOf(holds, l), e)
        BY <1>2, <3>2, EventsOfAppend
      <3>6. Waiting' = Append(Waiting, e)
        BY <3>3, <3>4, <3>5, WaitingIs, WaitingBecomes
      <3>7. LookingAt' = LookingAt
        BY <1>1, <2>3, <3>3, SameCellsKeep
      <3> QED
        BY <3>6, <3>7
    <2> QED
      BY <1>4, <2>4, <2>5, <2>6, <2>7 DEF Sends
  <1> QED
    BY <1>3, <1>4

LEMMA QueueOfTake ==
  ASSUME Inv, NEW r \in Readers, Take(r)
  PROVE  /\ Waiting # <<>> /\ Waiting' = Tail(Waiting) /\ LookingAt[r] = None
         /\ LookingAt' = [LookingAt EXCEPT ![r] = Head(Waiting)]
  <1>1. r \in Threads
    BY DEF Threads
  <1>2. IsList(List) /\ holds \in Contents
    BY <1>1, Parts DEF Types, Contents
  <1>3. List # <<>> /\ List' = Tail(List) /\ Head(List) = head
    BY TakeStep
  <1>4. holds' = holds
    BY DEF Take
  <1>5. PICK l \in Seq(Cells) : l = List
    BY <1>2, ListParts
  <1>6. /\ EventsOf(holds, l) # <<>> /\ EventsOf(holds, Tail(l)) = Tail(EventsOf(holds, l))
        /\ Head(EventsOf(holds, l)) = holds[head].event
    BY <1>2, <1>3, <1>5, EventsOfTail
  <1>7. Waiting # <<>> /\ Waiting' = Tail(Waiting) /\ Head(Waiting) = holds[head].event
    BY <1>3, <1>4, <1>5, <1>6, WaitingIs, WaitingBecomes
  <1>8. pc[r].at # "copy"
    BY DEF Take
  <1>9. LookingAt[r] = None
    BY <1>8 DEF LookingAt, Looking
  <1>10. PICK a, g : MovedTo(r, a, g) /\ a = "copy" /\ g = <<head>>
    BY TakeMoves
  <1>11. LookingAt' = [u \in Readers |-> IF u = r THEN IF a = "copy" THEN holds'[g[1]].event ELSE None
                                          ELSE Looking(u)]
    BY <1>1, <1>4, <1>10, SameCellsKeep, LookingMoves
  <1>12. holds'[g[1]].event = Head(Waiting)
    BY <1>4, <1>7, <1>10
  <1>13. LookingAt' = [LookingAt EXCEPT ![r] = Head(Waiting)]
    BY <1>10, <1>11, <1>12 DEF LookingAt
  <1> QED
    BY <1>7, <1>9, <1>13

\* One that no longer looks at its event.
LEMMA LookingEnds ==
  ASSUME Inv, NEW r \in Readers, NEW a, NEW g, MovedTo(r, a, g), OthersKeep(r), a # "copy"
  PROVE  LookingAt' = [LookingAt EXCEPT ![r] = None]
  <1>1. r \in Threads
    BY DEF Threads
  <1>2. LookingAt' = [u \in Readers |-> IF u = r THEN None ELSE Looking(u)]
    BY <1>1, LookingMoves
  <1> QED
    BY <1>2 DEF LookingAt

LEMMA QueueOfReaders ==
  ASSUME Inv, PutsBack # "any time", GivesUp = FALSE,
         NEW r \in Readers, Reads(r) \/ Manages(r), ~Take(r)
  PROVE  \/ QueueStays
         \/ LookingAt' = [LookingAt EXCEPT ![r] = None] /\ Waiting' = Waiting
         \/ /\ LookingAt[r] # None /\ Waiting' = <<LookingAt[r]>> \o Waiting
            /\ LookingAt' = [LookingAt EXCEPT ![r] = None]
         \/ Waiting' = <<>> /\ LookingAt' = LookingAt
  <1>1. r \in Threads
    BY DEF Threads
  <1>2. /\ Types /\ IsList(List) /\ holds \in Contents
        /\ Accounted(Roots, holds, free, life) /\ Roots \in SUBSET Cells
    BY <1>1, Parts DEF Types, Contents
  <1>0. PICK a \in {"clear", "take", "idle", "asleep", "again", "done", "release"} :
          \E g : MovedTo(r, a, g)
    BY ReaderMoves
  <1>3. PICK g : MovedTo(r, a, g)
    BY <1>0
  <1>4. a # "copy"
    BY <1>3
  <1>5. OthersKeep(r) /\ pc[r].at # "copy" => LookingAt' = LookingAt
    BY <1>1, <1>3, <1>4, LookingStays
  <1>6. CASE Read(r) \/ Clear(r) \/ Empty(r) \/ Interrupted(r)
    <2>1. holds' = holds /\ head' = head /\ tail' = tail /\ next' = next /\ pc[r].at # "copy"
      BY <1>6 DEF Read, Clear, Empty, Interrupted, list
    <2>2. List' = List
      BY <1>2, <2>1, ListStays
    <2> QED
      BY <1>1, <1>5, <2>1, <2>2, SameCellsKeep DEF QueueStays
  <1>7. ASSUME NEW again \in BOOLEAN, Copied(r, again)
        PROVE  LookingAt' = [LookingAt EXCEPT ![r] = None] /\ Waiting' = Waiting
    <2>1. Waiting' = Waiting /\ OthersKeep(r)
      BY <1>1, <1>7, HandFreedKeeps DEF Copied
    <2> QED
      BY <1>3, <1>4, <2>1, LookingEnds
  <1>8. CASE PutBack(r)
    <2>1. PICK c \in Cells : c = pc[r].got[1] /\ c \in Roots
      BY <1>1, <1>8, CellInHand DEF PutBack
    <2>2. PICK e \in Events : e = holds[c].event
      BY <1>2, <2>1 DEF Accounted
    <2>3. LookingAt[r] = e /\ e # None
      BY <1>8, <2>1, <2>2, SeqFifoAssumption DEF LookingAt, Looking, PutBack
    <2>4. holds' = holds /\ List' = <<c>> \o List
      BY <1>8, <2>1, PutBackStep DEF PutBack
    <2>5. PICK l \in Seq(Cells) : l = List
      BY <1>2, ListParts
    <2>6. EventsOf(holds, <<c>> \o l) = <<e>> \o EventsOf(holds, l)
      BY <1>2, <2>2, EventsOfPutBack
    <2>7. Waiting' = <<e>> \o Waiting
      BY <2>4, <2>5, <2>6, WaitingIs, WaitingBecomes
    <2>8. LookingAt' = [LookingAt EXCEPT ![r] = None]
      BY <1>1, <1>3, <1>4, <2>4, SameCellsKeep, LookingEnds
    <2> QED
      BY <2>3, <2>7, <2>8
  <1>9. CASE Drain(r)
    <2>1. PICK cs \in SUBSET Roots : cs = Of(List) /\ Frees(cs)
      BY <1>2, <1>9, ListParts, ToSetIsOf DEF List, Drain, Roots
    <2>2. \A c \in Roots \ cs : holds'[c] = holds[c]
      BY <1>2, <2>1, EventsStay
    <2>3. \A u \in Threads : Hand(u) \subseteq Roots \ cs
      BY <2>1 DEF Inv, Apart, Roots, Hands
    <2>4. OthersKeep(r)
      BY <2>2, <2>3 DEF OthersKeep
    <2>5. pc[r].at # "copy" /\ List' = <<>>
      BY <1>9, DrainStep DEF Drain
    <2>6. Waiting' = <<>>
      <3>1. Blank \in [event : Events \cup {None}, more : SUBSET Cells]
        BY DEF Blank
      <3>2. PICK W : holds' = [c \in Cells |-> IF c \in W THEN Blank ELSE holds[c]]
        BY <2>1 DEF Frees
      <3>3. holds' \in Contents
        BY <1>2, <3>1, <3>2 DEF Contents
      <3> QED
        BY <2>5, <3>3, NothingWaits, WaitingBecomes
    <2> QED
      BY <1>5, <2>4, <2>5, <2>6
  <1>10. ASSUME NEW p \in Pools, Resize(r, p)
         PROVE  Waiting' = <<>> /\ LookingAt' = LookingAt
    <2>1. pc[r].at # "copy" /\ List' = <<>> /\ holds' = holds
      BY <1>10, ResizeStep DEF Resize
    <2>2. Waiting' = <<>>
      BY <1>2, <2>1, NothingWaits, WaitingBecomes
    <2> QED
      BY <1>1, <1>5, <2>1, <2>2, SameCellsKeep
  <1>11. CASE ReleaseCells(r)
    <2>1. pc[r].at # "copy" /\ Waiting' = Waiting /\ OthersKeep(r)
      BY <1>1, <1>11, HandFreedKeeps DEF ReleaseCells
    <2> QED
      BY <1>5, <2>1 DEF QueueStays
  <1>12. CASE PoolDone(r)
    <2>1. pc[r].at # "copy" /\ List' = List /\ holds' = holds
      BY <1>12, PoolDoneStep DEF PoolDone, list
    <2> QED
      BY <1>1, <1>5, <2>1, SameCellsKeep DEF QueueStays
  <1> QED
    BY <1>6, <1>7, <1>8, <1>9, <1>10, <1>11, <1>12 DEF Reads, Manages

LEMMA EmptyAtFirst ==
  ASSUME Init
  PROVE  List = <<>>
  <1>1. /\ head = None /\ tail = None /\ cells = 0
        /\ next = [c \in Cells |-> None]
    BY DEF Init
  <1>2. PICK s \in Seq(Cells) : s = <<>> /\ Len(s) = 0 /\ Of(s) = {}
    BY EmptySeq, OfEmpty
  <1>3. IsList(s)
    BY <1>1, <1>2 DEF IsList
  <1> QED
    BY <1>2, <1>3, ListIs

\* The FIFO with its cells, pools, readers and resizing implements EventQueue: for any
\* number of senders, readers, pools and cells, snd_seq_read returns the events in the
\* order of their delivery, each of them once.
THEOREM FifoIsAQueue ==
  ASSUME PutsBack # "any time", GivesUp = FALSE
  PROVE  Spec => EventsInOrder
  <1>1. Init => Queue!Init
    <2> SUFFICES ASSUME Init
                 PROVE  Queue!Init
      OBVIOUS
    <2>1. List = <<>>
      BY EmptyAtFirst
    <2>2. holds \in Contents
      BY InvInit DEF Inv, Types, Contents
    <2>3. Waiting = <<>>
      BY <2>1, <2>2, NothingWaits, WaitingIs
    <2>4. ASSUME NEW r \in Readers
          PROVE  Looking(r) = None
      <3>1. pc[r].at # "copy"
        BY IdleRecord DEF Init, Threads
      <3> QED
        BY <3>1 DEF Looking
    <2> QED
      BY <2>3, <2>4 DEF Queue!Init, Looking
  <1>2. LookingAt = [r \in Readers |-> IF pc[r].at = "copy" THEN holds[pc[r].got[1]].event ELSE None]
    BY DEF LookingAt, Looking
  <1>3. ASSUME Inv, [Next]_vars
        PROVE  [Queue!Next]_(Queue!vars)
    <2>1. LookingAt' = [r \in Readers |-> IF pc'[r].at = "copy" THEN holds'[pc'[r].got[1]].event
                                           ELSE None]
      BY DEF LookingAt, Looking
    <2>2. QueueStays => UNCHANGED Queue!vars
      BY <1>2, <2>1 DEF QueueStays, Queue!vars
    <2>3. CASE UNCHANGED vars
      <3>1. List' = List /\ holds' = holds /\ pc' = pc
        BY <1>3, <2>3, InvStays DEF vars, list
      <3>2. Waiting' = Waiting
        BY <3>1, WaitingIs, WaitingBecomes
      <3>3. LookingAt' = LookingAt
        BY <1>2, <2>1, <3>1
      <3> QED
        BY <2>2, <3>2, <3>3 DEF QueueStays
    <2>4. ASSUME NEW s \in Senders, Sends(s)
          PROVE  [Queue!Next]_(Queue!vars)
      <3>1. CASE QueueStays
        BY <2>2, <3>1
      <3>2. ASSUME LookingAt' = LookingAt, NEW e \in Events, Waiting' = Append(Waiting, e)
            PROVE  Queue!Next
        BY <1>2, <2>1, <3>2 DEF Queue!Next, Queue!Put
      <3> QED
        BY <1>3, <2>4, <3>1, <3>2, QueueOfSenders
    <2>5. ASSUME NEW r \in Readers, Take(r)
          PROVE  Queue!Next
      <3>1. /\ Waiting # <<>> /\ Waiting' = Tail(Waiting) /\ LookingAt[r] = None
            /\ LookingAt' = [LookingAt EXCEPT ![r] = Head(Waiting)]
        BY <1>3, <2>5, QueueOfTake
      <3>2. Queue!Take(r)
        BY <1>2, <2>1, <3>1 DEF Queue!Take
      <3> QED
        BY <3>2 DEF Queue!Next
    <2>6. ASSUME NEW r \in Readers, Reads(r) \/ Manages(r), ~Take(r)
          PROVE  [Queue!Next]_(Queue!vars)
      <3>1. CASE QueueStays
        BY <2>2, <3>1
      <3>2. CASE LookingAt' = [LookingAt EXCEPT ![r] = None] /\ Waiting' = Waiting
        <4>1. Queue!Keep(r)
          BY <1>2, <2>1, <3>2 DEF Queue!Keep
        <4> QED
          BY <4>1 DEF Queue!Next
      <3>3. CASE /\ LookingAt[r] # None /\ Waiting' = <<LookingAt[r]>> \o Waiting
                 /\ LookingAt' = [LookingAt EXCEPT ![r] = None]
        <4>1. Queue!PutBack(r)
          BY <1>2, <2>1, <3>3 DEF Queue!PutBack
        <4> QED
          BY <4>1 DEF Queue!Next
      <3>4. CASE Waiting' = <<>> /\ LookingAt' = LookingAt
        <4>1. Queue!Clear
          BY <1>2, <2>1, <3>4 DEF Queue!Clear
        <4> QED
          BY <4>1 DEF Queue!Next
      <3> QED
        BY <1>3, <2>6, <3>1, <3>2, <3>3, <3>4, QueueOfReaders
    <2> QED
      BY <1>3, <2>3, <2>4, <2>5, <2>6 DEF Next
  <1>4. Inv /\ [Next]_vars => [Queue!Next]_(Queue!vars)
    BY <1>3
  <1>5. Spec => []Inv
    BY Invariance
  <1> QED
    BY <1>1, <1>4, <1>5, PTL DEF Spec, EventsInOrder, Queue!Spec

=============================================================================
