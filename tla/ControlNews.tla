---------------------------- MODULE ControlNews ----------------------------
(***************************************************************************)
(* What src/sound/core/control.c promises to those who read its events:    *)
(* whoever listens is owed every fact that comes about from then on, and a *)
(* fact is owed until it is in the hand of a reader, who is told of one    *)
(* element at a time.  A failure loses one fact that is owed to one file,  *)
(* or what one reader has in its hand, and nothing else is lost.  How the  *)
(* facts travel, and that several may be told as one, is left to module    *)
(* Control, which implements this one.                                     *)
(***************************************************************************)
EXTENDS Naturals

CONSTANTS
    Files,      \* those who may listen
    Readers,    \* those who read for them
    Elements,   \* the numbers of the elements
    Kinds       \* what may come about for an element

VARIABLES
    listening,  \* the files that are subscribed
    owed,       \* what each of them has still to be told
    hand,       \* what each reader is being told
    failures    \* how often something has been lost

vars == <<listening, owed, hand, failures>>

Facts == Elements \X Kinds

Init ==
    /\ listening = {}
    /\ owed = [f \in Files |-> {}]
    /\ hand = [r \in Readers |-> {}]
    /\ failures = 0

\* One who begins to listen may be told of what is just being told to others.
Listen(f) ==
    /\ f \notin listening
    /\ listening' = listening \cup {f}
    /\ \E recent \in SUBSET Facts : owed' = [owed EXCEPT ![f] = recent]
    /\ UNCHANGED <<hand, failures>>

Leave(f) ==
    /\ f \in listening
    /\ listening' = listening \ {f}
    /\ owed' = [owed EXCEPT ![f] = {}]
    /\ UNCHANGED <<hand, failures>>

Happen(x) ==
    /\ UNCHANGED <<listening, hand, failures>>
    /\ owed' = [f \in Files |-> IF f \in listening THEN owed[f] \cup {x} ELSE owed[f]]

\* A reader is given facts of one element.  One that has just come about again
\* is owed once more.  For a file that has left, what was on its way may arrive.
Give(r, f, n) ==
    /\ UNCHANGED <<listening, failures>>
    /\ hand[r] = {}
    /\ \E given, again \in SUBSET ({n} \X Kinds) :
          /\ f \in listening => given \subseteq owed[f]
          /\ hand' = [hand EXCEPT ![r] = given]
          /\ owed' = [owed EXCEPT ![f] = (@ \ given) \cup (again \cap given \cap @)]

Told(r) ==
    /\ hand' = [hand EXCEPT ![r] = {}]
    /\ UNCHANGED <<listening, owed, failures>>

\* A file is not told of a fact, or of something that is no news to it.
Lose(f) ==
    /\ failures' = failures + 1
    /\ \E lost \in {{}} \cup {{x} : x \in Facts} : owed' = [owed EXCEPT ![f] = @ \ lost]
    /\ UNCHANGED <<listening, hand>>

\* What a reader was being told does not arrive.
Drop(r) ==
    /\ failures' = failures + 1
    /\ hand' = [hand EXCEPT ![r] = {}]
    /\ UNCHANGED <<listening, owed>>

Next ==
    \/ \E r \in Readers : Told(r) \/ Drop(r)
    \/ \E f \in Files : Listen(f) \/ Leave(f) \/ Lose(f)
    \/ \E x \in Facts : Happen(x)
    \/ \E r \in Readers, f \in Files, n \in Elements : Give(r, f, n)

Spec == Init /\ [][Next]_vars

=============================================================================
