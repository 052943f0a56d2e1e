---------------------------------- MODULE Queue ---------------------------------
(***************************************************************************)
(* base/Queue.h, class Queue: a ring of Length slots with the number of    *)
(* elements kept beside the two indices.  Every call runs to its end       *)
(* before the next one starts (the calls of two threads are the subject of *)
(* SyncQueue).                                                             *)
(***************************************************************************)
EXTENDS Integers, Sequences

CONSTANTS Type,      \* the element type of the template
          Length     \* the template's slot count

ASSUME LengthAssumption == Length \in Nat \ {0}

VARIABLES count_, head_, tail_, que_,   \* the object's fields
          ok, value                     \* what the last call gave its caller

ring == <<count_, head_, tail_, que_>>
vars == <<count_, head_, tail_, que_, ok, value>>

Slots == 0 .. Length - 1

\* The slots of a new Queue hold whatever the memory held.
Init ==
    /\ count_ = 0
    /\ head_ = 0
    /\ tail_ = 0
    /\ que_ \in [Slots -> Type]
    /\ ok \in BOOLEAN
    /\ value \in Type

\* Mutants of pop: the count is not taken down; the slot is read after the head
\* has moved on.
popKeepsCount ==
    \/ /\ count_ = 0
       /\ ok' = FALSE
       /\ UNCHANGED <<ring, value>>
    \/ /\ count_ # 0
       /\ value' = que_[head_]
       /\ head_' = (head_ + 1) % Length
       /\ ok' = TRUE
       /\ UNCHANGED <<count_, tail_, que_>>

popReadsLate ==
    \/ /\ count_ = 0
       /\ ok' = FALSE
       /\ UNCHANGED <<ring, value>>
    \/ /\ count_ # 0
       /\ head_' = (head_ + 1) % Length
       /\ value' = que_[head_']
       /\ count_' = count_ - 1
       /\ ok' = TRUE
       /\ UNCHANGED <<tail_, que_>>

\* pop: the oldest element, and its slot is free again.
pop ==
    \/ /\ count_ = 0
       /\ ok' = FALSE
       /\ UNCHANGED <<ring, value>>
    \/ /\ count_ # 0
       /\ value' = que_[head_]
       /\ head_' = (head_ + 1) % Length
       /\ count_' = count_ - 1
       /\ ok' = TRUE
       /\ UNCHANGED <<tail_, que_>>

\* Mutant of push: one element too many.
pushPastTheEnd(v) ==
    /\ UNCHANGED value
    /\ \/ /\ count_ > Length
          /\ ok' = FALSE
          /\ UNCHANGED ring
       \/ /\ count_ <= Length
          /\ que_' = [que_ EXCEPT ![tail_] = v]
          /\ tail_' = (tail_ + 1) % Length
          /\ count_' = count_ + 1
          /\ ok' = TRUE
          /\ UNCHANGED head_

\* push: refused when every slot is taken.
push(v) ==
    /\ UNCHANGED value
    /\ \/ /\ count_ = Length
          /\ ok' = FALSE
          /\ UNCHANGED ring
       \/ /\ count_ # Length
          /\ que_' = [que_ EXCEPT ![tail_] = v]
          /\ tail_' = (tail_ + 1) % Length
          /\ count_' = count_ + 1
          /\ ok' = TRUE
          /\ UNCHANGED head_

\* front: the oldest element, which stays.
front ==
    /\ UNCHANGED ring
    /\ \/ count_ = 0 /\ ok' = FALSE /\ UNCHANGED value
       \/ count_ # 0 /\ ok' = TRUE /\ value' = que_[head_]

Next == (\E v \in Type : push(v)) \/ pop \/ front

Spec == Init /\ [][Next]_vars

---------------------------------------------------------------------------------
\* The fields keep their types: the indices stay inside the array.
TypeOK ==
    /\ count_ \in 0 .. Length
    /\ head_ \in Slots
    /\ tail_ \in Slots
    /\ que_ \in [Slots -> Type]
    /\ ok \in BOOLEAN
    /\ value \in Type

\* The two indices and the count, written by different calls, never disagree:
\* the tail is count_ slots after the head, modulo Length.
IndicesAgree ==
    tail_ = IF head_ + count_ < Length THEN head_ + count_ ELSE head_ + count_ - Length

\* The slot of the i-th oldest element.
SlotOf(i) == IF head_ + i - 1 < Length THEN head_ + i - 1 ELSE head_ + i - 1 - Length

\* The elements in the ring, oldest first.
Items == [i \in 1 .. count_ |-> que_[SlotOf(i)]]

Abstract == INSTANCE Fifo WITH Capacity <- Length, items <- Items

\* The ring is a bounded first-in first-out queue: push refuses only when Length
\* elements wait, pop and front give the oldest one, whatever the wrap-around.
RefinesFifo == Abstract!Spec
=================================================================================
