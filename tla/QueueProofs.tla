------------------------------- MODULE QueueProofs ------------------------------
(***************************************************************************)
(* For every Length and every element type, the ring of base/Queue.h is a  *)
(* bounded FIFO.                                                           *)
(***************************************************************************)
EXTENDS Queue, TLAPS

\* The inductive invariant: the fields' types and the agreement of the indices.
Inv == TypeOK /\ IndicesAgree

\* The modulo of the two index increments is a wrap to slot 0.
LEMMA NextSlot ==
    ASSUME NEW i \in Slots
    PROVE  (i + 1) % Length = IF i + 1 = Length THEN 0 ELSE i + 1
  BY LengthAssumption DEF Slots

LEMMA InvInit == Init => Inv
  BY LengthAssumption DEF Init, Inv, TypeOK, IndicesAgree, Slots

\* A push, a pop or a front keeps the invariant.
LEMMA InvNext == Inv /\ [Next]_vars => Inv'
<1> SUFFICES ASSUME Inv, [Next]_vars PROVE Inv'
    OBVIOUS
<1> USE LengthAssumption DEF Inv
<1>1. ASSUME NEW v \in Type, push(v) PROVE Inv'
  <2> ok' \in BOOLEAN /\ value' \in Type
    BY <1>1 DEF push, TypeOK
  <2>1. CASE count_ = Length
    BY <1>1, <2>1 DEF push, TypeOK, IndicesAgree, ring
  <2>2. CASE count_ # Length
    <3>1. tail_' = IF tail_ + 1 = Length THEN 0 ELSE tail_ + 1
      BY <1>1, <2>2, NextSlot DEF push, TypeOK
    <3>2. count_' = count_ + 1 /\ head_' = head_ /\ que_' = [que_ EXCEPT ![tail_] = v]
      BY <1>1, <2>2 DEF push
    <3> QED
      BY <2>2, <3>1, <3>2 DEF TypeOK, IndicesAgree, Slots
  <2> QED
    BY <2>1, <2>2
<1>2. CASE pop
  <2> ok' \in BOOLEAN
    BY <1>2 DEF pop
  <2>1. CASE count_ = 0
    BY <1>2, <2>1 DEF pop, TypeOK, IndicesAgree, ring
  <2>2. CASE count_ # 0
    <3>1. head_' = IF head_ + 1 = Length THEN 0 ELSE head_ + 1
      BY <1>2, <2>2, NextSlot DEF pop, TypeOK
    <3>2. count_' = count_ - 1 /\ tail_' = tail_ /\ que_' = que_ /\ value' = que_[head_]
      BY <1>2, <2>2 DEF pop
    <3> QED
      BY <2>2, <3>1, <3>2 DEF TypeOK, IndicesAgree, Slots
  <2> QED
    BY <2>1, <2>2
<1>3. CASE front
    BY <1>3 DEF front, TypeOK, IndicesAgree, Slots, ring
<1>4. CASE UNCHANGED vars
    BY <1>4 DEF vars, TypeOK, IndicesAgree
<1> QED
    BY <1>1, <1>2, <1>3, <1>4 DEF Next

\* Type correctness of the ring, and the agreement of its fields.
THEOREM QueueInvariant == Spec => [](TypeOK /\ IndicesAgree)
<1>1. Init => Inv
    BY InvInit
<1>2. Inv /\ [Next]_vars => Inv'
    BY InvNext
<1> QED
    BY <1>1, <1>2, PTL DEF Spec, Inv

---------------------------------------------------------------------------------
(* The refinement: each call maps to the Fifo operation of the same name.   *)

LEMMA ItemsSeq == Inv => Items \in Seq(Type) /\ Len(Items) = count_
  BY LengthAssumption DEF Inv, TypeOK, Items, SlotOf, Slots

LEMMA ItemsSeqNext == Inv' => (Items \in Seq(Type) /\ Len(Items) = count_)'
  BY ItemsSeq, PTL

LEMMA RefinementInit == Init => Abstract!Init
<1> SUFFICES ASSUME Init PROVE Abstract!Init
    OBVIOUS
<1>1. Inv
    BY InvInit
<1>2. Items = <<>>
    BY <1>1, ItemsSeq DEF Init
<1> QED
    BY <1>2 DEF Init, Abstract!Init

\* A push that finds a slot appends: the elements already there keep their slots.
LEMMA PushAppends ==
    ASSUME Inv, NEW v \in Type, push(v)
    PROVE  Abstract!push(v)
<1> USE LengthAssumption
<1>0. Inv'
    BY InvNext DEF Next
<1>1. CASE count_ = Length
  <2>1. Items' = Items
    BY <1>1 DEF push, ring, Items, SlotOf
  <2>2. ok' = FALSE /\ value' = value
    BY <1>1 DEF push
  <2>3. (Len(Items) < Length) = FALSE
    BY <1>1, ItemsSeq
  <2> QED
    BY <2>1, <2>2, <2>3 DEF Abstract!push
<1>2. CASE count_ # Length
  <2>1. /\ count_' = count_ + 1 /\ head_' = head_
        /\ que_' = [que_ EXCEPT ![tail_] = v]
        /\ ok' = TRUE /\ value' = value
    BY <1>2 DEF push
  <2>2. Items' \in Seq(Type) /\ Len(Items') = count_ + 1
    BY <1>0, <2>1, ItemsSeqNext
  <2>3. ASSUME NEW i \in 1 .. count_ + 1
        PROVE  Items'[i] = Append(Items, v)[i]
    <3>1. Items'[i] = que_'[SlotOf(i)']
      BY <2>1 DEF Items, Inv, TypeOK
    <3>2. SlotOf(i)' = SlotOf(i) /\ SlotOf(i) \in Slots
      BY <2>1 DEF SlotOf, Inv, TypeOK, Slots
    <3>3. SlotOf(i) = tail_ <=> i = count_ + 1
      BY <1>2 DEF SlotOf, Inv, TypeOK, IndicesAgree, Slots
    <3>4. CASE i = count_ + 1
      BY <2>1, <3>1, <3>2, <3>3, <3>4, ItemsSeq DEF Inv, TypeOK
    <3>5. CASE i # count_ + 1
      <4>1. Append(Items, v)[i] = Items[i]
        BY <3>5, ItemsSeq DEF Inv, TypeOK
      <4>2. Items[i] = que_[SlotOf(i)]
        BY <3>5 DEF Items, Inv, TypeOK
      <4> QED
        BY <2>1, <3>1, <3>2, <3>3, <3>5, <4>1, <4>2 DEF Inv, TypeOK
    <3> QED
      BY <3>4, <3>5
  <2>4. Items' = Append(Items, v)
    BY <2>2, <2>3, ItemsSeq
  <2>5. Len(Items) < Length
    BY <1>2, ItemsSeq DEF Inv, TypeOK
  <2> QED
    BY <2>1, <2>4, <2>5 DEF Abstract!push
<1> QED
    BY <1>1, <1>2

\* A pop gives the head of the sequence and leaves its tail.
LEMMA PopTakesTheHead ==
    ASSUME Inv, pop
    PROVE  Abstract!pop
<1> USE LengthAssumption
<1>0. Inv'
    BY InvNext DEF Next
<1>1. CASE count_ = 0
  <2>1. Items' = Items /\ Items = <<>>
    BY <1>1, ItemsSeq DEF pop, ring, Items, SlotOf
  <2> QED
    BY <1>1, <2>1 DEF pop, Abstract!pop
<1>2. CASE count_ # 0
  <2>1. /\ count_' = count_ - 1 /\ que_' = que_ /\ value' = que_[head_]
        /\ ok' = TRUE
    BY <1>2 DEF pop
  <2>2. head_' = IF head_ + 1 = Length THEN 0 ELSE head_ + 1
    BY <1>2, NextSlot DEF pop, Inv, TypeOK
  <2>3. Items # <<>> /\ Head(Items) = que_[head_]
    <3>1. SlotOf(1) = head_
      BY DEF SlotOf, Inv, TypeOK, Slots
    <3>2. Items[1] = que_[SlotOf(1)]
      BY <1>2 DEF Items, Inv, TypeOK
    <3> QED
      BY <1>2, <3>1, <3>2, ItemsSeq DEF Inv, TypeOK
  <2>4. Items' \in Seq(Type) /\ Len(Items') = count_ - 1
    BY <1>0, <2>1, ItemsSeqNext
  <2>5. ASSUME NEW i \in 1 .. count_ - 1
        PROVE  Items'[i] = Tail(Items)[i]
    <3>1. SlotOf(i)' = SlotOf(i + 1)
      BY <2>2 DEF SlotOf, Inv, TypeOK, Slots
    <3>2. Items'[i] = que_[SlotOf(i)']
      BY <2>1 DEF Items, Inv, TypeOK
    <3>3. Items[i + 1] = que_[SlotOf(i + 1)]
      BY DEF Items, Inv, TypeOK
    <3>4. Tail(Items)[i] = Items[i + 1]
      BY <2>3, ItemsSeq DEF Inv, TypeOK
    <3> QED
      BY <3>1, <3>2, <3>3, <3>4
  <2>6. Tail(Items) \in Seq(Type) /\ Len(Tail(Items)) = count_ - 1
    BY <2>3, ItemsSeq DEF Inv, TypeOK
  <2>7. Items' = Tail(Items)
    BY <2>4, <2>5, <2>6
  <2> QED
    BY <2>1, <2>3, <2>7 DEF Abstract!pop
<1> QED
    BY <1>1, <1>2

LEMMA FrontReadsTheHead ==
    ASSUME Inv, front
    PROVE  Abstract!front
<1> USE LengthAssumption
<1>1. Items' = Items
    BY DEF front, ring, Items, SlotOf
<1>2. CASE count_ = 0
  <2>1. Items = <<>>
    BY <1>2, ItemsSeq
  <2> QED
    BY <1>1, <1>2, <2>1 DEF front, Abstract!front
<1>3. CASE count_ # 0
  <2>1. SlotOf(1) = head_
    BY DEF SlotOf, Inv, TypeOK, Slots
  <2>2. Items[1] = que_[SlotOf(1)]
    BY <1>3 DEF Items, Inv, TypeOK
  <2>3. Items # <<>> /\ Head(Items) = que_[head_]
    BY <1>3, <2>1, <2>2, ItemsSeq DEF Inv, TypeOK
  <2> QED
    BY <1>1, <1>3, <2>3 DEF front, Abstract!front
<1> QED
    BY <1>2, <1>3

\* The ring implements the bounded FIFO, for every Length and every Type.
THEOREM QueueRefinement == Spec => RefinesFifo
<1>1. Init => Abstract!Init
    BY RefinementInit
<1>2. Inv /\ [Next]_vars => [Abstract!Next]_(Abstract!vars)
  <2> SUFFICES ASSUME Inv, [Next]_vars
               PROVE  [Abstract!Next]_(Abstract!vars)
    OBVIOUS
  <2>1. ASSUME NEW v \in Type, push(v) PROVE Abstract!Next
    BY <2>1, PushAppends DEF Abstract!Next
  <2>2. CASE pop
    BY <2>2, PopTakesTheHead DEF Abstract!Next
  <2>3. CASE front
    BY <2>3, FrontReadsTheHead DEF Abstract!Next
  <2>4. CASE UNCHANGED vars
    BY <2>4 DEF vars, Abstract!vars, Items, SlotOf
  <2> QED
    BY <2>1, <2>2, <2>3, <2>4 DEF Next
<1>3. Spec => []Inv
    BY QueueInvariant DEF Inv
<1> QED
    BY <1>1, <1>2, <1>3, PTL DEF Spec, RefinesFifo, Abstract!Spec
=================================================================================
