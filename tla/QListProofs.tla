------------------------------- MODULE QListProofs ------------------------------
(***************************************************************************)
(* For every ring size the ring and the list of base/QList.h are one FIFO. *)
(* The ring's part of the argument is QueueProofs, instantiated.           *)
(***************************************************************************)
EXTENDS QList, TLAPS

R == INSTANCE QueueProofs WITH Length <- QLength, count_ <- q_count,
                               head_ <- q_head, tail_ <- q_tail, que_ <- q_que

\* The inductive invariant: both parts' types, and the count that is their sum.
Inv == TypeOK /\ CountAgrees

\* The invariant of the ring inside, which QueueProofs calls Inv.
RingInv == Ring!TypeOK /\ Ring!IndicesAgree

\* The definitions that QList and QueueProofs each instantiate are the same.
LEMMA SameRing ==
    /\ RingInv = R!Inv
    /\ Ring!Items = R!Items
    /\ R!LengthAssumption
<1> USE DEF Ring!Slots, R!Slots, Ring!SlotOf, R!SlotOf
<1>1. RingInv = R!Inv
    BY DEF RingInv, R!Inv, Ring!TypeOK, R!TypeOK, Ring!IndicesAgree, R!IndicesAgree
<1>2. Ring!Items = R!Items
    BY DEF Ring!Items, R!Items
<1> QED
    BY <1>1, <1>2, QListAssumption DEF R!LengthAssumption

LEMMA SameOps ==
    ASSUME NEW v \in Type
    PROVE  /\ Ring!push(v) = R!push(v)
           /\ Ring!pop = R!pop
           /\ Ring!front = R!front
<1> USE DEF Ring!ring, R!ring
<1>1. Ring!push(v) = R!push(v)
    BY DEF Ring!push, R!push
<1>2. Ring!pop = R!pop
    BY DEF Ring!pop, R!pop
<1>3. Ring!front = R!front
    BY DEF Ring!front, R!front
<1> QED
    BY <1>1, <1>2, <1>3

LEMMA RingItems == RingInv => Ring!Items \in Seq(Type) /\ Len(Ring!Items) = q_count
  BY R!ItemsSeq, SameRing

LEMMA RingItemsNext ==
    RingInv' => (Ring!Items \in Seq(Type) /\ Len(Ring!Items) = q_count)'
  BY RingItems, PTL

\* What the calls on the ring do to its elements, from QueueProofs.
LEMMA RingPush ==
    ASSUME RingInv, NEW v \in Type, Ring!push(v), q_count # QLength
    PROVE  /\ RingInv'
           /\ Ring!Items' = Append(Ring!Items, v)
           /\ q_count' = q_count + 1
           /\ ok' = TRUE /\ value' = value
<1>1. R!Inv /\ R!push(v) /\ R!LengthAssumption
    BY SameRing, SameOps
<1>2. R!Inv'
    BY <1>1, R!InvNext DEF R!Next
<1>3. R!Abstract!push(v)
    BY <1>1, R!PushAppends
<1>4. Len(R!Items) < QLength
    BY <1>1, R!ItemsSeq, QListAssumption DEF R!Inv, R!TypeOK
<1>5. (RingInv = R!Inv)' /\ (Ring!Items = R!Items)'
    BY SameRing, PTL
<1>6. R!Items' = Append(R!Items, v)
    BY <1>3, <1>4 DEF R!Abstract!push
<1>7. q_count' = q_count + 1 /\ ok' = TRUE /\ value' = value
    BY DEF Ring!push
<1> QED
    BY <1>2, <1>5, <1>6, <1>7, SameRing

LEMMA RingPop ==
    ASSUME RingInv, Ring!pop, q_count # 0
    PROVE  /\ RingInv'
           /\ Ring!Items # <<>>
           /\ Ring!Items' = Tail(Ring!Items)
           /\ value' = Head(Ring!Items)
           /\ q_count' = q_count - 1
           /\ ok' = TRUE
<1>1. R!Inv /\ R!pop /\ R!LengthAssumption
    BY SameRing, SameOps DEF RingInv, Ring!TypeOK
<1>2. R!Inv'
    BY <1>1, R!InvNext DEF R!Next
<1>3. R!Abstract!pop
    BY <1>1, R!PopTakesTheHead
<1>4. R!Items # <<>>
    BY <1>1, R!ItemsSeq
<1>5. (RingInv = R!Inv)' /\ (Ring!Items = R!Items)'
    BY SameRing, PTL
<1>6. R!Items' = Tail(R!Items) /\ value' = Head(R!Items)
    BY <1>3, <1>4 DEF R!Abstract!pop
<1>7. q_count' = q_count - 1 /\ ok' = TRUE
    BY DEF Ring!pop
<1> QED
    BY <1>2, <1>4, <1>5, <1>6, <1>7, SameRing

LEMMA RingFront ==
    ASSUME RingInv, Ring!front, q_count # 0
    PROVE  /\ Ring!Items # <<>>
           /\ value' = Head(Ring!Items)
           /\ ok' = TRUE
           /\ UNCHANGED ring
<1>1. R!Inv /\ R!front /\ R!LengthAssumption
    BY SameRing, SameOps DEF RingInv, Ring!TypeOK
<1>2. R!Abstract!front
    BY <1>1, R!FrontReadsTheHead
<1>3. R!Items # <<>>
    BY <1>1, R!ItemsSeq
<1>4. value' = Head(R!Items)
    BY <1>2, <1>3 DEF R!Abstract!front
<1>5. ok' = TRUE /\ UNCHANGED ring
    BY DEF Ring!front, Ring!ring, ring
<1> QED
    BY <1>3, <1>4, <1>5, SameRing

LEMMA RingUnchanged ==
    ASSUME RingInv, UNCHANGED ring, ok' \in BOOLEAN, value' \in Type
    PROVE  RingInv' /\ Ring!Items' = Ring!Items /\ q_count' = q_count
  BY DEF RingInv, Ring!TypeOK, Ring!IndicesAgree, Ring!Items, Ring!SlotOf, ring

---------------------------------------------------------------------------------
(* One step of QList, seen on the sequence of its elements.                  *)

\* What each call does; the effect on ok, value and Items is the Fifo's.
Effect(items1, ok1, value1) ==
    /\ Inv'
    /\ Items' = items1
    /\ ok' = ok1
    /\ value' = value1

LEMMA ItemsLen ==
    Inv => /\ Items \in Seq(Type) /\ Len(Items) = count_
           /\ Ring!Items \in Seq(Type) /\ Len(Ring!Items) = q_count
           /\ q_count \in Nat /\ list_ \in Seq(Type)
  BY RingItems, QListAssumption
     DEF Inv, TypeOK, CountAgrees, Items, RingInv, Ring!TypeOK

LEMMA PushEffect ==
    ASSUME Inv, NEW v \in Type, push(v)
    PROVE  Effect(Append(Items, v), TRUE, value)
<1> USE DEF Inv, TypeOK, CountAgrees, RingInv
<1>0. count_ < MaxCount /\ count_' = count_ + 1 /\ count_' \in 0 .. MaxCount
    BY QListAssumption DEF push
<1>1. CASE list_ = <<>> /\ q_count # QLength
  <2>1. Ring!push(v) /\ list_' = <<>>
    BY <1>1 DEF push
  <2>2. /\ RingInv' /\ Ring!Items' = Append(Ring!Items, v)
        /\ q_count' = q_count + 1 /\ ok' = TRUE /\ value' = value
    BY <1>1, <2>1, RingPush
  <2>3. Inv'
    BY <1>0, <1>1, <2>1, <2>2, ItemsLen
  <2>4. Items' = Append(Items, v)
    BY <1>1, <2>1, <2>2, ItemsLen DEF Items
  <2> QED
    BY <2>2, <2>3, <2>4 DEF Effect
<1>2. CASE list_ # <<>> \/ q_count = QLength
  <2>1. listPush(v)
    BY <1>2 DEF push
  <2>2. /\ list_' = Append(list_, v) /\ ok' = TRUE /\ value' = value
        /\ UNCHANGED ring
    BY <2>1 DEF listPush
  <2>3. ok' \in BOOLEAN /\ value' \in Type
    BY <2>2 DEF Ring!TypeOK
  <2>4. RingInv' /\ Ring!Items' = Ring!Items /\ q_count' = q_count
    BY <2>2, <2>3, RingUnchanged
  <2>5. Inv'
    BY <1>0, <2>2, <2>4, ItemsLen
  <2>6. Items' = Append(Items, v)
    BY <2>2, <2>4, ItemsLen DEF Items
  <2> QED
    BY <2>2, <2>5, <2>6 DEF Effect
<1> QED
    BY <1>1, <1>2

LEMMA PopEffect ==
    ASSUME Inv, pop
    PROVE  IF Items # <<>>
             THEN Effect(Tail(Items), TRUE, Head(Items))
             ELSE Effect(Items, FALSE, value)
<1> USE DEF Inv, TypeOK, CountAgrees, RingInv
<1>1. CASE q_count # 0
  <2>1. Ring!pop /\ list_' = list_
    BY <1>1 DEF pop
  <2>2. /\ RingInv' /\ Ring!Items # <<>> /\ Ring!Items' = Tail(Ring!Items)
        /\ value' = Head(Ring!Items) /\ q_count' = q_count - 1 /\ ok' = TRUE
    BY <1>1, <2>1, RingPop
  <2>3. count_' = count_ - 1
    BY <1>1, <2>2 DEF pop
  <2>4. Inv'
    BY <2>1, <2>2, <2>3, ItemsLen, QListAssumption
  <2>5. /\ Items # <<>> /\ Head(Items) = Head(Ring!Items)
        /\ Items' = Tail(Items)
    BY <1>1, <2>1, <2>2, ItemsLen DEF Items
  <2> QED
    BY <2>2, <2>4, <2>5 DEF Effect
<1>2. CASE q_count = 0 /\ list_ # <<>>
  <2>1. listPop
    BY <1>2 DEF pop
  <2>2. /\ list_' = Tail(list_) /\ value' = Head(list_) /\ ok' = TRUE
        /\ UNCHANGED ring
    BY <1>2, <2>1 DEF listPop
  <2>3. value' \in Type /\ Ring!Items = <<>>
    BY <1>2, <2>2, ItemsLen
  <2>4. RingInv' /\ Ring!Items' = Ring!Items /\ q_count' = q_count
    BY <2>2, <2>3, RingUnchanged
  <2>5. count_' = count_ - 1
    BY <1>2, <2>2 DEF pop
  <2>6. Inv'
    BY <1>2, <2>2, <2>4, <2>5, ItemsLen, QListAssumption
  <2>7. Items = list_ /\ Items' = list_'
    BY <2>2, <2>3, <2>4, <2>6, ItemsLen DEF Items
  <2> QED
    BY <1>2, <2>2, <2>6, <2>7 DEF Effect
<1>3. CASE q_count = 0 /\ list_ = <<>>
  <2>1. listPop
    BY <1>3 DEF pop
  <2>2. list_' = list_ /\ value' = value /\ ok' = FALSE /\ UNCHANGED ring
    BY <1>3, <2>1 DEF listPop
  <2>3. value' \in Type
    BY <2>2 DEF Ring!TypeOK
  <2>4. RingInv' /\ Ring!Items' = Ring!Items /\ q_count' = q_count
    BY <2>2, <2>3, RingUnchanged
  <2>5. count_' = count_
    BY <1>3, <2>2 DEF pop
  <2>6. Inv' /\ Items' = Items
    BY <2>2, <2>4, <2>5 DEF Items
  <2>7. Items = <<>>
    BY <1>3, ItemsLen DEF Items
  <2> QED
    BY <2>2, <2>6, <2>7 DEF Effect
<1> QED
    BY <1>1, <1>2, <1>3

LEMMA FrontEffect ==
    ASSUME Inv, front
    PROVE  IF Items # <<>>
             THEN Effect(Items, TRUE, Head(Items))
             ELSE Effect(Items, FALSE, value)
<1> USE DEF Inv, TypeOK, CountAgrees, RingInv
<1>0. count_' = count_
    BY DEF front
<1>1. /\ UNCHANGED <<ring, list_>>
      /\ IF Items # <<>> THEN ok' = TRUE /\ value' = Head(Items)
                        ELSE ok' = FALSE /\ value' = value
  <2>1. CASE q_count # 0
    <3>1. Ring!front /\ list_' = list_
      BY <2>1 DEF front
    <3>2. /\ Ring!Items # <<>> /\ value' = Head(Ring!Items)
          /\ ok' = TRUE /\ UNCHANGED ring
      BY <2>1, <3>1, RingFront
    <3>3. Items # <<>> /\ Head(Items) = Head(Ring!Items)
      BY <3>2, ItemsLen DEF Items
    <3> QED
      BY <3>1, <3>2, <3>3
  <2>2. CASE q_count = 0
    <3>1. listFront
      BY <2>2 DEF front
    <3>2. Items = list_
      BY <2>2, ItemsLen DEF Items
    <3>3. CASE list_ = <<>>
      BY <3>1, <3>2, <3>3 DEF listFront
    <3>4. CASE list_ # <<>>
      BY <3>1, <3>2, <3>4 DEF listFront
    <3> QED
      BY <3>3, <3>4
  <2> QED
    BY <2>1, <2>2
<1>2. ok' \in BOOLEAN /\ value' \in Type
  <2>1. CASE Items # <<>>
    BY <1>1, <2>1, ItemsLen
  <2>2. CASE Items = <<>>
    BY <1>1, <2>2 DEF Ring!TypeOK
  <2> QED
    BY <2>1, <2>2
<1>3. RingInv' /\ Ring!Items' = Ring!Items /\ q_count' = q_count
    BY <1>1, <1>2, RingUnchanged
<1>4. Inv' /\ Items' = Items
    BY <1>0, <1>1, <1>3 DEF Items
<1> QED
    BY <1>1, <1>4 DEF Effect

LEMMA InvInit == Init => Inv
<1> SUFFICES ASSUME Init PROVE Inv
    OBVIOUS
<1>1. R!LengthAssumption
    BY SameRing
<1>2. R!Init
    BY DEF Init, Ring!Init, R!Init, Ring!Slots, R!Slots
<1>3. RingInv
    BY <1>1, <1>2, R!InvInit, SameRing
<1> QED
    BY <1>3, QListAssumption DEF Init, Ring!Init, Inv, TypeOK, CountAgrees, RingInv

LEMMA InvNext == Inv /\ [Next]_vars => Inv'
<1> SUFFICES ASSUME Inv, [Next]_vars PROVE Inv'
    OBVIOUS
<1>1. ASSUME NEW v \in Type, push(v) PROVE Inv'
    BY <1>1, PushEffect DEF Effect
<1>2. CASE pop
    BY <1>2, PopEffect DEF Effect
<1>3. CASE front
    BY <1>3, FrontEffect DEF Effect
<1>4. CASE UNCHANGED vars
  <2>1. RingInv' /\ q_count' = q_count
    BY <1>4, RingUnchanged
       DEF vars, ring, Inv, TypeOK, CountAgrees, RingInv, Ring!TypeOK
  <2> QED
    BY <1>4, <2>1 DEF vars, Inv, TypeOK, CountAgrees, RingInv
<1> QED
    BY <1>1, <1>2, <1>3, <1>4 DEF Next

\* The fields of QList keep their types, and its count is that of its parts.
THEOREM QListInvariant == Spec => [](TypeOK /\ CountAgrees)
<1>1. Init => Inv
    BY InvInit
<1>2. Inv /\ [Next]_vars => Inv'
    BY InvNext
<1> QED
    BY <1>1, <1>2, PTL DEF Spec, Inv

\* Ring and list together implement one FIFO that refuses nothing, for every ring
\* size: the packet queues of the network code keep their packets in order.
THEOREM QListRefinement == Spec => RefinesFifo
<1>1. Init => Abstract!Init
  <2> SUFFICES ASSUME Init PROVE Abstract!Init
    OBVIOUS
  <2>1. Inv
    BY InvInit
  <2>2. Items = <<>>
    BY <2>1, ItemsLen DEF Init
  <2> QED
    BY <2>2 DEF Init, Ring!Init, Abstract!Init
<1>2. Inv /\ [Next]_vars => [Abstract!Next]_(Abstract!vars)
  <2> SUFFICES ASSUME Inv, [Next]_vars
               PROVE  [Abstract!Next]_(Abstract!vars)
    OBVIOUS
  <2>1. ASSUME NEW v \in Type, push(v) PROVE Abstract!Next
    <3>1. Items' = Append(Items, v) /\ ok' = TRUE /\ value' = value
      BY <2>1, PushEffect DEF Effect
    <3>2. (Len(Items) < MaxCount) = TRUE
      BY <2>1, ItemsLen DEF push
    <3>3. Abstract!push(v)
      BY <3>1, <3>2 DEF Abstract!push
    <3> QED
      BY <3>3 DEF Abstract!Next
  <2>2. CASE pop
    <3>1. CASE Items # <<>>
      BY <2>2, <3>1, PopEffect DEF Effect, Abstract!pop, Abstract!Next
    <3>2. CASE Items = <<>>
      BY <2>2, <3>2, PopEffect DEF Effect, Abstract!pop, Abstract!Next
    <3> QED
      BY <3>1, <3>2
  <2>3. CASE front
    <3>1. CASE Items # <<>>
      BY <2>3, <3>1, FrontEffect DEF Effect, Abstract!front, Abstract!Next
    <3>2. CASE Items = <<>>
      BY <2>3, <3>2, FrontEffect DEF Effect, Abstract!front, Abstract!Next
    <3> QED
      BY <3>1, <3>2
  <2>4. CASE UNCHANGED vars
    BY <2>4 DEF vars, Abstract!vars, Items, Ring!Items, Ring!SlotOf
  <2> QED
    BY <2>1, <2>2, <2>3, <2>4 DEF Next
<1>3. Spec => []Inv
    BY QListInvariant DEF Inv
<1> QED
    BY <1>1, <1>2, <1>3, PTL DEF Spec, RefinesFifo, Abstract!Spec
=================================================================================
