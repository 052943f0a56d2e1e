---------------------------------- MODULE QList ---------------------------------
(***************************************************************************)
(* base/QList.h: a ring of QLength slots (base/Queue.h) and a linked list  *)
(* (base/List.h) that takes over when the ring is full.  Every packet      *)
(* queue of the network code is one (PACKET_QUEUE_LENGTH slots).  The list *)
(* is the sequence of its values from head_ to tail_.                      *)
(***************************************************************************)
EXTENDS Integers, Sequences

CONSTANTS Type,       \* the element type of the template
          QLength,    \* the template's ring size
          MaxCount    \* bound: the largest number the int count_ counts to

ASSUME QListAssumption ==
    /\ QLength \in Nat \ {0}
    /\ MaxCount \in Nat

VARIABLES q_count, q_head, q_tail, q_que,  \* que_: the fields of the ring
          list_,                           \* the values of the linked list
          count_,                          \* the elements in both
          ok, value                        \* what the last call gave its caller

ring == <<q_count, q_head, q_tail, q_que>>
vars == <<q_count, q_head, q_tail, q_que, list_, count_, ok, value>>

Ring == INSTANCE Queue WITH Length <- QLength, count_ <- q_count,
                            head_ <- q_head, tail_ <- q_tail, que_ <- q_que

Init ==
    /\ Ring!Init
    /\ list_ = <<>>
    /\ count_ = 0

\* List::push: behind the last node.
listPush(v) ==
    /\ list_' = Append(list_, v)
    /\ ok' = TRUE
    /\ UNCHANGED <<ring, value>>

\* List::pop: the first node, when there is one.
listPop ==
    /\ UNCHANGED ring
    /\ \/ /\ list_ = <<>>
          /\ ok' = FALSE
          /\ UNCHANGED <<list_, value>>
       \/ /\ list_ # <<>>
          /\ value' = Head(list_)
          /\ list_' = Tail(list_)
          /\ ok' = TRUE

\* List::front.
listFront ==
    /\ UNCHANGED <<ring, list_>>
    /\ \/ list_ = <<>> /\ ok' = FALSE /\ UNCHANGED value
       \/ list_ # <<>> /\ ok' = TRUE /\ value' = Head(list_)

\* Mutants of push: the ring is tried first even when the list has elements; an
\* element of the list is not counted.
pushRingFirst(v) ==
    /\ count_ < MaxCount
    /\ \/ q_count # QLength /\ Ring!push(v) /\ UNCHANGED list_
       \/ q_count = QLength /\ listPush(v)
    /\ count_' = count_ + 1

pushCountsRingOnly(v) ==
    /\ count_ < MaxCount
    /\ \/ /\ list_ = <<>>
          /\ q_count # QLength
          /\ Ring!push(v)
          /\ count_' = count_ + 1
          /\ UNCHANGED list_
       \/ /\ list_ # <<>> \/ q_count = QLength
          /\ listPush(v)
          /\ UNCHANGED count_

\* push: to the list as long as the list has elements, even if the ring has room,
\* and when the ring refuses.
push(v) ==
    /\ count_ < MaxCount
    /\ \/ /\ list_ = <<>>
          /\ q_count # QLength
          /\ Ring!push(v)
          /\ UNCHANGED list_
       \/ /\ list_ # <<>> \/ q_count = QLength
          /\ listPush(v)
    /\ count_' = count_ + 1

\* Mutant of pop: a failing call is counted too.
popAlwaysCounts ==
    /\ \/ q_count # 0 /\ Ring!pop /\ UNCHANGED list_
       \/ q_count = 0 /\ listPop
    /\ count_' = count_ - 1

\* pop: the ring first, the list when the ring is empty.
pop ==
    /\ \/ q_count # 0 /\ Ring!pop /\ UNCHANGED list_
       \/ q_count = 0 /\ listPop
    /\ count_' = IF ok' THEN count_ - 1 ELSE count_

front ==
    /\ \/ q_count # 0 /\ Ring!front /\ UNCHANGED list_
       \/ q_count = 0 /\ listFront
    /\ UNCHANGED count_

Next == (\E v \in Type : push(v)) \/ pop \/ front

Spec == Init /\ [][Next]_vars

---------------------------------------------------------------------------------
TypeOK ==
    /\ Ring!TypeOK
    /\ list_ \in Seq(Type)
    /\ count_ \in 0 .. MaxCount

\* count_, which QList keeps beside the counts of its two parts, is their sum, and
\* the ring's indices agree.
CountAgrees == Ring!IndicesAgree /\ count_ = q_count + Len(list_)

\* The elements, oldest first: those of the ring are older than those of the list.
Items == Ring!Items \o list_

Abstract == INSTANCE Fifo WITH Capacity <- MaxCount, items <- Items

\* The two parts together are one first-in first-out queue that refuses nothing:
\* while the list has elements no newer one enters the ring ahead of them.
RefinesFifo == Abstract!Spec
=================================================================================
