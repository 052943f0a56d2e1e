------------------------------- MODULE Collections ------------------------------
(***************************************************************************)
(* Two containers of base/: the binary heap of base/Queue.h (MinQueue) and *)
(* base/Array.h, an array whose filled items are linked in the order they  *)
(* were filled.  A call of Array runs to its end; push and pop of MinQueue *)
(* go on in one step for each turn of adjustDown's loop.                   *)
(***************************************************************************)
EXTENDS Integers, Sequences, SequencesExt, FiniteSets, FiniteSetsExt

CONSTANTS HeapLength,    \* MinQueue's Length
          HeapValues,    \* the numbers pushed
          ArrayLength    \* Array's Length

ASSUME CollectionsAssumption ==
    /\ HeapLength \in Nat \ {0} /\ HeapValues \subseteq Int /\ ArrayLength \in Nat \ {0}

VARIABLES
    heap,          \* que_[1 .. count_]
    h_down,        \* adjustDown's index, 0 when no call runs
    h_up,          \* adjust's index, 0 when it is not adjust that calls adjustDown
    heapIn,        \* history: how often each value was pushed and not yet popped
    heapOut,       \* history: the last value popped, with the least one there was
    a_items,       \* array_: index -> [next, prev]
    a_head, a_tail, a_count,
    a_order        \* history: the filled indices, in the order they were filled

heapVars == <<heap, h_down, h_up, heapIn, heapOut>>
arrayVars == <<a_items, a_head, a_tail, a_count, a_order>>

---------------------------------------------------------------------------------
(* MinQueue.                                                                 *)

HeapInit ==
    /\ heap = <<>> /\ h_down = 0 /\ h_up = 0
    /\ heapIn = [v \in HeapValues |-> 0] /\ heapOut = <<0, 0>>

exchange(h, i, j) == [h EXCEPT ![i] = h[j], ![j] = h[i]]

\* adjustDown's choice: the lesser child, the left one when they are equal.
target(h, i) == IF 2 * i + 1 <= Len(h) /\ h[2 * i] > h[2 * i + 1] THEN 2 * i + 1 ELSE 2 * i

\* adjustDown's loop goes on at i.
sinks(h, i) == i < Len(h) /\ target(h, i) <= Len(h) /\ h[i] > h[target(h, i)]

\* A turn of adjustDown's loop: the element changes places with its lesser child.
adjustDown ==
    /\ h_down > 0 /\ sinks(heap, h_down)
    /\ heap' = exchange(heap, h_down, target(heap, h_down))
    /\ h_down' = target(heap, h_down)
    /\ UNCHANGED <<h_up, heapIn, heapOut>>

\* adjustDown's answer: the index is no longer the one adjust gave it.
changed == h_down # h_up

\* adjustDown returns: adjust goes on at the parent, or stops where nothing has changed.
adjust ==
    /\ h_down > 0 /\ ~ sinks(heap, h_down)
    /\ h_up' = IF changed THEN h_up \div 2 ELSE 0
    /\ h_down' = h_up'
    /\ UNCHANGED <<heap, heapIn, heapOut>>

\* push: behind the last one, and adjust from its parent upwards.
heapPush(v) ==
    /\ h_down = 0 /\ Len(heap) # HeapLength
    /\ heap' = Append(heap, v)
    /\ h_up' = (Len(heap) + 1) \div 2
    /\ h_down' = h_up'
    /\ heapIn' = [heapIn EXCEPT ![v] = @ + 1]
    /\ UNCHANGED heapOut

\* pop: the last element takes the root's place and sinks.
heapPop ==
    /\ h_down = 0 /\ heap # <<>>
    /\ heap' = Front([heap EXCEPT ![1] = Last(heap)])
    /\ h_down' = 1
    /\ heapIn' = [heapIn EXCEPT ![heap[1]] = @ - 1]
    /\ heapOut' = <<heap[1], Min({v \in HeapValues : heapIn[v] > 0})>>
    /\ UNCHANGED h_up

HeapNext == adjustDown \/ adjust \/ heapPop \/ \E v \in HeapValues : heapPush(v)

---------------------------------------------------------------------------------
(* Array.                                                                    *)

Indices == 0 .. ArrayLength - 1
NotFilled == [next |-> 0, prev |-> 0]

ArrayInit ==
    /\ a_items = [i \in Indices |-> NotFilled]
    /\ a_head = -1 /\ a_tail = -1 /\ a_count = 0 /\ a_order = <<>>

\* itemEmpty: there is no flag, an item is free when both links are 0.
itemEmpty(i) == a_items[i] = NotFilled

\* set of a free index: behind the last one.  (Of a filled one: its value changes only.)
arraySet(i) ==
    /\ itemEmpty(i)
    /\ a_items' = [j \in Indices |->
            CASE j = i      -> [next |-> -1, prev |-> a_tail]
              [] j = a_tail -> [a_items[j] EXCEPT !.next = i]
              [] OTHER      -> a_items[j]]
    /\ a_head' = IF a_head = -1 THEN i ELSE a_head
    /\ a_tail' = i
    /\ a_count' = a_count + 1
    /\ a_order' = Append(a_order, i)

\* Mutant of unlinked: the next item keeps its prev.
unlinkedHalf(i) ==
    LET it == a_items[i]
    IN  [j \in Indices |-> CASE j = i       -> NotFilled
                             [] j = it.prev -> [a_items[j] EXCEPT !.next = it.next]
                             [] OTHER       -> a_items[j]]

\* The items once i is taken out.
unlinked(i) ==
    LET it == a_items[i]
    IN  [j \in Indices |-> CASE j = i       -> NotFilled
                             [] j = it.prev -> [a_items[j] EXCEPT !.next = it.next]
                             [] j = it.next -> [a_items[j] EXCEPT !.prev = it.prev]
                             [] OTHER       -> a_items[j]]

arrayDel(i) ==
    /\ ~ itemEmpty(i)
    /\ a_items' = unlinked(i)
    /\ a_head' = IF a_head = i THEN a_items[i].next ELSE a_head
    /\ a_tail' = IF a_tail = i THEN a_items[i].prev ELSE a_tail
    /\ a_count' = a_count - 1
    /\ a_order' = RemoveFirst(a_order, i)

arrayClear ==
    /\ a_count > 0
    /\ a_items' = [i \in Indices |-> NotFilled]
    /\ a_head' = -1 /\ a_tail' = -1 /\ a_count' = 0 /\ a_order' = <<>>

ArrayNext == arrayClear \/ \E i \in Indices : arraySet(i) \/ arrayDel(i)

arrayBegin == a_head

\* An iterator's ++; end() is -1.
itemAfter(i) == a_items[i].next

CollectionsNext == (HeapNext /\ UNCHANGED arrayVars) \/ (ArrayNext /\ UNCHANGED heapVars)

CollectionsSpec == HeapInit /\ ArrayInit /\ [][CollectionsNext]_<<heapVars, arrayVars>>

---------------------------------------------------------------------------------
\* pop gives the least of all that was pushed and not popped: the heap neither loses nor
\* repeats an element, and the adjustments that stop early stop where the order is right.
PopsLeast ==
    /\ \A v \in HeapValues : Cardinality({i \in DOMAIN heap : heap[i] = v}) = heapIn[v]
    /\ heapOut[1] = heapOut[2]

\* A walk visits the filled indices in the order they were filled, whatever was deleted
\* in between, and index 0, whose number is also the mark of a free item, is no exception.
ArrayInOrder ==
    /\ arrayBegin = IF a_order = <<>> THEN -1 ELSE a_order[1]
    /\ \A k \in 1 .. Len(a_order) :
            itemAfter(a_order[k]) = IF k < Len(a_order) THEN a_order[k + 1] ELSE -1
    /\ a_count = Len(a_order)
    /\ {i \in Indices : ~ itemEmpty(i)} = Range(a_order)

\* HeapQueue and Array keep the orders they promise.
CollectionsOrdered == PopsLeast /\ ArrayInOrder
=================================================================================
