---------------------------------- MODULE Fifo ----------------------------------
(***************************************************************************)
(* What the queues of base/ promise their callers: a first-in first-out    *)
(* sequence that takes a value as long as it holds fewer than Capacity of  *)
(* them.  A call answers through its boolean result (ok) and through the   *)
(* caller's variable passed by reference (value), which a failing call     *)
(* leaves alone.                                                           *)
(***************************************************************************)
EXTENDS Naturals, Sequences

CONSTANTS Type,      \* the element type of the template
          Capacity   \* the elements it can hold

VARIABLES items,     \* the elements, oldest first
          ok,        \* the result of the last call
          value      \* the caller's variable, passed to pop and front

vars == <<items, ok, value>>

Init ==
    /\ items = <<>>
    /\ ok \in BOOLEAN
    /\ value \in Type

push(v) ==
    /\ ok' = (Len(items) < Capacity)
    /\ items' = IF Len(items) < Capacity THEN Append(items, v) ELSE items
    /\ UNCHANGED value

pop ==
    /\ ok' = (items # <<>>)
    /\ items' = IF items # <<>> THEN Tail(items) ELSE items
    /\ value' = IF items # <<>> THEN Head(items) ELSE value

front ==
    /\ ok' = (items # <<>>)
    /\ value' = IF items # <<>> THEN Head(items) ELSE value
    /\ UNCHANGED items

Next == (\E v \in Type : push(v)) \/ pop \/ front

Spec == Init /\ [][Next]_vars
=================================================================================
