---------------------------- MODULE BoundedDeque ----------------------------
(***************************************************************************)
(* What RingBuffer promises: a double-ended queue of at most limit values, *)
(* where a push onto a full queue drops the value at the other end and a   *)
(* smaller limit drops the values at the back.                             *)
(***************************************************************************)
EXTENDS Integers, Sequences

CONSTANTS Values, NoValue, Limits
VARIABLES items, limit,
          returned   \* what the last pop returned

vars == <<items, limit, returned>>

Full == Len(items) = limit

Init == items = <<>> /\ limit \in Limits /\ returned = NoValue

PushBack(v) ==
  /\ items' = Append(IF Full THEN Tail(items) ELSE items, v)
  /\ UNCHANGED <<limit, returned>>

PushFront(v) ==
  /\ items' = <<v>> \o (IF Full THEN SubSeq(items, 1, limit - 1) ELSE items)
  /\ UNCHANGED <<limit, returned>>

PopBack ==
  /\ \/ items = <<>> /\ items' = items /\ returned' = NoValue
     \/ /\ items # <<>> /\ returned' = items[Len(items)]
        /\ items' = SubSeq(items, 1, Len(items) - 1)
  /\ UNCHANGED limit

PopFront ==
  /\ \/ items = <<>> /\ items' = items /\ returned' = NoValue
     \/ items # <<>> /\ returned' = Head(items) /\ items' = Tail(items)
  /\ UNCHANGED limit

Assign(i, v) ==
  /\ i \in 1..Len(items)
  /\ items' = [items EXCEPT ![i] = v]
  /\ UNCHANGED <<limit, returned>>

Resize(n) ==
  /\ limit' = n
  /\ items' = IF n < Len(items) THEN SubSeq(items, 1, n) ELSE items
  /\ UNCHANGED returned

Clear == items' = <<>> /\ UNCHANGED <<limit, returned>>

Next ==
  \/ \E v \in Values : PushBack(v) \/ PushFront(v) \/ (\E i \in 1..limit : Assign(i, v))
  \/ PopBack \/ PopFront \/ Clear
  \/ \E n \in Limits : Resize(n)

Spec == Init /\ [][Next]_vars
=============================================================================
