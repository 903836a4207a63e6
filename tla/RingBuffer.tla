----------------------------- MODULE RingBuffer -----------------------------
(***************************************************************************)
(* RingBuffer<T>: an array with the index of the first value, the index    *)
(* after the last and their number; front_ and back_ are the same in a     *)
(* full ring and in an empty one.  Capacity 0 is left out: a push into     *)
(* such a ring writes outside of its array.                                *)
(*                                                                         *)
(* Elements of the array that hold no value keep what was there; the model *)
(* keeps it too.                                                           *)
(***************************************************************************)
EXTENDS Integers, Sequences

CONSTANTS Values, Capacities,
          Default   \* T()

ASSUME RingAssumption == Capacities \subseteq Nat \ {0}

VARIABLES capacity, size, front, back, buffer,
          returned  \* what the last pop_back() or pop_front() returned

ring == <<capacity, size, front, back, buffer>>
vars == <<ring, returned>>

Stored == Values \cup {Default}

\* The indices are in the array.
TypeOK ==
  /\ capacity \in Capacities
  /\ size \in 0..capacity
  /\ front \in 0..capacity - 1 /\ back \in 0..capacity - 1
  /\ buffer \in [0..capacity - 1 -> Stored]
  /\ returned \in Stored

Init ==
  /\ capacity \in Capacities
  /\ size = 0 /\ front = 0 /\ back = 0
  /\ buffer = [i \in 0..capacity - 1 |-> Default]
  /\ returned = Default

Empty == size = 0
Full  == size = capacity

At(i) == (front + i) % capacity  \* operator[] and get_vector()
Inc(i) == IF i + 1 = capacity THEN 0 ELSE i + 1
Dec(i) == IF i = 0 THEN capacity - 1 ELSE i - 1
-----------------------------------------------------------------------------
OverrunMutant == front  \* a full ring keeps its front
Overrun == IF front = back THEN Inc(front) ELSE front

PushBack(v) ==
  /\ buffer' = [buffer EXCEPT ![back] = v]
  /\ front' = IF Full THEN Overrun ELSE front
  /\ size' = IF Full THEN size ELSE size + 1
  /\ back' = Inc(back)
  /\ UNCHANGED <<capacity, returned>>

PushFront(v) ==
  /\ back' = IF Full /\ back = front THEN Dec(back) ELSE back
  /\ size' = IF Full THEN size ELSE size + 1
  /\ front' = Dec(front)
  /\ buffer' = [buffer EXCEPT ![Dec(front)] = v]
  /\ UNCHANGED <<capacity, returned>>

PopBack ==
  /\ IF Empty THEN returned' = Default /\ UNCHANGED <<size, back>>
     ELSE /\ size' = size - 1 /\ back' = Dec(back)
          /\ returned' = buffer[Dec(back)]
  /\ UNCHANGED <<capacity, front, buffer>>

PopFront ==
  /\ IF Empty THEN returned' = Default /\ UNCHANGED <<size, front>>
     ELSE /\ size' = size - 1 /\ front' = Inc(front)
          /\ returned' = buffer[front]
  /\ UNCHANGED <<capacity, back, buffer>>

\* operator[] of an index in the ring, written through
Assign(i, v) ==
  /\ i \in 0..size - 1
  /\ buffer' = [buffer EXCEPT ![At(i)] = v]
  /\ UNCHANGED <<capacity, size, front, back, returned>>

End(n) == IF n <= size THEN 0 ELSE size

\* resize() keeps what fits, from the front
Resize(n) ==
  /\ size' = IF n <= size THEN n ELSE size
  /\ back' = End(n)
  /\ buffer' = [i \in 0..n - 1 |-> IF i < size' THEN buffer[At(i)] ELSE Default]
  /\ capacity' = n /\ front' = 0
  /\ UNCHANGED returned

Clear ==
  /\ size' = 0 /\ front' = 0 /\ back' = 0
  /\ UNCHANGED <<capacity, buffer, returned>>

Next ==
  \/ \E v \in Values :
       PushBack(v) \/ PushFront(v) \/ (\E i \in 0..capacity - 1 : Assign(i, v))
  \/ PopBack \/ PopFront \/ Clear
  \/ \E n \in Capacities : Resize(n)

Spec == Init /\ [][Next]_vars
-----------------------------------------------------------------------------
(* Properties *)

\* get_vector()
Contents == [i \in 1..size |-> buffer[At(i - 1)]]

\* back_ is where the next value goes, after every sequence of pushes, pops and
\* resizes: the two ends of the ring cannot drift apart
EndsMeet == back = At(size)

\* "x.push_back(6) => [2][3][4][5][6]" (RingBuffer.hpp:171) and the rest of the
\* table there: the array and its indices behave as a queue of the last values
Deque == INSTANCE BoundedDeque WITH
  items <- Contents, limit <- capacity, NoValue <- Default, Limits <- Capacities
ImplementsDeque == Deque!Spec
=============================================================================
