----------------------------- MODULE SPSCQueue -----------------------------
(***************************************************************************)
(* SPSCQueue.hpp: the wait-free ring of one producer and one consumer.     *)
(*                                                                         *)
(* Each thread runs one call at a time, in one step per access to memory   *)
(* the other thread uses: the load of the other's index, the construction  *)
(* or destruction of an object, the store of its own index.                *)
(*                                                                         *)
(* A release store of C++ reaches the acquire loads of the other thread    *)
(* some time later, in order and with all that was written before it.  So  *)
(* an index has two values: the one stored, which its writer reads back,   *)
(* and the one that has reached the other thread.                          *)
(***************************************************************************)
EXTENDS Integers, Sequences

CONSTANTS Items,     \* the objects pushed
          Capacity,  \* capacity_, the number of slots
          None       \* a slot without an object

\* The constructor throws if capacity < 2
ASSUME Assumptions ==
       /\ Capacity \in Nat /\ Capacity >= 2
       /\ None \notin Items

Slots == 0..(Capacity - 1)

VARIABLES
  slots,     \* slots_
  head,      \* head_, stored by the producer
  tail,      \* tail_, stored by the consumer
  headSeen,  \* head_ as it has reached the consumer
  tailSeen,  \* tail_ as it has reached the producer
  producer,  \* where the producer is in push (emplace) or try_push
  consumer,  \* where the consumer is in front and pop
  item,      \* what the producer pushes
  taken      \* history: the object last popped

vars == <<slots, head, tail, headSeen, tailSeen, producer, consumer, item, taken>>

\* The indices stay inside the ring, also where they wrap; slots hold objects
\* or nothing.
TypeOK ==
  /\ slots \in [Slots -> Items \cup {None}]
  /\ head \in Slots /\ tail \in Slots
  /\ headSeen \in Slots /\ tailSeen \in Slots
  /\ producer \in {"idle", "emplace", "try_emplace", "construct", "store"}
  /\ consumer \in {"idle", "holding", "store"}
  /\ item \in Items \cup {None}
  /\ taken \in {<<>>} \cup {<<x>> : x \in Items \cup {None}}

Init ==
  /\ slots = [i \in Slots |-> None]
  /\ head = 0 /\ tail = 0 /\ headSeen = 0 /\ tailSeen = 0
  /\ producer = "idle" /\ consumer = "idle"
  /\ item = None /\ taken = <<>>

\* nextHead and nextTail
After(i) == IF i + 1 = Capacity THEN 0 ELSE i + 1

\* size(), of the values it loads for head_ and tail_
Size(h, t) == IF h - t < 0 THEN h - t + Capacity ELSE h - t
-----------------------------------------------------------------------------
(* The producer *)

StartPush(x, call) ==
  /\ producer = "idle" /\ producer' = call
  /\ item' = x
  /\ UNCHANGED <<slots, head, tail, headSeen, tailSeen, consumer, taken>>

FullMutant == head + 1 = tailSeen   \* before nextHead is wrapped
Full == After(head) = tailSeen

\* The load of tail_: emplace waits while the ring is full, try_emplace
\* returns false
LoadTail ==
  /\ \/ producer \in {"emplace", "try_emplace"} /\ ~Full
        /\ producer' = "construct"
     \/ producer = "try_emplace" /\ Full
        /\ producer' = "idle"
  /\ UNCHANGED <<slots, head, tail, headSeen, tailSeen, consumer, item, taken>>

TargetMutant == After(head)   \* one slot too far
Target == head

Construct ==
  /\ producer = "construct" /\ producer' = "store"
  /\ slots' = [slots EXCEPT ![Target] = item]
  /\ UNCHANGED <<head, tail, headSeen, tailSeen, consumer, item, taken>>

StoreHead ==
  /\ producer = "store" /\ producer' = "idle"
  /\ head' = After(head)
  /\ item' = None
  /\ UNCHANGED <<slots, tail, headSeen, tailSeen, consumer, taken>>
-----------------------------------------------------------------------------
(* The consumer *)

EmptyMutant == headSeen <= tail   \* an order of indices, not a ring
Empty == headSeen = tail

\* front(): a pointer to the oldest object; when it is nullptr nothing changes
Front ==
  /\ consumer = "idle" /\ ~Empty
  /\ consumer' = "holding"
  /\ UNCHANGED <<slots, head, tail, headSeen, tailSeen, producer, item, taken>>

\* pop() after front(): the object has been used, and is destroyed
Pop ==
  /\ consumer = "holding" /\ consumer' = "store"
  /\ taken' = <<slots[tail]>>
  /\ slots' = [slots EXCEPT ![tail] = None]
  /\ UNCHANGED <<head, tail, headSeen, tailSeen, producer, item>>

StoreTail ==
  /\ consumer = "store" /\ consumer' = "idle"
  /\ tail' = After(tail)
  /\ UNCHANGED <<slots, head, headSeen, tailSeen, producer, item, taken>>
-----------------------------------------------------------------------------
(* The stores reach the other thread *)

HeadArrives ==
  /\ headSeen # head /\ headSeen' = After(headSeen)
  /\ UNCHANGED <<slots, head, tail, tailSeen, producer, consumer, item, taken>>

TailArrives ==
  /\ tailSeen # tail /\ tailSeen' = After(tailSeen)
  /\ UNCHANGED <<slots, head, tail, headSeen, producer, consumer, item, taken>>

Produce == LoadTail \/ Construct \/ StoreHead
Consume == Front \/ Pop \/ StoreTail
Arrive  == HeadArrives \/ TailArrives

Next == \/ \E x \in Items, call \in {"emplace", "try_emplace"} : StartPush(x, call)
        \/ Produce \/ Consume \/ Arrive

Spec == Init /\ [][Next]_vars

\* Both threads run, the consumer polls front() and pops what it finds, and
\* stores reach the other thread in finite time.  Nobody has to push.
FairSpec == /\ Spec /\ WF_vars(Produce) /\ WF_vars(Consume)
            /\ WF_vars(HeadArrives) /\ WF_vars(TailArrives)
-----------------------------------------------------------------------------
(* Properties *)

\* The producer constructs where there is no object, however late the indices
\* reach it, and front()'s pointer names an object until pop() destroys it
SlotsExclusive ==
  /\ producer = "construct" => slots[head] = None
  /\ consumer = "holding" => slots[tail] # None

\* Going round the ring from what the producer knows of the tail, the indices
\* come in this order; so size() is never too large for the consumer, who may
\* pop as many, and never too small for the producer
IndicesInOrder ==
  /\ Size(tail, tailSeen) <= Size(headSeen, tailSeen)
  /\ Size(headSeen, tailSeen) <= Size(head, tailSeen)

\* The slot that comes k after the slot i
Later(i, k) == IF i + k >= Capacity THEN i + k - Capacity ELSE i + k

\* The objects from the tail to the head, without one that has been destroyed
First == IF consumer = "store" THEN After(tail) ELSE tail
Contents == [k \in 1..Size(head, First) |-> slots[Later(First, k - 1)]]

\* Objects are taken in the order they were put, each once, whole, and there
\* are never more than Capacity - 1
Fifo == INSTANCE BoundedFifo WITH queue <- Contents, Bound <- Capacity - 1
ImplementsFifo == Fifo!Spec

\* Neither side waits on the other for good: a push() that waits for room returns,
\* and every object put in the ring is popped
NothingWaits ==
  /\ producer = "emplace" ~> producer = "idle"
  /\ \A i \in Slots : slots[i] # None ~> slots[i] = None
=============================================================================
