---------------------------- MODULE BoundedFifo ----------------------------
(***************************************************************************)
(* What SPSCQueue promises: a FIFO of at most Bound objects, of which the  *)
(* consumer takes the oldest.  SPSCQueue implements this module.           *)
(***************************************************************************)
EXTENDS Naturals, Sequences

CONSTANTS Items, Bound
VARIABLES queue, taken   \* `taken` is the last object the consumer took

Init == queue = <<>> /\ taken = <<>>

Put(x) == /\ Len(queue) < Bound
          /\ queue' = Append(queue, x)
          /\ UNCHANGED taken

Take == /\ queue # <<>>
        /\ taken' = <<Head(queue)>>
        /\ queue' = Tail(queue)

Next == Take \/ \E x \in Items : Put(x)
Spec == Init /\ [][Next]_<<queue, taken>>
=============================================================================
