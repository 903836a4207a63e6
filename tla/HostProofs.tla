---------------------------- MODULE HostProofs ----------------------------
(***************************************************************************)
(* What threads of one process share, for all values of the constants: the *)
(* ring of SPSCQueue (types, its inductive invariant Inv, its safety and   *)
(* that it is a FIFO), the samples of the armband's thread (MyoBand), the  *)
(* terminal (Console, whose inductive invariant is ConsoleInv) and what    *)
(* comes of a response over HTTP (HttpClient, invariant WebInv).           *)
(***************************************************************************)
EXTENDS SPSCQueue, Host, SequenceTheorems, WellFoundedInduction, TLAPS

-----------------------------------------------------------------------------
(* The ring. *)


LEMMA AfterType == ASSUME NEW i \in Slots PROVE After(i) \in Slots
BY Assumptions DEF Slots, After

LEMMA ZeroIsSlot == 0 \in Slots
BY Assumptions DEF Slots

\* Every push keeps the indices in the ring and objects in the slots.
THEOREM TypeCorrect == Spec => []TypeOK
<1>1. Init => TypeOK
  BY ZeroIsSlot DEF Init, TypeOK
<1>2. TypeOK /\ [Next]_vars => TypeOK'
  <2> SUFFICES ASSUME TypeOK, [Next]_vars PROVE TypeOK'
    OBVIOUS
  <2> USE AfterType DEF TypeOK
  <2>1. ASSUME NEW x \in Items, NEW push \in {"emplace", "try_emplace"},
               StartPush(x, push)
        PROVE  TypeOK'
    BY <2>1 DEF StartPush
  <2>2. CASE LoadTail
    BY <2>2 DEF LoadTail
  <2>3. CASE Construct
    BY <2>3 DEF Construct, Target
  <2>4. CASE StoreHead
    BY <2>4 DEF StoreHead
  <2>5. CASE Front
    BY <2>5 DEF Front
  <2>6. CASE Pop
    BY <2>6 DEF Pop
  <2>7. CASE StoreTail
    BY <2>7 DEF StoreTail
  <2>8. CASE Arrive
    BY <2>8 DEF Arrive, HeadArrives, TailArrives
  <2>9. CASE UNCHANGED vars
    BY <2>9 DEF vars
  <2> QED
    BY <2>1, <2>2, <2>3, <2>4, <2>5, <2>6, <2>7, <2>8, <2>9
    DEF Next, Produce, Consume
<1> QED
  BY <1>1, <1>2, PTL DEF Spec

-----------------------------------------------------------------------------
(* The invariant. *)

\* From the tail to the head every slot holds an object, but for the one pop()
\* has just destroyed; elsewhere none does, but for the one just constructed.
Live(i) == \/ Size(i, tail) < Size(head, tail) /\ ~(consumer = "store" /\ i = tail)
           \/ producer = "store" /\ i = head

LiveSlots == \A i \in Slots : slots[i] # None <=> Live(i)

\* What a thread found out with its load stays true until it stores.
Kept == /\ producer \in {"construct", "store"} => After(head) # tailSeen
        /\ producer # "idle" => item \in Items
        /\ consumer # "idle" => headSeen # tail

Inv == TypeOK /\ IndicesInOrder /\ Kept /\ LiveSlots

LEMMA InitInv == Init => Inv
BY Assumptions, ZeroIsSlot
DEF Init, Inv, TypeOK, IndicesInOrder, Kept, LiveSlots, Live, Size, Slots

LEMMA OrderStep == TypeOK /\ IndicesInOrder /\ Kept /\ [Next]_vars => IndicesInOrder'
<1> SUFFICES ASSUME TypeOK, IndicesInOrder, Kept, [Next]_vars PROVE IndicesInOrder'
  OBVIOUS
<1>0. USE Assumptions DEF TypeOK, IndicesInOrder, Size, Slots
<1>1. CASE UNCHANGED <<head, tail, headSeen, tailSeen>>
  BY <1>1
<1>2. CASE StoreHead
  BY <1>2 DEF StoreHead, After, Kept
<1>3. CASE StoreTail
  BY <1>3 DEF StoreTail, After, Kept
<1>4. CASE HeadArrives
  BY <1>4 DEF HeadArrives, After
<1>5. CASE TailArrives
  BY <1>5 DEF TailArrives, After
<1> QED
  BY <1>1, <1>2, <1>3, <1>4, <1>5
  DEF Next, StartPush, Produce, LoadTail, Construct, Consume, Front, Pop, Arrive, vars

LEMMA KeptStep == TypeOK /\ IndicesInOrder /\ Kept /\ [Next]_vars => Kept'
<1> SUFFICES ASSUME TypeOK, IndicesInOrder, Kept, [Next]_vars PROVE Kept'
  OBVIOUS
<1> USE DEF Kept
<1>1. ASSUME NEW x \in Items, NEW push \in {"emplace", "try_emplace"}, StartPush(x, push)
      PROVE  Kept'
  BY <1>1 DEF StartPush
<1>2. CASE Produce
  BY <1>2 DEF Produce, LoadTail, Full, Construct, StoreHead
<1>3. CASE Consume
  BY <1>3 DEF Consume, Front, Empty, Pop, StoreTail
<1>4. CASE HeadArrives
  BY <1>4, Assumptions DEF HeadArrives, After, TypeOK, IndicesInOrder, Size, Slots
<1>5. CASE TailArrives
  BY <1>5, Assumptions DEF TailArrives, After, TypeOK, IndicesInOrder, Size, Slots
<1>6. CASE UNCHANGED vars
  BY <1>6 DEF vars
<1> QED
  BY <1>1, <1>2, <1>3, <1>4, <1>5, <1>6 DEF Next, Arrive

LEMMA LiveStep == Inv /\ [Next]_vars => LiveSlots'
<1> SUFFICES ASSUME Inv, [Next]_vars, NEW i \in Slots
             PROVE  slots'[i] # None <=> Live(i)'
  BY DEF LiveSlots
<1> USE Assumptions DEF Inv, TypeOK, LiveSlots, Live, Kept
<1>1. CASE UNCHANGED <<slots, head, tail, consumer>> /\ "store" \notin {producer, producer'}
  BY <1>1
<1>2. CASE Construct
  BY <1>2 DEF Construct, Target, Slots, Size, After, IndicesInOrder
<1>3. CASE StoreHead
  BY <1>3 DEF StoreHead, Slots, Size, After, IndicesInOrder
<1>4. CASE Front
  BY <1>4 DEF Front
<1>5. CASE Pop
  BY <1>5 DEF Pop, Slots, Size, After, IndicesInOrder
<1>6. CASE StoreTail
  BY <1>6 DEF StoreTail, Slots, Size, After, IndicesInOrder
<1>7. CASE Arrive \/ UNCHANGED vars
  BY <1>7 DEF Arrive, HeadArrives, TailArrives, vars
<1> QED
  BY <1>1, <1>2, <1>3, <1>4, <1>5, <1>6, <1>7
  DEF Next, StartPush, Produce, LoadTail, Consume

LEMMA InvHolds == Spec => []Inv
<1>1. Inv /\ [Next]_vars => (IndicesInOrder /\ Kept /\ LiveSlots)'
  BY OrderStep, KeptStep, LiveStep DEF Inv
<1>2. Inv <=> TypeOK /\ IndicesInOrder /\ Kept /\ LiveSlots
  BY DEF Inv
<1> QED
  BY <1>1, <1>2, InitInv, TypeCorrect, PTL DEF Spec

\* With any capacity and however late the stores arrive, the producer never
\* constructs over an object, front() never points at none, and size() errs on
\* the safe side for both threads.
THEOREM Safety == Spec => [](SlotsExclusive /\ IndicesInOrder)
<1>1. Inv => SlotsExclusive /\ IndicesInOrder
  BY Assumptions
  DEF Inv, TypeOK, LiveSlots, Live, Kept, SlotsExclusive, IndicesInOrder, Size, After, Slots
<1> QED
  BY <1>1, InvHolds, PTL

\* What each thread sees of the other's index is behind, never ahead: size() and the
\* tests for full and empty err on the safe side (SPSCQueue.hpp).
COROLLARY IndicesCorrect == Spec => []IndicesInOrder
  BY Safety, PTL

-----------------------------------------------------------------------------
(* The refinement: StoreHead puts, Pop takes, every other step stutters. *)

\* The object being pushed is in its slot until the head moves past it.
Constructed == producer = "store" => slots[head] = item

LEMMA ConstructedStep == Inv /\ Constructed /\ [Next]_vars => Constructed'
<1> SUFFICES ASSUME Inv, Constructed, [Next]_vars PROVE Constructed'
  OBVIOUS
<1> USE DEF Constructed
<1>1. CASE Construct
  BY <1>1 DEF Construct, Target, Inv, TypeOK
<1>2. CASE Pop
  <2>1. head # tail
    BY <1>2, Assumptions DEF Pop, Inv, TypeOK, Kept, IndicesInOrder, Size, Slots
  <2> QED
    BY <1>2, <2>1 DEF Pop, Inv, TypeOK
<1> QED
  BY <1>1, <1>2
  DEF Next, StartPush, Produce, LoadTail, StoreHead, Consume, Front, StoreTail,
    Arrive, HeadArrives, TailArrives, vars

LEMMA ContentsType ==
  ASSUME TypeOK
  PROVE  /\ First \in Slots
         /\ Size(head, First) \in 0..(Capacity - 1)
         /\ Contents \in Seq(Items \cup {None})
         /\ Len(Contents) = Size(head, First)
<1>1. First \in Slots
  BY AfterType DEF TypeOK, First
<1>2. Size(head, First) \in 0..(Capacity - 1)
  BY <1>1, Assumptions DEF TypeOK, Size, Slots
<1>3. ASSUME NEW k \in 1..Size(head, First)
      PROVE  slots[Later(First, k - 1)] \in Items \cup {None}
  <2>1. Later(First, k - 1) \in Slots
    BY <1>1, <1>2, Assumptions DEF Later, Slots
  <2> QED
    BY <2>1 DEF TypeOK
<1>4. Contents \in [1..Size(head, First) -> Items \cup {None}]
  BY <1>3 DEF Contents
<1> QED
  BY <1>1, <1>2, <1>4

LEMMA PutStep == Inv /\ Constructed /\ StoreHead => Fifo!Put(item)
<1> SUFFICES ASSUME Inv, Constructed, StoreHead PROVE Fifo!Put(item)
  OBVIOUS
<1>1. TypeOK /\ After(head) \in Slots
  BY AfterType DEF Inv, TypeOK
<1>2. First \in Slots /\ First' = First /\ slots' = slots
  BY <1>1, ContentsType DEF StoreHead, First, After
<1>3. /\ Size(head, First) < Capacity - 1
      /\ Size(head, First)' = Size(head, First) + 1
      /\ Later(First, Size(head, First)) = head
  BY <1>1, <1>2, Assumptions
  DEF StoreHead, First, Inv, TypeOK, Kept, IndicesInOrder, Size, After, Slots, Later
<1>4. Contents' = Append(Contents, item)
  BY <1>1, <1>2, <1>3, ContentsType DEF Contents, StoreHead, Constructed
<1> QED
  BY <1>1, <1>3, <1>4, ContentsType DEF Fifo!Put, StoreHead

LEMMA TakeStep == Inv /\ Pop => Fifo!Take
<1> SUFFICES ASSUME Inv, Pop PROVE Fifo!Take
  OBVIOUS
<1>1. TypeOK /\ First = tail /\ First' = After(tail) /\ head' = head
  BY DEF Inv, Pop, First
<1>2. Size(head, tail) > 0 /\ Size(head, After(tail)) = Size(head, tail) - 1
  BY <1>1, Assumptions
  DEF Inv, Pop, TypeOK, Kept, IndicesInOrder, Size, After, Slots
<1>3. Contents # <<>> /\ Head(Contents) = slots[tail]
  <2>1. Later(tail, 0) = tail
    BY <1>1, Assumptions DEF TypeOK, Slots, Later
  <2> QED
    BY <1>1, <1>2, <2>1, ContentsType DEF Contents
<1>4. ASSUME NEW k \in 1..Size(head, After(tail))
      PROVE  /\ Later(After(tail), k - 1) = Later(tail, k)
             /\ Later(tail, k) # tail /\ Later(tail, k) \in Slots
  BY <1>1, <1>2, Assumptions DEF TypeOK, Later, After, Size, Slots
<1>5. ASSUME NEW k \in 1..Size(head, After(tail))
      PROVE  Contents'[k] = Contents[k + 1]
  <2>1. slots'[Later(tail, k)] = slots[Later(tail, k)]
    BY <1>1, <1>4 DEF Pop, TypeOK
  <2>2. Contents'[k] = slots'[Later(After(tail), k - 1)]
    BY <1>1 DEF Contents, Size
  <2>3. k + 1 \in 1..Size(head, First) /\ (k + 1) - 1 = k
    BY <1>1, <1>2, AfterType, Assumptions DEF TypeOK, Size, Slots
  <2>4. Contents[k + 1] = slots[Later(tail, k)]
    BY <1>1, <2>3 DEF Contents
  <2> QED
    BY <1>4, <2>1, <2>2, <2>4
<1>6. Contents' = Tail(Contents)
  <2>1. ASSUME NEW k \in 1..Size(head, After(tail))
        PROVE  slots'[Later(After(tail), k - 1)] \in Items \cup {None}
    BY <1>1, <1>4 DEF Pop, TypeOK
  <2>2. /\ Contents' \in Seq(Items \cup {None})
        /\ Len(Contents') = Size(head, tail) - 1
    <3>1. Contents' \in [1..(Size(head, tail) - 1) -> Items \cup {None}]
      BY <1>1, <1>2, <2>1 DEF Contents, Size, Later
    <3>2. Size(head, tail) - 1 \in Nat
      BY <1>1, <1>2, ContentsType
    <3> QED
      BY <3>1, <3>2
  <2>3. /\ Contents \in Seq(Items \cup {None})
        /\ Len(Contents) = Size(head, tail) /\ Size(head, tail) \in Nat
    BY <1>1, ContentsType
  <2>4. /\ Tail(Contents) \in Seq(Items \cup {None})
        /\ Len(Tail(Contents)) = Size(head, tail) - 1
        /\ \A k \in 1..(Size(head, tail) - 1) : Tail(Contents)[k] = Contents[k + 1]
    BY <1>2, <1>3, <2>3
  <2>5. \A k \in 1..(Size(head, tail) - 1) : Contents'[k] = Tail(Contents)[k]
    BY <1>2, <1>5, <2>4
  <2> QED
    BY <2>2, <2>4, <2>5
<1> QED
  BY <1>3, <1>6 DEF Fifo!Take, Pop

\* Every other step of the ring leaves its contents alone.
LEMMA StutterStep ==
  ASSUME Inv, [Next]_vars, ~StoreHead, ~Pop
  PROVE  UNCHANGED <<Contents, taken>>
<1> USE DEF Inv, TypeOK
<1>1. CASE UNCHANGED <<slots, head, tail, taken>> /\ First' = First
  BY <1>1 DEF Contents, Size
<1>2. CASE Construct
  <2>1. /\ First' = First /\ UNCHANGED <<head, tail, taken>>
        /\ First \in Slots
    BY <1>2, AfterType DEF Construct, First, After
  <2>2. ASSUME NEW k \in 1..Size(head, First)
        PROVE  Later(First, k - 1) # head /\ Later(First, k - 1) \in Slots
    BY <2>1, Assumptions DEF Size, Later, Slots
  <2>3. ASSUME NEW k \in 1..Size(head, First)
        PROVE  slots'[Later(First, k - 1)] = slots[Later(First, k - 1)]
    BY <1>2, <2>2 DEF Construct, Target
  <2> QED
    BY <2>1, <2>3 DEF Contents, Size, Later
<1>3. CASE StoreTail
  BY <1>3 DEF StoreTail, First, Contents, Size, Later
<1>4. CASE Front
  BY <1>4 DEF Front, First, Contents, Size, Later, After
<1> QED
  BY <1>1, <1>2, <1>3, <1>4
  DEF Next, StartPush, Produce, LoadTail, Consume, Arrive, HeadArrives, TailArrives,
    vars, First, After

\* The ring is a FIFO of Capacity - 1 objects: none is lost, duplicated, taken
\* out of order or before it is whole.
THEOREM Refinement == Spec => ImplementsFifo
<1>1. Init => Fifo!Init /\ Constructed
  BY Assumptions DEF Init, Fifo!Init, Constructed, Contents, First, Size
<1>2. Inv /\ Constructed /\ [Next]_vars => [Fifo!Next]_<<Contents, taken>>
  <2> SUFFICES ASSUME Inv, Constructed, [Next]_vars
               PROVE  [Fifo!Next]_<<Contents, taken>>
    OBVIOUS
  <2>1. CASE StoreHead
    <3>1. item \in Items
      BY <2>1 DEF StoreHead, Inv, Kept
    <3> QED
      BY <2>1, <3>1, PutStep DEF Fifo!Next
  <2>2. CASE Pop
    BY <2>2, TakeStep DEF Fifo!Next
  <2>3. CASE ~StoreHead /\ ~Pop
    BY <2>3, StutterStep
  <2> QED
    BY <2>1, <2>2, <2>3
<1> QED
  BY <1>1, <1>2, ConstructedStep, InvHolds, PTL DEF Spec, ImplementsFifo, Fifo!Spec

-----------------------------------------------------------------------------
-----------------------------------------------------------------------------
(* The armband. *)

\* Of one sample, but for what was cleared.
Of(v, x) == x = 0 \/ x = v

BandTypes ==
  /\ samples \in [Band!Channels -> Nat] /\ values \in [Band!Channels -> Nat]
  /\ at["io"] \in Nat /\ at["program"] \in Nat /\ DOMAIN at = Band!Threads
  /\ samplesSent \in Nat /\ updating \in BOOLEAN
  /\ inside \in {"io", "program", "none"} /\ io \in {"none", "runs", "emg", "unpair"}

\* The io thread holds the mutex while it copies a sample in, the program's thread while
\* it copies one out; there is one io thread.
Inside ==
  (io = "emg" <=> inside = "io") /\ (updating <=> inside = "program") /\ (io # "none" => thread)

\* The samples are one, or the next as far as it is copied.
Copied == \E v : \A c \in Band!Channels :
  /\ io = "emg" /\ c < at["io"] => samples[c] = samplesSent
  /\ io = "emg" /\ c >= at["io"] => Of(v, samples[c])
  /\ io # "emg" => Of(v, samples[c])
  /\ updating /\ c < at["program"] => Of(v, values[c])

BandInv == BandTypes /\ Inside /\ Copied /\ (~updating => \E w : \A c \in Band!Channels : Of(w, values[c]))

LEMMA BandFacts == N \in Nat /\ Band!Channels = 1..N /\ Band!Channels \subseteq Nat
BY BandAssumption DEF Band!MyoAssumption, Band!Channels

LEMMA BandInit == Band!Init => BandInv
<1> SUFFICES ASSUME Band!Init PROVE BandInv
  OBVIOUS
<1>1. BandTypes /\ Inside
  BY BandFacts DEF Band!Init, BandTypes, Inside, Band!Threads
<1>2. \A c \in Band!Channels : Of(0, samples[c]) /\ Of(0, values[c])
  BY DEF Band!Init, Of
<1> QED
  BY <1>1, <1>2 DEF Band!Init, BandInv, Copied

LEMMA BandProgram ==
  ASSUME BandInv, \/ \E found \in BOOLEAN : Band!Enable(found)
                  \/ Band!Disable \/ Band!Update \/ Band!CopyOut \/ Band!Updated \/ Band!Destroy \/ Band!Join
  PROVE  BandInv'
<1> USE BandFacts
<1>1. PICK v : \A c \in Band!Channels :
        /\ io = "emg" /\ c < at["io"] => samples[c] = samplesSent
        /\ io = "emg" /\ c >= at["io"] => Of(v, samples[c])
        /\ io # "emg" => Of(v, samples[c])
        /\ updating /\ c < at["program"] => Of(v, values[c])
  BY DEF BandInv, Copied
<1>2. ASSUME UNCHANGED <<samplesSent, samples, values, updating, inside, at>>,
             \/ UNCHANGED io /\ (thread => thread')
             \/ UNCHANGED io /\ io = "none"
             \/ io' = "runs" /\ io # "emg" /\ thread'
      PROVE  BandInv'
  <2>1. BandTypes' /\ Inside'
    BY <1>2 DEF BandInv, BandTypes, Inside
  <2> QED
    BY <1>1, <1>2, <2>1 DEF BandInv, Copied
<1>3. ASSUME NEW found \in BOOLEAN, Band!Enable(found) PROVE BandInv'
  <2>1. \/ UNCHANGED io /\ (thread => thread')
        \/ io' = "runs" /\ io = "none" /\ thread'
    BY <1>3 DEF Band!Enable, Band!device, BandInv, Inside
  <2> QED
    BY <1>2, <1>3, <2>1 DEF Band!Enable
<1>4. ASSUME Band!Update PROVE BandInv'
  <2>1. /\ inside = "none" /\ ~updating /\ updating' = TRUE /\ inside' = "program"
        /\ at' = [at EXCEPT !["program"] = 1] /\ UNCHANGED <<thread, io, samplesSent, samples, values>>
    BY <1>4 DEF Band!Update, Band!Available, Band!First, Band!Idle, Band!device
  <2>2. BandTypes' /\ Inside'
    BY <2>1 DEF BandInv, BandTypes, Inside, Band!Threads
  <2>3. at'["program"] = 1 /\ at'["io"] = at["io"] /\ io # "emg"
    BY <2>1 DEF BandInv, BandTypes, Inside, Band!Threads
  <2>4. Copied'
    BY <1>1, <2>1, <2>3 DEF Copied
  <2> QED
    BY <2>1, <2>2, <2>4 DEF BandInv
<1>5. ASSUME Band!CopyOut PROVE BandInv'
  <2>1. /\ updating /\ at["program"] \in Band!Channels
        /\ values' = [values EXCEPT ![at["program"]] = samples[at["program"]]]
        /\ at' = [at EXCEPT !["program"] = at["program"] + 1]
        /\ UNCHANGED <<thread, io, samplesSent, samples, updating, inside>>
    BY <1>5 DEF Band!CopyOut, Band!device
  <2>2. BandTypes' /\ Inside' /\ io # "emg"
    BY <2>1 DEF BandInv, BandTypes, Inside, Band!Threads
  <2>3. at'["program"] = at["program"] + 1 /\ at'["io"] = at["io"]
    BY <2>1 DEF BandInv, BandTypes, Band!Threads
  <2>4. \A c \in Band!Channels : c < at["program"] + 1 => Of(v, values'[c])
    <3> SUFFICES ASSUME NEW c \in Band!Channels, c < at["program"] + 1 PROVE Of(v, values'[c])
      OBVIOUS
    <3>1. CASE c = at["program"]
      <4>1. values'[c] = samples[c]
        BY <2>1, <3>1 DEF BandInv, BandTypes
      <4> QED
        BY <1>1, <2>2, <4>1
    <3>2. CASE c # at["program"]
      <4>1. values'[c] = values[c] /\ c < at["program"]
        BY <2>1, <3>2 DEF BandInv, BandTypes
      <4> QED
        BY <1>1, <2>1, <4>1
    <3> QED
      BY <3>1, <3>2
  <2>5. Copied'
    BY <1>1, <2>1, <2>2, <2>3, <2>4 DEF Copied
  <2> QED
    BY <2>1, <2>2, <2>5 DEF BandInv
<1>6. ASSUME Band!Updated PROVE BandInv'
  <2>1. /\ updating /\ at["program"] = N + 1 /\ updating' = FALSE
        /\ inside' = IF inside = "program" THEN "none" ELSE inside
        /\ UNCHANGED <<thread, io, samplesSent, samples, values, at>>
    BY <1>6 DEF Band!Updated, Band!device
  <2>2. BandTypes' /\ Inside'
    BY <2>1 DEF BandInv, BandTypes, Inside
  <2>3. \A c \in Band!Channels : Of(v, values'[c])
    BY <1>1, <2>1
  <2>4. Copied'
    BY <1>1, <2>1 DEF Copied
  <2> QED
    BY <2>2, <2>3, <2>4 DEF BandInv
<1> QED
  BY <1>2, <1>3, <1>4, <1>5, <1>6 DEF Band!Disable, Band!Destroy, Band!Join, Band!device

LEMMA BandIo ==
  ASSUME BandInv, Band!OnEmgData \/ Band!OnUnpair \/ Band!CopyIn \/ Band!CalledBack \/ Band!IoEnds
  PROVE  BandInv'
<1> USE BandFacts
<1>1. PICK v : \A c \in Band!Channels :
        /\ io = "emg" /\ c < at["io"] => samples[c] = samplesSent
        /\ io = "emg" /\ c >= at["io"] => Of(v, samples[c])
        /\ io # "emg" => Of(v, samples[c])
        /\ updating /\ c < at["program"] => Of(v, values[c])
  BY DEF BandInv, Copied
<1>2. ASSUME Band!OnEmgData PROVE BandInv'
  <2>1. /\ io = "runs" /\ inside = "none" /\ io' = "emg" /\ inside' = "io" /\ samplesSent' = samplesSent + 1
        /\ at' = [at EXCEPT !["io"] = 1] /\ UNCHANGED <<thread, samples, values, updating>>
    BY <1>2 DEF Band!OnEmgData, Band!First, Band!device
  <2>2. BandTypes' /\ Inside' /\ ~updating /\ at'["io"] = 1
    BY <2>1 DEF BandInv, BandTypes, Inside, Band!Threads
  <2>3. Copied'
    BY <1>1, <2>1, <2>2 DEF Copied
  <2> QED
    BY <2>1, <2>2, <2>3 DEF BandInv
<1>3. ASSUME Band!OnUnpair PROVE BandInv'
  <2>1. /\ io = "runs" /\ io' = "unpair"
        /\ at' = [at EXCEPT !["io"] = 1] /\ UNCHANGED <<thread, samplesSent, samples, values, updating, inside>>
    BY <1>3 DEF Band!OnUnpair, Band!First, Band!device
  <2>2. BandTypes' /\ Inside' /\ at'["program"] = at["program"]
    BY <2>1 DEF BandInv, BandTypes, Inside, Band!Threads
  <2>3. Copied'
    BY <1>1, <2>1, <2>2 DEF Copied
  <2> QED
    BY <2>1, <2>2, <2>3 DEF BandInv
<1>4. ASSUME Band!CopyIn PROVE BandInv'
  <2>1. PICK k \in Band!Channels : k = at["io"]
    BY <1>4 DEF Band!CopyIn
  <2>2. /\ io \in {"emg", "unpair"}
        /\ samples' = [samples EXCEPT ![k] = IF io = "emg" THEN samplesSent ELSE 0]
        /\ at' = [at EXCEPT !["io"] = k + 1]
        /\ UNCHANGED <<thread, io, samplesSent, values, updating, inside>>
    BY <1>4, <2>1 DEF Band!CopyIn, Band!device
  <2>3. BandTypes' /\ Inside' /\ at'["program"] = at["program"] /\ at'["io"] = k + 1
    BY <2>2 DEF BandInv, BandTypes, Inside, Band!Threads
  <2>4. \A c \in Band!Channels : samples'[c] =
          IF c = k THEN (IF io = "emg" THEN samplesSent ELSE 0) ELSE samples[c]
    BY <2>2 DEF BandInv, BandTypes
  <2>5. CASE io = "emg"
    <3>1. ASSUME NEW c \in Band!Channels
          PROVE  /\ c < k + 1 => samples'[c] = samplesSent
                 /\ c >= k + 1 => Of(v, samples'[c])
      BY <1>1, <2>1, <2>4, <2>5
    <3> QED
      <4>1. Copied' /\ ~updating
        BY <1>1, <2>2, <2>3, <2>5, <3>1 DEF Copied, BandInv, Inside
      <4> QED
        BY <2>2, <2>3, <4>1 DEF BandInv
  <2>6. CASE io = "unpair"
    <3>1. \A c \in Band!Channels : Of(v, samples'[c])
      BY <1>1, <2>4, <2>6 DEF Of
    <3> QED
      <4>1. Copied'
        BY <1>1, <2>2, <2>3, <2>6, <3>1 DEF Copied
      <4> QED
        BY <2>2, <2>3, <4>1 DEF BandInv
  <2> QED
    BY <2>2, <2>5, <2>6
<1>5. ASSUME Band!CalledBack PROVE BandInv'
  <2>1. /\ at["io"] = N + 1 /\ io \in {"emg", "unpair"} /\ io' = "runs"
        /\ inside' = IF io = "emg" THEN "none" ELSE inside
        /\ UNCHANGED <<thread, samplesSent, samples, values, updating, at>>
    BY <1>5 DEF Band!CalledBack, Band!device
  <2>2. BandTypes' /\ Inside' /\ (io = "emg" => ~updating)
    BY <2>1 DEF BandInv, BandTypes, Inside
  <2>3. CASE io = "emg"
    <3>1. \A c \in Band!Channels : Of(samplesSent, samples[c])
      BY <1>1, <2>1, <2>3 DEF Of
    <3>2. Copied'
      BY <2>1, <2>2, <2>3, <3>1 DEF Copied
    <3> QED
      BY <2>1, <2>2, <3>2 DEF BandInv
  <2>4. CASE io = "unpair"
    <3>1. Copied'
      BY <1>1, <2>1, <2>4 DEF Copied
    <3> QED
      BY <2>1, <2>2, <3>1 DEF BandInv
  <2> QED
    BY <2>1, <2>3, <2>4
<1>6. ASSUME Band!IoEnds PROVE BandInv'
  <2>1. io = "runs" /\ io' = "none" /\ UNCHANGED <<thread, samplesSent, samples, values, updating, inside, at>>
    BY <1>6 DEF Band!IoEnds, Band!device
  <2>2. BandTypes' /\ Inside'
    BY <2>1 DEF BandInv, BandTypes, Inside
  <2>3. Copied'
    BY <1>1, <2>1 DEF Copied
  <2> QED
    BY <2>1, <2>2, <2>3 DEF BandInv
<1> QED
  BY <1>2, <1>3, <1>4, <1>5, <1>6

LEMMA BandStep == BandInv /\ [Band!Next]_(Band!vars) => BandInv'
<1> SUFFICES ASSUME BandInv, [Band!Next]_(Band!vars) PROVE BandInv'
  OBVIOUS
<1>1. CASE UNCHANGED Band!vars
  BY <1>1 DEF Band!vars, Band!device, BandInv, BandTypes, Inside, Copied
<1> QED
  BY <1>1, BandProgram, BandIo DEF Band!Next

\* For any number of channels and samples: the mutex keeps the halves of two samples apart,
\* and what unpairing clears without it is missing, not mixed in.
THEOREM SamplesAreWhole == Band!Spec => []SamplesWhole
<1>1. BandInv => SamplesWhole
  <2> SUFFICES ASSUME BandInv, ~updating, NEW c \in Band!Channels, NEW d \in Band!Channels
               PROVE  values[c] = 0 \/ values[d] = 0 \/ values[c] = values[d]
    BY DEF SamplesWhole, Band!OneSample
  <2>1. PICK w : \A e \in Band!Channels : Of(w, values[e])
    BY DEF BandInv
  <2> QED
    BY <2>1 DEF Of
<1> QED
  BY <1>1, BandInit, BandStep, PTL DEF Band!Spec

-----------------------------------------------------------------------------
(* The terminal. *)

\* No key comes in several bytes or looks like one that does, and nobody looks for a key
\* without the mutex.
PlainKeys ==
  /\ \A t \in Callers : "get_key_nb" \notin Calls[t]
  /\ \A i \in DOMAIN Keys : Keys[i] \notin {"up", Terminal!Escape}

\* What comes after a step of a call.
Follows(a, b) ==
  /\ a = "lock"   => b \in {"write", "color", "reset", "peek", "raw"}
  /\ a \in {"write", "color", "reset", "cook"} => b = "unlock"
  /\ a = "peek"   => b = "unpeek"
  /\ a = "unpeek" => b \in {"raw", "unlock"}
  /\ a = "raw"    => b = "wait"
  /\ a = "wait"   => b = "cook"
  /\ a = "unlock" => b = "lock"

Steps == {"lock", "unlock", "write", "color", "reset", "peek", "unpeek", "raw", "wait", "cook"}

\* What is left of a call.
Orderly(s) ==
  /\ s \in Seq(Steps)
  /\ s # <<>> => s[Len(s)] = "unlock"
  /\ \A i \in 1..Len(s) : i < Len(s) => Follows(s[i], s[i + 1])
  /\ \A i \in 1..Len(s) : s[i] = "cook" => i = Len(s) - 1

\* It takes the mutex once, and first of all.
LocksOnce(s) == \A i \in 1..Len(s) : s[i] = "lock" => i = 1

LEMMA OrderlyRest ==
  ASSUME NEW s, Orderly(s), s # <<>>
  PROVE  /\ Head(s) \in Steps /\ Orderly(Tail(s))
         /\ Tail(s) = <<>> => Head(s) = "unlock"
         /\ Tail(s) # <<>> => Follows(Head(s), Head(Tail(s)))
         /\ Head(s) = "cook" => Tail(Tail(s)) = <<>> /\ Tail(s) # <<>>
         /\ LocksOnce(s) => LocksOnce(Tail(s)) /\ (Tail(s) # <<>> => Head(Tail(s)) # "lock")
<1>1. PICK n \in Nat : n = Len(s) /\ n >= 1
  BY LenProperties, EmptySeq DEF Orderly
<1>2. PICK r : r = Tail(s)
  OBVIOUS
<1>3. /\ Head(s) = s[1] /\ s[1] \in Steps
      /\ r \in Seq(Steps) /\ Len(r) = n - 1 /\ \A i \in 1..(n - 1) : r[i] = s[i + 1]
  BY <1>1, <1>2, HeadTailProperties, ElementOfSeq DEF Orderly
<1>4. r = <<>> <=> n = 1
  BY <1>3, <1>1, EmptySeq, LenProperties
<1>5. Orderly(r)
  <2>1. r # <<>> => r[Len(r)] = "unlock"
    <3> SUFFICES ASSUME r # <<>> PROVE r[n - 1] = "unlock"
      BY <1>3
    <3>1. n - 1 \in 1..(n - 1) /\ (n - 1) + 1 = n
      BY <1>1, <1>4
    <3> QED
      BY <1>1, <1>3, <3>1 DEF Orderly
  <2>2. ASSUME NEW i \in 1..(n - 1) PROVE i + 1 \in 1..n /\ (i < n - 1 => (i + 1 < n /\ i + 1 \in 1..(n - 1)))
    BY <1>1
  <2>3. ASSUME NEW i \in 1..(n - 1) PROVE (i < n - 1 => Follows(r[i], r[i + 1])) /\ (r[i] = "cook" => i = (n - 1) - 1)
    <3>1. i < n - 1 => Follows(s[i + 1], s[(i + 1) + 1])
      BY <1>1, <2>2 DEF Orderly
    <3>2. s[i + 1] = "cook" => i + 1 = n - 1
      BY <1>1, <2>2 DEF Orderly
    <3> QED
      BY <1>3, <2>2, <3>1, <3>2
  <2> QED
    BY <1>3, <2>1, <2>3 DEF Orderly
<1>6. r = <<>> => Head(s) = "unlock"
  BY <1>1, <1>3, <1>4 DEF Orderly
<1>7. r # <<>> => Head(r) = r[1] /\ Follows(s[1], r[1])
  <2> SUFFICES ASSUME r # <<>> PROVE Head(r) = r[1] /\ Follows(s[1], r[1])
    OBVIOUS
  <2>1. 1 < n /\ 1 \in 1..n /\ 1 \in 1..(n - 1) /\ 1 + 1 = 2
    BY <1>1, <1>4
  <2>2. Head(r) = r[1]
    BY <1>3, HeadTailProperties
  <2> QED
    BY <1>1, <1>3, <2>1, <2>2 DEF Orderly
<1>8. Head(s) = "cook" => Tail(r) = <<>> /\ r # <<>>
  <2> SUFFICES ASSUME Head(s) = "cook" PROVE Tail(r) = <<>> /\ r # <<>>
    OBVIOUS
  <2>1. n = 2
    BY <1>1, <1>3 DEF Orderly
  <2>2. r # <<>> /\ Len(Tail(r)) = 0 /\ Tail(r) \in Seq(Steps)
    BY <1>3, <1>4, <2>1, HeadTailProperties
  <2> QED
    BY <2>2, EmptySeq
<1>9. LocksOnce(s) => LocksOnce(r) /\ (r # <<>> => r[1] # "lock")
  <2> SUFFICES ASSUME LocksOnce(s) PROVE LocksOnce(r) /\ (r # <<>> => r[1] # "lock")
    OBVIOUS
  <2>1. \A i \in 1..(n - 1) : i + 1 \in 1..n /\ i + 1 # 1
    BY <1>1
  <2>2. \A i \in 1..(n - 1) : r[i] # "lock"
    BY <1>1, <1>3, <2>1 DEF LocksOnce
  <2>3. r # <<>> => 1 \in 1..(n - 1)
    BY <1>1, <1>4
  <2> QED
    BY <1>3, <2>2, <2>3 DEF LocksOnce
<1> QED
  BY <1>2, <1>3, <1>5, <1>6, <1>7, <1>8, <1>9

LEMMA OneStep ==
  ASSUME NEW e \in Steps
  PROVE  <<e>> \in Seq(Steps) /\ Len(<<e>>) = 1 /\ <<e>>[1] = e /\ <<e>> # <<>>
OBVIOUS

LEMMA LockedIs ==
  ASSUME NEW s \in Seq(Steps)
  PROVE  /\ Terminal!Locked(s) \in Seq(Steps) /\ Len(Terminal!Locked(s)) = Len(s) + 2
         /\ Terminal!Locked(s)[1] = "lock" /\ Terminal!Locked(s)[Len(s) + 2] = "unlock"
         /\ \A i \in 1..Len(s) : Terminal!Locked(s)[i + 1] = s[i]
<1>1. PICK k \in Nat : k = Len(s)
  BY LenProperties
<1>2. PICK a \in Seq(Steps) : a = <<"lock">> /\ Len(a) = 1 /\ a[1] = "lock"
  BY OneStep DEF Steps
<1>3. PICK z \in Seq(Steps) : z = <<"unlock">> /\ Len(z) = 1 /\ z[1] = "unlock"
  BY OneStep DEF Steps
<1>4. PICK m : m = a \o s
  OBVIOUS
<1>5. m \in Seq(Steps) /\ Len(m) = k + 1 /\ m[1] = "lock" /\ \A i \in 1..k : m[i + 1] = s[i]
  BY <1>1, <1>2, <1>4, ConcatProperties
<1>6. PICK l : l = m \o z
  OBVIOUS
<1>7. /\ l \in Seq(Steps) /\ Len(l) = k + 2 /\ l[k + 2] = "unlock"
      /\ \A i \in 1..(k + 1) : l[i] = m[i]
  BY <1>3, <1>5, <1>6, ConcatProperties
<1>8. l = Terminal!Locked(s)
  BY <1>2, <1>3, <1>4, <1>6 DEF Terminal!Locked
<1>9. \A i \in 1..k : i + 1 \in 1..(k + 1)
  OBVIOUS
<1>10. 1 \in 1..(k + 1)
  OBVIOUS
<1> QED
  BY <1>1, <1>5, <1>7, <1>8, <1>9, <1>10

\* Between a lock and its unlock.
Piece(s) ==
  /\ s \in Seq(Steps) /\ s # <<>>
  /\ Follows("lock", s[1]) /\ Follows(s[Len(s)], "unlock")
  /\ \A i \in 1..Len(s) : i < Len(s) => Follows(s[i], s[i + 1])
  /\ \A i \in 1..Len(s) : s[i] # "lock" /\ (s[i] = "cook" => i = Len(s))

LEMMA LockedOrderly ==
  ASSUME NEW s, Piece(s)
  PROVE  /\ Orderly(Terminal!Locked(s)) /\ LocksOnce(Terminal!Locked(s)) /\ Terminal!Locked(s) # <<>>
         /\ Head(Terminal!Locked(s)) = "lock" /\ Tail(Terminal!Locked(s)) # <<>>
         /\ Head(Tail(Terminal!Locked(s))) = s[1]
<1>1. PICK k \in Nat : k = Len(s) /\ k >= 1
  BY LenProperties, EmptySeq DEF Piece
<1>2. PICK l : l = Terminal!Locked(s)
  OBVIOUS
<1>3. /\ l \in Seq(Steps) /\ Len(l) = k + 2 /\ l[1] = "lock" /\ l[k + 2] = "unlock"
      /\ \A i \in 1..k : l[i + 1] = s[i]
  BY <1>1, <1>2, LockedIs DEF Piece
<1>4. \A i \in 1..(k + 2) : i = 1 \/ i = k + 2 \/ (i - 1 \in 1..k /\ l[i] = s[i - 1])
  <2> SUFFICES ASSUME NEW i \in 1..(k + 2), i # 1, i # k + 2 PROVE i - 1 \in 1..k /\ l[i] = s[i - 1]
    OBVIOUS
  <2>1. i - 1 \in 1..k /\ (i - 1) + 1 = i
    OBVIOUS
  <2> QED
    BY <1>3, <2>1
<1>5. ASSUME NEW i \in 1..(k + 2), i < k + 2 PROVE Follows(l[i], l[i + 1])
  <2>1. CASE i = 1
    <3>1. 1 \in 1..k /\ i + 1 = 1 + 1
      BY <1>1, <2>1
    <3>2. l[i + 1] = s[1]
      BY <1>3, <3>1
    <3> QED
      BY <1>3, <2>1, <3>2 DEF Piece
  <2>2. CASE i = k + 1
    <3>1. i - 1 = k /\ i # 1 /\ i # k + 2
      BY <1>1, <2>2
    <3>2. l[i] = s[k] /\ l[i + 1] = "unlock"
      BY <1>3, <1>4, <2>2, <3>1
    <3> QED
      BY <1>1, <3>2 DEF Piece
  <2>3. CASE i # 1 /\ i # k + 1
    <3>1. i - 1 \in 1..k /\ i - 1 < k /\ (i - 1) + 1 = i /\ i \in 1..k /\ i # k + 2
      BY <1>5, <2>3
    <3>2. l[i] = s[i - 1] /\ l[i + 1] = s[i]
      BY <1>3, <1>4, <2>3, <3>1
    <3> QED
      BY <1>1, <3>1, <3>2 DEF Piece
  <2> QED
    BY <2>1, <2>2, <2>3
<1>6. ASSUME NEW i \in 1..(k + 2), l[i] = "cook" PROVE i = (k + 2) - 1
  <2>1. i # 1 /\ i # k + 2
    BY <1>3, <1>6
  <2>2. i - 1 \in 1..k /\ s[i - 1] = "cook"
    BY <1>4, <1>6, <2>1
  <2>3. i - 1 = k
    BY <1>1, <2>2 DEF Piece
  <2> QED
    BY <2>3
<1>7. Orderly(l)
  BY <1>3, <1>5, <1>6 DEF Orderly
<1>8. l # <<>> /\ Head(l) = "lock"
  BY <1>1, <1>3, EmptySeq, HeadTailProperties
<1>9. PICK r : r = Tail(l)
  OBVIOUS
<1>10. r \in Seq(Steps) /\ Len(r) = k + 1 /\ \A i \in 1..(k + 1) : r[i] = l[i + 1]
  BY <1>3, <1>8, <1>9, HeadTailProperties
<1>11. r # <<>> /\ Head(r) = r[1]
  BY <1>1, <1>10, EmptySeq, HeadTailProperties
<1>12. r[1] = s[1]
  <2>1. 1 \in 1..k /\ 1 \in 1..(k + 1)
    BY <1>1
  <2> QED
    BY <1>3, <1>10, <2>1
<1>13. LocksOnce(l)
  BY <1>3, <1>4, <1>1 DEF LocksOnce, Piece
<1> QED
  BY <1>2, <1>7, <1>8, <1>9, <1>11, <1>12, <1>13

\* One locked piece after another, of which the first takes no key.
LEMMA JoinOrderly ==
  ASSUME NEW a, NEW b, Orderly(a), Orderly(b), a # <<>>, b # <<>>, Head(b) = "lock",
         \A i \in 1..Len(a) : a[i] # "cook"
  PROVE  Orderly(a \o b) /\ a \o b # <<>> /\ Head(a \o b) = Head(a)
<1>1. PICK m \in Nat, n \in Nat : m = Len(a) /\ n = Len(b) /\ m >= 1 /\ n >= 1
  BY LenProperties, EmptySeq DEF Orderly
<1>2. PICK l : l = a \o b
  OBVIOUS
<1>3. /\ l \in Seq(Steps) /\ Len(l) = m + n
      /\ \A i \in 1..(m + n) : l[i] = IF i <= m THEN a[i] ELSE b[i - m]
  BY <1>1, <1>2, ConcatProperties DEF Orderly
<1>4. b[1] = "lock" /\ a[m] = "unlock" /\ b[n] = "unlock"
  BY <1>1, HeadTailProperties DEF Orderly
<1>5. ASSUME NEW i \in 1..(m + n), i < m + n PROVE Follows(l[i], l[i + 1])
  <2>1. CASE i < m
    <3>1. i \in 1..m /\ i + 1 \in 1..(m + n) /\ i + 1 <= m /\ i <= m
      BY <2>1
    <3>2. l[i] = a[i] /\ l[i + 1] = a[i + 1]
      BY <1>3, <3>1
    <3> QED
      BY <1>1, <2>1, <3>1, <3>2 DEF Orderly
  <2>2. CASE i = m
    <3>1. i <= m /\ ~(i + 1 <= m) /\ i + 1 \in 1..(m + n) /\ (i + 1) - m = 1
      BY <1>1, <2>2
    <3>2. l[i] = "unlock" /\ l[i + 1] = "lock"
      BY <1>3, <1>4, <2>2, <3>1
    <3> QED
      BY <3>2 DEF Follows
  <2>3. CASE i > m
    <3>1. ~(i <= m) /\ ~(i + 1 <= m) /\ i + 1 \in 1..(m + n) /\ (i + 1) - m = (i - m) + 1
          /\ i - m \in 1..n /\ i - m < n
      BY <1>5, <2>3
    <3>2. l[i] = b[i - m] /\ l[i + 1] = b[(i - m) + 1]
      BY <1>3, <3>1
    <3> QED
      BY <1>1, <3>1, <3>2 DEF Orderly
  <2> QED
    BY <2>1, <2>2, <2>3
<1>6. ASSUME NEW i \in 1..(m + n), l[i] = "cook" PROVE i = (m + n) - 1
  <2>1. ~(i <= m)
    <3> SUFFICES ASSUME i <= m PROVE FALSE
      OBVIOUS
    <3>1. i \in 1..m /\ a[i] = "cook"
      BY <1>3, <1>6
    <3> QED
      BY <1>1, <3>1
  <2>2. i - m \in 1..n /\ b[i - m] = "cook"
    BY <1>3, <1>6, <2>1
  <2>3. i - m = n - 1
    BY <1>1, <2>2 DEF Orderly
  <2> QED
    BY <2>3
<1>7. l[m + n] = "unlock"
  <2>1. ~(m + n <= m) /\ (m + n) - m = n /\ m + n \in 1..(m + n)
    BY <1>1
  <2> QED
    BY <1>3, <1>4, <2>1
<1>8. l # <<>> /\ Head(l) = l[1] /\ Head(a) = a[1]
  BY <1>1, <1>3, EmptySeq, HeadTailProperties DEF Orderly
<1>9. l[1] = a[1]
  BY <1>1, <1>3
<1>10. Orderly(l)
  BY <1>3, <1>5, <1>6, <1>7 DEF Orderly
<1> QED
  BY <1>2, <1>8, <1>9, <1>10

LEMMA Joined ==
  ASSUME NEW s \in Seq(Steps), NEW r \in Seq(Steps), NEW m \in Nat, NEW n \in Nat,
         Len(s) = m, Len(r) = n
  PROVE  /\ s \o r \in Seq(Steps) /\ Len(s \o r) = m + n
         /\ \A i \in 1..(m + n) : (s \o r)[i] = IF i <= m THEN s[i] ELSE r[i - m]
BY ConcatProperties

LEMMA Pieces ==
  /\ Piece(<<"write">>) /\ Piece(<<"color">>) /\ Piece(<<"reset">>)
  /\ Piece(Terminal!Kbhit) /\ Piece(Terminal!GetCh) /\ Piece(Terminal!Kbhit \o Terminal!GetCh)
  /\ (Terminal!Kbhit \o Terminal!GetCh)[1] = "peek"
<1>1. ASSUME NEW e \in {"write", "color", "reset"} PROVE Piece(<<e>>)
  <2>1. e \in Steps /\ e # "cook" /\ e # "lock"
    BY DEF Steps
  <2>2. Follows("lock", e) /\ Follows(e, "unlock")
    BY DEF Follows
  <2>3. <<e>> \in Seq(Steps) /\ Len(<<e>>) = 1 /\ <<e>>[1] = e /\ <<e>> # <<>>
    BY <2>1, OneStep
  <2>4. \A i \in 1..1 : i = 1
    OBVIOUS
  <2> QED
    BY <2>1, <2>2, <2>3, <2>4 DEF Piece
<1>2. PICK a \in Steps, b \in Steps, c \in Steps, d \in Steps, e \in Steps :
        a = "peek" /\ b = "unpeek" /\ c = "raw" /\ d = "wait" /\ e = "cook"
  BY DEF Steps
<1>3. PICK s : s = <<a, b>>
  OBVIOUS
<1>4. s \in Seq(Steps) /\ Len(s) = 2 /\ s[1] = a /\ s[2] = b /\ s # <<>>
  BY <1>3
<1>5. PICK r : r = <<c, d, e>>
  OBVIOUS
<1>6. r \in Seq(Steps) /\ Len(r) = 3 /\ r[1] = c /\ r[2] = d /\ r[3] = e /\ r # <<>>
  BY <1>5
<1>7. Terminal!Kbhit = s /\ Terminal!GetCh = r
  BY <1>2, <1>3, <1>5 DEF Terminal!Kbhit, Terminal!GetCh
<1>8. PICK l : l = s \o r
  OBVIOUS
<1>9. /\ l \in Seq(Steps) /\ Len(l) = 5
      /\ \A i \in 1..5 : l[i] = IF i <= 2 THEN s[i] ELSE r[i - 2]
  <2>1. PICK m \in Nat, n \in Nat : m = 2 /\ n = 3 /\ m = Len(s) /\ n = Len(r)
    BY <1>4, <1>6
  <2>2. /\ l \in Seq(Steps) /\ Len(l) = m + n
        /\ \A i \in 1..(m + n) : l[i] = IF i <= m THEN s[i] ELSE r[i - m]
    BY <1>4, <1>6, <1>8, <2>1, Joined
  <2>3. m + n = 5 /\ \A i \in 1..5 : i - m = i - 2 /\ (i <= m <=> i <= 2)
    BY <2>1
  <2>4. \A i \in 1..(m + n) : l[i] = IF i <= 2 THEN s[i] ELSE r[i - 2]
    BY <2>2, <2>3
  <2> QED
    BY <2>2, <2>3, <2>4
<1>10. l[1] = a /\ l[2] = b /\ l[3] = c /\ l[4] = d /\ l[5] = e /\ l # <<>>
  BY <1>4, <1>6, <1>9, EmptySeq
<1>11. Piece(s)
  <2>1. \A i \in 1..2 : i = 1 \/ i = 2
    OBVIOUS
  <2> QED
    BY <1>2, <1>4, <2>1 DEF Piece, Follows
<1>12. Piece(r)
  <2>1. \A i \in 1..3 : i = 1 \/ i = 2 \/ i = 3
    OBVIOUS
  <2> QED
    BY <1>2, <1>6, <2>1 DEF Piece, Follows
<1>13. Piece(l)
  <2>1. \A i \in 1..5 : i = 1 \/ i = 2 \/ i = 3 \/ i = 4 \/ i = 5
    OBVIOUS
  <2> QED
    BY <1>2, <1>9, <1>10, <2>1 DEF Piece, Follows
<1> QED
  BY <1>1, <1>2, <1>7, <1>8, <1>10, <1>11, <1>12, <1>13

\* Each call is orderly, and the one that does not block looks first.
LEMMA Programs ==
  ASSUME NEW c \in DOMAIN Terminal!Program, c # "get_key_nb"
  PROVE  /\ Orderly(Terminal!Program[c]) /\ Terminal!Program[c] # <<>>
         /\ Head(Terminal!Program[c]) = "lock"
         /\ c = "get_ch_nb" => /\ Head(Tail(Terminal!Program[c])) = "peek"
                               /\ LocksOnce(Terminal!Program[c])
<1>1. ASSUME NEW s, Piece(s), Terminal!Program[c] = Terminal!Locked(s), c = "get_ch_nb" => s[1] = "peek"
      PROVE  /\ Orderly(Terminal!Program[c]) /\ Terminal!Program[c] # <<>>
             /\ Head(Terminal!Program[c]) = "lock"
             /\ c = "get_ch_nb" => /\ Head(Tail(Terminal!Program[c])) = "peek"
                               /\ LocksOnce(Terminal!Program[c])
  BY <1>1, LockedOrderly
<1>2. CASE c = "print"
  BY <1>1, <1>2, Pieces DEF Terminal!Program
<1>3. CASE c = "kb_hit"
  BY <1>1, <1>3, Pieces DEF Terminal!Program
<1>4. CASE c = "get_ch"
  BY <1>1, <1>4, Pieces DEF Terminal!Program
<1>5. CASE c = "get_ch_nb"
  BY <1>1, <1>5, Pieces DEF Terminal!Program
<1>6. CASE c = "get_key"
  BY <1>1, <1>6, Pieces DEF Terminal!Program
<1>7. CASE c = "color_print"
  <2>1. ASSUME NEW e \in {"write", "color", "reset"}
        PROVE  /\ Orderly(Terminal!Locked(<<e>>)) /\ Terminal!Locked(<<e>>) # <<>>
               /\ Head(Terminal!Locked(<<e>>)) = "lock"
               /\ Len(Terminal!Locked(<<e>>)) = 3
               /\ \A i \in 1..3 : Terminal!Locked(<<e>>)[i] # "cook"
    <3>1. e \in Steps /\ e # "cook" /\ Piece(<<e>>)
      BY Pieces DEF Steps
    <3>2. <<e>> \in Seq(Steps) /\ Len(<<e>>) = 1 /\ <<e>>[1] = e
      BY <3>1, OneStep
    <3>3. PICK l : l = Terminal!Locked(<<e>>)
      OBVIOUS
    <3>4. Len(l) = 3 /\ l[1] = "lock" /\ l[3] = "unlock" /\ l[2] = e
      <4>1. Len(l) = 1 + 2 /\ l[1] = "lock" /\ l[1 + 2] = "unlock" /\ \A i \in 1..1 : l[i + 1] = <<e>>[i]
        BY <3>2, <3>3, LockedIs
      <4>2. l[1 + 1] = e
        BY <3>2, <4>1
      <4> QED
        BY <4>1, <4>2
    <3>5. \A i \in 1..3 : i = 1 \/ i = 2 \/ i = 3
      OBVIOUS
    <3>6. \A i \in 1..3 : l[i] # "cook"
      BY <3>1, <3>4, <3>5
    <3> QED
      BY <3>1, <3>3, <3>4, <3>6, LockedOrderly
  <2>2. PICK x, y, z : /\ x = Terminal!Locked(<<"color">>) /\ y = Terminal!Locked(<<"write">>)
                       /\ z = Terminal!Locked(<<"reset">>)
    OBVIOUS
  <2>3. PICK w : w = x \o y
    OBVIOUS
  <2>4. Orderly(w) /\ w # <<>> /\ Head(w) = "lock"
    BY <2>1, <2>2, <2>3, JoinOrderly
  <2>5. \A i \in 1..Len(w) : w[i] # "cook"
    <3>1. Len(x) = 3 /\ Len(y) = 3 /\ x \in Seq(Steps) /\ y \in Seq(Steps)
      BY <2>1, <2>2 DEF Orderly
    <3>4. PICK m \in Nat : m = 3 /\ m = Len(x) /\ m = Len(y)
      BY <3>1
    <3>5. x \in Seq(Steps) /\ y \in Seq(Steps) /\ Len(x) = m /\ Len(y) = m
      BY <3>1, <3>4
    <3>2. Len(w) = m + m /\ \A i \in 1..(m + m) : w[i] = IF i <= m THEN x[i] ELSE y[i - m]
      BY <2>3, <3>5, Joined
    <3>3. \A i \in 1..(m + m) : (i <= m => i \in 1..3) /\ (~(i <= m) => i - m \in 1..3)
      BY <3>4
    <3> QED
      BY <2>1, <2>2, <3>2, <3>3, <3>4
  <2>6. Orderly(w \o z) /\ w \o z # <<>> /\ Head(w \o z) = "lock"
    BY <2>1, <2>2, <2>4, <2>5, JoinOrderly
  <2>7. Terminal!Program[c] = w \o z
    BY <1>7, <2>2, <2>3 DEF Terminal!Program
  <2> QED
    BY <1>7, <2>6, <2>7
<1> QED
  BY <1>2, <1>3, <1>4, <1>5, <1>6, <1>7 DEF Terminal!Program

\* The bytes of a key for each place between the next to be read, from, and the next to
\* be typed, to.
QueuedKeys(q, from, to) ==
  \E place \in [1..(Len(q) + 1) -> 1..Len(Keys)] :
    /\ place[1] = from /\ place[Len(q) + 1] = to
    /\ \A i \in 1..Len(q) : q[i] = Keys[place[i]] /\ place[i + 1] = Terminal!After(place[i])

\* What a thread may have in its hand.
KeyOrNone == {Keys[i] : i \in 1..Len(Keys)} \cup {Terminal!None}

LEMMA PlacesFollow ==
  ASSUME TerminalAssumption, NEW i \in 1..Len(Keys)
  PROVE  Terminal!After(i) \in 1..Len(Keys) /\ Keys[i] \in KeyOrNone /\ Keys[i] # Terminal!None
<1>1. Len(Keys) \in Nat /\ Len(Keys) > 0 /\ Keys \in Seq(STRING)
  BY EmptySeq, LenProperties DEF TerminalAssumption, Terminal!ConsoleAssumption
<1>2. i % Len(Keys) \in 0..(Len(Keys) - 1)
  BY <1>1
<1>3. DOMAIN Keys = 1..Len(Keys) /\ Keys[i] \in KeyOrNone
  BY <1>1, LenProperties DEF KeyOrNone
<1> QED
  BY <1>1, <1>2, <1>3 DEF Terminal!After, TerminalAssumption, Terminal!ConsoleAssumption

LEMMA OneKey ==
  ASSUME NEW S, NEW e \in S
  PROVE  <<e>> \in Seq(S) /\ Len(<<e>>) = 1 /\ <<e>>[1] = e
OBVIOUS

\* A key that is typed comes last.
LEMMA TypedLast ==
  ASSUME TerminalAssumption, NEW q \in Seq(KeyOrNone), NEW from, NEW to \in 1..Len(Keys),
         QueuedKeys(q, from, to)
  PROVE  QueuedKeys(q \o <<Keys[to]>>, from, Terminal!After(to))
<1>1. PICK n \in Nat : n = Len(q)
  BY LenProperties
<1>2. PICK place \in [1..(n + 1) -> 1..Len(Keys)] :
        /\ place[1] = from /\ place[n + 1] = to
        /\ \A i \in 1..n : q[i] = Keys[place[i]] /\ place[i + 1] = Terminal!After(place[i])
  BY <1>1 DEF QueuedKeys
<1>3. PICK e \in Seq(KeyOrNone) : e = <<Keys[to]>> /\ Len(e) = 1 /\ e[1] = Keys[to]
  BY PlacesFollow, OneKey
<1>4. PICK r : r = q \o e
  OBVIOUS
<1>5. /\ r \in Seq(KeyOrNone) /\ Len(r) = n + 1
      /\ \A i \in 1..(n + 1) : r[i] = IF i <= n THEN q[i] ELSE e[i - n]
  BY <1>1, <1>3, <1>4, ConcatProperties
<1>6. Terminal!After(to) \in 1..Len(Keys)
  BY PlacesFollow
<1>7. PICK new : new = [i \in 1..((n + 1) + 1) |-> IF i <= n + 1 THEN place[i] ELSE Terminal!After(to)]
  OBVIOUS
<1>8. new \in [1..((n + 1) + 1) -> 1..Len(Keys)]
  <2>1. \A i \in 1..((n + 1) + 1) : i <= n + 1 => i \in 1..(n + 1)
    OBVIOUS
  <2> QED
    BY <1>2, <1>6, <1>7, <2>1
<1>9. new[1] = from /\ new[(n + 1) + 1] = Terminal!After(to)
  <2>1. /\ 1 \in 1..((n + 1) + 1) /\ 1 <= n + 1
        /\ (n + 1) + 1 \in 1..((n + 1) + 1) /\ ~((n + 1) + 1 <= n + 1)
    OBVIOUS
  <2> QED
    BY <1>2, <1>7, <2>1
<1>10. ASSUME NEW i \in 1..(n + 1)
       PROVE  r[i] = Keys[new[i]] /\ new[i + 1] = Terminal!After(new[i])
  <2>1. i \in 1..((n + 1) + 1) /\ i <= n + 1 /\ i + 1 \in 1..((n + 1) + 1)
    OBVIOUS
  <2>2. new[i] = place[i]
    BY <1>7, <2>1
  <2>3. CASE i <= n
    <3>1. i \in 1..n /\ i + 1 <= n + 1
      BY <2>3
    <3>2. new[i + 1] = place[i + 1]
      BY <1>7, <2>1, <3>1
    <3> QED
      BY <1>2, <1>5, <2>2, <2>3, <3>1, <3>2
  <2>4. CASE ~(i <= n)
    <3>1. i = n + 1 /\ i - n = 1 /\ ~(i + 1 <= n + 1)
      BY <2>4
    <3>2. new[i + 1] = Terminal!After(to)
      BY <1>7, <2>1, <3>1
    <3> QED
      BY <1>2, <1>3, <1>5, <2>2, <2>4, <3>1, <3>2
  <2> QED
    BY <2>3, <2>4
<1> QED
  BY <1>3, <1>4, <1>5, <1>8, <1>9, <1>10 DEF QueuedKeys

\* The first byte is that of the next key to be read.
LEMMA TakenFirst ==
  ASSUME TerminalAssumption, NEW q \in Seq(KeyOrNone), NEW from, NEW to, q # <<>>,
         QueuedKeys(q, from, to)
  PROVE  Head(q) = Keys[from] /\ QueuedKeys(Tail(q), Terminal!After(from), to)
<1>1. PICK n \in Nat : n = Len(q) /\ n >= 1
  BY LenProperties, EmptySeq
<1>2. PICK place \in [1..(n + 1) -> 1..Len(Keys)] :
        /\ place[1] = from /\ place[n + 1] = to
        /\ \A i \in 1..n : q[i] = Keys[place[i]] /\ place[i + 1] = Terminal!After(place[i])
  BY <1>1 DEF QueuedKeys
<1>3. PICK r : r = Tail(q)
  OBVIOUS
<1>4. r \in Seq(KeyOrNone) /\ Len(r) = n - 1 /\ \A i \in 1..(n - 1) : r[i] = q[i + 1]
  BY <1>1, <1>3, HeadTailProperties
<1>5. PICK new : new = [i \in 1..((n - 1) + 1) |-> place[i + 1]]
  OBVIOUS
<1>6. \A i \in 1..((n - 1) + 1) : i + 1 \in 1..(n + 1)
  BY <1>1
<1>7. new \in [1..((n - 1) + 1) -> 1..Len(Keys)]
  BY <1>2, <1>5, <1>6
<1>8. new[1] = Terminal!After(from) /\ new[(n - 1) + 1] = to
  <2>1. 1 \in 1..((n - 1) + 1) /\ (n - 1) + 1 \in 1..((n - 1) + 1) /\ ((n - 1) + 1) + 1 = n + 1 /\ 1 \in 1..n
    BY <1>1
  <2> QED
    BY <1>2, <1>5, <2>1
<1>9. ASSUME NEW i \in 1..(n - 1)
      PROVE  r[i] = Keys[new[i]] /\ new[i + 1] = Terminal!After(new[i])
  <2>1. i \in 1..((n - 1) + 1) /\ i + 1 \in 1..((n - 1) + 1) /\ i + 1 \in 1..n
    BY <1>1
  <2> QED
    BY <1>2, <1>4, <1>5, <2>1
<1>10. Head(q) = Keys[from]
  BY <1>1, <1>2
<1>11. QueuedKeys(r, Terminal!After(from), to)
  BY <1>4, <1>7, <1>8, <1>9 DEF QueuedKeys
<1> QED
  BY <1>3, <1>10, <1>11

\* getchar() takes the first of the bytes that wait.
LEMMA FirstOfTwo ==
  ASSUME NEW b \in Seq(KeyOrNone), NEW k \in Seq(KeyOrNone), b # <<>>
  PROVE  b \o k \in Seq(KeyOrNone) /\ b \o k # <<>>
         /\ Head(b \o k) = Head(b) /\ Tail(b \o k) = Tail(b) \o k /\ Tail(b) \in Seq(KeyOrNone)
<1>1. PICK m \in Nat, n \in Nat : m = Len(b) /\ n = Len(k) /\ m >= 1
  BY LenProperties, EmptySeq
<1>2. PICK l : l = b \o k
  OBVIOUS
<1>3. l \in Seq(KeyOrNone) /\ Len(l) = m + n /\ \A i \in 1..(m + n) : l[i] = IF i <= m THEN b[i] ELSE k[i - m]
  BY <1>1, <1>2, ConcatProperties
<1>4. l # <<>> /\ Head(l) = l[1] /\ l[1] = b[1] /\ Head(b) = b[1]
  <2>1. l # <<>>
    BY <1>1, <1>3, EmptySeq
  <2>2. Head(l) = l[1] /\ Head(b) = b[1]
    BY <1>3, <2>1
  <2>3. 1 \in 1..(m + n) /\ 1 <= m
    BY <1>1
  <2> QED
    BY <1>3, <2>1, <2>2, <2>3
<1>5. PICK r : r = Tail(l)
  OBVIOUS
<1>6. r \in Seq(KeyOrNone) /\ Len(r) = (m + n) - 1 /\ \A i \in 1..((m + n) - 1) : r[i] = l[i + 1]
  BY <1>3, <1>4, <1>5, HeadTailProperties
<1>7. PICK c : c = Tail(b)
  OBVIOUS
<1>8. c \in Seq(KeyOrNone) /\ Len(c) = m - 1 /\ \A i \in 1..(m - 1) : c[i] = b[i + 1]
  BY <1>1, <1>7, HeadTailProperties
<1>9. PICK d : d = c \o k
  OBVIOUS
<1>10. /\ d \in Seq(KeyOrNone) /\ Len(d) = (m - 1) + n
       /\ \A i \in 1..((m - 1) + n) : d[i] = IF i <= m - 1 THEN c[i] ELSE k[i - (m - 1)]
  <2>1. PICK p \in Nat : p = m - 1
    BY <1>1
  <2>2. /\ d \in Seq(KeyOrNone) /\ Len(d) = p + n
        /\ \A i \in 1..(p + n) : d[i] = IF i <= p THEN c[i] ELSE k[i - p]
    <3>1. c \in Seq(KeyOrNone) /\ k \in Seq(KeyOrNone) /\ Len(c) = p /\ Len(k) = n
      BY <1>1, <1>8, <2>1
    <3> QED
      BY <1>9, <3>1, ConcatProperties
  <2> QED
    BY <2>1, <2>2
<1>11. ASSUME NEW i \in 1..((m - 1) + n) PROVE r[i] = d[i]
  <2>1. i \in 1..((m + n) - 1) /\ i + 1 \in 1..(m + n)
    BY <1>1
  <2>2. r[i] = l[i + 1]
    BY <1>6, <2>1
  <2>3. CASE i <= m - 1
    <3>1. i + 1 <= m /\ i \in 1..(m - 1)
      BY <2>3
    <3> QED
      BY <1>3, <1>8, <1>10, <2>1, <2>2, <2>3, <3>1
  <2>4. CASE ~(i <= m - 1)
    <3>1. ~(i + 1 <= m) /\ (i + 1) - m = i - (m - 1)
      BY <2>4
    <3> QED
      BY <1>3, <1>10, <2>1, <2>2, <2>4, <3>1
  <2> QED
    BY <2>3, <2>4
<1>12. Len(r) = Len(d)
  BY <1>1, <1>6, <1>10
<1>13. \A i \in 1..Len(r) : r[i] = d[i]
  BY <1>10, <1>11, <1>12
<1>14. r = d
  BY <1>6, <1>10, <1>12, <1>13, SeqEqual
<1> QED
  BY <1>2, <1>3, <1>4, <1>5, <1>7, <1>8, <1>9, <1>14

\* The step a thread is at.
Stage(s) == IF s = <<>> THEN "idle" ELSE Head(s)

Known == DOMAIN Terminal!Program \cup {Terminal!None}

ConsoleTyped ==
  /\ typing \in 1..Len(Keys) /\ reading \in 1..Len(Keys)
  /\ kernel \in Seq(KeyOrNone) /\ buffer \in Seq(KeyOrNone)
  /\ owner \in Callers \cup {Terminal!None}
  /\ call \in [Callers -> Known]
  /\ \A t \in Callers : call[t] \in Calls[t] \cup {Terminal!None}
  /\ todo \in [Callers -> Seq(Steps)] /\ \A t \in Callers : Orderly(todo[t])
  /\ count \in [Callers -> Nat] /\ key \in [Callers -> KeyOrNone]
  /\ old \in [Callers -> {"cooked", "raw"}]

\* The mutex is held from its lock to its unlock.
Held == \A t \in Callers : owner = t <=> Stage(todo[t]) \notin {"idle", "lock"}

\* Who has changed the attributes will put them back.
Restored ==
  /\ \A t \in Callers :
       /\ Stage(todo[t]) = "unpeek" => peekOld = "cooked"
       /\ Stage(todo[t]) \in {"wait", "cook"} => old[t] = "cooked"
  /\ (\A t \in Callers : Stage(todo[t]) \notin {"unpeek", "wait", "cook"}) => terminal = "cooked"

\* Who must not wait has seen a key.
Looked ==
  \A t \in Callers :
    /\ call[t] = "get_ch_nb" => LocksOnce(todo[t])
    /\ call[t] = "get_ch_nb" /\ Stage(todo[t]) = "lock" => Head(Tail(todo[t])) = "peek"
    /\ Stage(todo[t]) = "unpeek" /\ count[t] > 0 => kernel # <<>>
    /\ call[t] = "get_ch_nb" /\ Stage(todo[t]) \in {"raw", "wait"} => kernel # <<>>

\* Who has read a key is about to return it.
InHand(t) == Stage(todo[t]) # "idle" /\ key[t] # Terminal!None
Returned ==
  \A t \in Callers :
    InHand(t) => /\ Stage(todo[t]) \in {"cook", "unlock"}
                 /\ Stage(todo[t]) = "unlock" => Tail(todo[t]) = <<>>
                 /\ key[t] = Keys[reading]

NextKey == IF \E t \in Callers : InHand(t) THEN Terminal!After(reading) ELSE reading
Queued  == QueuedKeys(buffer \o kernel, NextKey, typing)

ConsoleInv == ConsoleTyped /\ Held /\ Restored /\ Looked /\ Returned /\ Queued

\* A thread goes on to the next step of its call.
LEMMA GoesOn ==
  ASSUME ConsoleTyped, NEW t \in Callers, todo[t] # <<>>, Terminal!Go(t)
  PROVE  /\ todo' \in [Callers -> Seq(Steps)] /\ \A u \in Callers : Orderly(todo'[u])
         /\ todo'[t] = Tail(todo[t]) /\ \A u \in Callers \ {t} : todo'[u] = todo[u]
         /\ Stage(todo[t]) = Head(todo[t]) /\ Stage(todo[t]) \in Steps
         /\ Stage(todo'[t]) = "idle" => Stage(todo[t]) = "unlock"
         /\ Stage(todo'[t]) # "idle" => Follows(Stage(todo[t]), Stage(todo'[t]))
         /\ Stage(todo[t]) = "cook" => Tail(todo'[t]) = <<>>
         /\ LocksOnce(todo[t]) => LocksOnce(todo'[t]) /\ Stage(todo'[t]) # "lock"
<1>1. PICK s \in Seq(Steps) : s = todo[t] /\ Orderly(s) /\ s # <<>>
  BY DEF ConsoleTyped
<1>2. /\ Head(s) \in Steps /\ Orderly(Tail(s))
      /\ Tail(s) = <<>> => Head(s) = "unlock"
      /\ Tail(s) # <<>> => Follows(Head(s), Head(Tail(s)))
      /\ Head(s) = "cook" => Tail(Tail(s)) = <<>>
      /\ LocksOnce(s) => LocksOnce(Tail(s)) /\ (Tail(s) # <<>> => Head(Tail(s)) # "lock")
  BY <1>1, OrderlyRest
<1>3. /\ todo' = [todo EXCEPT ![t] = Tail(s)] /\ Tail(s) \in Seq(Steps)
  BY <1>1, <1>2 DEF Terminal!Go, Orderly
<1>4. /\ todo' \in [Callers -> Seq(Steps)] /\ todo'[t] = Tail(s)
      /\ \A u \in Callers \ {t} : todo'[u] = todo[u]
  BY <1>3 DEF ConsoleTyped
<1>5. Tail(s) # <<>> => Head(Tail(s)) \in Steps
  BY <1>2, OrderlyRest
<1>6. "idle" \notin Steps
  BY DEF Steps
<1>7. Stage(s) = Head(s) /\ Stage(Tail(s)) = IF Tail(s) = <<>> THEN "idle" ELSE Head(Tail(s))
  BY <1>1 DEF Stage
<1>8. \A u \in Callers : Orderly(todo'[u])
  BY <1>2, <1>4 DEF ConsoleTyped
<1> QED
  BY <1>1, <1>2, <1>4, <1>5, <1>6, <1>7, <1>8

\* Whoever moves on keeps the keys in order, as long as none is read or returned.
LEMMA SameQueue ==
  ASSUME Queued, UNCHANGED <<typing, reading, kernel, buffer, key>>,
         \A t \in Callers : Stage(todo'[t]) = "idle" <=> Stage(todo[t]) = "idle"
  PROVE  Queued'
<1>1. \A t \in Callers : InHand(t)' <=> InHand(t)
  BY DEF InHand
<1>2. NextKey' = NextKey
  BY <1>1 DEF NextKey, Terminal!After
<1> QED
  BY <1>2 DEF Queued, QueuedKeys, Terminal!After

LEMMA LockKeeps ==
  ASSUME ConsoleInv, NEW t \in Callers, Terminal!Lock(t), TerminalAssumption
  PROVE  ConsoleInv'
<1> USE DEF ConsoleInv
<1>1. /\ todo[t] # <<>> /\ Head(todo[t]) = "lock" /\ Terminal!Go(t)
      /\ owner = Terminal!None /\ owner' = t
      /\ UNCHANGED <<typing, reading, kernel, buffer, terminal, old, peekOld, call, count, key>>
  BY DEF Terminal!Lock, Terminal!At, Terminal!Free, Terminal!keyboard, Terminal!stdin,
         Terminal!terminal, Terminal!locals
<1>2. /\ todo' \in [Callers -> Seq(Steps)] /\ \A u \in Callers : Orderly(todo'[u])
      /\ todo'[t] = Tail(todo[t]) /\ \A u \in Callers \ {t} : todo'[u] = todo[u]
      /\ Stage(todo[t]) = "lock"
      /\ Stage(todo'[t]) # "idle" /\ Follows("lock", Stage(todo'[t]))
      /\ LocksOnce(todo[t]) => LocksOnce(todo'[t])
  BY <1>1, GoesOn
<1>3. Stage(todo'[t]) \in {"write", "color", "reset", "peek", "raw"}
  BY <1>2 DEF Follows
<1>4. \A u \in Callers : Stage(todo[u]) \in {"idle", "lock"}
  BY <1>1 DEF Held, TerminalAssumption, Terminal!ConsoleAssumption
<1>5. ConsoleTyped'
  BY <1>1, <1>2 DEF ConsoleTyped
<1>6. Held'
  BY <1>1, <1>2, <1>3, <1>4 DEF Held
<1>7. Restored'
  BY <1>1, <1>2, <1>3, <1>4 DEF Restored
<1>8. Looked'
  <2> SUFFICES ASSUME NEW u \in Callers
               PROVE  /\ call[u] = "get_ch_nb" => LocksOnce(todo'[u])
                      /\ call[u] = "get_ch_nb" /\ Stage(todo'[u]) = "lock" => Head(Tail(todo'[u])) = "peek"
                      /\ Stage(todo'[u]) = "unpeek" /\ count[u] > 0 => kernel # <<>>
                      /\ call[u] = "get_ch_nb" /\ Stage(todo'[u]) \in {"raw", "wait"} => kernel # <<>>
    BY <1>1 DEF Looked
  <2>1. CASE u = t
    <3>1. call[t] = "get_ch_nb" => Stage(todo'[t]) = "peek"
      BY <1>1, <1>2 DEF Looked, Stage
    <3> QED
      BY <1>2, <1>3, <2>1, <3>1 DEF Looked
  <2>2. CASE u # t
    BY <1>2, <2>2 DEF Looked
  <2> QED
    BY <2>1, <2>2
<1>9. \A u \in Callers : Stage(todo'[u]) = "idle" <=> Stage(todo[u]) = "idle"
  BY <1>2
<1>10. Returned'
  <2>1. \A u \in Callers : ~InHand(u)
    BY <1>2, <1>4 DEF Returned
  <2>2. \A u \in Callers : ~InHand(u)'
    BY <1>1, <1>9, <2>1 DEF InHand
  <2> QED
    BY <2>2 DEF Returned
<1>11. Queued'
  BY <1>1, <1>9, SameQueue
<1> QED
  BY <1>5, <1>6, <1>7, <1>8, <1>10, <1>11

\* Only who holds the mutex is past its lock.
LEMMA OthersWait ==
  ASSUME ConsoleInv, NEW t \in Callers, Stage(todo[t]) \notin {"idle", "lock"}
  PROVE  owner = t /\ \A u \in Callers \ {t} : Stage(todo[u]) \in {"idle", "lock"} /\ ~InHand(u)
<1>1. owner = t /\ \A u \in Callers \ {t} : Stage(todo[u]) \in {"idle", "lock"}
  BY DEF ConsoleInv, Held
<1>2. \A u \in Callers \ {t} : ~InHand(u)
  BY <1>1 DEF ConsoleInv, Returned
<1> QED
  BY <1>1, <1>2

LEMMA UnlockKeeps ==
  ASSUME ConsoleInv, NEW t \in Callers, Terminal!Unlock(t), TerminalAssumption
  PROVE  ConsoleInv' /\ (key[t] # Terminal!None => key[t] = Keys[reading])
<1> USE DEF ConsoleInv
<1>1. /\ todo[t] # <<>> /\ Head(todo[t]) = "unlock" /\ Terminal!Go(t)
      /\ owner' = Terminal!None
      /\ reading' = IF key[t] # Terminal!None THEN Terminal!After(reading) ELSE reading
      /\ UNCHANGED <<typing, kernel, buffer, terminal, old, peekOld, call, count, key>>
  BY DEF Terminal!Unlock, Terminal!At, Terminal!keyboard, Terminal!terminal, Terminal!locals
<1>2. /\ todo' \in [Callers -> Seq(Steps)] /\ \A u \in Callers : Orderly(todo'[u])
      /\ todo'[t] = Tail(todo[t]) /\ \A u \in Callers \ {t} : todo'[u] = todo[u]
      /\ Stage(todo[t]) = "unlock"
      /\ Stage(todo'[t]) # "idle" => Follows("unlock", Stage(todo'[t]))
      /\ LocksOnce(todo[t]) => LocksOnce(todo'[t]) /\ Stage(todo'[t]) # "lock"
  BY <1>1, GoesOn
<1>3. Stage(todo'[t]) \in {"idle", "lock"}
  BY <1>2 DEF Follows
<1>4. owner = t /\ \A u \in Callers \ {t} : Stage(todo[u]) \in {"idle", "lock"} /\ ~InHand(u)
  BY <1>2, OthersWait
<1>5. ConsoleTyped'
  <2>1. reading' \in 1..Len(Keys)
    BY <1>1, PlacesFollow DEF ConsoleTyped
  <2> QED
    BY <1>1, <1>2, <2>1 DEF ConsoleTyped
<1>6. Held'
  BY <1>1, <1>2, <1>3, <1>4 DEF Held, TerminalAssumption, Terminal!ConsoleAssumption
<1>7. Restored'
  <2>1. \A u \in Callers : Stage(todo[u]) \notin {"unpeek", "wait", "cook"}
    BY <1>2, <1>4
  <2>2. \A u \in Callers : Stage(todo'[u]) \notin {"unpeek", "wait", "cook"}
    BY <1>2, <1>3, <1>4
  <2> QED
    BY <1>1, <2>1, <2>2 DEF Restored
<1>8. Looked'
  <2> SUFFICES ASSUME NEW u \in Callers
               PROVE  /\ call[u] = "get_ch_nb" => LocksOnce(todo'[u])
                      /\ call[u] = "get_ch_nb" /\ Stage(todo'[u]) = "lock" => Head(Tail(todo'[u])) = "peek"
                      /\ Stage(todo'[u]) = "unpeek" /\ count[u] > 0 => kernel # <<>>
                      /\ call[u] = "get_ch_nb" /\ Stage(todo'[u]) \in {"raw", "wait"} => kernel # <<>>
    BY <1>1 DEF Looked
  <2>1. CASE u = t
    BY <1>2, <1>3, <2>1 DEF Looked
  <2>2. CASE u # t
    BY <1>2, <2>2 DEF Looked
  <2> QED
    BY <2>1, <2>2
<1>9. InHand(t) <=> key[t] # Terminal!None
  BY <1>2 DEF InHand
<1>10. \A u \in Callers : ~InHand(u)'
  <2>1. key[t] # Terminal!None => Stage(todo'[t]) = "idle"
    BY <1>2, <1>9 DEF Returned, Stage
  <2>2. \A u \in Callers \ {t} : ~InHand(u)'
    BY <1>1, <1>2, <1>4 DEF InHand
  <2> QED
    BY <1>1, <2>1, <2>2 DEF InHand
<1>11. Queued'
  <2>1. NextKey' = reading'
    BY <1>10 DEF NextKey
  <2>2. NextKey = reading'
    BY <1>1, <1>4, <1>9 DEF NextKey
  <2> QED
    BY <1>1, <2>1, <2>2 DEF Queued, QueuedKeys, Terminal!After
<1>12. key[t] # Terminal!None => key[t] = Keys[reading]
  BY <1>9 DEF Returned
<1> QED
  BY <1>5, <1>6, <1>7, <1>8, <1>10, <1>11, <1>12 DEF Returned

\* A step between lock and unlock that takes no key.
LEMMA InsideKeeps ==
  ASSUME ConsoleInv, NEW t \in Callers, todo[t] # <<>>, Terminal!Go(t),
         Stage(todo[t]) \notin {"lock", "unlock", "wait"},
         UNCHANGED <<typing, reading, kernel, buffer, owner, call, key>>,
         count' \in [Callers -> Nat], old' \in [Callers -> {"cooked", "raw"}],
         \A u \in Callers \ {t} : count'[u] = count[u] /\ old'[u] = old[u],
         Stage(todo'[t]) = "unpeek" /\ count'[t] > 0 => kernel # <<>>,
         call[t] = "get_ch_nb" /\ Stage(todo'[t]) \in {"raw", "wait"} => kernel # <<>>
  PROVE  /\ ConsoleTyped' /\ Held' /\ Looked' /\ Returned' /\ Queued'
         /\ Follows(Stage(todo[t]), Stage(todo'[t]))
         /\ \A u \in Callers \ {t} : Stage(todo'[u]) \in {"idle", "lock"}
         /\ \A u \in Callers \ {t} : Stage(todo[u]) \in {"idle", "lock"}
<1> USE DEF ConsoleInv
<1>1. /\ todo' \in [Callers -> Seq(Steps)] /\ \A u \in Callers : Orderly(todo'[u])
      /\ todo'[t] = Tail(todo[t]) /\ \A u \in Callers \ {t} : todo'[u] = todo[u]
      /\ Stage(todo[t]) \in Steps
      /\ Stage(todo'[t]) # "idle" /\ Follows(Stage(todo[t]), Stage(todo'[t]))
      /\ Stage(todo[t]) = "cook" => Tail(todo'[t]) = <<>>
      /\ LocksOnce(todo[t]) => LocksOnce(todo'[t])
  BY GoesOn
<1>2. Stage(todo[t]) # "idle" /\ Stage(todo'[t]) # "lock"
  BY <1>1 DEF Follows, Steps
<1>3. owner = t /\ \A u \in Callers \ {t} : Stage(todo[u]) \in {"idle", "lock"} /\ ~InHand(u)
  BY <1>2, OthersWait
<1>4. ConsoleTyped'
  BY <1>1 DEF ConsoleTyped
<1>5. Held'
  BY <1>1, <1>2, <1>3 DEF Held
<1>6. Looked'
  <2> SUFFICES ASSUME NEW u \in Callers
               PROVE  /\ call[u] = "get_ch_nb" => LocksOnce(todo'[u])
                      /\ call[u] = "get_ch_nb" /\ Stage(todo'[u]) = "lock" => Head(Tail(todo'[u])) = "peek"
                      /\ Stage(todo'[u]) = "unpeek" /\ count'[u] > 0 => kernel # <<>>
                      /\ call[u] = "get_ch_nb" /\ Stage(todo'[u]) \in {"raw", "wait"} => kernel # <<>>
    BY DEF Looked
  <2>1. CASE u = t
    BY <1>1, <1>2, <2>1 DEF Looked
  <2>2. CASE u # t
    BY <1>1, <2>2 DEF Looked
  <2> QED
    BY <2>1, <2>2
<1>7. Returned'
  <2>1. \A u \in Callers \ {t} : ~InHand(u)'
    BY <1>1, <1>3 DEF InHand
  <2>2. ASSUME InHand(t)' PROVE Stage(todo[t]) = "cook" /\ key[t] = Keys[reading]
    <3>1. InHand(t)
      BY <1>2, <2>2 DEF InHand
    <3> QED
      BY <3>1 DEF Returned
  <2>3. InHand(t)' => /\ Stage(todo'[t]) \in {"cook", "unlock"}
                      /\ Stage(todo'[t]) = "unlock" => Tail(todo'[t]) = <<>>
                      /\ key'[t] = Keys[reading']
    BY <1>1, <2>2 DEF Follows
  <2> QED
    BY <2>1, <2>3 DEF Returned
<1>8. Queued'
  BY <1>1, <1>2, SameQueue
<1> QED
  BY <1>1, <1>3, <1>4, <1>5, <1>6, <1>7, <1>8

LEMMA OutputKeeps ==
  ASSUME ConsoleInv, NEW t \in Callers, Terminal!Write(t) \/ Terminal!Colors(t)
  PROVE  ConsoleInv'
<1>1. /\ todo[t] # <<>> /\ Head(todo[t]) \in {"write", "color", "reset"} /\ Terminal!Go(t)
      /\ UNCHANGED <<typing, reading, kernel, buffer, terminal, old, peekOld, owner, call, count, key>>
  BY DEF Terminal!Write, Terminal!Colors, Terminal!At, Terminal!keyboard, Terminal!stdin,
         Terminal!terminal, Terminal!locals
<1>2. Stage(todo[t]) \in {"write", "color", "reset"}
  BY <1>1 DEF Stage
<1>3. Stage(todo'[t]) = "unlock"
  <2>1. Follows(Stage(todo[t]), Stage(todo'[t]))
    BY <1>1, <1>2, GoesOn DEF ConsoleInv
  <2> QED
    BY <1>2, <2>1 DEF Follows
<1>4. count' \in [Callers -> Nat] /\ old' \in [Callers -> {"cooked", "raw"}]
  BY <1>1 DEF ConsoleInv, ConsoleTyped
<1>5. /\ ConsoleTyped' /\ Held' /\ Looked' /\ Returned' /\ Queued'
      /\ \A u \in Callers \ {t} : Stage(todo'[u]) \in {"idle", "lock"}
      /\ \A u \in Callers \ {t} : Stage(todo[u]) \in {"idle", "lock"}
  BY <1>1, <1>2, <1>3, <1>4, InsideKeeps
<1>6. terminal = "cooked"
  BY <1>2, <1>5 DEF ConsoleInv, Restored
<1>7. Restored'
  BY <1>1, <1>3, <1>5, <1>6 DEF Restored
<1> QED
  BY <1>5, <1>7 DEF ConsoleInv

LEMMA PeekKeeps ==
  ASSUME ConsoleInv, NEW t \in Callers, Terminal!Peek(t)
  PROVE  ConsoleInv'
<1>1. /\ todo[t] # <<>> /\ Head(todo[t]) = "peek" /\ Terminal!Go(t)
      /\ peekOld' = terminal /\ terminal' = "raw" /\ count' = [count EXCEPT ![t] = Len(kernel)]
      /\ UNCHANGED <<typing, reading, kernel, buffer, old, owner, call, key>>
  BY DEF Terminal!Peek, Terminal!At, Terminal!keyboard, Terminal!stdin, Terminal!Waiting
<1>2. Stage(todo[t]) = "peek"
  BY <1>1 DEF Stage
<1>3. Stage(todo'[t]) = "unpeek"
  <2>1. Follows(Stage(todo[t]), Stage(todo'[t]))
    BY <1>1, <1>2, GoesOn DEF ConsoleInv
  <2> QED
    BY <1>2, <2>1 DEF Follows
<1>4. /\ count' \in [Callers -> Nat] /\ old' \in [Callers -> {"cooked", "raw"}]
      /\ count'[t] = Len(kernel) /\ \A u \in Callers \ {t} : count'[u] = count[u]
  <2>1. Len(kernel) \in Nat
    BY LenProperties DEF ConsoleInv, ConsoleTyped
  <2> QED
    BY <1>1, <2>1 DEF ConsoleInv, ConsoleTyped
<1>5. Len(kernel) > 0 => kernel # <<>>
  BY EmptySeq
<1>6. /\ ConsoleTyped' /\ Held' /\ Looked' /\ Returned' /\ Queued'
      /\ \A u \in Callers \ {t} : Stage(todo'[u]) \in {"idle", "lock"}
      /\ \A u \in Callers \ {t} : Stage(todo[u]) \in {"idle", "lock"}
  BY <1>1, <1>2, <1>3, <1>4, <1>5, InsideKeeps
<1>7. terminal = "cooked"
  BY <1>2, <1>6 DEF ConsoleInv, Restored
<1>8. Restored'
  BY <1>1, <1>3, <1>6, <1>7 DEF Restored
<1> QED
  BY <1>6, <1>8 DEF ConsoleInv

LEMMA RawKeeps ==
  ASSUME ConsoleInv, NEW t \in Callers, Terminal!Raw(t)
  PROVE  ConsoleInv'
<1>1. /\ todo[t] # <<>> /\ Head(todo[t]) = "raw" /\ Terminal!Go(t)
      /\ old' = [old EXCEPT ![t] = terminal] /\ terminal' = "raw"
      /\ UNCHANGED <<typing, reading, kernel, buffer, peekOld, owner, call, count, key>>
  BY DEF Terminal!Raw, Terminal!At, Terminal!keyboard, Terminal!stdin, Terminal!locals
<1>2. Stage(todo[t]) = "raw"
  BY <1>1 DEF Stage
<1>3. Stage(todo'[t]) = "wait"
  <2>1. Follows(Stage(todo[t]), Stage(todo'[t]))
    BY <1>1, <1>2, GoesOn DEF ConsoleInv
  <2> QED
    BY <1>2, <2>1 DEF Follows
<1>4. \A u \in Callers \ {t} : Stage(todo[u]) \in {"idle", "lock"}
  BY <1>2, OthersWait
<1>5. terminal = "cooked"
  BY <1>2, <1>4 DEF ConsoleInv, Restored
<1>6. /\ count' \in [Callers -> Nat] /\ old' \in [Callers -> {"cooked", "raw"}]
      /\ old'[t] = "cooked" /\ \A u \in Callers \ {t} : old'[u] = old[u]
  BY <1>1, <1>5 DEF ConsoleInv, ConsoleTyped
<1>7. call[t] = "get_ch_nb" => kernel # <<>>
  BY <1>2 DEF ConsoleInv, Looked
<1>8. /\ ConsoleTyped' /\ Held' /\ Looked' /\ Returned' /\ Queued'
      /\ \A u \in Callers \ {t} : Stage(todo'[u]) \in {"idle", "lock"}
  BY <1>1, <1>2, <1>3, <1>6, <1>7, InsideKeeps
<1>9. Restored'
  BY <1>1, <1>3, <1>6, <1>8 DEF Restored
<1> QED
  BY <1>8, <1>9 DEF ConsoleInv

LEMMA CookKeeps ==
  ASSUME ConsoleInv, NEW t \in Callers, Terminal!Cook(t)
  PROVE  ConsoleInv'
<1>1. /\ todo[t] # <<>> /\ Head(todo[t]) = "cook" /\ Terminal!Go(t)
      /\ terminal' = old[t]
      /\ UNCHANGED <<typing, reading, kernel, buffer, old, peekOld, owner, call, count, key>>
  BY DEF Terminal!Cook, Terminal!At, Terminal!keyboard, Terminal!stdin, Terminal!locals
<1>2. Stage(todo[t]) = "cook"
  BY <1>1 DEF Stage
<1>3. Stage(todo'[t]) = "unlock"
  <2>1. Follows(Stage(todo[t]), Stage(todo'[t]))
    BY <1>1, <1>2, GoesOn DEF ConsoleInv
  <2> QED
    BY <1>2, <2>1 DEF Follows
<1>4. terminal' = "cooked"
  BY <1>1, <1>2 DEF ConsoleInv, Restored
<1>5. count' \in [Callers -> Nat] /\ old' \in [Callers -> {"cooked", "raw"}]
  BY <1>1 DEF ConsoleInv, ConsoleTyped
<1>6. /\ ConsoleTyped' /\ Held' /\ Looked' /\ Returned' /\ Queued'
      /\ \A u \in Callers \ {t} : Stage(todo'[u]) \in {"idle", "lock"}
  BY <1>1, <1>2, <1>3, <1>5, InsideKeeps
<1>7. Restored'
  BY <1>3, <1>4, <1>6 DEF Restored
<1> QED
  BY <1>6, <1>7 DEF ConsoleInv

\* Nobody who looks for a key without the mutex (PlainKeys) is under way.
LEMMA NoneLooksUnlocked ==
  ASSUME ConsoleInv, PlainKeys, TerminalAssumption, NEW t \in Callers
  PROVE  call[t] # "get_key_nb"
<1>1. "get_key_nb" # Terminal!None
  BY DEF Terminal!None
<1> QED
  BY <1>1 DEF ConsoleInv, ConsoleTyped, PlainKeys

LEMMA UnpeekKeeps ==
  ASSUME ConsoleInv, NEW t \in Callers, Terminal!Unpeek(t), PlainKeys, TerminalAssumption
  PROVE  ConsoleInv'
<1>1. /\ todo[t] # <<>> /\ Head(todo[t]) = "unpeek" /\ terminal' = peekOld
      /\ UNCHANGED <<typing, reading, kernel, buffer, old, peekOld, owner, call, count, key>>
      /\ todo' = [todo EXCEPT ![t] =
           IF count[t] = 0 /\ call[t] = "get_ch_nb" THEN <<"unlock">> ELSE Tail(todo[t])]
  <2>1. call[t] # "get_key_nb"
    BY NoneLooksUnlocked
  <2> QED
    BY <2>1 DEF Terminal!Unpeek, Terminal!At, Terminal!keyboard, Terminal!stdin, Terminal!locals,
                Terminal!Nothing
<1>2. Stage(todo[t]) = "unpeek"
  BY <1>1 DEF Stage
<1>3. terminal' = "cooked"
  BY <1>1, <1>2 DEF ConsoleInv, Restored
<1>4. owner = t /\ \A u \in Callers \ {t} : Stage(todo[u]) \in {"idle", "lock"} /\ ~InHand(u)
  BY <1>2, OthersWait
<1>5. CASE ~(count[t] = 0 /\ call[t] = "get_ch_nb")
  <2>1. Terminal!Go(t)
    BY <1>1, <1>5 DEF Terminal!Go
  <2>2. Stage(todo'[t]) \in {"raw", "unlock"}
    <3>1. Follows(Stage(todo[t]), Stage(todo'[t]))
      BY <1>1, <1>2, <2>1, GoesOn DEF ConsoleInv
    <3> QED
      BY <1>2, <3>1 DEF Follows
  <2>3. count' \in [Callers -> Nat] /\ old' \in [Callers -> {"cooked", "raw"}] /\ count[t] \in Nat
    BY <1>1 DEF ConsoleInv, ConsoleTyped
  <2>4. call[t] = "get_ch_nb" => kernel # <<>>
    <3>1. count[t] # 0 => count[t] > 0
      BY <2>3
    <3> QED
      BY <1>2, <1>5, <3>1 DEF ConsoleInv, Looked
  <2>5. /\ ConsoleTyped' /\ Held' /\ Looked' /\ Returned' /\ Queued'
        /\ \A u \in Callers \ {t} : Stage(todo'[u]) \in {"idle", "lock"}
    BY <1>1, <1>2, <2>1, <2>2, <2>3, <2>4, InsideKeeps
  <2>6. Restored'
    BY <1>3, <2>2, <2>5 DEF Restored
  <2> QED
    BY <2>5, <2>6 DEF ConsoleInv
<1>6. CASE count[t] = 0 /\ call[t] = "get_ch_nb"
  <2>1. PICK s \in Seq(Steps) : s = <<"unlock">> /\ Len(s) = 1 /\ s[1] = "unlock"
    BY OneKey DEF Steps
  <2>2. s # <<>> /\ Head(s) = "unlock" /\ Tail(s) = <<>>
    <3>1. s # <<>> /\ Tail(s) \in Seq(Steps) /\ Len(Tail(s)) = 0
      BY <2>1, EmptySeq, HeadTailProperties
    <3> QED
      BY <2>1, <3>1, EmptySeq
  <2>3. Orderly(s) /\ LocksOnce(s)
    BY <2>1, <2>2 DEF Orderly, LocksOnce
  <2>4. /\ todo' = [todo EXCEPT ![t] = s]
        /\ todo' \in [Callers -> Seq(Steps)] /\ todo'[t] = s
        /\ \A u \in Callers \ {t} : todo'[u] = todo[u]
    BY <1>1, <1>6, <2>1 DEF ConsoleInv, ConsoleTyped
  <2>5. Stage(todo'[t]) = "unlock"
    BY <2>2, <2>4 DEF Stage
  <2>6. ConsoleTyped'
    BY <1>1, <2>3, <2>4 DEF ConsoleInv, ConsoleTyped
  <2>7. Held'
    BY <1>1, <1>4, <2>4, <2>5 DEF Held
  <2>8. Restored'
    BY <1>3, <1>4, <2>4, <2>5 DEF Restored
  <2>9. Looked'
    <3> SUFFICES ASSUME NEW u \in Callers
                 PROVE  /\ call[u] = "get_ch_nb" => LocksOnce(todo'[u])
                        /\ call[u] = "get_ch_nb" /\ Stage(todo'[u]) = "lock" => Head(Tail(todo'[u])) = "peek"
                        /\ Stage(todo'[u]) = "unpeek" /\ count[u] > 0 => kernel # <<>>
                        /\ call[u] = "get_ch_nb" /\ Stage(todo'[u]) \in {"raw", "wait"} => kernel # <<>>
      BY <1>1 DEF Looked
    <3>1. CASE u = t
      BY <2>3, <2>4, <2>5, <3>1
    <3>2. CASE u # t
      BY <2>4, <3>2 DEF ConsoleInv, Looked
    <3> QED
      BY <3>1, <3>2
  <2>10. ~InHand(t)
    BY <1>2 DEF ConsoleInv, Returned
  <2>11. \A u \in Callers : ~InHand(u)'
    BY <1>1, <1>2, <1>4, <2>4, <2>10 DEF InHand
  <2>12. Queued'
    BY <1>1, <1>2, <2>4, <2>5, SameQueue DEF ConsoleInv
  <2> QED
    BY <2>6, <2>7, <2>8, <2>9, <2>11, <2>12 DEF ConsoleInv, Returned
<1> QED
  BY <1>5, <1>6

LEMMA WaitKeeps ==
  ASSUME ConsoleInv, NEW t \in Callers, Terminal!Wait(t), PlainKeys, TerminalAssumption
  PROVE  ConsoleInv'
<1>1. PICK bytes : bytes = IF buffer # <<>> THEN buffer ELSE kernel
  OBVIOUS
<1>2. /\ todo[t] # <<>> /\ Head(todo[t]) = "wait"
      /\ buffer # <<>> \/ kernel # <<>>
      /\ buffer' = Tail(bytes) /\ kernel' = IF buffer # <<>> THEN kernel ELSE <<>>
      /\ key' = [key EXCEPT ![t] = Terminal!Meaning(t, Head(bytes))]
      /\ ~Terminal!Arrow(t, Head(bytes)) => Terminal!Go(t)
      /\ UNCHANGED <<typing, reading, terminal, old, peekOld, owner, call, count>>
  BY <1>1 DEF Terminal!Wait, Terminal!At, Terminal!Go, Terminal!terminal
<1>3. Stage(todo[t]) = "wait" /\ key[t] = Terminal!None
  <2>1. Stage(todo[t]) = "wait"
    BY <1>2 DEF Stage
  <2> QED
    BY <2>1 DEF ConsoleInv, Returned, InHand
<1>4. owner = t /\ \A u \in Callers \ {t} : Stage(todo[u]) \in {"idle", "lock"} /\ ~InHand(u)
  BY <1>3, OthersWait
<1>5. /\ buffer \o kernel \in Seq(KeyOrNone) /\ buffer \o kernel # <<>>
      /\ Head(buffer \o kernel) = Head(bytes) /\ Tail(buffer \o kernel) = buffer' \o kernel'
      /\ buffer' \in Seq(KeyOrNone) /\ kernel' \in Seq(KeyOrNone)
  <2>1. buffer \in Seq(KeyOrNone) /\ kernel \in Seq(KeyOrNone)
    BY DEF ConsoleInv, ConsoleTyped
  <2>2. CASE buffer # <<>>
    BY <1>1, <1>2, <2>1, <2>2, FirstOfTwo
  <2>3. CASE buffer = <<>>
    <3>1. kernel # <<>> /\ bytes = kernel /\ buffer' = Tail(kernel) /\ kernel' = <<>>
      BY <1>1, <1>2, <2>3
    <3>2. buffer \o kernel = kernel
      BY <2>1, <2>3, ConcatEmptySeq
    <3>3. Tail(kernel) \in Seq(KeyOrNone)
      BY <2>1, <3>1, HeadTailProperties
    <3>4. Tail(kernel) \o <<>> = Tail(kernel)
      BY <3>3, ConcatEmptySeq
    <3> QED
      BY <2>1, <3>1, <3>2, <3>3, <3>4, EmptySeq
  <2> QED
    BY <2>2, <2>3
<1>6. NextKey = reading
  <2>1. \A u \in Callers : ~InHand(u)
    BY <1>3, <1>4 DEF InHand
  <2> QED
    BY <2>1 DEF NextKey
<1>7. /\ Head(bytes) = Keys[reading]
      /\ QueuedKeys(buffer' \o kernel', Terminal!After(reading), typing)
  BY <1>5, <1>6, TakenFirst DEF ConsoleInv, Queued
<1>8. /\ Keys[reading] \in KeyOrNone /\ Keys[reading] # Terminal!None
      /\ Keys[reading] # Terminal!Escape
  <2>1. reading \in 1..Len(Keys) /\ reading \in DOMAIN Keys
    <3>1. Keys \in Seq(STRING)
      BY DEF TerminalAssumption, Terminal!ConsoleAssumption
    <3> QED
      BY <3>1, LenProperties DEF ConsoleInv, ConsoleTyped
  <2> QED
    BY <2>1, PlacesFollow DEF PlainKeys
<1>9. ~Terminal!Arrow(t, Head(bytes)) /\ Terminal!Meaning(t, Head(bytes)) = Keys[reading]
  <2>1. Terminal!None # Terminal!Escape
    BY DEF Terminal!None, Terminal!Escape
  <2> QED
    BY <1>3, <1>7, <1>8, <2>1 DEF Terminal!Arrow, Terminal!Meaning
<1>10. Terminal!Go(t) /\ key' = [key EXCEPT ![t] = Keys[reading]]
  BY <1>2, <1>9
<1>11. /\ todo' \in [Callers -> Seq(Steps)] /\ \A u \in Callers : Orderly(todo'[u])
       /\ todo'[t] = Tail(todo[t]) /\ \A u \in Callers \ {t} : todo'[u] = todo[u]
       /\ Stage(todo'[t]) = "cook"
       /\ LocksOnce(todo[t]) => LocksOnce(todo'[t])
  <2>1. Stage(todo'[t]) # "idle" /\ Follows("wait", Stage(todo'[t]))
    BY <1>2, <1>3, <1>10, GoesOn DEF ConsoleInv
  <2>2. Stage(todo'[t]) = "cook"
    BY <2>1 DEF Follows
  <2> QED
    BY <1>2, <1>10, <2>2, GoesOn DEF ConsoleInv
<1>12. key' \in [Callers -> KeyOrNone] /\ key'[t] = Keys[reading] /\ \A u \in Callers \ {t} : key'[u] = key[u]
  BY <1>8, <1>10 DEF ConsoleInv, ConsoleTyped
<1>13. ConsoleTyped'
  BY <1>2, <1>5, <1>11, <1>12 DEF ConsoleInv, ConsoleTyped
<1>14. Held'
  BY <1>2, <1>4, <1>11 DEF Held
<1>15. Restored'
  <2>1. old[t] = "cooked"
    BY <1>3 DEF ConsoleInv, Restored
  <2> QED
    BY <1>2, <1>4, <1>11, <2>1 DEF Restored
<1>16. Looked'
  <2> SUFFICES ASSUME NEW u \in Callers
               PROVE  /\ call[u] = "get_ch_nb" => LocksOnce(todo'[u])
                      /\ call[u] = "get_ch_nb" /\ Stage(todo'[u]) = "lock" => Head(Tail(todo'[u])) = "peek"
                      /\ Stage(todo'[u]) # "unpeek" /\ Stage(todo'[u]) \notin {"raw", "wait"}
    BY <1>2 DEF Looked
  <2>1. CASE u = t
    BY <1>11, <2>1 DEF ConsoleInv, Looked
  <2>2. CASE u # t
    BY <1>4, <1>11, <2>2 DEF ConsoleInv, Looked
  <2> QED
    BY <2>1, <2>2
<1>17. InHand(t)' /\ \A u \in Callers \ {t} : ~InHand(u)'
  BY <1>4, <1>8, <1>11, <1>12 DEF InHand
<1>18. Returned'
  BY <1>2, <1>11, <1>12, <1>17 DEF Returned
<1>19. Queued'
  <2>1. NextKey' = Terminal!After(reading)
    BY <1>2, <1>17 DEF NextKey, Terminal!After
  <2> QED
    BY <1>2, <1>7, <2>1 DEF Queued, QueuedKeys, Terminal!After
<1> QED
  BY <1>13, <1>14, <1>15, <1>16, <1>18, <1>19 DEF ConsoleInv

LEMMA StartKeeps ==
  ASSUME ConsoleInv, NEW t \in Callers, NEW c \in Calls[t], Terminal!Start(t, c), PlainKeys,
         TerminalAssumption
  PROVE  ConsoleInv'
<1>1. PICK s : s = Terminal!Program[c]
  OBVIOUS
<1>2. c \in DOMAIN Terminal!Program /\ c # "get_key_nb" /\ c \in Known
  <2>1. c \in DOMAIN Terminal!Program /\ c # "get_key_nb"
    BY DEF TerminalAssumption, Terminal!ConsoleAssumption, PlainKeys
  <2> QED
    BY <2>1 DEF Known
<1>3. /\ Orderly(s) /\ s # <<>> /\ Head(s) = "lock"
      /\ c = "get_ch_nb" => Head(Tail(s)) = "peek" /\ LocksOnce(s)
  BY <1>1, <1>2, Programs
<1>4. /\ todo[t] = <<>>
      /\ call' = [call EXCEPT ![t] = c] /\ todo' = [todo EXCEPT ![t] = s]
      /\ count' = [count EXCEPT ![t] = 0] /\ key' = [key EXCEPT ![t] = Terminal!None]
      /\ UNCHANGED <<typing, reading, kernel, buffer, terminal, old, peekOld, owner>>
  BY <1>1 DEF Terminal!Start, Terminal!keyboard, Terminal!stdin, Terminal!terminal
<1>5. Terminal!None \in KeyOrNone
  BY DEF KeyOrNone
<1>6. /\ call' \in [Callers -> Known] /\ call'[t] = c /\ \A u \in Callers \ {t} : call'[u] = call[u]
      /\ count' \in [Callers -> Nat] /\ count'[t] = 0 /\ \A u \in Callers \ {t} : count'[u] = count[u]
      /\ key' \in [Callers -> KeyOrNone] /\ key'[t] = Terminal!None
      /\ \A u \in Callers \ {t} : key'[u] = key[u]
      /\ old' \in [Callers -> {"cooked", "raw"}]
  BY <1>2, <1>4, <1>5 DEF ConsoleInv, ConsoleTyped
<1>7. /\ todo' \in [Callers -> Seq(Steps)] /\ todo'[t] = s
      /\ \A u \in Callers \ {t} : todo'[u] = todo[u]
  BY <1>3, <1>4 DEF ConsoleInv, ConsoleTyped, Orderly
<1>8. Stage(todo[t]) = "idle" /\ Stage(todo'[t]) = "lock"
  BY <1>3, <1>4, <1>7 DEF Stage
<1>9. ConsoleTyped'
  BY <1>3, <1>4, <1>6, <1>7 DEF ConsoleInv, ConsoleTyped
<1>10. Held'
  BY <1>4, <1>7, <1>8 DEF ConsoleInv, Held
<1>11. Restored'
  <2>1. /\ \A u \in Callers : Stage(todo[u]) # Stage(todo'[u]) => u = t
    BY <1>7
  <2> QED
    BY <1>4, <1>8, <2>1 DEF ConsoleInv, Restored
<1>12. Looked'
  <2> SUFFICES ASSUME NEW u \in Callers
               PROVE  /\ call'[u] = "get_ch_nb" => LocksOnce(todo'[u])
                      /\ call'[u] = "get_ch_nb" /\ Stage(todo'[u]) = "lock" => Head(Tail(todo'[u])) = "peek"
                      /\ Stage(todo'[u]) = "unpeek" /\ count'[u] > 0 => kernel # <<>>
                      /\ call'[u] = "get_ch_nb" /\ Stage(todo'[u]) \in {"raw", "wait"} => kernel # <<>>
    BY <1>4 DEF Looked
  <2>1. CASE u = t
    BY <1>3, <1>6, <1>7, <1>8, <2>1
  <2>2. CASE u # t
    BY <1>6, <1>7, <2>2 DEF ConsoleInv, Looked
  <2> QED
    BY <2>1, <2>2
<1>13. ~InHand(t) /\ ~InHand(t)' /\ \A u \in Callers \ {t} : InHand(u)' <=> InHand(u)
  BY <1>6, <1>7, <1>8 DEF InHand
<1>14. Returned'
  BY <1>4, <1>6, <1>7, <1>13 DEF ConsoleInv, Returned
<1>15. Queued'
  <2>1. NextKey' = NextKey
    BY <1>4, <1>13 DEF NextKey, Terminal!After
  <2> QED
    BY <1>4, <2>1 DEF ConsoleInv, Queued, QueuedKeys, Terminal!After
<1> QED
  BY <1>9, <1>10, <1>11, <1>12, <1>14, <1>15 DEF ConsoleInv

LEMMA TypeKeeps ==
  ASSUME ConsoleInv, Terminal!Type, PlainKeys, TerminalAssumption
  PROVE  ConsoleInv'
<1>1. typing \in 1..Len(Keys) /\ Keys[typing] \in KeyOrNone /\ Keys[typing] # "up"
      /\ Terminal!After(typing) \in 1..Len(Keys)
  <2>1. Keys \in Seq(STRING)
    BY DEF TerminalAssumption, Terminal!ConsoleAssumption
  <2>2. typing \in 1..Len(Keys) /\ typing \in DOMAIN Keys
    BY <2>1, LenProperties DEF ConsoleInv, ConsoleTyped
  <2> QED
    BY <2>2, PlacesFollow DEF PlainKeys
<1>2. PICK e \in Seq(KeyOrNone) : e = <<Keys[typing]>> /\ Len(e) = 1
  BY <1>1, OneKey
<1>3. /\ kernel' = kernel \o e /\ typing' = Terminal!After(typing)
      /\ UNCHANGED <<reading, buffer, terminal, old, peekOld, owner, call, count, key, todo>>
  BY <1>1, <1>2 DEF Terminal!Type, Terminal!Bytes, Terminal!stdin, Terminal!terminal, Terminal!locals
<1>4. kernel \in Seq(KeyOrNone) /\ buffer \in Seq(KeyOrNone)
  BY DEF ConsoleInv, ConsoleTyped
<1>5. kernel' \in Seq(KeyOrNone) /\ kernel' # <<>>
  <2>1. Len(e) # 0
    BY <1>2
  <2>2. e # <<>>
    BY <2>1, EmptySeq
  <2> QED
    BY <1>2, <1>3, <1>4, <2>2, ConcatProperties, ConcatEqualIffEmpty
<1>6. buffer' \o kernel' = (buffer \o kernel) \o e
  BY <1>2, <1>3, <1>4, ConcatAssociative
<1>7. ConsoleTyped'
  BY <1>1, <1>3, <1>5 DEF ConsoleInv, ConsoleTyped
<1>8. Held' /\ Restored' /\ Returned'
  BY <1>3 DEF ConsoleInv, Held, Restored, Returned, InHand
<1>9. Looked'
  BY <1>3, <1>5 DEF ConsoleInv, Looked
<1>10. Queued'
  <2>1. NextKey' = NextKey
    BY <1>3 DEF NextKey, InHand, Terminal!After
  <2>2. buffer \o kernel \in Seq(KeyOrNone)
    BY <1>4, ConcatProperties
  <2>3. QueuedKeys((buffer \o kernel) \o e, NextKey, Terminal!After(typing))
    BY <1>1, <1>2, <2>2, TypedLast DEF ConsoleInv, Queued
  <2>4. PICK q : q = (buffer \o kernel) \o e
    OBVIOUS
  <2>5. (buffer \o kernel)' = q
    BY <1>6, <2>4
  <2>6. QueuedKeys(q, NextKey, typing')
    BY <1>3, <2>3, <2>4
  <2> QED
    BY <2>1, <2>5, <2>6 DEF Queued, QueuedKeys, Terminal!After
<1> QED
  BY <1>7, <1>8, <1>9, <1>10 DEF ConsoleInv

LEMMA ConsoleStarts ==
  ASSUME TerminalAssumption, Terminal!Init
  PROVE  ConsoleInv
<1>1. /\ typing = 1 /\ reading = 1 /\ kernel = <<>> /\ buffer = <<>>
      /\ terminal = "cooked" /\ owner = Terminal!None
      /\ call = [t \in Callers |-> Terminal!None] /\ todo = [t \in Callers |-> <<>>]
      /\ count = [t \in Callers |-> 0] /\ key = [t \in Callers |-> Terminal!None]
      /\ old = [t \in Callers |-> "cooked"] /\ peekOld = "cooked"
  BY DEF Terminal!Init
<1>2. Len(Keys) \in Nat /\ Len(Keys) >= 1
  BY LenProperties, EmptySeq DEF TerminalAssumption, Terminal!ConsoleAssumption
<1>3. PICK none \in Seq(KeyOrNone) : none = <<>> /\ Len(none) = 0
  BY EmptySeq
<1>4. PICK idle \in Seq(Steps) : idle = <<>> /\ Len(idle) = 0
  BY EmptySeq
<1>5. Orderly(idle) /\ LocksOnce(idle) /\ Stage(idle) = "idle"
  BY <1>4 DEF Orderly, LocksOnce, Stage
<1>6. Terminal!None \in KeyOrNone /\ Terminal!None \in Known /\ 1 \in 1..Len(Keys)
  BY <1>2 DEF KeyOrNone, Known
<1>7. \A t \in Callers : todo[t] = idle /\ Stage(todo[t]) = "idle" /\ ~InHand(t)
  BY <1>1, <1>4, <1>5 DEF InHand
<1>8. ConsoleTyped
  <2>1. todo = [t \in Callers |-> idle]
    BY <1>1, <1>4
  <2>2. todo \in [Callers -> Seq(Steps)] /\ \A t \in Callers : Orderly(todo[t])
    BY <1>5, <2>1
  <2> QED
    BY <1>1, <1>3, <1>6, <2>2 DEF ConsoleTyped
<1>9. Held /\ Restored /\ Returned
  BY <1>1, <1>7 DEF Held, Restored, Returned, TerminalAssumption, Terminal!ConsoleAssumption
<1>10. Looked
  <2>1. \A t \in Callers : LocksOnce(todo[t])
    BY <1>5, <1>7
  <2> QED
    BY <1>7, <2>1 DEF Looked
<1>11. Queued
  <2>1. NextKey = 1
    BY <1>1, <1>7 DEF NextKey
  <2>2. buffer \o kernel = none
    BY <1>1, <1>3, ConcatEmptySeq
  <2>3. PICK place : place = [i \in 1..1 |-> 1]
    OBVIOUS
  <2>4. place \in [1..(0 + 1) -> 1..Len(Keys)] /\ place[1] = 1 /\ place[0 + 1] = 1
    BY <1>6, <2>3
  <2>5. QueuedKeys(none, 1, 1)
    <3>1. \A i \in 1..0 : FALSE
      OBVIOUS
    <3> QED
      BY <1>3, <2>4, <3>1 DEF QueuedKeys
  <2> QED
    BY <1>1, <2>1, <2>2, <2>5 DEF Queued
<1> QED
  BY <1>8, <1>9, <1>10, <1>11 DEF ConsoleInv

\* Whoever reads, keys come as they were pressed, a call that does not block never waits,
\* and the terminal is left as it was (TerminalShared of Host).
THEOREM TerminalIsShared == PlainKeys => (Terminal!Spec => TerminalShared)
<1> SUFFICES ASSUME PlainKeys PROVE Terminal!Spec => TerminalShared
  OBVIOUS
<1> USE TerminalAssumption
<1>1. Terminal!Init => ConsoleInv
  BY ConsoleStarts
<1>2. ConsoleInv /\ [Terminal!Next]_(Terminal!vars) => ConsoleInv'
  <2> SUFFICES ASSUME ConsoleInv, [Terminal!Next]_(Terminal!vars) PROVE ConsoleInv'
    OBVIOUS
  <2>1. CASE Terminal!Type
    BY <2>1, TypeKeeps
  <2>2. ASSUME NEW t \in Callers, Terminal!Lock(t) PROVE ConsoleInv'
    BY <2>2, LockKeeps
  <2>3. ASSUME NEW t \in Callers, Terminal!Step(t) PROVE ConsoleInv'
    BY <2>3, UnlockKeeps, OutputKeeps, PeekKeeps, UnpeekKeeps, RawKeeps, WaitKeeps, CookKeeps
       DEF Terminal!Step
  <2>4. ASSUME NEW t \in Callers, NEW c \in Calls[t], Terminal!Start(t, c) PROVE ConsoleInv'
    BY <2>4, StartKeeps
  <2>5. CASE UNCHANGED Terminal!vars
    BY <2>5 DEF Terminal!vars, Terminal!keyboard, Terminal!stdin, Terminal!terminal,
       Terminal!locals, ConsoleInv, ConsoleTyped, Held, Restored, Looked, Returned, Queued,
       NextKey, InHand, QueuedKeys, Terminal!After
  <2> QED
    BY <2>1, <2>2, <2>3, <2>4, <2>5 DEF Terminal!Next
<1>3. ConsoleInv => Terminal!NeverBlocks /\ Terminal!CookedAtRest
  <2> SUFFICES ASSUME ConsoleInv PROVE Terminal!NeverBlocks /\ Terminal!CookedAtRest
    OBVIOUS
  <2>1. Terminal!NeverBlocks
    BY NoneLooksUnlocked DEF Terminal!NeverBlocks, Terminal!At, Stage, ConsoleInv, Looked
  <2>2. Terminal!CookedAtRest
    BY DEF Terminal!CookedAtRest, Stage, ConsoleInv, Restored
  <2> QED
    BY <2>1, <2>2
<1>4. ConsoleInv /\ [Terminal!Next]_(Terminal!vars) =>
        [\A t \in Callers : Terminal!Unlock(t) /\ key[t] # Terminal!None
                              => key[t] = Keys[reading]]_(Terminal!vars)
  BY UnlockKeeps
<1> QED
  BY <1>1, <1>2, <1>3, <1>4, PTL DEF Terminal!Spec, TerminalShared, Terminal!KeysArrive

-----------------------------------------------------------------------------
(* HTTP: induction over the naturals, and FlattenSeq for every sequence. *)

Below == {p \in Nat \X Nat : p[1] < p[2]}

LEMMA BelowWF == IsWellFoundedOn(Below, Nat)
BY NatLessThanWellFounded DEF OpToRel, Below

LEMMA Least == ASSUME NEW T \in SUBSET Nat, T # {}
               PROVE \E n \in T : \A m \in T : n <= m
<1>1. PICK n \in T : \A m \in T : <<m, n>> \notin Below
  BY BelowWF, WFMin
<1>2. \A m \in T : ~ (m < n)
  BY <1>1 DEF Below
<1> QED
  BY <1>2

LEMMA SetInduction == ASSUME NEW T \in SUBSET Nat, 0 \in T, \A n \in T : n + 1 \in T
  PROVE T = Nat
<1> SUFFICES ASSUME Nat \ T # {} PROVE FALSE
  OBVIOUS
<1>1. PICK n \in Nat \ T : \A m \in Nat \ T : n <= m
  BY Least
<1>2. n # 0 /\ n - 1 \in Nat /\ n - 1 \notin T
  BY <1>1
<1> QED BY <1>1, <1>2

Join(s, t) == s \o t

\* g is the function FlattenSeq defines, on the first n of ss
Joins(g, ss, n) == \A i \in 1..n : g[i] = IF i = 1 THEN ss[i] ELSE Join(g[i - 1], ss[i])

Flattens(g, ss, n) == g = [i \in 1..n |-> g[i]] /\ Joins(g, ss, n)

LEMMA FlattensLonger ==
  ASSUME NEW ss, NEW n \in Nat \ {0}, NEW g, Flattens(g, ss, n)
  PROVE  \E h : Flattens(h, ss, n + 1)
<1>0. Joins(g, ss, n)
  BY DEF Flattens
<1>1. PICK h : h = [i \in 1..(n + 1) |-> IF i <= n THEN g[i] ELSE Join(g[n], ss[n + 1])]
  OBVIOUS
<1>2. h = [i \in 1..(n + 1) |-> h[i]]
  BY <1>1
<1>3. ASSUME NEW i \in 1..(n + 1) PROVE h[i] = IF i = 1 THEN ss[i] ELSE Join(h[i - 1], ss[i])
  <2>1. CASE i <= n
    <3>1. h[i] = g[i] /\ (i # 1 => h[i - 1] = g[i - 1])
      BY <1>1, <2>1
    <3> QED
      BY <1>0, <2>1, <3>1 DEF Joins
  <2>2. CASE i = n + 1
    <3>1. h[n + 1] = Join(g[n], ss[n + 1]) /\ h[n] = g[n]
      BY <1>1
    <3> QED
      BY <2>2, <3>1
  <2> QED
    BY <2>1, <2>2
<1> QED
  BY <1>2, <1>3 DEF Flattens, Joins

LEMMA FlattenIs ==
  ASSUME NEW ss, Len(ss) \in Nat, Len(ss) # 0
  PROVE  \E g : Flattens(g, ss, Len(ss)) /\ Web!FlattenSeq(ss) = g[Len(ss)]
<1> DEFINE T == {n \in Nat : \E g : Flattens(g, ss, n + 1)}
<1>1. 0 \in T
  <2>1. PICK g : g = [i \in 1..1 |-> ss[1]]
    OBVIOUS
  <2>2. Flattens(g, ss, 0 + 1)
    BY <2>1 DEF Flattens, Joins
  <2> QED
    BY <2>2
<1>2. \A n \in T : n + 1 \in T
  BY FlattensLonger
<1>3. T \in SUBSET Nat
  OBVIOUS
<1>4. \A n \in T : \E g : Flattens(g, ss, n + 1)
  OBVIOUS
<1> HIDE DEF T
<1>5. T = Nat
  BY <1>1, <1>2, <1>3, SetInduction
<1>6. (Len(ss) - 1) + 1 = Len(ss)
  OBVIOUS
<1>7. \E g : Flattens(g, ss, Len(ss))
  BY <1>4, <1>5, <1>6, Len(ss) - 1 \in Nat
<1>8. \A g : Flattens(g, ss, Len(ss)) <=>
             g = [i \in 1..Len(ss) |-> IF i = 1 THEN ss[i] ELSE Join(g[i - 1], ss[i])]
  BY DEF Flattens, Joins
<1> QED
  BY <1>7, <1>8 DEF Web!FlattenSeq, Join

\* f holds the first n of q, the one after the j-th from o[j] + 1 on.
Upto(f, S, q, o, n) ==
  /\ f \in Seq(S) /\ Len(f) = o[n]
  /\ \A j \in 1..n :
       /\ o[j] = o[j - 1] + Len(q[j]) /\ o[j - 1] \in Nat /\ o[j] <= Len(f)
       /\ \A k \in 1..Len(q[j]) : f[o[j - 1] + k] = q[j][k]

Placed(f, S, q, o) == o \in [0..Len(q) -> Nat] /\ o[0] = 0 /\ Upto(f, S, q, o, Len(q))

LEMMA UptoOn ==
  ASSUME NEW S, NEW n \in Nat, NEW q, NEW o, o[n] \in Nat, NEW f, Upto(f, S, q, o, n), q[n + 1] \in Seq(S),
         o[n + 1] = Len(Join(f, q[n + 1]))
  PROVE  Upto(Join(f, q[n + 1]), S, q, o, n + 1)
<1>1. f \in Seq(S) /\ Len(f) = o[n] /\ Len(q[n + 1]) \in Nat
  BY LenProperties DEF Upto
<1>2. PICK e \in Seq(S), l \in Nat, m \in Nat : e = q[n + 1] /\ l = Len(e) /\ m = Len(f) /\ m = o[n]
  BY <1>1
<1>3. PICK h : h = Join(f, e)
  OBVIOUS
<1>4. /\ h \in Seq(S) /\ Len(h) = m + l
      /\ \A i \in 1..(m + l) : h[i] = IF i <= m THEN f[i] ELSE e[i - m]
  <2>1. /\ f \o e \in Seq(S) /\ Len(f \o e) = Len(f) + Len(e)
        /\ \A i \in 1..(Len(f) + Len(e)) : (f \o e)[i] = IF i <= Len(f) THEN f[i] ELSE e[i - Len(f)]
    BY <1>1, ConcatProperties
  <2>2. h = f \o e
    BY <1>3 DEF Join
  <2> QED
    BY <1>2, <2>1, <2>2
<1>5. ASSUME NEW j \in 1..n
      PROVE  /\ o[j] = o[j - 1] + Len(q[j]) /\ o[j - 1] \in Nat /\ o[j] <= m + l
             /\ \A k \in 1..Len(q[j]) : h[o[j - 1] + k] = q[j][k]
  <2>1. o[j] = o[j - 1] + Len(q[j]) /\ o[j - 1] \in Nat /\ o[j] <= m
    BY <1>2 DEF Upto
  <2>2. ASSUME NEW k \in 1..Len(q[j]) PROVE h[o[j - 1] + k] = q[j][k]
    <3>1. f[o[j - 1] + k] = q[j][k]
      BY DEF Upto
    <3>2. o[j - 1] + k \in 1..(m + l) /\ o[j - 1] + k <= m
      BY <2>1
    <3> QED
      BY <1>4, <3>1, <3>2
  <2> QED
    BY <2>1, <2>2
<1>6. /\ o[n + 1] = o[n] + l /\ o[n] \in Nat /\ o[n + 1] <= m + l
      /\ \A k \in 1..l : h[o[n] + k] = e[k]
  <2>1. \A k \in 1..l : m + k \in 1..(m + l) /\ ~(m + k <= m) /\ (m + k) - m = k
    OBVIOUS
  <2>2. o[n + 1] = m + l
    BY <1>2, <1>3, <1>4
  <2>3. \A k \in 1..l : h[m + k] = e[k]
    BY <1>4, <2>1
  <2> QED
    BY <1>2, <2>2, <2>3
<1>7. \A j \in 1..(n + 1) : j \in 1..n \/ (j = n + 1 /\ j - 1 = n)
  OBVIOUS
<1> QED
  BY <1>2, <1>3, <1>4, <1>5, <1>6, <1>7 DEF Upto

LEMMA FlattenPlaced ==
  ASSUME NEW S, NEW q \in Seq(Seq(S))
  PROVE  \E o : Placed(Web!FlattenSeq(q), S, q, o)
<1>1. PICK m \in Nat : m = Len(q)
  BY LenProperties
<1>2. CASE m = 0
  <2>1. q = <<>> /\ Web!FlattenSeq(q) = <<>>
    BY <1>1, <1>2, EmptySeq DEF Web!FlattenSeq
  <2>2. PICK o : o = [j \in 0..0 |-> 0]
    OBVIOUS
  <2>3. o \in [0..0 -> Nat] /\ o[0] = 0 /\ 1..0 = {}
    BY <2>2
  <2>4. <<>> \in Seq(S) /\ Len(<<>>) = 0
    BY EmptySeq
  <2> QED
    BY <1>1, <1>2, <2>1, <2>3, <2>4 DEF Placed, Upto
<1>3. CASE m # 0
  <2>1. PICK g : Flattens(g, q, m) /\ Web!FlattenSeq(q) = g[m]
    BY <1>1, <1>3, FlattenIs
  <2>2. \A i \in 1..m : q[i] \in Seq(S) /\ g[i] = IF i = 1 THEN q[i] ELSE Join(g[i - 1], q[i])
    BY <1>1, <2>1, ElementOfSeq DEF Flattens, Joins
  <2>3. PICK o : o = [j \in 0..m |-> IF j = 0 THEN 0 ELSE Len(g[j])]
    OBVIOUS
  <2>4. o[0] = 0 /\ \A j \in 1..m : o[j] = Len(g[j])
    BY <2>3
  <2> DEFINE T == {n \in Nat : n + 1 <= m => Upto(g[n + 1], S, q, o, n + 1)}
  <2>5. 0 \in T
    <3>1. g[1] = q[1] /\ q[1] \in Seq(S) /\ o[1] = Len(q[1])
      BY <1>3, <2>2, <2>4
    <3>2. Len(q[1]) \in Nat
      BY <3>1, LenProperties
    <3>3. \A j \in 1..1 : j = 1 /\ j - 1 = 0
      OBVIOUS
    <3>4. o[1] = 0 + Len(q[1]) /\ \A k \in 1..Len(q[1]) : 0 + k = k
      BY <3>1, <3>2
    <3>5. Upto(g[1], S, q, o, 1)
      BY <2>4, <3>1, <3>2, <3>3, <3>4 DEF Upto
    <3> QED
      BY <3>5
  <2>6. ASSUME NEW n \in T PROVE n + 1 \in T
    <3> SUFFICES ASSUME n + 2 <= m PROVE Upto(g[n + 2], S, q, o, n + 2)
      OBVIOUS
    <3>1. Upto(g[n + 1], S, q, o, n + 1)
      OBVIOUS
    <3>2. /\ n \in Nat /\ n + 2 \in 1..m /\ n + 2 # 1 /\ (n + 2) - 1 = n + 1
          /\ (n + 1) + 1 = n + 2 /\ n + 1 \in Nat /\ n + 1 \in 1..m
      OBVIOUS
    <3> HIDE DEF T
    <3>3. g[n + 2] = Join(g[n + 1], q[n + 2]) /\ q[n + 2] \in Seq(S)
      BY <2>2, <3>2
    <3>4. o[n + 2] = Len(g[n + 2]) /\ o[n + 1] = Len(g[n + 1])
      BY <2>4, <3>2
    <3>5. o[n + 1] \in Nat
      BY <3>1, <3>4, LenProperties DEF Upto
    <3> QED
      BY <3>1, <3>2, <3>3, <3>4, <3>5, UptoOn
  <2>7. T \in SUBSET Nat /\ \A n \in T : n + 1 <= m => Upto(g[n + 1], S, q, o, n + 1)
    OBVIOUS
  <2> HIDE DEF T
  <2>8. T = Nat
    BY <2>5, <2>6, <2>7, SetInduction
  <2>9. ASSUME NEW j \in 1..m PROVE o[j] \in Nat
    <3>1. j - 1 \in T /\ (j - 1) + 1 = j
      BY <2>8
    <3>2. Upto(g[j], S, q, o, j)
      BY <2>7, <3>1
    <3> QED
      BY <2>4, <3>2, LenProperties DEF Upto
  <2>10. o \in [0..m -> Nat]
    BY <2>3, <2>4, <2>9
  <2>11. m - 1 \in T /\ (m - 1) + 1 = m
    BY <1>3, <2>8
  <2>12. Upto(g[m], S, q, o, m)
    BY <2>7, <2>11
  <2> QED
    BY <1>1, <2>1, <2>4, <2>10, <2>12 DEF Placed
<1> QED
  BY <1>2, <1>3
-----------------------------------------------------------------------------
(* HTTP: what is on the wire. *)

Token == STRING \cup {"http", "ok", "chunked", "=", "x", Web!Line} \cup DOMAIN Web!Digit

\* Names of fields are neither ends of lines nor "=", no response says "chunked" that is
\* not, chunks are as long as a size says, and there are no trailers.
PlainResponses ==
  \A r \in Responses :
    /\ r.fields \in Seq(Token) /\ r.chunks \in Seq(Seq(Token)) /\ r.trailers = <<>>
    /\ \A i \in DOMAIN r.fields : r.fields[i] \notin {Web!Line, "="}
    /\ ~r.chunked => \A i \in DOMAIN r.fields : r.fields[i] # "chunked"
    /\ r.chunked => \A i \in DOMAIN r.chunks :
                      \E d \in DOMAIN Web!Digit : Web!Digit[d] = Len(r.chunks[i])

LEMMA Tokens ==
  /\ "http" \in Token /\ "ok" \in Token /\ "chunked" \in Token /\ "=" \in Token /\ Web!Line \in Token
  /\ "x" \in Token /\ "0" \in Token /\ "0" \in DOMAIN Web!Digit /\ Web!Digit["0"] = 0
  /\ \A d \in DOMAIN Web!Digit : d \in Token /\ d # Web!Line /\ Web!Digit[d] \in Nat
  /\ Web!Line # "=" /\ Web!Line # "http" /\ Web!Line # "ok" /\ Web!Line # "chunked"
<1>1. DOMAIN Web!Digit = {"0", "1", "2", "3", "E"} /\ Web!Digit["0"] = 0
  BY DEF Web!Digit
<1>2. \A d \in DOMAIN Web!Digit : d # Web!Line /\ Web!Digit[d] \in Nat
  BY DEF Web!Digit, Web!Line
<1> QED
  BY <1>1, <1>2 DEF Token, Web!Line

\* y is s, of length m, and then t, of length n.
Adjoined(y, s, t, m, n) ==
  /\ y \in Seq(Token) /\ Len(y) = m + n
  /\ \A i \in 1..m : y[i] = s[i]
  /\ \A i \in 1..n : y[m + i] = t[i]

Sized(s, m) == s \in Seq(Token) /\ m \in Nat /\ Len(s) = m

LEMMA Ahead ==
  ASSUME NEW s, NEW t, NEW m, NEW n, Sized(s, m), Sized(t, n)
  PROVE  Adjoined(Join(s, t), s, t, m, n) /\ Sized(Join(s, t), m + n)
<1>1. s \in Seq(Token) /\ t \in Seq(Token) /\ m \in Nat /\ n \in Nat /\ Len(s) = m /\ Len(t) = n
  BY DEF Sized
<1>2. /\ s \o t \in Seq(Token) /\ Len(s \o t) = Len(s) + Len(t)
      /\ \A i \in 1..(Len(s) + Len(t)) : (s \o t)[i] = IF i <= Len(s) THEN s[i] ELSE t[i - Len(s)]
  BY <1>1, ConcatProperties
<1>3. PICK y : y = s \o t
  OBVIOUS
<1>4. /\ y \in Seq(Token) /\ Len(y) = m + n
      /\ \A i \in 1..(m + n) : y[i] = IF i <= m THEN s[i] ELSE t[i - m]
  BY <1>1, <1>2, <1>3
<1>5. \A i \in 1..m : i \in 1..(m + n) /\ i <= m
  BY <1>1
<1>6. \A i \in 1..n : m + i \in 1..(m + n) /\ ~(m + i <= m) /\ (m + i) - m = i
  BY <1>1
<1>7. m + n \in Nat
  BY <1>1
<1> QED
  BY <1>3, <1>4, <1>5, <1>6, <1>7 DEF Adjoined, Join, Sized

LEMMA Short ==
  ASSUME NEW S, NEW x \in S, NEW y \in S, NEW z \in S
  PROVE  /\ <<x>> \in Seq(S) /\ Len(<<x>>) = 1 /\ <<x>>[1] = x
         /\ <<x, y>> \in Seq(S) /\ Len(<<x, y>>) = 2 /\ <<x, y>>[1] = x /\ <<x, y>>[2] = y
         /\ <<x, y, z>> \in Seq(S) /\ Len(<<x, y, z>>) = 3
         /\ <<x, y, z>>[1] = x /\ <<x, y, z>>[2] = y /\ <<x, y, z>>[3] = z
OBVIOUS

LEMMA FieldIs ==
  ASSUME NEW x \in Token
  PROVE  /\ Web!Field(x) \in Seq(Token) /\ Len(Web!Field(x)) = 3
         /\ Web!Field(x)[1] = x /\ Web!Field(x)[2] = "=" /\ Web!Field(x)[3] = Web!Line
BY Short, Tokens DEF Web!Field

\* Three tokens each.
LEMMA FieldsAre ==
  ASSUME NEW names \in Seq(Token), NEW n \in Nat, Len(names) = n
  PROVE  /\ Web!Fields(names) \in Seq(Token) /\ Len(Web!Fields(names)) = 3 * n
         /\ \A k \in 1..n : /\ Web!Fields(names)[3 * k - 2] = names[k]
                            /\ Web!Fields(names)[3 * k - 1] = "="
                            /\ Web!Fields(names)[3 * k] = Web!Line
<1>1. PICK q : q = [i \in DOMAIN names |-> Web!Field(names[i])]
  OBVIOUS
<1>2. DOMAIN names = 1..n /\ \A i \in 1..n : names[i] \in Token
  BY LenProperties, ElementOfSeq
<1>3. q \in [1..n -> Seq(Token)] /\ \A i \in 1..n : q[i] = Web!Field(names[i])
  BY <1>1, <1>2, FieldIs
<1>4. q \in Seq(Seq(Token)) /\ Len(q) = n
  BY <1>3
<1>5. PICK f : f = Web!FlattenSeq(q) /\ f = Web!Fields(names)
  BY <1>1 DEF Web!Fields
<1>6. PICK o : Placed(f, Token, q, o)
  BY <1>4, <1>5, FlattenPlaced
<1>7. /\ o[0] = 0 /\ f \in Seq(Token) /\ Len(f) = o[n]
      /\ \A j \in 1..n : o[j] = o[j - 1] + Len(q[j]) /\ \A k \in 1..Len(q[j]) : f[o[j - 1] + k] = q[j][k]
  BY <1>4, <1>6 DEF Placed, Upto
<1>8. ASSUME NEW j \in 1..n
      PROVE  /\ o[j] = o[j - 1] + 3 /\ f[o[j - 1] + 1] = names[j] /\ f[o[j - 1] + 2] = "="
             /\ f[o[j - 1] + 3] = Web!Line
  <2>1. /\ Len(q[j]) = 3 /\ q[j][1] = names[j] /\ q[j][2] = "=" /\ q[j][3] = Web!Line
    BY <1>2, <1>3, FieldIs
  <2>2. o[j] = o[j - 1] + Len(q[j]) /\ \A k \in 1..Len(q[j]) : f[o[j - 1] + k] = q[j][k]
    BY <1>7
  <2>3. 1 \in 1..3 /\ 2 \in 1..3 /\ 3 \in 1..3
    OBVIOUS
  <2>4. o[j] = o[j - 1] + 3 /\ \A k \in 1..3 : f[o[j - 1] + k] = q[j][k]
    BY <2>1, <2>2
  <2> QED
    BY <2>1, <2>3, <2>4
<1> DEFINE T == {k \in Nat : k <= n => o[k] = 3 * k}
<1>9. T = Nat
  <2>1. 0 \in T
    BY <1>7
  <2>2. ASSUME NEW k \in T PROVE k + 1 \in T
    <3> SUFFICES ASSUME k + 1 <= n PROVE o[k + 1] = 3 * (k + 1)
      OBVIOUS
    <3>1. o[k] = 3 * k /\ k + 1 \in 1..n /\ (k + 1) - 1 = k
      OBVIOUS
    <3>2. o[k + 1] = o[k] + 3
      BY <1>8, <3>1
    <3> QED
      BY <3>1, <3>2
  <2>3. T \in SUBSET Nat
    OBVIOUS
  <2> HIDE DEF T
  <2> QED
    BY <2>1, <2>2, <2>3, SetInduction
<1>10. \A k \in 0..n : o[k] = 3 * k
  BY <1>9
<1>11. ASSUME NEW k \in 1..n
       PROVE  f[3 * k - 2] = names[k] /\ f[3 * k - 1] = "=" /\ f[3 * k] = Web!Line
  <2>1. o[k - 1] = 3 * (k - 1)
    BY <1>10
  <2>2. o[k - 1] + 1 = 3 * k - 2 /\ o[k - 1] + 2 = 3 * k - 1 /\ o[k - 1] + 3 = 3 * k
    BY <2>1
  <2> QED
    BY <1>8, <2>2
<1> QED
  BY <1>5, <1>7, <1>10, <1>11

\* w is a response with n fields, the names of which are in F.
Headed(w, F, n) ==
  /\ w \in Seq(Token) /\ 3 * n + 4 <= Len(w)
  /\ w[1] = "http" /\ w[2] = "ok" /\ w[3] = Web!Line
  /\ \A k \in 1..n : /\ F[k] # Web!Line /\ F[k] # "=" /\ w[3 * k + 1] = F[k]
                     /\ w[3 * k + 2] = "=" /\ w[3 * k + 3] = Web!Line
  /\ w[3 * n + 4] = Web!Line

\* w is a status line, n fields and x.
Begun(w, F, n, x, l) ==
  /\ w \in Seq(Token) /\ Len(w) = (3 * n + 3) + l
  /\ w[1] = "http" /\ w[2] = "ok" /\ w[3] = Web!Line
  /\ \A k \in 1..n : w[3 * k + 1] = F[k] /\ w[3 * k + 2] = "=" /\ w[3 * k + 3] = Web!Line
  /\ \A k \in 1..l : w[(3 * n + 3) + k] = x[k]

LEMMA StatusLine ==
  ASSUME NEW names, NEW n, NEW x, NEW l, Sized(names, n), Sized(x, l),
         NEW w, w = Join(Join(<<"http", "ok", Web!Line>>, Web!Fields(names)), x)
  PROVE  Begun(w, names, n, x, l)
<1>1. names \in Seq(Token) /\ n \in Nat /\ Len(names) = n /\ x \in Seq(Token) /\ l \in Nat /\ Len(x) = l
  BY DEF Sized
<1>2. PICK p : p = <<"http", "ok", Web!Line>>
  OBVIOUS
<1>3. p \in Seq(Token) /\ Len(p) = 3 /\ p[1] = "http" /\ p[2] = "ok" /\ p[3] = Web!Line
  BY <1>2, Short, Tokens
<1>4. PICK f : f = Web!Fields(names)
  OBVIOUS
<1>5. /\ f \in Seq(Token) /\ Len(f) = 3 * n
      /\ \A k \in 1..n : f[3 * k - 2] = names[k] /\ f[3 * k - 1] = "=" /\ f[3 * k] = Web!Line
  BY <1>1, <1>4, FieldsAre
<1>6. PICK y : y = Join(p, f)
  OBVIOUS
<1>7. 3 * n \in Nat /\ 3 + 3 * n = 3 * n + 3 /\ 3 * n + 3 \in Nat
  BY <1>1
<1>8. /\ y \in Seq(Token) /\ Len(y) = 3 * n + 3
      /\ \A k \in 1..3 : y[k] = p[k]
      /\ \A k \in 1..(3 * n) : y[3 + k] = f[k]
  <2>1. Sized(p, 3) /\ Sized(f, 3 * n)
    BY <1>3, <1>5, <1>7 DEF Sized
  <2>2. Adjoined(y, p, f, 3, 3 * n)
    BY <1>6, <2>1, Ahead
  <2> QED
    BY <1>7, <2>2 DEF Adjoined
<1>9. w = Join(y, x)
  BY <1>2, <1>4, <1>6
<1>10. Adjoined(w, y, x, 3 * n + 3, l)
  <2>1. Sized(y, 3 * n + 3) /\ Sized(x, l)
    BY <1>7, <1>8 DEF Sized
  <2> QED
    BY <1>9, <2>1, Ahead
<1>11. \A k \in 1..(3 * n + 3) : w[k] = y[k]
  BY <1>10 DEF Adjoined
<1>12. w[1] = "http" /\ w[2] = "ok" /\ w[3] = Web!Line
  <2>1. \A k \in 1..3 : k \in 1..(3 * n + 3)
    BY <1>1
  <2>2. \A k \in 1..3 : w[k] = p[k]
    BY <1>8, <1>11, <2>1
  <2> QED
    BY <1>3, <2>2
<1>13. ASSUME NEW k \in 1..n
       PROVE  w[3 * k + 1] = names[k] /\ w[3 * k + 2] = "=" /\ w[3 * k + 3] = Web!Line
  <2>1. /\ 3 + (3 * k - 2) = 3 * k + 1 /\ 3 + (3 * k - 1) = 3 * k + 2 /\ 3 + 3 * k = 3 * k + 3
        /\ 3 * k - 2 \in 1..(3 * n) /\ 3 * k - 1 \in 1..(3 * n) /\ 3 * k \in 1..(3 * n)
        /\ 3 * k + 1 \in 1..(3 * n + 3) /\ 3 * k + 2 \in 1..(3 * n + 3) /\ 3 * k + 3 \in 1..(3 * n + 3)
    BY <1>1
  <2>2. y[3 * k + 1] = f[3 * k - 2] /\ y[3 * k + 2] = f[3 * k - 1] /\ y[3 * k + 3] = f[3 * k]
    BY <1>8, <2>1
  <2>3. w[3 * k + 1] = y[3 * k + 1] /\ w[3 * k + 2] = y[3 * k + 2] /\ w[3 * k + 3] = y[3 * k + 3]
    BY <1>11, <2>1
  <2>4. f[3 * k - 2] = names[k] /\ f[3 * k - 1] = "=" /\ f[3 * k] = Web!Line
    BY <1>5
  <2> QED
    BY <2>2, <2>3, <2>4
<1>14. /\ w \in Seq(Token) /\ Len(w) = (3 * n + 3) + l
       /\ \A k \in 1..l : w[(3 * n + 3) + k] = x[k]
  BY <1>10 DEF Adjoined
<1>15. \A k \in 1..n : w[3 * k + 1] = names[k] /\ w[3 * k + 2] = "=" /\ w[3 * k + 3] = Web!Line
  BY <1>13
<1> QED
  BY <1>12, <1>14, <1>15 DEF Begun

\* A body, whole: the contents begin after the empty line.
Whole(w, B, h) ==
  B \in Seq(Token) /\ Len(w) = h + Len(B) /\ \A k \in 1..Len(B) : w[h + k] = B[k]

LEMMA WireWhole ==
  ASSUME PlainResponses, NEW r \in Responses, ~r.chunked
  PROVE  \E n \in Nat : /\ n = Len(r.fields) /\ r.fields \in Seq(Token)
                        /\ Headed(Web!Wire(r), r.fields, n)
                        /\ Whole(Web!Wire(r), Web!Body(r), 3 * n + 4)
                        /\ \A i \in 1..n : r.fields[i] # "chunked"
<1>1. /\ r.fields \in Seq(Token) /\ r.chunks \in Seq(Seq(Token))
      /\ \A i \in DOMAIN r.fields : r.fields[i] \notin {Web!Line, "="} /\ r.fields[i] # "chunked"
  BY DEF PlainResponses
<1>2. PICK n \in Nat : n = Len(r.fields) /\ DOMAIN r.fields = 1..n
  BY <1>1, LenProperties
<1>3. PICK B \in Seq(Token), l \in Nat : B = Web!Body(r) /\ l = Len(B)
  <2>1. Web!FlattenSeq(r.chunks) \in Seq(Token)
    BY <1>1, FlattenPlaced DEF Placed, Upto
  <2> QED
    BY <2>1, LenProperties DEF Web!Body
<1>4. PICK e : e = <<Web!Line>>
  OBVIOUS
<1>5. e \in Seq(Token) /\ Len(e) = 1 /\ e[1] = Web!Line
  BY <1>4, Short, Tokens
<1>6. PICK x : x = Join(e, B)
  OBVIOUS
<1>7. /\ x \in Seq(Token) /\ Len(x) = 1 + l /\ \A k \in 1..1 : x[k] = e[k]
      /\ \A k \in 1..l : x[1 + k] = B[k]
  <2>1. Sized(e, 1) /\ Sized(B, l)
    BY <1>3, <1>5 DEF Sized
  <2>2. Adjoined(x, e, B, 1, l)
    BY <1>6, <2>1, Ahead
  <2> QED
    BY <2>2 DEF Adjoined
<1>8. PICK w : w = Web!Wire(r)
  OBVIOUS
<1>9. w = Join(Join(<<"http", "ok", Web!Line>>, Web!Fields(r.fields)), x)
  BY <1>3, <1>4, <1>6, <1>8 DEF Web!Wire, Join
<1>10. Sized(r.fields, n) /\ Sized(x, 1 + l)
  BY <1>1, <1>2, <1>7 DEF Sized
<1>11. Begun(w, r.fields, n, x, 1 + l)
  BY <1>9, <1>10, StatusLine
<1>12. w \in Seq(Token) /\ Len(w) = (3 * n + 4) + l /\ 3 * n + 4 <= Len(w)
  BY <1>11 DEF Begun
<1>13. w[3 * n + 4] = Web!Line
  <2>1. 1 \in 1..(1 + l) /\ (3 * n + 3) + 1 = 3 * n + 4 /\ 1 \in 1..1
    OBVIOUS
  <2>2. w[3 * n + 4] = x[1]
    BY <1>11, <2>1 DEF Begun
  <2> QED
    BY <1>5, <1>7, <2>1, <2>2
<1>14. ASSUME NEW k \in 1..l PROVE w[(3 * n + 4) + k] = B[k]
  <2>1. 1 + k \in 1..(1 + l) /\ (3 * n + 3) + (1 + k) = (3 * n + 4) + k
    OBVIOUS
  <2>2. w[(3 * n + 4) + k] = x[1 + k]
    BY <1>11, <2>1 DEF Begun
  <2> QED
    BY <1>7, <2>2
<1>15. Headed(w, r.fields, n)
  BY <1>1, <1>2, <1>11, <1>12, <1>13 DEF Headed, Begun
<1>16. Whole(w, B, 3 * n + 4)
  BY <1>3, <1>12, <1>14 DEF Whole
<1> QED
  BY <1>1, <1>2, <1>3, <1>8, <1>15, <1>16

\* How a chunk of l tokens is written.
Cut(x, c, l) ==
  /\ x \in Seq(Token) /\ Len(x) = l + 3
  /\ x[1] \in DOMAIN Web!Digit /\ Web!Digit[x[1]] = l
  /\ x[2] = Web!Line /\ x[l + 3] = Web!Line
  /\ \A k \in 1..l : x[2 + k] = c[k]

LEMMA ChunkIs ==
  ASSUME NEW c, NEW l, Sized(c, l), \E d \in DOMAIN Web!Digit : Web!Digit[d] = l
  PROVE  Cut(Web!Chunk(c), c, l)
<1>1. l \in Nat /\ Len(c) = l
  BY DEF Sized
<1>2. PICK d : d \in DOMAIN Web!Digit /\ Web!Digit[d] = l /\ d = Web!SizeOf(c)
  BY <1>1 DEF Web!SizeOf
<1>3. PICK p : p = <<d, Web!Line>>
  OBVIOUS
<1>4. Sized(p, 2) /\ p[1] = d /\ p[2] = Web!Line
  BY <1>2, <1>3, Short, Tokens DEF Sized
<1>5. PICK e : e = <<Web!Line>>
  OBVIOUS
<1>6. Sized(e, 1) /\ e[1] = Web!Line
  BY <1>5, Short, Tokens DEF Sized
<1>7. PICK y : y = Join(p, c)
  OBVIOUS
<1>8. PICK x : x = Join(y, e)
  OBVIOUS
<1>9. Adjoined(y, p, c, 2, l) /\ Sized(y, 2 + l)
  BY <1>4, <1>7, Ahead
<1>10. Adjoined(x, y, e, 2 + l, 1)
  BY <1>6, <1>8, <1>9, Ahead
<1>11. x = Web!Chunk(c)
  BY <1>2, <1>3, <1>5, <1>7, <1>8 DEF Web!Chunk, Join
<1>12. \A i \in 1..(2 + l) : x[i] = y[i]
  BY <1>10 DEF Adjoined
<1>13. 1 \in 1..(2 + l) /\ 2 \in 1..(2 + l) /\ 1 \in 1..2 /\ 2 \in 1..2 /\ \A k \in 1..l : 2 + k \in 1..(2 + l)
  BY <1>1
<1>14. y[1] = p[1] /\ y[2] = p[2] /\ \A k \in 1..l : y[2 + k] = c[k]
  BY <1>9, <1>13 DEF Adjoined
<1>15. x[1] = d /\ x[2] = Web!Line /\ \A k \in 1..l : x[2 + k] = c[k]
  BY <1>4, <1>12, <1>13, <1>14
<1>16. (2 + l) + 1 = l + 3 /\ 1 \in 1..1
  BY <1>1
<1>17. x \in Seq(Token) /\ Len(x) = l + 3 /\ x[l + 3] = Web!Line
  BY <1>6, <1>10, <1>16 DEF Adjoined
<1> QED
  BY <1>2, <1>11, <1>15, <1>17 DEF Cut

\* A body in m chunks: the size of the j-th stands after a[j - 1], its contents are what
\* is in B after b[j - 1], and after a[m] there is the end.
InChunks(w, B, m, a, b) ==
  /\ a \in [0..m -> Nat] /\ b \in [0..m -> Nat]
  /\ B \in Seq(Token) /\ b[0] = 0 /\ b[m] = Len(B)
  /\ Len(w) = a[m] + 3
  /\ w[a[m] + 1] = "0" /\ w[a[m] + 2] = Web!Line /\ w[a[m] + 3] = Web!Line
  /\ \A j \in 1..m :
       /\ b[j - 1] <= b[j] /\ b[j] <= Len(B)
       /\ a[j] = (a[j - 1] + 3) + (b[j] - b[j - 1]) /\ a[j] <= a[m]
       /\ w[a[j - 1] + 1] \in DOMAIN Web!Digit /\ Web!Digit[w[a[j - 1] + 1]] = b[j] - b[j - 1]
       /\ w[a[j - 1] + 2] = Web!Line /\ w[a[j]] = Web!Line
       /\ \A k \in 1..(b[j] - b[j - 1]) : w[(a[j - 1] + 2) + k] = B[b[j - 1] + k]

\* What follows the fields of a chunked response: g are the chunks.
Tailed(x, g, l) ==
  /\ Sized(x, l + 7)
  /\ x[1] = "chunked" /\ x[2] = "=" /\ x[3] = Web!Line /\ x[4] = Web!Line
  /\ \A k \in 1..l : x[4 + k] = g[k]
  /\ x[l + 5] = "0" /\ x[l + 6] = Web!Line /\ x[l + 7] = Web!Line

LEMMA TailIs ==
  ASSUME NEW g, NEW l, Sized(g, l), NEW x,
         x = Web!Field("chunked") \o <<Web!Line>> \o g \o <<"0", Web!Line>> \o Web!Fields(<<>>) \o <<Web!Line>>
  PROVE  Tailed(x, g, l)
<1>1. l \in Nat
  BY DEF Sized
<1>2. PICK p : p = Web!Field("chunked")
  OBVIOUS
<1>3. Sized(p, 3) /\ p[1] = "chunked" /\ p[2] = "=" /\ p[3] = Web!Line
  BY <1>2, FieldIs, Tokens DEF Sized
<1>4. PICK e : e = <<Web!Line>>
  OBVIOUS
<1>5. Sized(e, 1) /\ e[1] = Web!Line
  BY <1>4, Short, Tokens DEF Sized
<1>6. PICK z : z = <<"0", Web!Line>>
  OBVIOUS
<1>7. Sized(z, 2) /\ z[1] = "0" /\ z[2] = Web!Line
  BY <1>6, Short, Tokens DEF Sized
<1>8. PICK t : t = Web!Fields(<<>>)
  OBVIOUS
<1>9. Sized(t, 0)
  <2>1. <<>> \in Seq(Token) /\ Len(<<>>) = 0
    BY EmptySeq
  <2>2. Web!Fields(<<>>) \in Seq(Token) /\ Len(Web!Fields(<<>>)) = 3 * 0
    BY <2>1, FieldsAre
  <2> QED
    BY <1>8, <2>2 DEF Sized
<1>10. PICK x1 : x1 = Join(p, e)
  OBVIOUS
<1>11. Adjoined(x1, p, e, 3, 1) /\ Sized(x1, 3 + 1)
  BY <1>3, <1>5, <1>10, Ahead
<1>12. PICK x2 : x2 = Join(x1, g)
  OBVIOUS
<1>13. Adjoined(x2, x1, g, 3 + 1, l) /\ Sized(x2, (3 + 1) + l)
  BY <1>11, <1>12, Ahead
<1>14. PICK x3 : x3 = Join(x2, z)
  OBVIOUS
<1>15. Adjoined(x3, x2, z, (3 + 1) + l, 2) /\ Sized(x3, ((3 + 1) + l) + 2)
  BY <1>13, <1>7, <1>14, Ahead
<1>16. PICK x4 : x4 = Join(x3, t)
  OBVIOUS
<1>17. Adjoined(x4, x3, t, ((3 + 1) + l) + 2, 0) /\ Sized(x4, (((3 + 1) + l) + 2) + 0)
  BY <1>15, <1>9, <1>16, Ahead
<1>18. x = Join(x4, e)
  BY <1>2, <1>4, <1>6, <1>8, <1>10, <1>12, <1>14, <1>16 DEF Join
<1>19. Adjoined(x, x4, e, (((3 + 1) + l) + 2) + 0, 1) /\ Sized(x, ((((3 + 1) + l) + 2) + 0) + 1)
  BY <1>17, <1>5, <1>18, Ahead
<1>20. /\ (3 + 1) + l = 4 + l /\ ((3 + 1) + l) + 2 = l + 6 /\ (((3 + 1) + l) + 2) + 0 = l + 6
       /\ ((((3 + 1) + l) + 2) + 0) + 1 = l + 7 /\ 3 + 1 = 4 /\ (l + 6) + 1 = l + 7
       /\ (4 + l) + 1 = l + 5 /\ (4 + l) + 2 = l + 6
  BY <1>1
<1>21. /\ \A i \in 1..3 : i \in 1..4 /\ i \in 1..(4 + l) /\ i \in 1..(l + 6)
       /\ 4 \in 1..4 /\ 4 \in 1..(4 + l) /\ 4 \in 1..(l + 6)
       /\ \A k \in 1..l : 4 + k \in 1..(4 + l) /\ 4 + k \in 1..(l + 6)
       /\ l + 5 \in 1..(l + 6) /\ l + 6 \in 1..(l + 6) /\ 1 \in 1..1 /\ 1 \in 1..2 /\ 2 \in 1..2
       /\ 1 \in 1..3 /\ 2 \in 1..3 /\ 3 \in 1..3
  BY <1>1
<1>22. Sized(x, l + 7) /\ x[l + 7] = Web!Line /\ \A i \in 1..(l + 6) : x[i] = x4[i]
  BY <1>5, <1>19, <1>20, <1>21 DEF Adjoined
<1>23. \A i \in 1..(l + 6) : x4[i] = x3[i]
  BY <1>17, <1>20 DEF Adjoined
<1>24. x3[l + 5] = "0" /\ x3[l + 6] = Web!Line /\ \A i \in 1..(4 + l) : x3[i] = x2[i]
  BY <1>7, <1>15, <1>20, <1>21 DEF Adjoined
<1>25. \A i \in 1..4 : x2[i] = x1[i]
  BY <1>13, <1>20 DEF Adjoined
<1>26. \A k \in 1..l : x2[4 + k] = g[k]
  BY <1>13, <1>20 DEF Adjoined
<1>27. x1[1] = "chunked" /\ x1[2] = "=" /\ x1[3] = Web!Line /\ x1[4] = Web!Line
  BY <1>3, <1>5, <1>11, <1>20, <1>21 DEF Adjoined
<1>28. \A i \in 1..(4 + l) : x[i] = x2[i]
  <2>1. \A i \in 1..(4 + l) : i \in 1..(l + 6)
    BY <1>1
  <2> QED
    BY <1>22, <1>23, <1>24, <2>1
<1>29. x[1] = "chunked" /\ x[2] = "=" /\ x[3] = Web!Line /\ x[4] = Web!Line
  BY <1>21, <1>25, <1>27, <1>28
<1>30. \A k \in 1..l : x[4 + k] = g[k]
  BY <1>21, <1>26, <1>28
<1>31. x[l + 5] = "0" /\ x[l + 6] = Web!Line
  BY <1>21, <1>22, <1>23, <1>24
<1> QED
  BY <1>22, <1>29, <1>30, <1>31 DEF Tailed

\* The j-th chunk in g, and in the body.
OneChunk(g, B, m, o, b, j) ==
  /\ b[j - 1] <= b[j] /\ b[j] <= b[m]
  /\ o[j] = (o[j - 1] + 3) + (b[j] - b[j - 1]) /\ o[j] <= o[m]
  /\ g[o[j - 1] + 1] \in DOMAIN Web!Digit /\ Web!Digit[g[o[j - 1] + 1]] = b[j] - b[j - 1]
  /\ g[o[j - 1] + 2] = Web!Line /\ g[o[j]] = Web!Line
  /\ \A k \in 1..(b[j] - b[j - 1]) : g[(o[j - 1] + 2) + k] = B[b[j - 1] + k]

Chunks(g, B, m, o, b) ==
  /\ o \in [0..m -> Nat] /\ b \in [0..m -> Nat] /\ o[0] = 0 /\ b[0] = 0
  /\ Sized(g, o[m]) /\ Sized(B, b[m])
  /\ \A j \in 1..m : OneChunk(g, B, m, o, b, j)

LEMMA ChunksPlaced ==
  ASSUME NEW c \in Seq(Seq(Token)),
         \A i \in DOMAIN c : \E d \in DOMAIN Web!Digit : Web!Digit[d] = Len(c[i]),
         NEW g, g = Web!FlattenSeq([i \in DOMAIN c |-> Web!Chunk(c[i])]),
         NEW B, B = Web!FlattenSeq(c)
  PROVE  \E m \in Nat : \E o, b : Chunks(g, B, m, o, b)
<1>1. PICK m \in Nat : m = Len(c) /\ DOMAIN c = 1..m
  BY LenProperties
<1>2. \A i \in 1..m : c[i] \in Seq(Token)
  BY <1>1, ElementOfSeq
<1>3. \A i \in 1..m : Len(c[i]) \in Nat
  BY <1>2, LenProperties
<1>4. \A i \in 1..m : Sized(c[i], Len(c[i]))
  BY <1>2, <1>3 DEF Sized
<1>5. PICK q : q = [i \in DOMAIN c |-> Web!Chunk(c[i])]
  OBVIOUS
<1>6. ASSUME NEW i \in 1..m PROVE Cut(q[i], c[i], Len(c[i]))
  BY <1>1, <1>4, <1>5, ChunkIs
<1>7. q \in [1..m -> Seq(Token)]
  BY <1>1, <1>5, <1>6 DEF Cut
<1>8. q \in Seq(Seq(Token)) /\ Len(q) = m
  BY <1>7
<1>9. PICK o : Placed(g, Token, q, o)
  BY <1>5, <1>8, FlattenPlaced
<1>10. PICK b : Placed(B, Token, c, b)
  BY FlattenPlaced
<1>11. /\ o \in [0..m -> Nat] /\ o[0] = 0 /\ g \in Seq(Token) /\ Len(g) = o[m]
       /\ \A j \in 1..m : /\ o[j] = o[j - 1] + Len(q[j]) /\ o[j] <= o[m]
                          /\ \A k \in 1..Len(q[j]) : g[o[j - 1] + k] = q[j][k]
  BY <1>8, <1>9 DEF Placed, Upto
<1>12. /\ b \in [0..m -> Nat] /\ b[0] = 0 /\ B \in Seq(Token) /\ Len(B) = b[m]
       /\ \A j \in 1..m : /\ b[j] = b[j - 1] + Len(c[j]) /\ b[j] <= b[m]
                          /\ \A k \in 1..Len(c[j]) : B[b[j - 1] + k] = c[j][k]
  BY <1>1, <1>10 DEF Placed, Upto
<1>13. ASSUME NEW j \in 1..m
       PROVE  OneChunk(g, B, m, o, b, j)
  <2>1. PICK l \in Nat : l = Len(c[j])
    BY <1>3
  <2>2. PICK p \in Nat, e \in Nat : p = o[j - 1] /\ e = b[j - 1]
    <3>1. j - 1 \in 0..m
      OBVIOUS
    <3> QED
      BY <1>11, <1>12, <3>1
  <2>3. Cut(q[j], c[j], l)
    BY <1>6, <2>1
  <2>4. Len(q[j]) = l + 3
    BY <2>3 DEF Cut
  <2>5. o[j] = p + (l + 3) /\ o[j] <= o[m] /\ \A k \in 1..(l + 3) : g[p + k] = q[j][k]
    BY <1>11, <2>2, <2>4
  <2>6. b[j] = e + l /\ b[j] <= b[m] /\ \A k \in 1..l : B[e + k] = c[j][k]
    BY <1>12, <2>1, <2>2
  <2>7. /\ 1 \in 1..(l + 3) /\ 2 \in 1..(l + 3) /\ l + 3 \in 1..(l + 3)
        /\ \A k \in 1..l : 2 + k \in 1..(l + 3) /\ p + (2 + k) = (p + 2) + k
    OBVIOUS
  <2>8. g[p + 1] = q[j][1] /\ g[p + 2] = q[j][2] /\ g[p + (l + 3)] = q[j][l + 3]
    BY <2>5, <2>7
  <2>9. \A k \in 1..l : g[(p + 2) + k] = B[e + k]
    <3> SUFFICES ASSUME NEW k \in 1..l PROVE g[(p + 2) + k] = B[e + k]
      OBVIOUS
    <3>1. g[p + (2 + k)] = q[j][2 + k]
      BY <2>5, <2>7
    <3>2. q[j][2 + k] = c[j][k]
      BY <2>3 DEF Cut
    <3> QED
      BY <2>6, <2>7, <3>1, <3>2
  <2>10. b[j] - b[j - 1] = l /\ b[j - 1] <= b[j]
    BY <2>2, <2>6
  <2>11. o[j] = (o[j - 1] + 3) + l
    <3>1. p + (l + 3) = (p + 3) + l
      OBVIOUS
    <3>2. o[j] = p + (l + 3)
      BY <2>5
    <3> QED
      BY <2>2, <3>1, <3>2
  <2>12. g[p + 1] \in DOMAIN Web!Digit /\ Web!Digit[g[p + 1]] = l /\ g[p + 2] = Web!Line /\ g[o[j]] = Web!Line
    BY <2>3, <2>5, <2>8 DEF Cut
  <2> QED
    BY <2>2, <2>5, <2>6, <2>9, <2>10, <2>11, <2>12 DEF OneChunk
<1>14. Sized(g, o[m]) /\ Sized(B, b[m])
  BY <1>11, <1>12 DEF Sized
<1> QED
  BY <1>11, <1>12, <1>13, <1>14 DEF Chunks

\* The n names in F are those of a chunked response with these fields.
WithChunked(F, n, fields) ==
  /\ fields \in Seq(Token) /\ \E k \in 1..n : F[k] = "chunked"
  /\ \A k \in 1..n : F[k] = "chunked" \/ \E i \in 1..Len(fields) : F[k] = fields[i]
  /\ \A i \in 1..Len(fields) : \E k \in 1..n : F[k] = fields[i]

LEMMA WireInChunks ==
  ASSUME PlainResponses, NEW r \in Responses, r.chunked
  PROVE  \E n, m \in Nat : \E F, a, b :
           /\ Headed(Web!Wire(r), F, n) /\ WithChunked(F, n, r.fields)
           /\ a[0] = 3 * n + 4 /\ InChunks(Web!Wire(r), Web!Body(r), m, a, b)
<1>1. /\ r.fields \in Seq(Token) /\ r.chunks \in Seq(Seq(Token)) /\ r.trailers = <<>>
      /\ \A i \in DOMAIN r.fields : r.fields[i] \notin {Web!Line, "="}
      /\ \A i \in DOMAIN r.chunks : \E d \in DOMAIN Web!Digit : Web!Digit[d] = Len(r.chunks[i])
  BY DEF PlainResponses
<1>2. PICK n \in Nat : n = Len(r.fields) /\ DOMAIN r.fields = 1..n
  BY <1>1, LenProperties
<1>3. PICK B, g : /\ B = Web!FlattenSeq(r.chunks) /\ B = Web!Body(r)
                  /\ g = Web!FlattenSeq([i \in DOMAIN r.chunks |-> Web!Chunk(r.chunks[i])])
  BY DEF Web!Body
<1>4. PICK m \in Nat : \E o, b : Chunks(g, B, m, o, b)
  BY <1>1, <1>3, ChunksPlaced
<1>5. PICK o, b : Chunks(g, B, m, o, b)
  BY <1>4
<1>6. PICK l \in Nat : l = o[m] /\ Sized(g, l)
  BY <1>5 DEF Chunks, Sized
<1>7. /\ o \in [0..m -> Nat] /\ b \in [0..m -> Nat] /\ o[0] = 0 /\ b[0] = 0 /\ B \in Seq(Token)
       /\ b[m] = Len(B)
  BY <1>5 DEF Chunks, Sized
<1>8. PICK x : x = Web!Field("chunked") \o <<Web!Line>> \o g \o <<"0", Web!Line>> \o Web!Fields(<<>>) \o <<Web!Line>>
  OBVIOUS
<1>9. Tailed(x, g, l)
  BY <1>6, <1>8, TailIs
<1>10. PICK w : w = Web!Wire(r)
  OBVIOUS
<1>11. w = Join(Join(<<"http", "ok", Web!Line>>, Web!Fields(r.fields)), x)
  BY <1>1, <1>3, <1>8, <1>10 DEF Web!Wire, Join
<1>12. Sized(r.fields, n)
  BY <1>1, <1>2 DEF Sized
<1>13. Begun(w, r.fields, n, x, l + 7)
  BY <1>9, <1>11, <1>12, StatusLine DEF Tailed
<1>14. PICK h \in Nat : h = 3 * n + 7
  OBVIOUS
<1>15. /\ (3 * n + 3) + 1 = 3 * (n + 1) + 1 /\ (3 * n + 3) + 2 = 3 * (n + 1) + 2
       /\ (3 * n + 3) + 3 = 3 * (n + 1) + 3 /\ (3 * n + 3) + 4 = 3 * (n + 1) + 4 /\ h = 3 * (n + 1) + 4
       /\ (3 * n + 3) + (l + 5) = (h + l) + 1 /\ (3 * n + 3) + (l + 6) = (h + l) + 2
       /\ (3 * n + 3) + (l + 7) = (h + l) + 3 /\ n + 1 \in Nat
       /\ \A k \in 1..l : (3 * n + 3) + (4 + k) = h + k
  BY <1>14
<1>16. /\ 1 \in 1..(l + 7) /\ 2 \in 1..(l + 7) /\ 3 \in 1..(l + 7) /\ 4 \in 1..(l + 7)
       /\ l + 5 \in 1..(l + 7) /\ l + 6 \in 1..(l + 7) /\ l + 7 \in 1..(l + 7)
       /\ \A k \in 1..l : 4 + k \in 1..(l + 7)
  OBVIOUS
<1>17. /\ w \in Seq(Token) /\ w[1] = "http" /\ w[2] = "ok" /\ w[3] = Web!Line
       /\ Len(w) = (h + l) + 3
       /\ \A k \in 1..n : w[3 * k + 1] = r.fields[k] /\ w[3 * k + 2] = "=" /\ w[3 * k + 3] = Web!Line
  BY <1>13, <1>15 DEF Begun
<1>18. \A i \in 1..(l + 7) : w[(3 * n + 3) + i] = x[i]
  BY <1>13 DEF Begun
<1>19. /\ w[3 * (n + 1) + 1] = "chunked" /\ w[3 * (n + 1) + 2] = "=" /\ w[3 * (n + 1) + 3] = Web!Line
       /\ w[3 * (n + 1) + 4] = Web!Line
  <2>1. /\ w[(3 * n + 3) + 1] = "chunked" /\ w[(3 * n + 3) + 2] = "=" /\ w[(3 * n + 3) + 3] = Web!Line
        /\ w[(3 * n + 3) + 4] = Web!Line
    BY <1>9, <1>16, <1>18 DEF Tailed
  <2> QED
    BY <1>15, <2>1
<1>20. w[(h + l) + 1] = "0" /\ w[(h + l) + 2] = Web!Line /\ w[(h + l) + 3] = Web!Line
  <2>1. /\ w[(3 * n + 3) + (l + 5)] = "0" /\ w[(3 * n + 3) + (l + 6)] = Web!Line
        /\ w[(3 * n + 3) + (l + 7)] = Web!Line
    BY <1>9, <1>16, <1>18 DEF Tailed
  <2> QED
    BY <1>15, <2>1
<1>21. \A k \in 1..l : w[h + k] = g[k]
  <2> SUFFICES ASSUME NEW k \in 1..l PROVE w[h + k] = g[k]
    OBVIOUS
  <2>1. w[(3 * n + 3) + (4 + k)] = x[4 + k] /\ x[4 + k] = g[k]
    BY <1>9, <1>16, <1>18 DEF Tailed
  <2> QED
    BY <1>15, <2>1
<1>22. PICK F : F = [k \in 1..(n + 1) |-> IF k = n + 1 THEN "chunked" ELSE r.fields[k]]
  OBVIOUS
<1>23. F[n + 1] = "chunked" /\ \A k \in 1..n : F[k] = r.fields[k]
  BY <1>22
<1>24. Headed(w, F, n + 1)
  <2>1. 3 * (n + 1) + 4 <= Len(w)
    BY <1>14, <1>17
  <2>2. ASSUME NEW k \in 1..(n + 1)
        PROVE  /\ F[k] # Web!Line /\ F[k] # "=" /\ w[3 * k + 1] = F[k]
               /\ w[3 * k + 2] = "=" /\ w[3 * k + 3] = Web!Line
    <3>1. CASE k = n + 1
      BY <1>19, <1>23, <3>1, Tokens
    <3>2. CASE k \in 1..n
      <4>1. F[k] = r.fields[k] /\ r.fields[k] # Web!Line /\ r.fields[k] # "="
        BY <1>1, <1>2, <1>23, <3>2
      <4>2. w[3 * k + 1] = r.fields[k] /\ w[3 * k + 2] = "=" /\ w[3 * k + 3] = Web!Line
        BY <1>17, <3>2
      <4> QED
        BY <4>1, <4>2
    <3> QED
      BY <3>1, <3>2
  <2> QED
    BY <1>17, <1>19, <2>1, <2>2 DEF Headed
<1>25. PICK a : a = [j \in 0..m |-> h + o[j]]
  OBVIOUS
<1>26. a \in [0..m -> Nat] /\ a[0] = h /\ a[m] = h + l /\ \A j \in 0..m : a[j] = h + o[j]
  BY <1>6, <1>25, <1>7
<1>27. ASSUME NEW j \in 1..m
       PROVE  /\ b[j - 1] <= b[j] /\ b[j] <= b[m]
              /\ a[j] = (a[j - 1] + 3) + (b[j] - b[j - 1]) /\ a[j] <= a[m]
              /\ w[a[j - 1] + 1] \in DOMAIN Web!Digit /\ Web!Digit[w[a[j - 1] + 1]] = b[j] - b[j - 1]
              /\ w[a[j - 1] + 2] = Web!Line /\ w[a[j]] = Web!Line
              /\ \A k \in 1..(b[j] - b[j - 1]) : w[(a[j - 1] + 2) + k] = B[b[j - 1] + k]
  <2>1. PICK p \in Nat, e \in Nat, d \in Nat : p = o[j - 1] /\ e = b[j - 1] /\ b[j] = e + d
    <3>1. j - 1 \in 0..m /\ j \in 0..m
      OBVIOUS
    <3>2. o[j - 1] \in Nat /\ b[j - 1] \in Nat /\ b[j] \in Nat /\ b[j - 1] <= b[j]
      BY <1>5, <1>7, <3>1 DEF Chunks, OneChunk
    <3>3. b[j] - b[j - 1] \in Nat /\ b[j] = b[j - 1] + (b[j] - b[j - 1])
      BY <3>2
    <3> QED
      BY <3>2, <3>3
  <2>2. b[j] - b[j - 1] = d
    BY <2>1
  <2>3. /\ b[j - 1] <= b[j] /\ b[j] <= b[m] /\ o[j] = (p + 3) + d /\ o[j] <= l
        /\ g[p + 1] \in DOMAIN Web!Digit /\ Web!Digit[g[p + 1]] = d
        /\ g[p + 2] = Web!Line /\ g[o[j]] = Web!Line
        /\ \A k \in 1..d : g[(p + 2) + k] = B[e + k]
    BY <1>5, <1>6, <2>1, <2>2 DEF Chunks, OneChunk
  <2>4. a[j] = h + o[j] /\ a[j - 1] = h + p
    BY <1>26, <2>1
  <2>5. /\ p + 1 \in 1..l /\ p + 2 \in 1..l /\ (p + 3) + d \in 1..l
        /\ \A k \in 1..d : (p + 2) + k \in 1..l /\ h + ((p + 2) + k) = ((h + p) + 2) + k
        /\ h + (p + 1) = (h + p) + 1 /\ h + (p + 2) = (h + p) + 2
        /\ h + ((p + 3) + d) = ((h + p) + 3) + d
    BY <2>3
  <2>6. w[(h + p) + 1] = g[p + 1] /\ w[(h + p) + 2] = g[p + 2] /\ w[h + ((p + 3) + d)] = g[(p + 3) + d]
    BY <1>21, <2>5
  <2>7. \A k \in 1..d : w[((h + p) + 2) + k] = B[e + k]
    <3> SUFFICES ASSUME NEW k \in 1..d PROVE w[((h + p) + 2) + k] = B[e + k]
      OBVIOUS
    <3>1. w[h + ((p + 2) + k)] = g[(p + 2) + k]
      BY <1>21, <2>5
    <3> QED
      BY <2>3, <2>5, <3>1
  <2>8. a[j] = (a[j - 1] + 3) + d /\ a[j] <= a[m]
    BY <1>26, <2>3, <2>4
  <2>9. w[a[j - 1] + 1] \in DOMAIN Web!Digit /\ Web!Digit[w[a[j - 1] + 1]] = d
    BY <2>3, <2>4, <2>6
  <2>10. w[a[j - 1] + 2] = Web!Line /\ w[a[j]] = Web!Line
    BY <2>3, <2>4, <2>6
  <2>11. \A k \in 1..(b[j] - b[j - 1]) : w[(a[j - 1] + 2) + k] = B[b[j - 1] + k]
    BY <2>1, <2>2, <2>4, <2>7
  <2> QED
    BY <2>2, <2>3, <2>8, <2>9, <2>10, <2>11
<1>28. InChunks(w, B, m, a, b)
  <2>1. Len(w) = a[m] + 3 /\ w[a[m] + 1] = "0" /\ w[a[m] + 2] = Web!Line /\ w[a[m] + 3] = Web!Line
    BY <1>17, <1>20, <1>26
  <2> QED
    BY <1>26, <1>27, <1>7, <2>1 DEF InChunks
<1>29. a[0] = 3 * (n + 1) + 4
  BY <1>15, <1>26
<1>30. /\ n + 1 \in 1..(n + 1) /\ \A k \in 1..n : k \in 1..(n + 1)
       /\ \A k \in 1..(n + 1) : k = n + 1 \/ k \in 1..n
  OBVIOUS
<1>31. WithChunked(F, n + 1, r.fields)
  <2>1. \E k \in 1..(n + 1) : F[k] = "chunked"
    BY <1>23, <1>30
  <2>2. \A k \in 1..(n + 1) : F[k] = "chunked" \/ \E i \in 1..n : F[k] = r.fields[i]
    BY <1>23, <1>30
  <2>3. \A i \in 1..n : \E k \in 1..(n + 1) : F[k] = r.fields[i]
    BY <1>23, <1>30
  <2> QED
    BY <1>1, <1>2, <2>1, <2>2, <2>3 DEF WithChunked
<1>32. /\ Headed(Web!Wire(r), F, n + 1) /\ WithChunked(F, n + 1, r.fields)
       /\ a[0] = 3 * (n + 1) + 4 /\ InChunks(Web!Wire(r), Web!Body(r), m, a, b)
  BY <1>3, <1>10, <1>24, <1>28, <1>29, <1>31
<1>33. n + 1 \in Nat
  OBVIOUS
<1> QED
  BY <1>32, <1>33
-----------------------------------------------------------------------------
(* HTTP: how what came is read. *)

LEMMA FirstIs ==
  ASSUME NEW s \in Seq(Token), NEW i \in Nat, NEW P \in SUBSET (1..Len(s)),
         NEW j \in P, j >= i, \A k \in P : k >= i => j <= k
  PROVE  Web!FirstIn(s, i, P) = j
<1>1. Len(s) \in Nat
  BY LenProperties
<1>2. \A k \in P : k \in Nat /\ k <= Len(s)
  BY <1>1
<1>3. j \in P \cup {Len(s) + 1}
  OBVIOUS
<1>4. ASSUME NEW l \in P \cup {Len(s) + 1}, l >= i \/ l > Len(s), \A k \in P : k >= i => l <= k
      PROVE  l = j
  BY <1>1, <1>2, <1>4
<1> QED
  BY <1>3, <1>4 DEF Web!FirstIn

LEMMA FirstNone ==
  ASSUME NEW s \in Seq(Token), NEW i \in Nat, NEW P \in SUBSET (1..Len(s)), \A k \in P : ~(k >= i)
  PROVE  Web!FirstIn(s, i, P) = Len(s) + 1
<1>1. Len(s) \in Nat
  BY LenProperties
<1>2. \A k \in P : k \in Nat /\ ~(k > Len(s))
  BY <1>1
<1>3. Len(s) + 1 \in P \cup {Len(s) + 1} /\ Len(s) + 1 > Len(s)
  BY <1>1
<1> QED
  BY <1>2, <1>3 DEF Web!FirstIn

LEMMA FirstFacts ==
  ASSUME NEW s \in Seq(Token), NEW i \in Nat, NEW P \in SUBSET (1..Len(s))
  PROVE  /\ Web!FirstIn(s, i, P) \in P \cup {Len(s) + 1}
         /\ Web!FirstIn(s, i, P) >= i \/ Web!FirstIn(s, i, P) = Len(s) + 1
<1> DEFINE R == {k \in P : k >= i}
<1>1. CASE R = {}
  BY <1>1, FirstNone
<1>2. CASE R # {}
  <2>1. PICK l \in Nat : l = Len(s)
    BY LenProperties
  <2>2. R \in SUBSET Nat
    BY 1..l \in SUBSET Nat, <2>1
  <2>3. PICK j \in R : \A k \in R : j <= k
    BY <1>2, <2>2, Least
  <2> QED
    BY <2>3, FirstIs
<1> QED
  BY <1>1, <1>2

Words(s) == {j \in DOMAIN s : s[j] # Web!Line}
Ends(s)  == {j \in DOMAIN s : s[j] = Web!Line}
Empties(s, i) == {j \in DOMAIN s : s[j] = Web!Line /\ (j = i \/ s[j - 1] = Web!Line)}

LEMMA Places ==
  ASSUME NEW s \in Seq(Token)
  PROVE  /\ Len(s) \in Nat /\ DOMAIN s = 1..Len(s)
         /\ Words(s) \in SUBSET (1..Len(s)) /\ Ends(s) \in SUBSET (1..Len(s))
         /\ \A i : Empties(s, i) \in SUBSET (1..Len(s))
         /\ \A i : /\ Web!Word(s, i) = Web!FirstIn(s, i, Words(s))
                   /\ Web!Ignore(s, i) = 1 + Web!FirstIn(s, i, Ends(s))
                   /\ Web!EmptyLine(s, i) = Web!FirstIn(s, i, Empties(s, i))
BY LenProperties DEF Words, Ends, Empties, Web!Word, Web!Ignore, Web!EmptyLine

LEMMA WordHere ==
  ASSUME NEW s \in Seq(Token), NEW i \in 1..Len(s), s[i] # Web!Line
  PROVE  Web!Word(s, i) = i
<1>1. i \in Words(s)
  BY Places DEF Words
<1>2. \A k \in Words(s) : k >= i => i <= k
  BY Places
<1>3. i \in Nat /\ i >= i
  BY Places
<1> QED
  BY <1>1, <1>2, <1>3, Places, FirstIs

LEMMA WordAfter ==
  ASSUME NEW s \in Seq(Token), NEW i \in Nat, i + 1 \in 1..Len(s), i \in 1..Len(s) => s[i] = Web!Line,
         s[i + 1] # Web!Line
  PROVE  Web!Word(s, i) = i + 1
<1>1. i + 1 \in Words(s)
  BY Places DEF Words
<1>2. ASSUME NEW k \in Words(s), k >= i PROVE i + 1 <= k
  <2>1. k \in 1..Len(s) /\ s[k] # Web!Line /\ Len(s) \in Nat
    BY Places DEF Words
  <2>2. k # i
    BY <2>1
  <2> QED
    BY <1>2, <2>1, <2>2
<1> QED
  BY <1>1, <1>2, Places, FirstIs, i + 1 >= i

LEMMA WordNone ==
  ASSUME NEW s \in Seq(Token), NEW i \in Nat, \A k \in 1..Len(s) : k >= i => s[k] = Web!Line
  PROVE  Web!Word(s, i) = Len(s) + 1
<1>1. \A k \in Words(s) : ~(k >= i)
  BY Places DEF Words
<1> QED
  BY <1>1, Places, FirstNone

\* The line ends at i + 1, or nothing is there any more.
LEMMA IgnoreIs ==
  ASSUME NEW s \in Seq(Token), NEW i \in 1..Len(s), s[i] # Web!Line, i + 1 <= Len(s) => s[i + 1] = Web!Line
  PROVE  Web!Ignore(s, i) = i + 2
<1>1. PICK l \in Nat : l = Len(s) /\ i \in 1..l
  BY Places
<1>2. ASSUME NEW k \in Ends(s), k >= i PROVE i + 1 <= k
  <2>1. k \in 1..l /\ k # i
    BY <1>1, Places DEF Ends
  <2> QED
    BY <1>2, <2>1
<1>3. CASE i = l
  <2>1. \A k \in Ends(s) : ~(k >= i)
    BY <1>1, <1>2, <1>3, Places
  <2>2. Web!FirstIn(s, i, Ends(s)) = l + 1
    BY <1>1, <2>1, Places, FirstNone
  <2>3. 1 + (l + 1) = i + 2
    BY <1>3
  <2> QED
    BY <2>2, <2>3, Places
<1>4. CASE i # l
  <2>1. i + 1 \in Ends(s) /\ i + 1 >= i
    BY <1>1, <1>4, Places DEF Ends
  <2>2. Web!FirstIn(s, i, Ends(s)) = i + 1
    BY <1>1, <1>2, <2>1, Places, FirstIs
  <2>3. 1 + (i + 1) = i + 2
    OBVIOUS
  <2> QED
    BY <2>2, <2>3, Places
<1> QED
  BY <1>3, <1>4

Begins(s, w) == s \in Seq(Token) /\ Len(s) <= Len(w) /\ \A i \in 1..Len(s) : s[i] = w[i]

\* What is read as a status and as fields.
LEMMA LinesFrom4 ==
  ASSUME NEW w, NEW F, NEW n, Headed(w, F, n), NEW s, Begins(s, w), Len(s) >= 2
  PROVE  s[1] = "http" /\ s[2] = "ok" /\ Web!Ignore(s, 1) = 4
<1>1. PICK l \in Nat : l = Len(s) /\ l >= 2 /\ s \in Seq(Token)
  BY Places DEF Begins
<1>2. s[1] = "http" /\ s[2] = "ok" /\ (3 <= l => s[3] = Web!Line)
  BY <1>1 DEF Headed, Begins
<1>3. \A k \in Ends(s) : k >= 1 => 3 <= k
  <2> SUFFICES ASSUME NEW k \in Ends(s) PROVE 3 <= k
    OBVIOUS
  <2>1. k \in 1..l /\ s[k] = Web!Line
    BY <1>1, Places DEF Ends
  <2>2. k # 1 /\ k # 2
    BY <1>2, <2>1, Tokens
  <2> QED
    BY <2>1, <2>2
<1>4. CASE l = 2
  <2>1. ASSUME NEW k \in Ends(s), k >= 1 PROVE FALSE
    <3>1. k \in 1..2 /\ 3 <= k
      BY <1>1, <1>3, <1>4, <2>1, Places
    <3> QED
      BY <3>1
  <2>2. Ends(s) \in SUBSET (1..Len(s)) /\ 1 \in Nat
    BY <1>1, Places
  <2>3. Web!FirstIn(s, 1, Ends(s)) = Len(s) + 1
    BY <1>1, <2>1, <2>2, FirstNone
  <2>4. Web!FirstIn(s, 1, Ends(s)) = 3
    BY <1>1, <1>4, <2>3
  <2> QED
    BY <1>1, <1>2, <2>4, Places
<1>5. CASE l # 2
  <2>1. 3 \in Ends(s) /\ 3 >= 1
    BY <1>1, <1>2, <1>5, Places DEF Ends
  <2>2. Web!FirstIn(s, 1, Ends(s)) = 3
    BY <1>1, <1>3, <2>1, Places, FirstIs
  <2> QED
    BY <1>1, <1>2, <2>2, Places
<1> QED
  BY <1>4, <1>5

LEMMA EmptyLineIs ==
  ASSUME NEW w, NEW F, NEW n \in Nat, Headed(w, F, n), NEW s, Begins(s, w), Len(s) >= 2
  PROVE  Web!EmptyLine(s, 4) = IF 3 * n + 4 <= Len(s) THEN 3 * n + 4 ELSE Len(s) + 1
<1>1. PICK l \in Nat : l = Len(s) /\ s \in Seq(Token)
  BY Places DEF Begins
<1>2. ASSUME NEW j \in Empties(s, 4), j >= 4 PROVE 3 * n + 4 <= j
  <2>1. /\ j \in 1..l /\ s[j] = Web!Line /\ (j = 4 \/ s[j - 1] = Web!Line)
    BY <1>1, Places DEF Empties
  <2> SUFFICES ASSUME j <= 3 * n + 3 PROVE FALSE
    BY <2>1
  <2>2. PICK k \in 1..n : j = 3 * k + 1 \/ j = 3 * k + 2 \/ j = 3 * k + 3
    <3>1. (j - 1) \div 3 \in 1..n
      BY <1>2, <2>1
    <3>2. \/ j = 3 * ((j - 1) \div 3) + 1 \/ j = 3 * ((j - 1) \div 3) + 2
          \/ j = 3 * ((j - 1) \div 3) + 3
      BY <2>1
    <3> QED
      BY <3>1, <3>2
  <2>3. F[k] # Web!Line /\ w[3 * k + 1] = F[k] /\ w[3 * k + 2] = "="
    BY DEF Headed
  <2>4. s[j] = w[j] /\ (j > 1 => s[j - 1] = w[j - 1])
    BY <1>1, <2>1 DEF Begins
  <2>5. CASE j = 3 * k + 1
    BY <2>1, <2>3, <2>4, <2>5
  <2>6. CASE j = 3 * k + 2
    BY <2>1, <2>3, <2>4, <2>6, Tokens
  <2>7. CASE j = 3 * k + 3
    <3>1. j - 1 = 3 * k + 2 /\ j > 4
      BY <2>7
    <3> QED
      BY <2>1, <2>3, <2>4, <3>1, Tokens
  <2> QED
    BY <2>2, <2>5, <2>6, <2>7
<1>3. CASE 3 * n + 4 <= l
  <2>1. 3 * n + 4 \in 1..l /\ 3 * n + 4 >= 4
    BY <1>3
  <2>2. s[3 * n + 4] = Web!Line
    BY <1>1, <2>1 DEF Headed, Begins
  <2>3. s[(3 * n + 4) - 1] = Web!Line \/ 3 * n + 4 = 4
    <3>1. CASE n = 0
      BY <3>1
    <3>2. CASE n # 0
      <4>1. (3 * n + 4) - 1 = 3 * n + 3 /\ n \in 1..n /\ 3 * n + 3 \in 1..l
        BY <1>3, <3>2
      <4>2. s[3 * n + 3] = w[3 * n + 3] /\ w[3 * n + 3] = Web!Line
        BY <1>1, <4>1 DEF Headed, Begins
      <4> QED
        BY <4>1, <4>2
    <3> QED
      BY <3>1, <3>2
  <2>4. 3 * n + 4 \in Empties(s, 4)
    BY <1>1, <2>1, <2>2, <2>3, Places DEF Empties
  <2>5. Web!FirstIn(s, 4, Empties(s, 4)) = 3 * n + 4
    BY <1>1, <1>2, <2>1, <2>4, Places, FirstIs
  <2> QED
    BY <1>1, <1>3, <2>5, Places
<1>4. CASE ~(3 * n + 4 <= l)
  <2>1. ASSUME NEW k \in Empties(s, 4), k >= 4 PROVE FALSE
    <3>1. k \in 1..l /\ 3 * n + 4 <= k
      BY <1>1, <1>2, <2>1, Places
    <3> QED
      BY <1>4, <3>1
  <2>2. Empties(s, 4) \in SUBSET (1..Len(s)) /\ 4 \in Nat
    BY <1>1, Places
  <2>3. Web!FirstIn(s, 4, Empties(s, 4)) = Len(s) + 1
    BY <1>1, <2>1, <2>2, FirstNone
  <2> QED
    BY <1>1, <1>4, <2>3, Places
<1> QED
  BY <1>1, <1>3, <1>4

LEMMA FieldsRead ==
  ASSUME NEW w, NEW F, NEW n \in Nat, Headed(w, F, n), NEW s, Begins(s, w), 3 * n + 4 <= Len(s)
  PROVE  Web!ParsedFields(s, 4) = {F[k] : k \in 1..n}
<1>1. PICK l \in Nat : l = Len(s) /\ s \in Seq(Token) /\ 3 * n + 4 <= l
  BY Places DEF Begins
<1>2. Len(s) >= 2
  BY <1>1
<1>3. Web!EmptyLine(s, 4) = 3 * n + 4 /\ (3 * n + 4) - 2 = 3 * n + 2
  BY <1>2, EmptyLineIs
<1>4. Web!ParsedFields(s, 4) = {s[j] : j \in {j \in 4..(3 * n + 2) : s[j + 1] = "="}}
  BY <1>3 DEF Web!ParsedFields
<1>5. ASSUME NEW k \in 1..n
      PROVE  /\ 3 * k + 1 \in 4..(3 * n + 2) /\ s[3 * k + 1] = F[k] /\ s[3 * k + 2] = "="
             /\ s[3 * k + 3] = Web!Line /\ F[k] # "="
  <2>1. 3 * k + 1 \in 1..l /\ 3 * k + 2 \in 1..l /\ 3 * k + 3 \in 1..l /\ 3 * k + 1 \in 4..(3 * n + 2)
    BY <1>1
  <2>2. s[3 * k + 1] = w[3 * k + 1] /\ s[3 * k + 2] = w[3 * k + 2] /\ s[3 * k + 3] = w[3 * k + 3]
    BY <1>1, <2>1 DEF Begins
  <2> QED
    BY <2>1, <2>2 DEF Headed
<1>6. ASSUME NEW j \in 4..(3 * n + 2), s[j + 1] = "=" PROVE \E k \in 1..n : s[j] = F[k]
  <2>1. PICK k \in 1..n : j = 3 * k + 1 \/ j = 3 * k + 2 \/ j = 3 * k + 3
    <3>1. (j - 1) \div 3 \in 1..n
      OBVIOUS
    <3>2. \/ j = 3 * ((j - 1) \div 3) + 1 \/ j = 3 * ((j - 1) \div 3) + 2
          \/ j = 3 * ((j - 1) \div 3) + 3
      OBVIOUS
    <3> QED
      BY <3>1, <3>2
  <2>2. CASE j = 3 * k + 1
    BY <1>5, <2>2
  <2>3. CASE j = 3 * k + 2
    <3>1. j + 1 = 3 * k + 3
      BY <2>3
    <3>2. s[j + 1] = Web!Line
      BY <1>5, <3>1
    <3> QED
      BY <1>6, <3>2, Tokens
  <2>4. CASE j = 3 * k + 3
    <3>1. k + 1 \in 1..n /\ j + 1 = 3 * (k + 1) + 1
      BY <2>4
    <3>2. s[j + 1] = F[k + 1] /\ F[k + 1] # "="
      BY <1>5, <3>1
    <3> QED
      BY <1>6, <3>2
  <2> QED
    BY <2>1, <2>2, <2>3, <2>4
<1>7. ASSUME NEW k \in 1..n PROVE \E j \in {j \in 4..(3 * n + 2) : s[j + 1] = "="} : F[k] = s[j]
  <2>1. (3 * k + 1) + 1 = 3 * k + 2
    OBVIOUS
  <2>2. 3 * k + 1 \in {j \in 4..(3 * n + 2) : s[j + 1] = "="} /\ F[k] = s[3 * k + 1]
    BY <1>5, <2>1
  <2> QED
    BY <2>2
<1>8. PICK J : J = {j \in 4..(3 * n + 2) : s[j + 1] = "="}
  OBVIOUS
<1>9. \A j \in J : \E k \in 1..n : s[j] = F[k]
  BY <1>6, <1>8
<1>10. \A k \in 1..n : \E j \in J : F[k] = s[j]
  BY <1>7, <1>8
<1>11. {s[j] : j \in J} = {F[k] : k \in 1..n}
  BY <1>9, <1>10
<1> QED
  BY <1>4, <1>8, <1>11

\* What parse_body() makes of what is at i, if f is what it makes of the rest.
OneSize(s, i, f) ==
  IF Web!Word(s, i) \notin DOMAIN s \/ s[Web!Word(s, i)] \notin DOMAIN Web!Digit THEN <<>>
  ELSE IF Web!Ignore(s, Web!Word(s, i)) + Web!Digit[s[Web!Word(s, i)]] > Len(s)
       THEN Web!From(s, Web!Ignore(s, Web!Word(s, i)))
       ELSE SubSeq(s, Web!Ignore(s, Web!Word(s, i)),
                   Web!Ignore(s, Web!Word(s, i)) + Web!Digit[s[Web!Word(s, i)]] - 1)
              \o f[Web!Ignore(s, Web!Word(s, i)) + Web!Digit[s[Web!Word(s, i)]]]

\* It goes forward.
LEMMA GoesForward ==
  ASSUME NEW s \in Seq(Token), NEW i \in Nat, NEW f, NEW g, \A j \in Nat : j > i => f[j] = g[j]
  PROVE  OneSize(s, i, f) = OneSize(s, i, g)
<1>1. PICK l \in Nat : l = Len(s) /\ DOMAIN s = 1..l
  BY Places
<1>2. CASE Web!Word(s, i) \notin DOMAIN s \/ s[Web!Word(s, i)] \notin DOMAIN Web!Digit
  BY <1>2 DEF OneSize
<1>3. CASE ~(Web!Word(s, i) \notin DOMAIN s \/ s[Web!Word(s, i)] \notin DOMAIN Web!Digit)
  <2>1. PICK p \in 1..l : p = Web!Word(s, i)
    BY <1>1, <1>3
  <2>2. p >= i
    <3>1. p >= i \/ p = l + 1
      BY <1>1, <2>1, FirstFacts, Places
    <3> QED
      BY <1>1, <3>1
  <2>3. PICK d \in Nat : d = Web!Digit[s[p]]
    BY <1>3, <2>1, Tokens
  <2>4. PICK e \in Nat : e = Web!Ignore(s, p) /\ e > i
    <3>1. PICK t : t = Web!FirstIn(s, p, Ends(s))
      OBVIOUS
    <3>2. t \in Ends(s) \cup {l + 1} /\ (t >= p \/ t = l + 1)
      BY <1>1, <3>1, FirstFacts, Places
    <3>3. Ends(s) \in SUBSET (1..l)
      BY <1>1, Places
    <3>4. t \in Nat /\ t >= i
      BY <2>2, <3>2, <3>3
    <3>5. Web!Ignore(s, p) = 1 + t
      BY <3>1, Places
    <3> QED
      BY <3>4, <3>5
  <2>5. e + d \in Nat /\ e + d > i
    BY <2>4
  <2>6. f[e + d] = g[e + d]
    BY <2>5
  <2> QED
    BY <1>3, <2>1, <2>3, <2>4, <2>6 DEF OneSize
<1> QED
  BY <1>2, <1>3

\* f is what the chunks function is, on the last k places.
Reads(s, f, k) ==
  f = [i \in Nat |-> f[i]] /\ \A i \in Nat : i + k > Len(s) => f[i] = OneSize(s, i, f)

LEMMA ReadsMore ==
  ASSUME NEW s \in Seq(Token), NEW k \in Nat, NEW f, Reads(s, f, k)
  PROVE  \E g : Reads(s, g, k + 1)
<1>1. PICK l \in Nat : l = Len(s)
  BY Places
<1>2. PICK g : g = [i \in Nat |-> IF i + k > l THEN f[i] ELSE OneSize(s, i, f)]
  OBVIOUS
<1>3. g = [i \in Nat |-> g[i]] /\ \A i \in Nat : g[i] = IF i + k > l THEN f[i] ELSE OneSize(s, i, f)
  BY <1>2
<1>4. ASSUME NEW i \in Nat, i + (k + 1) > l PROVE g[i] = OneSize(s, i, g)
  <2>1. \A j \in Nat : j > i => f[j] = g[j]
    <3> SUFFICES ASSUME NEW j \in Nat, j > i PROVE f[j] = g[j]
      OBVIOUS
    <3>1. j + k > l
      BY <1>4
    <3> QED
      BY <1>3, <3>1
  <2>2. OneSize(s, i, f) = OneSize(s, i, g)
    BY <2>1, GoesForward
  <2>3. g[i] = OneSize(s, i, f)
    <3>1. i + k > l => f[i] = OneSize(s, i, f)
      BY <1>1 DEF Reads
    <3> QED
      BY <1>3, <3>1
  <2> QED
    BY <2>2, <2>3
<1> QED
  BY <1>1, <1>3, <1>4 DEF Reads

LEMMA ChunksExist ==
  ASSUME NEW s \in Seq(Token)
  PROVE  \E f : f = [i \in Nat |-> OneSize(s, i, f)]
<1>1. PICK l \in Nat : l = Len(s) /\ DOMAIN s = 1..l
  BY Places
<1> DEFINE T == {k \in Nat : \E f : Reads(s, f, k)}
<1>2. 0 \in T
  <2>1. PICK f : f = [i \in Nat |-> <<>>]
    OBVIOUS
  <2>2. f = [i \in Nat |-> f[i]] /\ \A i \in Nat : f[i] = <<>>
    BY <2>1
  <2>3. ASSUME NEW i \in Nat, i + 0 > l PROVE OneSize(s, i, f) = <<>>
    <3>1. \A k \in 1..Len(s) : k >= i => s[k] = Web!Line
      BY <1>1, <2>3
    <3>2. Web!Word(s, i) = l + 1
      BY <1>1, <3>1, WordNone
    <3>3. l + 1 \notin 1..l
      OBVIOUS
    <3> QED
      BY <1>1, <3>2, <3>3 DEF OneSize
  <2>4. Reads(s, f, 0)
    BY <1>1, <2>2, <2>3 DEF Reads
  <2> QED
    BY <2>4
<1>3. \A k \in T : k + 1 \in T
  BY ReadsMore
<1>4. T \in SUBSET Nat
  OBVIOUS
<1>5. \A k \in T : \E f : Reads(s, f, k)
  OBVIOUS
<1> HIDE DEF T
<1>6. T = Nat
  BY <1>2, <1>3, <1>4, SetInduction
<1>7. l + 1 \in T
  BY <1>6
<1>8. PICK f : Reads(s, f, l + 1)
  BY <1>5, <1>7
<1>9. \A i \in Nat : i + (l + 1) > l
  OBVIOUS
<1>10. f = [i \in Nat |-> f[i]] /\ \A i \in Nat : f[i] = OneSize(s, i, f)
  BY <1>1, <1>8, <1>9 DEF Reads
<1>11. f = [i \in Nat |-> OneSize(s, i, f)]
  BY <1>10
<1> QED
  BY <1>11

LEMMA ChunksRead ==
  ASSUME NEW s \in Seq(Token)
  PROVE  \E f : \A i \in Nat : f[i] = OneSize(s, i, f) /\ Web!ParsedChunks(s, i) = f[i]
<1> DEFINE G == CHOOSE f : f = [i \in Nat |-> OneSize(s, i, f)]
<1>1. G = [i \in Nat |-> OneSize(s, i, G)]
  BY ChunksExist
<1>2. \A i \in Nat : Web!ParsedChunks(s, i) = G[i]
  BY DEF Web!ParsedChunks, OneSize
<1>3. PICK g : g = G
  OBVIOUS
<1>4. g = [i \in Nat |-> OneSize(s, i, g)] /\ \A i \in Nat : Web!ParsedChunks(s, i) = g[i]
  BY <1>1, <1>2, <1>3
<1>5. \A i \in Nat : g[i] = OneSize(s, i, g)
  BY <1>4
<1> QED
  BY <1>4, <1>5

\* x is a beginning of what is in B after e.
Part(x, B, e) ==
  x \in Seq(Token) /\ e + Len(x) <= Len(B) /\ \A k \in 1..Len(x) : x[k] = B[e + k]

LEMMA PartEmpty ==
  ASSUME NEW B, NEW e, e \in Nat, Len(B) \in Nat, e <= Len(B)
  PROVE  Part(<<>>, B, e) /\ Len(<<>>) = 0
<1>1. <<>> \in Seq(Token) /\ Len(<<>>) = 0
  BY EmptySeq
<1>2. e + 0 <= Len(B) /\ 1..0 = {}
  OBVIOUS
<1> QED
  BY <1>1, <1>2 DEF Part

LEMMA PartsJoin ==
  ASSUME NEW B, NEW e \in Nat, NEW x, NEW d \in Nat, Part(x, B, e), Len(x) = d,
         NEW y, Part(y, B, e + d), Len(B) \in Nat
  PROVE  Part(x \o y, B, e) /\ Len(x \o y) = d + Len(y)
<1>1. PICK c \in Nat : c = Len(y) /\ y \in Seq(Token) /\ x \in Seq(Token)
  BY LenProperties DEF Part
<1>2. PICK z : z = x \o y
  OBVIOUS
<1>3. Sized(x, d) /\ Sized(y, c)
  BY <1>1 DEF Sized
<1>4. Adjoined(z, x, y, d, c)
  BY <1>2, <1>3, Ahead DEF Join
<1>5. z \in Seq(Token) /\ Len(z) = d + c
  BY <1>4 DEF Adjoined
<1>6. (e + d) + c <= Len(B)
  BY <1>1 DEF Part
<1>7. e + (d + c) <= Len(B)
  BY <1>6
<1>8. ASSUME NEW k \in 1..(d + c) PROVE z[k] = B[e + k]
  <2>1. CASE k <= d
    <3>1. k \in 1..d
      BY <2>1
    <3> QED
      BY <1>4, <3>1 DEF Adjoined, Part
  <2>2. CASE ~(k <= d)
    <3>1. PICK i \in 1..c : k = d + i
      <4>1. k - d \in 1..c /\ k = d + (k - d)
        BY <2>2
      <4> QED
        BY <4>1
    <3>2. z[k] = y[i]
      BY <1>4, <3>1 DEF Adjoined
    <3>3. y[i] = B[(e + d) + i] /\ (e + d) + i = e + k
      BY <1>1, <3>1 DEF Part
    <3> QED
      BY <3>2, <3>3
  <2> QED
    BY <2>1, <2>2
<1> QED
  BY <1>1, <1>2, <1>5, <1>7, <1>8 DEF Part

\* Of s, the k tokens after p are those of B after e.
Agree(s, p, B, e, k) ==
  /\ s \in Seq(Token) /\ p \in Nat /\ e \in Nat /\ k \in Nat
  /\ p + k <= Len(s) /\ e + k <= Len(B) /\ \A i \in 1..k : s[p + i] = B[e + i]

LEMMA PartRead ==
  ASSUME NEW s, NEW p, NEW k, NEW B, NEW e, Agree(s, p, B, e, k)
  PROVE  Part(SubSeq(s, p + 1, p + k), B, e) /\ Len(SubSeq(s, p + 1, p + k)) = k
<1>1. /\ s \in Seq(Token) /\ p \in Nat /\ e \in Nat /\ k \in Nat
      /\ p + k <= Len(s) /\ e + k <= Len(B) /\ \A i \in 1..k : s[p + i] = B[e + i]
  BY DEF Agree
<1>2. PICK l \in Nat : l = Len(s)
  BY <1>1, LenProperties
<1>3. \A i \in (p + 1)..(p + k) : s[i] \in Token
  <2>1. \A i \in (p + 1)..(p + k) : i \in 1..l
    BY <1>2, <1>1
  <2> QED
    BY <1>2, <1>1, <2>1, ElementOfSeq
<1>4. PICK x : x = SubSeq(s, p + 1, p + k)
  OBVIOUS
<1>5. p + 1 \in Int /\ p + k \in Int
  BY <1>1
<1>6. /\ x \in Seq(Token) /\ Len(x) = (IF p + 1 <= p + k THEN (p + k) - (p + 1) + 1 ELSE 0)
      /\ \A i \in 1..((p + k) - (p + 1) + 1) : x[i] = s[(p + 1) + i - 1]
  BY <1>3, <1>4, <1>5, SubSeqProperties
<1>7. Len(x) = k
  BY <1>6, <1>1
<1>8. ASSUME NEW i \in 1..k PROVE x[i] = B[e + i]
  <2>1. i \in 1..((p + k) - (p + 1) + 1) /\ (p + 1) + i - 1 = p + i
    BY <1>1
  <2> QED
    BY <1>6, <1>1, <2>1
<1> QED
  BY <1>4, <1>6, <1>7, <1>8, <1>1 DEF Part

\* What is read at i, where B has still to come after e.
Rest(s, w, B, f, i, e) ==
  Part(f[i], B, e) /\ (Len(s) = Len(w) => e + Len(f[i]) = Len(B))

\* At p + 1, or at the end of the line before it.
Near(w, i, p) == i = p + 1 \/ (i = p /\ (p \in 1..Len(w) => w[p] = Web!Line))

\* Where a size is, if it came.
SizeAfter(w, p) ==
  /\ p \in Nat /\ Len(w) \in Nat /\ p + 2 <= Len(w)
  /\ w[p + 1] # Web!Line /\ w[p + 2] = Web!Line

Found(w, s, p, i) ==
  IF p + 1 <= Len(s)
  THEN Web!Word(s, i) = p + 1 /\ Web!Ignore(s, p + 1) = p + 3 /\ s[p + 1] = w[p + 1]
  ELSE Web!Word(s, i) = Len(s) + 1

LEMMA SizeFound ==
  ASSUME NEW w, NEW s, Begins(s, w), NEW p, SizeAfter(w, p), NEW i \in Nat, Near(w, i, p)
  PROVE  Found(w, s, p, i)
<1>1. /\ p \in Nat /\ Len(w) \in Nat /\ p + 1 <= Len(w) /\ p + 2 <= Len(w)
      /\ w[p + 1] # Web!Line /\ w[p + 2] = Web!Line
  BY DEF SizeAfter
<1>2. PICK l \in Nat : l = Len(s) /\ s \in Seq(Token) /\ l <= Len(w)
  BY Places DEF Begins
<1>3. CASE p + 1 <= l
  <2>1. p + 1 \in 1..l /\ s[p + 1] # Web!Line /\ s[p + 1] = w[p + 1]
    <3>1. p + 1 \in 1..l
      BY <1>3, <1>1
    <3> QED
      BY <1>2, <1>1, <3>1 DEF Begins
  <2>2. Web!Word(s, i) = p + 1
    <3>1. CASE i = p + 1
      BY <1>2, <2>1, <3>1, WordHere
    <3>2. CASE i = p /\ (p \in 1..Len(w) => w[p] = Web!Line)
      <4>1. p \in 1..l => p \in 1..Len(w)
        BY <1>2, <1>1
      <4>2. p \in 1..l => s[p] = Web!Line
        BY <1>2, <3>2, <4>1 DEF Begins
      <4> QED
        BY <1>2, <1>1, <2>1, <3>2, <4>2, WordAfter
    <3> QED
      BY <3>1, <3>2 DEF Near
  <2>3. (p + 1) + 1 = p + 2 /\ (p + 1) + 2 = p + 3
    BY <1>1
  <2>4. p + 2 <= l => s[p + 2] = Web!Line
    <3>1. p + 2 <= l => p + 2 \in 1..l
      BY <1>1
    <3> QED
      BY <1>2, <1>1, <3>1 DEF Begins
  <2>5. Web!Ignore(s, p + 1) = (p + 1) + 2
    BY <1>2, <2>1, <2>3, <2>4, IgnoreIs
  <2> QED
    BY <1>2, <1>3, <2>1, <2>2, <2>3, <2>5 DEF Found
<1>4. CASE ~(p + 1 <= l)
  <2>1. ASSUME NEW k \in 1..l, k >= i PROVE s[k] = Web!Line
    <3>1. k = p /\ i = p /\ p \in 1..Len(w)
      BY <1>2, <1>4, <1>1, <2>1 DEF Near
    <3> QED
      BY <1>2, <3>1 DEF Near, Begins
  <2>2. Web!Word(s, i) = l + 1
    BY <1>2, <2>1, WordNone
  <2> QED
    BY <1>2, <1>4, <2>2 DEF Found
<1> QED
  BY <1>3, <1>4

\* After the last chunk nothing is read.
LEMMA LastSize ==
  ASSUME NEW w \in Seq(Token), NEW B, NEW m \in Nat, NEW a, NEW b, InChunks(w, B, m, a, b),
         NEW s, Begins(s, w), NEW f, \A i \in Nat : f[i] = OneSize(s, i, f),
         NEW i \in Nat, Near(w, i, a[m])
  PROVE  Rest(s, w, B, f, i, b[m])
<1>1. PICK l \in Nat : l = Len(s) /\ s \in Seq(Token) /\ l <= Len(w) /\ DOMAIN s = 1..l
  BY Places DEF Begins
<1>2. PICK p \in Nat : p = a[m]
  BY DEF InChunks
<1>3. /\ Len(w) = p + 3 /\ w[p + 1] = "0" /\ w[p + 2] = Web!Line /\ w[p + 3] = Web!Line
  BY <1>2 DEF InChunks
<1>4. IF p + 1 <= l
      THEN Web!Word(s, i) = p + 1 /\ Web!Ignore(s, p + 1) = p + 3 /\ s[p + 1] = "0"
      ELSE Web!Word(s, i) = l + 1
  <2>1. p + 2 <= Len(w) /\ Len(w) \in Nat /\ w[p + 1] # Web!Line
    BY <1>3, Tokens
  <2>2. SizeAfter(w, p)
    BY <1>3, <2>1 DEF SizeAfter
  <2>3. Found(w, s, p, i)
    BY <1>2, <2>2, SizeFound
  <2> QED
    BY <1>1, <1>3, <2>3 DEF Found
<1>5. f[i] = <<>>
  <2>1. CASE ~(p + 1 <= l)
    <3>1. Web!Word(s, i) \notin DOMAIN s
      BY <1>1, <1>4, <2>1
    <3> QED
      BY <3>1 DEF OneSize
  <2>2. CASE p + 1 <= l
    <3>1. Web!Word(s, i) = p + 1 /\ Web!Ignore(s, p + 1) = p + 3 /\ s[p + 1] = "0"
      BY <1>4, <2>2
    <3>2. p + 1 \in DOMAIN s /\ "0" \in DOMAIN Web!Digit /\ Web!Digit["0"] = 0
      BY <1>1, <2>2, Tokens
    <3>3. f[i] = IF (p + 3) + 0 > l THEN Web!From(s, p + 3)
                 ELSE SubSeq(s, p + 3, (p + 3) + 0 - 1) \o f[(p + 3) + 0]
      BY <1>1, <3>1, <3>2 DEF OneSize
    <3>4. CASE (p + 3) + 0 > l
      <4>1. p + 3 \in Int /\ l \in Int /\ l < p + 3
        BY <3>4
      <4>2. Web!From(s, p + 3) = <<>>
        BY <1>1, <4>1, SubSeqEmpty DEF Web!From
      <4> QED
        BY <3>3, <3>4, <4>2
    <3>5. CASE ~((p + 3) + 0 > l)
      <4>1. l = p + 3 /\ (p + 3) + 0 = p + 3 /\ (p + 3) + 0 - 1 = p + 2
        BY <1>1, <1>3, <3>5
      <4>2. SubSeq(s, p + 3, p + 2) = <<>>
        BY SubSeqEmpty, p + 3 \in Int, p + 2 \in Int, p + 2 < p + 3
      <4>3. \A k \in 1..Len(s) : k >= p + 3 => s[k] = Web!Line
        <5> SUFFICES ASSUME NEW k \in 1..l, k >= p + 3 PROVE s[k] = Web!Line
          BY <1>1
        <5>1. k = p + 3
          BY <4>1
        <5> QED
          BY <1>1, <1>3, <5>1 DEF Begins
      <4>4. Web!Word(s, p + 3) = l + 1 /\ p + 3 \in Nat
        BY <1>1, <4>3, WordNone
      <4>5. Web!Word(s, p + 3) \notin DOMAIN s
        BY <1>1, <4>4
      <4>6. f[p + 3] = <<>>
        BY <4>4, <4>5 DEF OneSize
      <4>7. <<>> \o <<>> = <<>>
        BY EmptySeq, ConcatEmptySeq
      <4> QED
        BY <3>3, <3>5, <4>1, <4>2, <4>6, <4>7
    <3> QED
      BY <3>4, <3>5
  <2> QED
    BY <2>1, <2>2
<1>6. b[m] \in Nat /\ b[m] = Len(B)
  BY DEF InChunks
<1>7. Part(<<>>, B, b[m]) /\ Len(<<>>) = 0
  BY <1>6, PartEmpty
<1>8. b[m] + 0 = Len(B)
  BY <1>6
<1> QED
  BY <1>5, <1>7, <1>8 DEF Rest

LEMMA NextSize ==
  ASSUME NEW w \in Seq(Token), NEW B, NEW m \in Nat, NEW a, NEW b, InChunks(w, B, m, a, b),
         NEW s, Begins(s, w), NEW f, \A i \in Nat : f[i] = OneSize(s, i, f),
         NEW j \in 1..m, Rest(s, w, B, f, a[j], b[j]),
         NEW i \in Nat, Near(w, i, a[j - 1])
  PROVE  Rest(s, w, B, f, i, b[j - 1])
<1>1. PICK l \in Nat : l = Len(s) /\ s \in Seq(Token) /\ l <= Len(w) /\ DOMAIN s = 1..l
  BY Places DEF Begins
<1>2. j - 1 \in 0..m /\ j \in 0..m /\ m \in 0..m
  OBVIOUS
<1>3. PICK p \in Nat, e \in Nat : p = a[j - 1] /\ e = b[j - 1]
  BY <1>2 DEF InChunks
<1>4. PICK d \in Nat : b[j] = e + d /\ b[j] - b[j - 1] = d
  <2>1. b[j] \in Nat /\ b[j - 1] <= b[j]
    BY <1>2 DEF InChunks
  <2>2. b[j] - e \in Nat /\ b[j] = e + (b[j] - e)
    BY <1>3, <2>1
  <2> QED
    BY <1>3, <2>2
<1>5. /\ a[j] = (p + 3) + d /\ e + d <= Len(B) /\ a[j] + 3 <= Len(w)
      /\ w[p + 1] \in DOMAIN Web!Digit /\ Web!Digit[w[p + 1]] = d /\ w[p + 2] = Web!Line
      /\ \A k \in 1..d : w[(p + 2) + k] = B[e + k]
  <2>1. a[j] = (p + 3) + d
    BY <1>3, <1>4 DEF InChunks
  <2>2. a[m] \in Nat /\ a[j] <= a[m] /\ Len(w) = a[m] + 3
    BY <1>2 DEF InChunks
  <2>3. a[j] + 3 <= Len(w)
    BY <2>1, <2>2
  <2>4. e + d <= Len(B)
    BY <1>4 DEF InChunks
  <2>5. w[p + 1] \in DOMAIN Web!Digit /\ Web!Digit[w[p + 1]] = d /\ w[p + 2] = Web!Line
    BY <1>3, <1>4 DEF InChunks
  <2>6. \A k \in 1..d : w[(p + 2) + k] = B[e + k]
    BY <1>3, <1>4 DEF InChunks
  <2> QED
    BY <2>1, <2>3, <2>4, <2>5, <2>6
<1>6. Len(B) \in Nat /\ Len(w) \in Nat
  BY LenProperties DEF InChunks
<1>7. IF p + 1 <= l
      THEN Web!Word(s, i) = p + 1 /\ Web!Ignore(s, p + 1) = p + 3 /\ s[p + 1] = w[p + 1]
      ELSE Web!Word(s, i) = l + 1
  <2>1. p + 2 <= Len(w)
    BY <1>5, <1>6
  <2>2. w[p + 1] # Web!Line /\ w[p + 2] = Web!Line
    BY <1>5, Tokens
  <2>3. Near(w, i, p)
    BY <1>3
  <2>4. SizeAfter(w, p)
    BY <1>6, <2>1, <2>2 DEF SizeAfter
  <2>5. Found(w, s, p, i)
    BY <2>3, <2>4, SizeFound
  <2> QED
    BY <1>1, <2>5 DEF Found
<1>8. CASE ~(p + 1 <= l)
  <2>1. Web!Word(s, i) \notin DOMAIN s
    BY <1>1, <1>7, <1>8
  <2>2. f[i] = <<>>
    BY <2>1 DEF OneSize
  <2>3. Len(s) # Len(w)
    BY <1>1, <1>5, <1>6, <1>8
  <2>4. e <= Len(B)
    BY <1>5, <1>6
  <2>5. Part(<<>>, B, e)
    BY <1>6, <2>4, PartEmpty
  <2> QED
    BY <1>3, <2>2, <2>3, <2>5 DEF Rest
<1>9. CASE p + 1 <= l
  <2>1. Web!Word(s, i) = p + 1 /\ Web!Ignore(s, p + 1) = p + 3 /\ s[p + 1] = w[p + 1]
    BY <1>7, <1>9
  <2>2. p + 1 \in DOMAIN s /\ s[p + 1] \in DOMAIN Web!Digit /\ Web!Digit[s[p + 1]] = d
    BY <1>1, <1>5, <1>9, <2>1
  <2>3. f[i] = IF (p + 3) + d > l THEN Web!From(s, p + 3)
               ELSE SubSeq(s, p + 3, (p + 3) + d - 1) \o f[(p + 3) + d]
    BY <1>1, <2>1, <2>2 DEF OneSize
  <2>4. \A k \in 1..d : (p + 2) + k <= l => s[(p + 2) + k] = B[e + k]
    <3> SUFFICES ASSUME NEW k \in 1..d, (p + 2) + k <= l PROVE s[(p + 2) + k] = B[e + k]
      OBVIOUS
    <3>1. (p + 2) + k \in 1..l
      OBVIOUS
    <3> QED
      BY <1>1, <1>5, <3>1 DEF Begins
  <2>5. CASE (p + 3) + d > l
    <3>1. Len(s) # Len(w)
      BY <1>1, <1>5, <1>6, <2>5
    <3>2. Part(Web!From(s, p + 3), B, e)
      <4>1. CASE l < p + 3
        <5>1. Web!From(s, p + 3) = <<>>
          BY <1>1, <4>1, SubSeqEmpty, p + 3 \in Int, l \in Int DEF Web!From
        <5>2. e <= Len(B)
          BY <1>5, <1>6
        <5> QED
          BY <1>6, <5>1, <5>2, PartEmpty
      <4>2. CASE ~(l < p + 3)
        <5>1. PICK c \in 0..d : l = (p + 2) + c
          <6>1. l - (p + 2) \in 0..d /\ l = (p + 2) + (l - (p + 2))
            BY <2>5, <4>2
          <6> QED
            BY <6>1
        <5>2. \A k \in 1..c : s[(p + 2) + k] = B[e + k]
          <6>1. \A k \in 1..c : k \in 1..d /\ (p + 2) + k <= l
            BY <5>1
          <6> QED
            BY <2>4, <6>1
        <5>3. /\ p + 2 \in Nat /\ c \in Nat /\ (p + 2) + c <= Len(s) /\ e + c <= Len(B)
              /\ (p + 2) + 1 = p + 3
          BY <1>1, <1>5, <1>6, <5>1
        <5>4. Agree(s, p + 2, B, e, c)
          BY <1>1, <5>2, <5>3 DEF Agree
        <5>5. Part(SubSeq(s, (p + 2) + 1, (p + 2) + c), B, e)
          BY <5>4, PartRead
        <5> QED
          BY <1>1, <5>1, <5>3, <5>5 DEF Web!From
      <4> QED
        BY <4>1, <4>2
    <3>3. f[i] = Web!From(s, p + 3)
      BY <2>3, <2>5
    <3>4. Part(f[i], B, e)
      BY <3>2, <3>3
    <3> QED
      BY <1>3, <3>1, <3>4 DEF Rest
  <2>6. CASE ~((p + 3) + d > l)
    <3>1. PICK x : x = SubSeq(s, (p + 2) + 1, (p + 2) + d)
      OBVIOUS
    <3>2. \A k \in 1..d : s[(p + 2) + k] = B[e + k]
      BY <2>4, <2>6
    <3>3. /\ p + 2 \in Nat /\ (p + 2) + d <= Len(s) /\ (p + 2) + 1 = p + 3
          /\ (p + 2) + d = (p + 3) + d - 1
      BY <1>1, <2>6
    <3>4. Part(x, B, e) /\ Len(x) = d
      <4>1. Agree(s, p + 2, B, e, d)
        BY <1>1, <1>5, <3>2, <3>3 DEF Agree
      <4> QED
        BY <3>1, <4>1, PartRead
    <3>5. PICK y : y = f[a[j]]
      OBVIOUS
    <3>6. f[i] = x \o y
      BY <1>5, <2>3, <2>6, <3>1, <3>3, <3>5
    <3>7. Part(y, B, e + d) /\ (Len(s) = Len(w) => (e + d) + Len(y) = Len(B))
      BY <1>4, <3>5 DEF Rest
    <3>8. Part(x \o y, B, e) /\ Len(x \o y) = d + Len(y)
      BY <1>6, <3>4, <3>7, PartsJoin
    <3>9. Len(y) \in Nat
      BY <3>7, LenProperties DEF Part
    <3>10. (e + d) + Len(y) = e + (d + Len(y))
      BY <3>9
    <3> QED
      BY <1>3, <3>6, <3>7, <3>8, <3>10 DEF Rest
  <2> QED
    BY <2>5, <2>6
<1> QED
  BY <1>8, <1>9

LEMMA BodyRead ==
  ASSUME NEW w \in Seq(Token), NEW B, NEW m \in Nat, NEW a, NEW b, InChunks(w, B, m, a, b),
         NEW s, Begins(s, w), NEW f, \A i \in Nat : f[i] = OneSize(s, i, f)
  PROVE  Rest(s, w, B, f, a[0] + 1, 0)
<1>1. a \in [0..m -> Nat] /\ b[0] = 0 /\ \A j \in 1..m : w[a[j]] = Web!Line
  BY DEF InChunks
<1> DEFINE T == {k \in Nat : k <= m => \A i \in Nat : Near(w, i, a[m - k]) => Rest(s, w, B, f, i, b[m - k])}
<1>2. 0 \in T
  <2>1. m - 0 = m
    OBVIOUS
  <2>2. \A i \in Nat : Near(w, i, a[m]) => Rest(s, w, B, f, i, b[m])
    BY LastSize
  <2> QED
    BY <2>1, <2>2
<1>3. ASSUME NEW k \in T PROVE k + 1 \in T
  <2> SUFFICES ASSUME k + 1 <= m, NEW i \in Nat, Near(w, i, a[m - (k + 1)])
               PROVE  Rest(s, w, B, f, i, b[m - (k + 1)])
    OBVIOUS
  <2>1. PICK j \in 1..m : j = m - k /\ j - 1 = m - (k + 1)
    <3>1. m - k \in 1..m /\ (m - k) - 1 = m - (k + 1)
      OBVIOUS
    <3> QED
      BY <3>1
  <2>2. \A h \in Nat : Near(w, h, a[j]) => Rest(s, w, B, f, h, b[j])
    <3>1. k <= m
      OBVIOUS
    <3>2. \A h \in Nat : Near(w, h, a[m - k]) => Rest(s, w, B, f, h, b[m - k])
      BY <3>1
    <3> QED
      BY <2>1, <3>2
  <2> HIDE DEF T
  <2>3. a[j] \in Nat /\ Near(w, a[j], a[j])
    BY <1>1 DEF Near
  <2>4. Rest(s, w, B, f, a[j], b[j])
    BY <2>2, <2>3
  <2>5. Near(w, i, a[j - 1])
    BY <2>1
  <2>6. Rest(s, w, B, f, i, b[j - 1])
    BY <2>4, <2>5, NextSize
  <2> QED
    BY <2>1, <2>6
<1>4. T \in SUBSET Nat /\ \A k \in T : k <= m => \A i \in Nat : Near(w, i, a[m - k]) => Rest(s, w, B, f, i, b[m - k])
  OBVIOUS
<1> HIDE DEF T
<1>5. T = Nat
  BY <1>2, <1>3, <1>4, SetInduction
<1>6. \A i \in Nat : Near(w, i, a[m - m]) => Rest(s, w, B, f, i, b[m - m])
  BY <1>4, <1>5
<1>7. m - m = 0
  OBVIOUS
<1>8. a[0] \in Nat /\ a[0] + 1 \in Nat
  BY <1>1
<1>9. Near(w, a[0] + 1, a[0])
  BY DEF Near
<1> QED
  BY <1>1, <1>6, <1>7, <1>8, <1>9

LEMMA PartIsPrefix ==
  ASSUME NEW B \in Seq(Token), NEW x, Part(x, B, 0)
  PROVE  Web!IsPrefix(x, B) /\ (Len(x) = Len(B) => x = B)
<1>1. PICK k \in Nat : k = Len(x) /\ x \in Seq(Token)
  BY LenProperties DEF Part
<1>2. PICK l \in Nat : l = Len(B)
  BY LenProperties
<1>3. k <= l /\ \A i \in 1..k : x[i] = B[i]
  <2>1. 0 + k <= l /\ \A i \in 1..k : x[i] = B[0 + i]
    BY <1>1, <1>2 DEF Part
  <2> QED
    BY <2>1
<1>4. x = SubSeq(B, 1, k)
  <2>1. \A i \in 1..k : B[0 + i] = B[0 + i] /\ 0 + i = i
    OBVIOUS
  <2>2. \A i \in 1..k : B[i] \in Token
    BY <1>2, <1>3, ElementOfSeq
  <2>3. PICK y : y = SubSeq(B, 1, k)
    OBVIOUS
  <2>4. /\ y \in Seq(Token) /\ Len(y) = (IF 1 <= k THEN k - 1 + 1 ELSE 0)
        /\ \A i \in 1..(k - 1 + 1) : y[i] = B[1 + i - 1]
    BY <2>2, <2>3, SubSeqProperties
  <2>5. Len(y) = k /\ \A i \in 1..k : y[i] = B[i]
    BY <2>4
  <2>6. \A i \in 1..k : x[i] = y[i]
    BY <1>3, <2>5
  <2> QED
    BY <1>1, <2>3, <2>4, <2>5, <2>6, SeqEqual
<1>5. SubSeq(x, 1, k) = x
  BY <1>1, SubSeqFull
<1>6. k = l => x = B
  BY <1>2, <1>4, SubSeqFull
<1> QED
  BY <1>1, <1>2, <1>3, <1>4, <1>5, <1>6 DEF Web!IsPrefix

\* What the response to a beginning of r is: an invalid one, or one that says "ok" with
\* a beginning of the body of r; to all of r it is r.
LEMMA ParsedIs ==
  ASSUME PlainResponses, NEW r \in Responses, NEW s, Begins(s, Web!Wire(r))
  PROVE  /\ Web!Parsed(s).status = "ok" => Web!IsPrefix(Web!Parsed(s).body, Web!Body(r))
         /\ Len(s) = Len(Web!Wire(r)) =>
              /\ Web!Parsed(s).status = "ok" /\ Web!Parsed(s).body = Web!Body(r)
              /\ Web!Parsed(s).fields = Web!Named(r)
<1>1. PICK w, B : w = Web!Wire(r) /\ B = Web!Body(r) /\ Begins(s, w)
  OBVIOUS
<1>2. PICK l \in Nat : l = Len(s) /\ s \in Seq(Token)
  BY Places, <1>1 DEF Begins
<1>3. \E n \in Nat : \E F :
        /\ Headed(w, F, n)
        /\ ~r.chunked => /\ Whole(w, B, 3 * n + 4) /\ r.fields \in Seq(Token) /\ F = r.fields
                         /\ n = Len(r.fields) /\ \A i \in 1..n : F[i] # "chunked"
        /\ r.chunked => /\ WithChunked(F, n, r.fields)
                        /\ \E m \in Nat : \E a, b : a[0] = 3 * n + 4 /\ InChunks(w, B, m, a, b)
  <2>1. CASE r.chunked
    <3>1. PICK n, m \in Nat : \E F, a, b :
            /\ Headed(w, F, n) /\ WithChunked(F, n, r.fields)
            /\ a[0] = 3 * n + 4 /\ InChunks(w, B, m, a, b)
      BY <1>1, <2>1, WireInChunks
    <3> QED
      BY <2>1, <3>1
  <2>2. CASE ~r.chunked
    <3>1. PICK n \in Nat : /\ n = Len(r.fields) /\ r.fields \in Seq(Token)
                           /\ Headed(w, r.fields, n) /\ Whole(w, B, 3 * n + 4)
                           /\ \A i \in 1..n : r.fields[i] # "chunked"
      BY <1>1, <2>2, WireWhole
    <3> QED
      BY <2>2, <3>1
  <2> QED
    BY <2>1, <2>2
<1>4. PICK n \in Nat : \E F :
        /\ Headed(w, F, n)
        /\ ~r.chunked => /\ Whole(w, B, 3 * n + 4) /\ r.fields \in Seq(Token) /\ F = r.fields
                         /\ n = Len(r.fields) /\ \A i \in 1..n : F[i] # "chunked"
        /\ r.chunked => /\ WithChunked(F, n, r.fields)
                        /\ \E m \in Nat : \E a, b : a[0] = 3 * n + 4 /\ InChunks(w, B, m, a, b)
  BY <1>3
<1>5. PICK F :
        /\ Headed(w, F, n)
        /\ ~r.chunked => /\ Whole(w, B, 3 * n + 4) /\ r.fields \in Seq(Token) /\ F = r.fields
                         /\ n = Len(r.fields) /\ \A i \in 1..n : F[i] # "chunked"
        /\ r.chunked => /\ WithChunked(F, n, r.fields)
                        /\ \E m \in Nat : \E a, b : a[0] = 3 * n + 4 /\ InChunks(w, B, m, a, b)
  BY <1>4
<1>6. PICK k \in Nat : w \in Seq(Token) /\ k = Len(w) /\ 3 * n + 4 <= k /\ l <= k
  <2>1. w \in Seq(Token) /\ 3 * n + 4 <= Len(w) /\ Len(w) \in Nat
    BY <1>5, LenProperties DEF Headed
  <2> QED
    BY <1>1, <1>2, <2>1 DEF Begins
<1>7. CASE l < 2
  <2>1. Web!Parsed(s).status = "invalid"
    BY <1>2, <1>7 DEF Web!Parsed, Web!NoAnswer
  <2> QED
    BY <1>1, <1>2, <1>6, <1>7, <2>1
<1>8. CASE ~(l < 2)
  <2>1. s[1] = "http" /\ s[2] = "ok" /\ Web!Ignore(s, 1) = 4
    BY <1>1, <1>2, <1>5, <1>8, LinesFrom4
  <2>2. Web!EmptyLine(s, 4) = IF 3 * n + 4 <= l THEN 3 * n + 4 ELSE l + 1
    BY <1>1, <1>2, <1>5, <1>8, EmptyLineIs
  <2>3. Web!Parsed(s) = [status |-> "ok", fields |-> Web!ParsedFields(s, 4),
                         body |-> IF Web!Chunked(s, 4) THEN Web!ParsedChunks(s, Web!EmptyLine(s, 4) + 1)
                                  ELSE Web!From(s, Web!EmptyLine(s, 4) + 1)]
    BY <1>2, <1>8, <2>1 DEF Web!Parsed
  <2>4. PICK x : x = Web!Parsed(s).body
    OBVIOUS
  <2>5. B \in Seq(Token) /\ Len(B) \in Nat
    <3>1. B \in Seq(Token)
      BY <1>5 DEF Whole, InChunks
    <3> QED
      BY <3>1, LenProperties
  <2>6. PICK f : \A i \in Nat : f[i] = OneSize(s, i, f) /\ Web!ParsedChunks(s, i) = f[i]
    BY <1>2, ChunksRead
  <2>7. Web!Parsed(s).status = "ok" /\ Web!Parsed(s).fields = Web!ParsedFields(s, 4)
    BY <2>3
  <2>8. CASE ~(3 * n + 4 <= l)
    <3>1. l + 2 \in Nat /\ Web!EmptyLine(s, 4) + 1 = l + 2
      BY <2>2, <2>8
    <3>2. Web!From(s, l + 2) = <<>>
      BY <1>2, SubSeqEmpty, l + 2 \in Int, l \in Int, l < l + 2 DEF Web!From
    <3>3. Web!ParsedChunks(s, l + 2) = <<>>
      <4>1. \A i \in 1..Len(s) : i >= l + 2 => s[i] = Web!Line
        BY <1>2
      <4>2. Web!Word(s, l + 2) = l + 1
        BY <1>2, <3>1, <4>1, WordNone
      <4>3. Web!Word(s, l + 2) \notin DOMAIN s
        BY <1>2, <4>2, Places
      <4> QED
        BY <2>6, <3>1, <4>3 DEF OneSize
    <3>4. x = <<>>
      BY <2>3, <2>4, <3>1, <3>2, <3>3
    <3>5. Part(<<>>, B, 0)
      BY <2>5, PartEmpty
    <3>6. Web!IsPrefix(x, B)
      BY <2>5, <3>4, <3>5, PartIsPrefix
    <3> QED
      BY <1>1, <1>2, <1>6, <2>4, <2>8, <3>6
  <2>9. CASE 3 * n + 4 <= l
    <3>1. Web!ParsedFields(s, 4) = {F[i] : i \in 1..n}
      BY <1>1, <1>2, <1>5, <2>9, FieldsRead
    <3>2. PICK h \in Nat : h = 3 * n + 4 /\ Web!EmptyLine(s, 4) = h
      BY <2>2, <2>9
    <3>3. CASE r.chunked
      <4>1. PICK m \in Nat : \E a, b : a[0] = h /\ InChunks(w, B, m, a, b)
        BY <1>5, <3>2, <3>3
      <4>2. PICK a, b : a[0] = h /\ InChunks(w, B, m, a, b)
        BY <4>1
      <4>3. WithChunked(F, n, r.fields)
        BY <1>5, <3>3
      <4>4. Web!Chunked(s, 4)
        BY <3>1, <4>3 DEF Web!Chunked, WithChunked
      <4>5. x = f[h + 1]
        BY <2>3, <2>4, <2>6, <3>2, <4>4, h + 1 \in Nat
      <4>6. Rest(s, w, B, f, h + 1, 0)
        BY <1>1, <1>6, <2>6, <4>2, BodyRead
      <4>7. Part(x, B, 0) /\ (l = k => 0 + Len(x) = Len(B))
        BY <1>2, <1>6, <4>5, <4>6 DEF Rest
      <4>8. Len(x) \in Nat
        BY <4>7, LenProperties DEF Part
      <4>9. Web!IsPrefix(x, B) /\ (l = k => x = B)
        BY <2>5, <4>7, <4>8, PartIsPrefix
      <4>10. {F[i] : i \in 1..n} = Web!Named(r)
        <5>1. PICK c \in Nat : c = Len(r.fields) /\ DOMAIN r.fields = 1..c
          BY <4>3, LenProperties DEF WithChunked
        <5>2. Web!Named(r) = {r.fields[i] : i \in 1..c} \cup {"chunked"}
          BY <3>3, <5>1 DEF Web!Named, Web!Range
        <5>3. \A i \in 1..n : F[i] \in {r.fields[j] : j \in 1..c} \cup {"chunked"}
          BY <4>3, <5>1 DEF WithChunked
        <5>4. \A y \in {r.fields[j] : j \in 1..c} \cup {"chunked"} : \E i \in 1..n : F[i] = y
          BY <4>3, <5>1 DEF WithChunked
        <5> QED
          BY <5>2, <5>3, <5>4
      <4> QED
        BY <1>1, <1>2, <1>6, <2>4, <2>7, <3>1, <4>9, <4>10
    <3>4. CASE ~r.chunked
      <4>1. /\ Whole(w, B, h) /\ r.fields \in Seq(Token) /\ F = r.fields
            /\ n = Len(r.fields) /\ \A i \in 1..n : F[i] # "chunked"
        BY <1>5, <3>2, <3>4
      <4>2. ~Web!Chunked(s, 4)
        BY <3>1, <4>1 DEF Web!Chunked
      <4>3. x = SubSeq(s, h + 1, l)
        BY <1>2, <2>3, <2>4, <3>2, <4>2 DEF Web!From
      <4>4. PICK c \in Nat : l = h + c /\ c <= Len(B)
        <5>1. l <= h + Len(B)
          BY <1>6, <4>1 DEF Whole
        <5>2. l - h \in Nat /\ l = h + (l - h) /\ l - h <= Len(B)
          BY <2>5, <2>9, <3>2, <5>1
        <5> QED
          BY <5>2
      <4>5. \A i \in 1..c : s[h + i] = B[0 + i]
        <5> SUFFICES ASSUME NEW i \in 1..c PROVE s[h + i] = B[0 + i]
          OBVIOUS
        <5>1. h + i \in 1..l /\ i \in 1..Len(B) /\ 0 + i = i
          BY <2>5, <4>4
        <5>2. s[h + i] = w[h + i]
          BY <1>1, <1>2, <5>1 DEF Begins
        <5> QED
          BY <4>1, <5>1, <5>2 DEF Whole
      <4>6. Part(x, B, 0) /\ Len(x) = c
        <5>1. h + c <= Len(s) /\ 0 + c <= Len(B) /\ 0 \in Nat
          BY <1>2, <2>5, <4>4
        <5>2. Part(SubSeq(s, h + 1, h + c), B, 0) /\ Len(SubSeq(s, h + 1, h + c)) = c
          <6>1. Agree(s, h, B, 0, c)
            BY <1>2, <4>5, <5>1 DEF Agree
          <6> QED
            BY <6>1, PartRead
        <5> QED
          BY <4>3, <4>4, <5>2
      <4>7. l = k => Len(x) = Len(B)
        BY <1>6, <2>5, <4>1, <4>4, <4>6 DEF Whole
      <4>8. Web!IsPrefix(x, B) /\ (l = k => x = B)
        BY <2>5, <4>6, <4>7, PartIsPrefix
      <4>9. {F[i] : i \in 1..n} = Web!Named(r)
        <5>1. DOMAIN r.fields = 1..n
          BY <4>1, LenProperties
        <5> QED
          BY <3>4, <4>1, <5>1 DEF Web!Named, Web!Range
      <4> QED
        BY <1>1, <1>2, <1>6, <2>4, <2>7, <3>1, <4>8, <4>9
    <3> QED
      BY <3>3, <3>4
  <2> QED
    BY <2>8, <2>9
<1> QED
  BY <1>7, <1>8
-----------------------------------------------------------------------------
(* HTTP: requests. *)

Garbage == <<"x", Web!Line>>

\* What came and what is still to come are what the server sent.
Conserved ==
  /\ received \in Seq(Token) /\ pending \in Seq(Token)
  /\ \/ sent = <<>> /\ received \o pending \in {<<>>, Garbage}
     \/ \E r \in Responses : sent = <<r>> /\ received \o pending = Web!Wire(r)
  /\ server = "idle" => received = <<>>

\* The answer is made of what came, and of all of it if the server said it all.
Answered ==
  /\ answer \in {Web!NoAnswer, Web!Parsed(received)}
  /\ http \in {"sending", "receiving"} => answer = Web!NoAnswer
  /\ http \in {"disconnecting", "done"} =>
       /\ server \in {"cut", "closed"}
       /\ server = "closed" => pending = <<>> /\ answer = Web!Parsed(received)

WebInv == Conserved /\ Answered

LEMMA WireTyped ==
  ASSUME PlainResponses, NEW r \in Responses
  PROVE  Web!Wire(r) \in Seq(Token) /\ Web!Body(r) \in Seq(Token)
<1>1. CASE r.chunked
  <2>1. PICK n, m \in Nat : \E F, a, b :
          Headed(Web!Wire(r), F, n) /\ InChunks(Web!Wire(r), Web!Body(r), m, a, b)
    BY <1>1, WireInChunks
  <2> QED
    BY <2>1 DEF Headed, InChunks
<1>2. CASE ~r.chunked
  <2>1. PICK n \in Nat : Headed(Web!Wire(r), r.fields, n) /\ Whole(Web!Wire(r), Web!Body(r), 3 * n + 4)
    BY <1>2, WireWhole
  <2> QED
    BY <2>1 DEF Headed, Whole
<1> QED
  BY <1>1, <1>2

LEMMA GarbageIs == Garbage \in Seq(Token) /\ Len(Garbage) = 2 /\ Garbage[1] = "x"
BY Short, Tokens DEF Garbage

LEMMA WebInit == Web!Init => WebInv
<1> SUFFICES ASSUME Web!Init PROVE WebInv
  OBVIOUS
<1>1. /\ http = "idle" /\ received = <<>> /\ answer = Web!NoAnswer /\ server = "idle"
      /\ pending = <<>> /\ sent = <<>>
  BY DEF Web!Init, Web!None
<1>2. <<>> \in Seq(Token)
  BY EmptySeq
<1>3. <<>> \o <<>> = <<>>
  BY <1>2, ConcatEmptySeq
<1> QED
  BY <1>1, <1>2, <1>3 DEF WebInv, Conserved, Answered

\* A receive() moves the first n tokens over.
LEMMA Moved ==
  ASSUME NEW c \in Seq(Token), NEW p \in Seq(Token), NEW n \in Nat, n <= Len(p)
  PROVE  /\ c \o SubSeq(p, 1, n) \in Seq(Token) /\ SubSeq(p, n + 1, Len(p)) \in Seq(Token)
         /\ (c \o SubSeq(p, 1, n)) \o SubSeq(p, n + 1, Len(p)) = c \o p
<1>1. PICK l \in Nat : l = Len(p) /\ n <= l
  BY LenProperties
<1>2. \A i \in 1..l : p[i] \in Token
  BY <1>1, ElementOfSeq
<1>3. PICK u : u = SubSeq(p, 1, n)
  OBVIOUS
<1>4. PICK v : v = SubSeq(p, n + 1, l)
  OBVIOUS
<1>5. u \in Seq(Token)
  <2>1. \A i \in 1..n : p[i] \in Token
    BY <1>1, <1>2
  <2> QED
    BY <1>3, <2>1, SubSeqProperties
<1>6. v \in Seq(Token)
  <2>1. \A i \in (n + 1)..l : p[i] \in Token
    BY <1>1, <1>2
  <2> QED
    BY <1>4, <2>1, SubSeqProperties, n + 1 \in Int, l \in Int
<1>7. u \o v = p
  <2>1. 1 \in 1..(l + 1) /\ n \in (1 - 1)..l /\ l \in n..l
    BY <1>1
  <2>2. u \o v = SubSeq(p, 1, l)
    BY <1>1, <1>3, <1>4, <2>1, ConcatAdjacentSubSeq
  <2> QED
    BY <1>1, <2>2, SubSeqFull
<1>8. (c \o u) \o v = c \o (u \o v)
  BY <1>5, <1>6, ConcatAssociative
<1>9. c \o u \in Seq(Token)
  BY <1>5, ConcatProperties
<1> QED
  BY <1>1, <1>3, <1>4, <1>6, <1>7, <1>8, <1>9

LEMMA WebStep == PlainResponses /\ WebInv /\ [Web!Next]_(Web!vars) => WebInv'
<1> SUFFICES ASSUME PlainResponses, WebInv, [Web!Next]_(Web!vars) PROVE WebInv'
  OBVIOUS
<1>1. <<>> \in Seq(Token) /\ <<>> \o <<>> = <<>>
  <2>1. <<>> \in Seq(Token)
    BY EmptySeq
  <2> QED
    BY <2>1, ConcatEmptySeq
<1>2. CASE Web!Connect
  <2>1. /\ answer' = Web!NoAnswer /\ received' = <<>> /\ sent' = <<>> /\ pending' = <<>>
        /\ (http' = "sending" /\ server' = "idle") \/ (http' = "done" /\ server' = "cut")
    BY <1>2 DEF Web!Connect, Web!None
  <2>2. Conserved'
    BY <1>1, <2>1 DEF Conserved
  <2>3. Answered'
    BY <2>1 DEF Answered
  <2> QED
    BY <2>2, <2>3 DEF WebInv
<1>3. CASE Web!Send
  BY <1>3 DEF Web!Send, WebInv, Conserved, Answered
<1>4. CASE Web!Receive
  <2>1. ASSUME NEW n \in 1..MaxTokens, http = "receiving", server \in {"serving", "closed"},
               n <= Len(pending), received' = Web!Collected(n), pending' = Web!From(pending, n + 1),
               UNCHANGED <<http, answer, server, sent>>
        PROVE  WebInv'
    <3>1. n \in Nat
      BY WebAssumption DEF Web!HttpClientAssumption
    <3>2. /\ received' \in Seq(Token) /\ pending' \in Seq(Token)
          /\ received' \o pending' = received \o pending
      BY <2>1, <3>1, Moved DEF WebInv, Conserved, Web!Collected, Web!From
    <3>3. Conserved'
      BY <2>1, <3>2 DEF WebInv, Conserved
    <3>4. Answered'
      BY <2>1 DEF WebInv, Answered
    <3> QED
      BY <3>3, <3>4 DEF WebInv
  <2>2. ASSUME http = "receiving", Web!Ended, answer' = Web!Parsed(received), http' = "disconnecting",
               UNCHANGED <<received, pending, server, sent>>
        PROVE  WebInv'
    <3>1. Conserved'
      BY <2>2 DEF WebInv, Conserved
    <3>2. server \in {"cut", "closed"} /\ (server = "closed" => pending = <<>>)
      BY <2>2 DEF Web!Ended
    <3>3. Answered'
      BY <2>2, <3>2 DEF WebInv, Answered
    <3> QED
      BY <3>1, <3>3 DEF WebInv
  <2> QED
    BY <1>4, <2>1, <2>2 DEF Web!Receive
<1>5. CASE Web!Disconnect
  BY <1>5 DEF Web!Disconnect, WebInv, Conserved, Answered
<1>6. CASE Web!Take
  BY <1>6 DEF Web!Take, WebInv, Conserved, Answered
<1>7. CASE Web!Serve
  <2>1. /\ http = "receiving" /\ received = <<>> /\ UNCHANGED <<http, received, answer>> /\ server' # "idle"
        /\ pending \in Seq(Token)
    BY <1>7 DEF Web!Serve, WebInv, Conserved
  <2>2. Answered'
    BY <2>1 DEF WebInv, Answered
  <2>3. ASSUME NEW r \in Responses, sent' = <<r>>, pending' = Web!Wire(r) PROVE Conserved'
    <3>1. Web!Wire(r) \in Seq(Token) /\ <<>> \o Web!Wire(r) = Web!Wire(r)
      BY WireTyped, ConcatEmptySeq
    <3> QED
      BY <1>1, <2>1, <2>3, <3>1 DEF Conserved
  <2>4. ASSUME sent' = <<>>, pending' = Garbage PROVE Conserved'
    <3>1. Garbage \in Seq(Token) /\ <<>> \o Garbage = Garbage
      BY GarbageIs, ConcatEmptySeq
    <3> QED
      BY <1>1, <2>1, <2>4, <3>1 DEF Conserved
  <2>5. ASSUME UNCHANGED <<sent, pending>> PROVE Conserved'
    BY <2>1, <2>5 DEF WebInv, Conserved
  <2> QED
    BY <1>7, <2>2, <2>3, <2>4, <2>5 DEF Web!Serve, WebInv, Web!None, Garbage
<1>8. CASE Web!CloseAll
  BY <1>8 DEF Web!CloseAll, WebInv, Conserved, Answered
<1>9. CASE Web!Cut
  BY <1>9 DEF Web!Cut, WebInv, Conserved, Answered
<1>10. CASE UNCHANGED Web!vars
  BY <1>10 DEF Web!vars, WebInv, Conserved, Answered
<1> QED
  BY <1>2, <1>3, <1>4, <1>5, <1>6, <1>7, <1>8, <1>9, <1>10 DEF Web!Next

\* However the stream was taken apart, a response that came to its end is what the server
\* sent, and one that was cut off is a beginning of it (ResponsesAreSent of Host).
THEOREM ResponsesCorrect == PlainResponses => (Web!Spec => []ResponsesAreSent)
<1> SUFFICES ASSUME PlainResponses PROVE Web!Spec => []ResponsesAreSent
  OBVIOUS
<1>1. WebInv => ResponsesAreSent
  <2> SUFFICES ASSUME WebInv PROVE ResponsesAreSent
    OBVIOUS
  <2>1. /\ received \in Seq(Token) /\ pending \in Seq(Token)
        /\ received \o pending \in Seq(Token) /\ Len(received \o pending) = Len(received) + Len(pending)
        /\ \A i \in 1..Len(received) : (received \o pending)[i] = received[i]
        /\ Len(received) \in Nat /\ Len(pending) \in Nat
    <3>1. received \in Seq(Token) /\ pending \in Seq(Token)
      BY DEF WebInv, Conserved
    <3>2. Len(received) \in Nat /\ Len(pending) \in Nat
      BY <3>1, LenProperties
    <3>3. Sized(received, Len(received)) /\ Sized(pending, Len(pending))
      BY <3>1, <3>2 DEF Sized
    <3>4. Adjoined(received \o pending, received, pending, Len(received), Len(pending))
      BY <3>3, Ahead DEF Join
    <3> QED
      BY <3>1, <3>2, <3>4 DEF Adjoined
  <2>2. ASSUME NEW r \in Responses, sent = <<r>>, received \o pending = Web!Wire(r)
        PROVE  ResponsesAreSent
    <3>1. Begins(received, Web!Wire(r))
      <4>1. Len(received) <= Len(received) + Len(pending)
        BY <2>1
      <4> QED
        BY <2>1, <2>2, <4>1 DEF Begins
    <3>2. /\ Web!Parsed(received).status = "ok" => Web!IsPrefix(Web!Parsed(received).body, Web!Body(r))
          /\ Len(received) = Len(Web!Wire(r)) =>
               /\ Web!Parsed(received).status = "ok" /\ Web!Parsed(received).body = Web!Body(r)
               /\ Web!Parsed(received).fields = Web!Named(r)
      BY <3>1, ParsedIs
    <3>3. sent # Web!None /\ sent[1] = r
      BY <2>2 DEF Web!None
    <3>4. Web!NoAnswer.status # "ok"
      BY DEF Web!NoAnswer
    <3>5. Web!OnlyContents
      BY <3>2, <3>3, <3>4 DEF Web!OnlyContents, WebInv, Answered
    <3>6. Web!Arrives
      <4> SUFFICES ASSUME http = "done", server = "closed"
                   PROVE  /\ answer.status = "ok" /\ answer.body = Web!Body(r)
                          /\ answer.fields = Web!Named(r) \cup Web!Range(r.trailers)
        BY <3>3 DEF Web!Arrives
      <4>1. pending = <<>> /\ answer = Web!Parsed(received)
        BY DEF WebInv, Answered
      <4>2. Len(received) = Len(Web!Wire(r))
        BY <2>1, <2>2, <4>1, EmptySeq
      <4>3. Web!Range(r.trailers) = {}
        <5>1. r.trailers = <<>>
          BY DEF PlainResponses
        <5>2. DOMAIN <<>> = {}
          BY EmptySeq, LenProperties
        <5> QED
          BY <5>1, <5>2 DEF Web!Range
      <4> QED
        BY <3>2, <4>1, <4>2, <4>3
    <3> QED
      BY <3>5, <3>6 DEF ResponsesAreSent
  <2>3. ASSUME sent = <<>>, received \o pending \in {<<>>, Garbage} PROVE ResponsesAreSent
    <3>1. Web!Parsed(received).status # "ok"
      <4>1. CASE Len(received) < 2
        BY <4>1 DEF Web!Parsed, Web!NoAnswer
      <4>2. CASE ~(Len(received) < 2)
        <5>1. Len(received \o pending) # 0
          BY <2>1, <4>2
        <5>2. received \o pending = Garbage
          BY <2>3, <5>1, EmptySeq
        <5>3. 1 \in 1..Len(received)
          BY <2>1, <4>2
        <5>4. received[1] = "x"
          BY <2>1, <5>2, <5>3, GarbageIs
        <5>5. received[1] # "http"
          BY <5>4
        <5> QED
          BY <5>5 DEF Web!Parsed, Web!NoAnswer
      <4> QED
        BY <4>1, <4>2
    <3>2. Web!NoAnswer.status # "ok"
      BY DEF Web!NoAnswer
    <3>3. answer.status # "ok"
      BY <3>1, <3>2 DEF WebInv, Answered
    <3> QED
      BY <2>3, <3>3 DEF ResponsesAreSent, Web!Arrives, Web!OnlyContents, Web!None
  <2> QED
    BY <2>2, <2>3 DEF WebInv, Conserved
<1> QED
  BY <1>1, WebInit, WebStep, PTL DEF Web!Spec

-----------------------------------------------------------------------------
(* The composite. *)

\* What a run of Host explores are behaviours of the three components.
THEOREM Parts == HostSafety => Terminal!Spec /\ Band!Spec /\ Web!Spec
<1>1. HostInit => Terminal!Init /\ Band!Init /\ Web!Init
  BY DEF HostInit
<1> DEFINE all == <<subject, consoleVars, bandVars, httpVars>>
<1>2. [HostNext]_all => [Terminal!Next]_(Terminal!vars)
  BY DEF HostNext, consoleVars, Terminal!vars, Terminal!keyboard, Terminal!stdin,
         Terminal!terminal, Terminal!locals
<1>3. [HostNext]_all => [Band!Next]_(Band!vars)
  BY DEF HostNext, bandVars, Band!vars, Band!device
<1>4. [HostNext]_all => [Web!Next]_(Web!vars)
  BY DEF HostNext, httpVars, Web!vars
<1> QED
  BY <1>1, <1>2, <1>3, <1>4, PTL DEF HostSafety, Terminal!Spec, Band!Spec, Web!Spec
=============================================================================
