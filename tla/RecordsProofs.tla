--------------------------- MODULE RecordsProofs ---------------------------
(***************************************************************************)
(* Data laid out, for every set of values and every bound.  The ring is a  *)
(* bounded double-ended queue.  The files of a rolling log hold the newest *)
(* records in their order, wherever processes died.  A table keeps its     *)
(* shape, and what is written of it to a file is read back.  A packet is   *)
(* read as it was written by whoever reads the types that were written.    *)
(***************************************************************************)
EXTENDS Records, SequenceTheorems, WellFoundedInduction, TLAPS

-----------------------------------------------------------------------------
(* Induction over the naturals: a set of them has a least one. *)

Below == {p \in Nat \X Nat : p[1] < p[2]}

LEMMA BelowWF == IsWellFoundedOn(Below, Nat)
BY NatLessThanWellFounded DEF OpToRel, Below

LEMMA Least == ASSUME NEW T \in SUBSET Nat, T # {}
               PROVE \E n \in T : \A m \in T : n <= m
<1>1. PICK n \in T : \A m \in T : <<m, n>> \notin Below
  BY BelowWF, WFMin
<1>2. \A m \in T : ~ (m < n)
  BY <1>1 DEF Below
<1> QED
  BY <1>2

LEMMA SetInduction == ASSUME NEW T \in SUBSET Nat, 0 \in T, \A n \in T : n + 1 \in T
  PROVE T = Nat
<1> SUFFICES ASSUME Nat \ T # {} PROVE FALSE
  OBVIOUS
<1>1. PICK n \in Nat \ T : \A m \in Nat \ T : n <= m
  BY Least
<1>2. n # 0 /\ n - 1 \in Nat /\ n - 1 \notin T
  BY <1>1
<1> QED BY <1>1, <1>2

-----------------------------------------------------------------------------
(* The ring: its indices, without division. *)

Wrap(f, i, c) == IF f + i < c THEN f + i ELSE f + i - c

LEMMA ModAbove ==
  ASSUME NEW c \in Nat \ {0}, NEW k \in Nat, k < c
  PROVE  (c + k) % c = k
  OBVIOUS

LEMMA WrapIs ==
  ASSUME NEW c \in Nat \ {0}, NEW f \in 0..c - 1, NEW i \in 0..c
  PROVE  (f + i) % c = Wrap(f, i, c) /\ Wrap(f, i, c) \in 0..c - 1
<1>1. CASE f + i < c
  <2>1. (f + i) % c = f + i
    BY <1>1
  <2> QED
    BY <1>1, <2>1 DEF Wrap
<1>2. CASE ~(f + i < c)
  <2> DEFINE k == f + i - c
  <2>1. k \in Nat /\ k < c /\ c + k = f + i
    BY <1>2
  <2>2. (c + k) % c = k
    BY <2>1, ModAbove
  <2> QED
    BY <1>2, <2>1, <2>2 DEF Wrap
<1> QED
  BY <1>1, <1>2

LEMMA AtIs ==
  ASSUME TypeOK, NEW i \in 0..capacity
  PROVE  At(i) = Wrap(front, i, capacity) /\ At(i) \in 0..capacity - 1
BY WrapIs, RingAssumption DEF TypeOK, At

LEMMA AtIsNext ==
  ASSUME TypeOK', NEW i \in 0..capacity'
  PROVE  At(i)' = Wrap(front', i, capacity')
BY WrapIs, RingAssumption DEF TypeOK, At

LEMMA Neighbours ==
  ASSUME TypeOK
  PROVE  \A i \in 0..capacity - 1 :
           Inc(i) \in 0..capacity - 1 /\ Dec(i) \in 0..capacity - 1
BY RingAssumption DEF TypeOK, Inc, Dec

-----------------------------------------------------------------------------
(* The invariant. *)

LEMMA TypeStep == TypeOK /\ [Next]_vars => TypeOK'
<1> SUFFICES ASSUME TypeOK, [Next]_vars PROVE TypeOK'
  OBVIOUS
<1>0. /\ capacity \in Nat \ {0}
      /\ front \in 0..capacity - 1 /\ Inc(front) \in 0..capacity - 1
      /\ Dec(front) \in 0..capacity - 1
      /\ back \in 0..capacity - 1 /\ Inc(back) \in 0..capacity - 1
      /\ Dec(back) \in 0..capacity - 1
  BY Neighbours, RingAssumption DEF TypeOK
<1>00. \A i \in 0..capacity : At(i) \in 0..capacity - 1
  BY AtIs
<1> USE <1>0 DEF TypeOK, Stored, Empty, Full
<1>1. ASSUME NEW v \in Values, PushBack(v) PROVE TypeOK'
  BY <1>1 DEF PushBack, Overrun
<1>2. ASSUME NEW v \in Values, PushFront(v) PROVE TypeOK'
  BY <1>2 DEF PushFront
<1>3. CASE PopBack
  BY <1>3 DEF PopBack
<1>4. CASE PopFront
  BY <1>4 DEF PopFront
<1>5. ASSUME NEW v \in Values, NEW i \in 0..capacity - 1, Assign(i, v) PROVE TypeOK'
  BY <1>5 DEF Assign
<1>6. ASSUME NEW n \in Capacities, Resize(n) PROVE TypeOK'
  <2>1. n \in Nat \ {0} /\ size' \in 0..n /\ size' <= size /\ End(n) \in 0..n - 1
    BY <1>6, RingAssumption DEF Resize, End
  <2>2. \A i \in 0..n - 1 : i < size' => At(i) \in 0..capacity - 1
    <3> TAKE i \in 0..n - 1
    <3> HAVE i < size'
    <3>1. i \in 0..capacity
      BY <2>1
    <3> QED
      BY <1>00, <3>1
  <2>3. buffer' \in [0..n - 1 -> Stored]
    BY <1>6, <2>2 DEF Resize
  <2> QED
    BY <1>6, <2>1, <2>3 DEF Resize
<1>7. CASE Clear
  BY <1>7 DEF Clear
<1>8. CASE UNCHANGED vars
  BY <1>8 DEF vars, ring
<1> QED
  BY <1>1, <1>2, <1>3, <1>4, <1>5, <1>6, <1>7, <1>8 DEF Next

\* Every call keeps the indices in the array.
THEOREM TypeCorrect == Spec => []TypeOK
<1>1. Init => TypeOK
  BY RingAssumption DEF Init, TypeOK, Stored
<1> QED
  BY <1>1, TypeStep, PTL DEF Spec

LEMMA EndsStep == TypeOK /\ EndsMeet /\ [Next]_vars => EndsMeet'
<1> SUFFICES ASSUME TypeOK, EndsMeet, [Next]_vars PROVE EndsMeet'
  OBVIOUS
<1>1. TypeOK'
  BY TypeStep
<1>2. back = Wrap(front, size, capacity)
  BY AtIs DEF EndsMeet, TypeOK
<1>3. SUFFICES back' = Wrap(front', size', capacity')
  BY <1>1, AtIsNext DEF EndsMeet, TypeOK
<1> USE <1>2, RingAssumption DEF TypeOK, Wrap, Inc, Dec, Empty, Full
<1>4. ASSUME NEW v \in Values, PushBack(v) PROVE back' = Wrap(front', size', capacity')
  BY <1>4 DEF PushBack, Overrun
<1>5. ASSUME NEW v \in Values, PushFront(v) PROVE back' = Wrap(front', size', capacity')
  BY <1>5 DEF PushFront
<1>6. CASE PopBack
  BY <1>6 DEF PopBack
<1>7. CASE PopFront
  BY <1>7 DEF PopFront
<1>8. ASSUME NEW n \in Capacities, Resize(n) PROVE back' = Wrap(front', size', capacity')
  BY <1>8 DEF Resize, End
<1>9. CASE Clear
  BY <1>9 DEF Clear
<1>10. CASE UNCHANGED <<capacity, size, front, back>>
  BY <1>10
<1> QED
  BY <1>4, <1>5, <1>6, <1>7, <1>8, <1>9, <1>10 DEF Next, Assign, vars, ring

\* The next push goes where the values end, whatever was pushed, popped and
\* resized before.
THEOREM EndsCorrect == Spec => []EndsMeet
<1>1. Init => EndsMeet
  <2> SUFFICES ASSUME Init PROVE 0 % capacity = 0
    BY DEF Init, EndsMeet, At
  <2> QED
    BY RingAssumption DEF Init
<1> QED
  BY <1>1, EndsStep, TypeCorrect, PTL DEF Spec
-----------------------------------------------------------------------------
(* The refinement: Contents moves as the deque does. *)

LEMMA SameSeq ==
  ASSUME NEW S, NEW s \in Seq(S), NEW t \in Seq(S), Len(s) = Len(t),
         \A k \in 1..Len(s) : s[k] = t[k]
  PROVE  s = t
OBVIOUS

LEMMA ContentsType ==
  ASSUME TypeOK
  PROVE  /\ Contents \in Seq(Stored) /\ Len(Contents) = size
         /\ \A k \in 1..size :
              /\ Wrap(front, k - 1, capacity) \in 0..capacity - 1
              /\ Contents[k] = buffer[Wrap(front, k - 1, capacity)]
<1>1. \A k \in 1..size : /\ k - 1 \in 0..capacity
                          /\ At(k - 1) = Wrap(front, k - 1, capacity)
                          /\ At(k - 1) \in 0..capacity - 1
  <2> TAKE k \in 1..size
  <2>1. k - 1 \in 0..capacity
    BY RingAssumption DEF TypeOK
  <2> QED
    BY <2>1, AtIs
<1>2. Contents \in [1..size -> Stored] /\ size \in Nat
  BY <1>1, RingAssumption DEF TypeOK, Contents
<1> QED
  BY <1>1, <1>2 DEF Contents

LEMMA ContentsNext ==
  ASSUME TypeOK'
  PROVE  /\ Contents' \in Seq(Stored) /\ Len(Contents') = size'
         /\ \A k \in 1..size' :
              Contents'[k] = buffer'[Wrap(front', k - 1, capacity')]
<1>1. \A k \in 1..size' : /\ k - 1 \in 0..capacity'
                           /\ At(k - 1)' = Wrap(front', k - 1, capacity')
                           /\ Wrap(front', k - 1, capacity') \in 0..capacity' - 1
  <2> TAKE k \in 1..size'
  <2>1. k - 1 \in 0..capacity'
    BY RingAssumption DEF TypeOK
  <2>2. front' \in 0..capacity' - 1 /\ capacity' \in Nat \ {0}
    BY RingAssumption DEF TypeOK
  <2> QED
    BY <2>1, <2>2, AtIsNext, WrapIs
<1>2. Contents' = [k \in 1..size' |-> buffer'[Wrap(front', k - 1, capacity')]]
  BY <1>1 DEF Contents
<1>3. size' \in Nat
  BY RingAssumption DEF TypeOK
<1>4. buffer' \in [0..capacity' - 1 -> Stored]
  BY DEF TypeOK
<1>5. Contents' \in [1..size' -> Stored]
  BY <1>1, <1>2, <1>4
<1> QED
  BY <1>2, <1>3, <1>5

Inv == TypeOK /\ EndsMeet

\* What the lemmas below need of a state and of the next one.
LEMMA Facts ==
  ASSUME Inv
  PROVE  /\ capacity \in Nat \ {0} /\ size \in 0..capacity
         /\ front \in 0..capacity - 1 /\ back \in 0..capacity - 1
         /\ back = Wrap(front, size, capacity)
         /\ DOMAIN buffer = 0..capacity - 1
  BY AtIs, RingAssumption DEF Inv, TypeOK, EndsMeet

\* The places seen from the neighbours of front.
LEMMA Shift ==
  ASSUME NEW c \in Nat \ {0}, NEW f \in 0..c - 1
  PROVE  /\ Wrap(f, 0, c) = f /\ Wrap(f, c, c) = f
         /\ \A k \in 1..c - 1 : Wrap(f, k, c) # f
         /\ \A k \in 1..c :
              Wrap(IF f + 1 = c THEN 0 ELSE f + 1, k - 1, c) = Wrap(f, k, c)
         /\ \A k \in 0..c - 1 :
              Wrap(IF f = 0 THEN c - 1 ELSE f - 1, k + 1, c) = Wrap(f, k, c)
         /\ \A k \in 1..c :
              Wrap(f, k - 1, c) = LET b == Wrap(f, k, c)
                                  IN IF b = 0 THEN c - 1 ELSE b - 1
         /\ \A j, k \in 0..c - 1 : Wrap(f, j, c) = Wrap(f, k, c) => j = k
  BY DEF Wrap

LEMMA PushBackStep ==
  ASSUME Inv, TypeOK', NEW v \in Values, PushBack(v)
  PROVE  Deque!PushBack(v)
<1>1. /\ v \in Stored /\ capacity' = capacity /\ TypeOK
      /\ buffer' = [buffer EXCEPT ![back] = v]
  BY DEF PushBack, Stored, Inv
<1>2. CASE ~Full
  <2>1. size' = size + 1 /\ front' = front /\ size < capacity
    BY <1>2, Facts DEF PushBack, Full
  <2>2. \A k \in 1..size : Wrap(front, k - 1, capacity) # back
    BY <2>1, Facts DEF Wrap
  <2>3. \A k \in 1..size : Contents'[k] = Contents[k]
    BY <1>1, <2>1, <2>2, Facts, ContentsType, ContentsNext
  <2>4. Contents'[size + 1] = v
    BY <1>1, <2>1, Facts, ContentsNext
  <2>5. Contents' = Append(Contents, v)
    BY <1>1, <2>1, <2>3, <2>4, Facts, ContentsType, ContentsNext, SameSeq
  <2> QED
    BY <1>1, <2>1, <2>5, ContentsType DEF Deque!PushBack, Deque!Full, PushBack
<1>3. CASE Full
  <2>1. size' = size /\ size = capacity /\ front' = Inc(front) /\ front = back
    BY <1>3, Facts, Shift DEF PushBack, Overrun, Full
  <2>2. /\ Wrap(front', size - 1, capacity) = front
        /\ \A k \in 1..size - 1 :
             /\ Wrap(front', k - 1, capacity) = Wrap(front, k, capacity)
             /\ Wrap(front, k, capacity) # front
    BY <2>1, Facts, Shift DEF Inc
  <2>3. \A k \in 1..size - 1 : Contents'[k] = Contents[k + 1]
    <3> TAKE k \in 1..size - 1
    <3>1. k \in 1..size /\ k + 1 \in 1..size /\ (k + 1) - 1 = k
      BY Facts
    <3>2. Contents'[k] = buffer'[Wrap(front, k, capacity)]
      BY <1>1, <2>1, <2>2, <3>1, ContentsNext
    <3>3. /\ Contents[k + 1] = buffer[Wrap(front, k, capacity)]
          /\ Wrap(front, k, capacity) \in 0..capacity - 1
      BY <1>1, <3>1, ContentsType
    <3> QED
      BY <1>1, <2>1, <2>2, <3>2, <3>3, Facts
  <2>4. Contents'[size] = v
    BY <1>1, <2>1, <2>2, Facts, ContentsNext
  <2>5. Contents' = Append(Tail(Contents), v)
    BY <1>1, <2>1, <2>3, <2>4, Facts, ContentsType, ContentsNext, SameSeq
  <2> QED
    BY <1>1, <2>1, <2>5, ContentsType DEF Deque!PushBack, Deque!Full, PushBack
<1> QED
  BY <1>2, <1>3

LEMMA PushFrontStep ==
  ASSUME Inv, TypeOK', NEW v \in Values, PushFront(v)
  PROVE  Deque!PushFront(v)
<1>1. /\ v \in Stored /\ capacity' = capacity /\ TypeOK /\ front' = Dec(front)
      /\ buffer' = [buffer EXCEPT ![front'] = v] /\ front' \in 0..capacity - 1
  BY Neighbours, Facts DEF PushFront, Stored, Inv
<1>2. /\ \A k \in 0..capacity - 1 : Wrap(front', k + 1, capacity) = Wrap(front, k, capacity)
      /\ \A k \in 1..capacity - 1 : Wrap(front', k, capacity) # front'
      /\ Wrap(front', 0, capacity) = front'
  BY <1>1, Facts, Shift DEF Dec
<1>3. ASSUME NEW n \in Nat, n <= size, n < capacity, size' = n + 1
      PROVE  Contents' = <<v>> \o SubSeq(Contents, 1, n)
  <2>1. Contents'[1] = v
    BY <1>1, <1>2, <1>3, Facts, ContentsNext
  <2>2. \A k \in 1..n : Contents'[k + 1] = Contents[k]
    <3> TAKE k \in 1..n
    <3>1. /\ k \in 1..size /\ k + 1 \in 1..size' /\ (k + 1) - 1 = k
          /\ k - 1 \in 0..capacity - 1 /\ k \in 1..capacity - 1 /\ (k - 1) + 1 = k
      BY <1>3, Facts
    <3>2. Contents'[k + 1] = buffer'[Wrap(front', k, capacity)]
      BY <1>1, <3>1, ContentsNext
    <3>3. /\ Wrap(front', k, capacity) = Wrap(front, k - 1, capacity)
          /\ Wrap(front', k, capacity) # front'
      BY <1>2, <3>1
    <3>4. /\ Contents[k] = buffer[Wrap(front, k - 1, capacity)]
          /\ Wrap(front, k - 1, capacity) \in 0..capacity - 1
      BY <1>1, <3>1, ContentsType
    <3> QED
      BY <1>1, <3>2, <3>3, <3>4, Facts
  <2>3. /\ SubSeq(Contents, 1, n) \in Seq(Stored) /\ Len(SubSeq(Contents, 1, n)) = n
        /\ \A k \in 1..n : SubSeq(Contents, 1, n)[k] = Contents[k]
    BY <1>1, <1>3, ContentsType, Facts
  <2>4. \A k \in 1..n + 1 : Contents'[k] = (<<v>> \o SubSeq(Contents, 1, n))[k]
    BY <1>1, <2>1, <2>2, <2>3
  <2> QED
    BY <1>1, <1>3, <2>3, <2>4, ContentsNext, SameSeq
<1>4. CASE ~Full
  <2>1. size' = size + 1 /\ size < capacity /\ size \in Nat
    BY <1>4, Facts DEF PushFront, Full
  <2>2. SubSeq(Contents, 1, size) = Contents
    BY <1>1, <2>1, ContentsType
  <2> QED
    BY <1>1, <1>3, <2>1, <2>2, ContentsType DEF Deque!PushFront, Deque!Full, PushFront
<1>5. CASE Full
  <2>1. size' = (capacity - 1) + 1 /\ size = capacity /\ capacity - 1 \in Nat
    BY <1>5, Facts DEF PushFront, Full
  <2>2. Contents' = <<v>> \o SubSeq(Contents, 1, capacity - 1)
    BY <1>3, <2>1, Facts
  <2> QED
    BY <1>1, <2>1, <2>2, ContentsType DEF Deque!PushFront, Deque!Full, PushFront
<1> QED
  BY <1>4, <1>5

LEMMA PopBackStep ==
  ASSUME Inv, TypeOK', PopBack
  PROVE  Deque!PopBack
<1>1. /\ capacity' = capacity /\ TypeOK /\ front' = front /\ buffer' = buffer
  BY DEF PopBack, Inv
<1>2. CASE Empty
  <2>1. size' = size /\ size = 0
    BY <1>2 DEF PopBack, Empty
  <2>2. Contents' = Contents /\ Contents = <<>>
    BY <1>1, <2>1, ContentsType, ContentsNext
  <2> QED
    BY <1>1, <1>2, <2>2 DEF Deque!PopBack, PopBack
<1>3. CASE ~Empty
  <2>1. size' = size - 1 /\ size \in 1..capacity
    BY <1>3, Facts DEF PopBack, Empty
  <2>2. Wrap(front, size - 1, capacity) = Dec(back)
    BY <2>1, Facts, Shift DEF Dec
  <2>3. returned' = Contents[size] /\ Contents # <<>>
    BY <1>1, <1>3, <2>1, <2>2, Facts, ContentsType DEF PopBack
  <2>4. \A k \in 1..size - 1 : Contents'[k] = Contents[k]
    BY <1>1, <2>1, Facts, ContentsType, ContentsNext
  <2>5. Contents' = SubSeq(Contents, 1, size - 1)
    BY <1>1, <2>1, <2>4, Facts, ContentsType, ContentsNext, SameSeq
  <2> QED
    BY <1>1, <2>3, <2>5, ContentsType DEF Deque!PopBack
<1> QED
  BY <1>2, <1>3

LEMMA PopFrontStep ==
  ASSUME Inv, TypeOK', PopFront
  PROVE  Deque!PopFront
<1>1. /\ capacity' = capacity /\ TypeOK /\ buffer' = buffer
  BY DEF PopFront, Inv
<1>2. CASE Empty
  <2>1. size' = size /\ size = 0 /\ front' = front
    BY <1>2 DEF PopFront, Empty
  <2>2. Contents' = Contents /\ Contents = <<>>
    BY <1>1, <2>1, ContentsType, ContentsNext
  <2> QED
    BY <1>1, <1>2, <2>2 DEF Deque!PopFront, PopFront
<1>3. CASE ~Empty
  <2>1. size' = size - 1 /\ size \in 1..capacity /\ front' = Inc(front)
    BY <1>3, Facts DEF PopFront, Empty
  <2>2. /\ \A k \in 1..capacity : Wrap(front', k - 1, capacity) = Wrap(front, k, capacity)
        /\ Wrap(front, 0, capacity) = front
    BY <2>1, Facts, Shift DEF Inc
  <2>3. returned' = Head(Contents) /\ Contents # <<>>
    BY <1>1, <1>3, <2>1, <2>2, Facts, ContentsType DEF PopFront
  <2>4. \A k \in 1..size - 1 : Contents'[k] = Contents[k + 1]
    <3> TAKE k \in 1..size - 1
    <3>1. k \in 1..capacity /\ k \in 1..size' /\ k + 1 \in 1..size /\ (k + 1) - 1 = k
      BY <2>1, Facts
    <3> QED
      BY <1>1, <2>2, <3>1, ContentsType, ContentsNext
  <2>5. /\ Tail(Contents) \in Seq(Stored) /\ Len(Tail(Contents)) = size - 1
        /\ \A k \in 1..size - 1 : Tail(Contents)[k] = Contents[k + 1]
    BY <1>1, <2>1, <2>3, ContentsType
  <2>6. Contents' = Tail(Contents)
    BY <2>1, <2>4, <2>5, ContentsNext, SameSeq
  <2> QED
    BY <1>1, <2>3, <2>6 DEF Deque!PopFront
<1> QED
  BY <1>2, <1>3

LEMMA AssignStep ==
  ASSUME Inv, TypeOK', NEW v \in Values, NEW i \in 0..capacity - 1, Assign(i, v)
  PROVE  Deque!Assign(i + 1, v)
<1>1. /\ capacity' = capacity /\ TypeOK /\ front' = front /\ size' = size
      /\ i \in 0..size - 1 /\ i \in 0..capacity /\ v \in Stored /\ size \in Nat
      /\ buffer' = [buffer EXCEPT ![Wrap(front, i, capacity)] = v]
  <2>1. TypeOK /\ i \in 0..capacity
    BY Facts DEF Inv
  <2>2. At(i) = Wrap(front, i, capacity)
    BY <2>1, AtIs
  <2> QED
    BY <2>1, <2>2, Facts DEF Assign, Stored
<1>2. \A k \in 1..size : k - 1 \in 0..capacity - 1
  BY Facts
<1>3. \A k \in 1..size : Contents'[k] = IF k = i + 1 THEN v ELSE Contents[k]
  <2> TAKE k \in 1..size
  <2>1. k # i + 1 => Wrap(front, k - 1, capacity) # Wrap(front, i, capacity)
    BY <1>1, <1>2, Facts, Shift
  <2>2. k = i + 1 => k - 1 = i
    BY <1>1
  <2> QED
    BY <1>1, <2>1, <2>2, Facts, ContentsType, ContentsNext
<1>4. Contents' = [Contents EXCEPT ![i + 1] = v]
  <2>1. i + 1 \in 1..size
    BY <1>1
  <2> DEFINE t == [Contents EXCEPT ![i + 1] = v]
  <2>2. /\ t \in Seq(Stored) /\ Len(t) = size
        /\ \A k \in 1..size : t[k] = IF k = i + 1 THEN v ELSE Contents[k]
    BY <1>1, <2>1, ContentsType
  <2> HIDE DEF t
  <2>3. Contents' = t
    BY <1>1, <1>3, <2>2, ContentsNext, SameSeq
  <2> QED
    BY <2>3 DEF t
<1> QED
  BY <1>1, <1>4, ContentsType DEF Deque!Assign, Assign

LEMMA ResizeStep ==
  ASSUME Inv, TypeOK', NEW n \in Capacities, Resize(n)
  PROVE  Deque!Resize(n)
<1>1. /\ capacity' = n /\ TypeOK /\ front' = 0 /\ n \in Nat \ {0}
      /\ size' = (IF n <= size THEN n ELSE size)
      /\ \A i \in 0..n - 1 : i < size' => buffer'[i] = buffer[At(i)]
  BY RingAssumption DEF Resize, Inv
<1>2. \A k \in 1..size' : Contents'[k] = Contents[k]
  <2> TAKE k \in 1..size'
  <2>0. size' \in Nat /\ size' <= size /\ size' <= n /\ size \in 0..capacity
    BY <1>1, Facts
  <2>1. /\ k - 1 \in 0..n - 1 /\ k - 1 < size' /\ k \in 1..size
        /\ k - 1 \in 0..capacity /\ Wrap(0, k - 1, n) = k - 1
    BY <1>1, <2>0, Facts DEF Wrap
  <2>2. Contents'[k] = buffer[At(k - 1)]
    BY <1>1, <2>1, ContentsNext
  <2> QED
    BY <1>1, <2>1, <2>2, AtIs, ContentsType
<1>3. CASE n < size
  <2>1. /\ SubSeq(Contents, 1, n) \in Seq(Stored) /\ Len(SubSeq(Contents, 1, n)) = n
        /\ \A k \in 1..n : SubSeq(Contents, 1, n)[k] = Contents[k]
    BY <1>1, <1>3, Facts, ContentsType
  <2>2. Contents' = SubSeq(Contents, 1, n)
    BY <1>1, <1>2, <1>3, <2>1, Facts, ContentsNext, SameSeq
  <2> QED
    BY <1>1, <1>3, <2>2, ContentsType DEF Deque!Resize, Resize
<1>4. CASE ~(n < size)
  <2>1. size' = size
    BY <1>1, <1>4, Facts
  <2>2. Contents' = Contents
    BY <1>1, <1>2, <2>1, ContentsType, ContentsNext, SameSeq
  <2> QED
    BY <1>1, <1>4, <2>2, ContentsType DEF Deque!Resize, Resize
<1> QED
  BY <1>3, <1>4

LEMMA ClearStep ==
  ASSUME Inv, TypeOK', Clear
  PROVE  Deque!Clear
<1>1. Contents' = <<>>
  BY ContentsNext DEF Clear
<1> QED
  BY <1>1 DEF Deque!Clear, Clear

\* The array with its indices is the double-ended queue of the table in
\* RingBuffer.hpp:159-179, whatever its capacity and the values are.
THEOREM Refinement == Spec => ImplementsDeque
<1>1. Init => Deque!Init
  BY RingAssumption DEF Init, Deque!Init, Contents
<1>2. Inv /\ TypeOK' /\ [Next]_vars => [Deque!Next]_Deque!vars
  <2> SUFFICES ASSUME Inv, TypeOK', [Next]_vars PROVE [Deque!Next]_Deque!vars
    OBVIOUS
  <2>1. ASSUME NEW v \in Values, PushBack(v) PROVE Deque!Next
    BY <2>1, PushBackStep DEF Deque!Next
  <2>2. ASSUME NEW v \in Values, PushFront(v) PROVE Deque!Next
    BY <2>2, PushFrontStep DEF Deque!Next
  <2>3. ASSUME NEW v \in Values, NEW i \in 0..capacity - 1, Assign(i, v)
        PROVE Deque!Next
    <3>1. i + 1 \in 1..capacity
      BY Facts
    <3> QED
      BY <2>3, <3>1, AssignStep DEF Deque!Next
  <2>4. CASE PopBack
    BY <2>4, PopBackStep DEF Deque!Next
  <2>5. CASE PopFront
    BY <2>5, PopFrontStep DEF Deque!Next
  <2>6. CASE Clear
    BY <2>6, ClearStep DEF Deque!Next
  <2>7. ASSUME NEW n \in Capacities, Resize(n) PROVE Deque!Next
    BY <2>7, ResizeStep DEF Deque!Next
  <2>8. CASE UNCHANGED vars
    BY <2>8 DEF vars, ring, Contents, At, Deque!vars
  <2> QED
    BY <2>1, <2>2, <2>3, <2>4, <2>5, <2>6, <2>7, <2>8 DEF Next
<1> QED
  BY <1>1, <1>2, TypeCorrect, EndsCorrect, PTL
  DEF Spec, Inv, ImplementsDeque, Deque!Spec

-----------------------------------------------------------------------------
(* The rolling log.  A file holds the records between two edges, of which  *)
(* files next to each other share one; file 0 ends with the last record.   *)

Span(a, b) == [i \in 1..(b - a) |-> a + i]
Places     == 0..(LastFile + 1)
Edges      == [Places -> Nat]

InSpans(e) ==
  /\ e[0] = accepted
  /\ \A f, g \in Places : f <= g => e[g] <= e[f]
  /\ \A f \in Log!Numbers :
       \/ files[f] = Span(e[f + 1], e[f])
       \/ files[f] = Log!Absent /\ e[f + 1] = e[f]

Big(e, f) == e[f] - e[f + 1] >= MaxSize

\* The file that made the log roll is kept while that goes on: each call of open() that
\* failed has moved it by one file.
Safe(e) ==
  failures < LastFile =>
    /\ e[LastFile + 1] > 0 => e[0] - e[LastFile + 1] >= MaxSize
    /\ pc = "rename" => \E f \in Log!Numbers :
         Big(e, f) /\ (f <= depth \/ (f = depth + 1 /\ f >= from + 2))
    /\ pc = "open" /\ written # 0 => \E f \in Log!Numbers : Big(e, f) /\ f <= depth + 1

Counted(e) == handle => files[0] # Log!Absent /\ written <= e[0] - e[1] + 1

Good(e) == InSpans(e) /\ Safe(e) /\ Counted(e)

LogTypes ==
  /\ files = [f \in Log!Numbers |-> files[f]]
  /\ handle \in BOOLEAN /\ first \in BOOLEAN /\ written \in Nat
  /\ pc \in {"idle", "rename", "open", "write"}
  /\ from \in Log!Numbers /\ depth \in Nat /\ accepted \in Nat /\ failures \in Nat

\* What the control of write() knows where.
Course ==
  /\ first => written = 0 /\ pc = "idle" /\ ~handle
  /\ pc = "idle" => depth = 0
  /\ pc = "open" /\ written = 0 => depth = 0
  /\ pc \in {"rename", "open"} => ~handle
  /\ pc = "rename" \/ (pc = "open" /\ written # 0) => written > MaxSize
  /\ pc \in {"idle", "write"} /\ ~handle => written = 0
  /\ pc = "rename" => from < LastFile
  /\ depth <= failures

LogInv == LogTypes /\ Course /\ \E e \in Edges : Good(e)

LEMMA LogFacts ==
  /\ MaxSize \in Nat /\ MaxSize > 0 /\ LastFile \in Nat /\ LastFile > 0
  /\ 0 \in Log!Numbers /\ LastFile \in Log!Numbers
  /\ \A f \in Log!Numbers : f \in Nat /\ f \in Places /\ f + 1 \in Places /\ f <= LastFile
  /\ 0 \in Places /\ 1 \in Places /\ LastFile + 1 \in Places
  /\ \A f \in Places : f \in Nat /\ f <= LastFile + 1
BY LogAssumption DEF Log!RollingLogAssumption, Log!Numbers, Places

LEMMA SpanIs ==
  ASSUME NEW a \in Nat, NEW b \in Nat, a <= b
  PROVE  /\ Span(a, b) \in Seq(Nat) /\ Len(Span(a, b)) = b - a /\ DOMAIN Span(a, b) = 1..(b - a)
         /\ \A i \in 1..(b - a) : Span(a, b)[i] = a + i
         /\ Span(a, b) # Log!Absent
         /\ Append(Span(a, b), b + 1) = Span(a, b + 1)
<1>1. Span(a, b) \in [1..(b - a) -> Nat] /\ \A i \in 1..(b - a) : Span(a, b)[i] = a + i
  BY DEF Span
<1>2. Span(a, b) \in Seq(Nat) /\ Len(Span(a, b)) = b - a /\ DOMAIN Span(a, b) = 1..(b - a)
  BY <1>1
<1>3. Span(a, b) # Log!Absent
  <2>1. Log!Absent[1] = -1 /\ Len(Log!Absent) = 1
    BY DEF Log!Absent
  <2>2. Len(Span(a, b)) = 1 => Span(a, b)[1] \in Nat
    BY <1>1, <1>2
  <2> QED
    BY <2>1, <2>2
<1>4. Append(Span(a, b), b + 1) = Span(a, b + 1)
  <2>1. \A i \in 1..(b + 1 - a) : Append(Span(a, b), b + 1)[i] = a + i
    BY <1>1, <1>2
  <2>2. Append(Span(a, b), b + 1) = [i \in 1..(b + 1 - a) |-> Append(Span(a, b), b + 1)[i]]
    <3>1. Append(Span(a, b), b + 1) \in Seq(Nat) /\ Len(Append(Span(a, b), b + 1)) = b - a + 1
      BY <1>2
    <3> QED
      BY <3>1
  <2> QED
    BY <2>1, <2>2 DEF Span
<1> QED
  BY <1>1, <1>2, <1>3, <1>4

LEMMA EdgesAre ==
  ASSUME NEW e \in Edges, InSpans(e), LogTypes
  PROVE  /\ \A f \in Places : e[f] \in Nat
         /\ \A f \in Log!Numbers : e[f + 1] <= e[f] /\ e[f + 1] \in Nat /\ e[f] \in Nat
         /\ e[0] = accepted /\ accepted \in Nat
  BY LogFacts DEF InSpans, Edges, LogTypes

\* The records of a file that is there are those between its edges.
LEMMA FileIs ==
  ASSUME NEW e \in Edges, InSpans(e), LogTypes, NEW f \in Log!Numbers, files[f] # Log!Absent
  PROVE  files[f] = Span(e[f + 1], e[f])
  BY DEF InSpans
-----------------------------------------------------------------------------
(* What the edges say. *)

LEMMA NewestAre ==
  ASSUME LogInv
  PROVE  NewestKept
<1> SUFFICES ASSUME failures < LastFile PROVE NewestKept
  BY DEF NewestKept, Log!NewestKept
<1>1. PICK e \in Edges : Good(e)
  BY DEF LogInv
<1>2. InSpans(e) /\ LogTypes /\ Safe(e)
  BY <1>1 DEF Good, LogInv
<1>3. /\ \A f \in Places : e[f] \in Nat
      /\ \A f \in Log!Numbers : e[f + 1] <= e[f] /\ e[f + 1] \in Nat /\ e[f] \in Nat
      /\ e[0] = accepted /\ accepted \in Nat
  BY <1>2, EdgesAre
<1>4. ASSUME NEW f \in Log!Numbers, files[f] # Log!Absent
      PROVE  /\ DOMAIN files[f] = 1..(e[f] - e[f + 1])
             /\ \A i \in DOMAIN files[f] : files[f][i] = e[f + 1] + i
  <2>1. files[f] = Span(e[f + 1], e[f])
    BY <1>2, <1>4, FileIs
  <2>2. PICK a, b \in Nat : a = e[f + 1] /\ b = e[f] /\ a <= b
    BY <1>3
  <2>3. DOMAIN Span(a, b) = 1..(b - a) /\ \A i \in 1..(b - a) : Span(a, b)[i] = a + i
    BY <2>2, SpanIs
  <2> QED
    BY <2>1, <2>2, <2>3
<1>5. Log!InOrder
  <2>1. ASSUME NEW f \in Log!Numbers, files[f] # Log!Absent, NEW i \in DOMAIN files[f],
               NEW j \in DOMAIN files[f], i < j
        PROVE  files[f][i] < files[f][j]
    BY <1>3, <1>4, <2>1
  <2>2. ASSUME NEW f \in Log!Numbers, files[f] # Log!Absent, NEW g \in Log!Numbers,
               files[g] # Log!Absent, f < g,
               NEW i \in DOMAIN files[f], NEW j \in DOMAIN files[g]
        PROVE  files[g][j] < files[f][i]
    <3>1. f + 1 \in Places /\ g \in Places /\ f + 1 <= g
      BY <2>2, LogFacts
    <3>2. e[g] <= e[f + 1]
      BY <1>2, <3>1 DEF InSpans
    <3>3. i \in 1..(e[f] - e[f + 1]) /\ j \in 1..(e[g] - e[g + 1])
      BY <1>4, <2>2
    <3>4. files[f][i] = e[f + 1] + i /\ files[g][j] = e[g + 1] + j
      BY <1>4, <2>2
    <3> QED
      BY <1>3, <3>2, <3>3, <3>4
  <2> QED
    BY <2>1, <2>2 DEF Log!InOrder, Log!Exists
<1> DEFINE gone == e[LastFile + 1]
<1>6. gone \in 0..accepted
  BY <1>2, <1>3, LogFacts DEF InSpans
<1>7. ASSUME NEW r \in Log!Kept PROVE r \in (gone + 1)..accepted
  <2>1. PICK f \in Log!Numbers : files[f] # Log!Absent /\ r \in Log!Range(files[f])
    BY DEF Log!Kept, Log!Exists
  <2>2. PICK i \in DOMAIN files[f] : r = files[f][i]
    BY <2>1 DEF Log!Range
  <2>3. i \in 1..(e[f] - e[f + 1]) /\ r = e[f + 1] + i
    BY <1>4, <2>1, <2>2
  <2>4. gone <= e[f + 1] /\ e[f] <= accepted
    BY <1>2, <1>3, LogFacts DEF InSpans
  <2> QED
    BY <1>3, <1>6, <2>3, <2>4
<1>8. ASSUME NEW r \in (gone + 1)..accepted PROVE r \in Log!Kept
  <2> DEFINE T == {g \in Places : e[g] < r}
  <2>1. LastFile + 1 \in T /\ T \in SUBSET Nat
    BY <1>3, <1>6, LogFacts
  <2>2. PICK g \in T : \A h \in T : g <= h
    BY <2>1, Least
  <2>3. g # 0 /\ g \in Places /\ e[g] < r
    BY <1>3, <2>2
  <2>4. g - 1 \in Log!Numbers /\ (g - 1) + 1 = g /\ g - 1 \in Places
    BY <2>3, LogFacts DEF Log!Numbers, Places
  <2>5. r <= e[g - 1]
    <3>1. g - 1 \notin T
      BY <2>2, <2>4, LogFacts
    <3> QED
      BY <1>3, <2>4, <3>1
  <2>6. files[g - 1] # Log!Absent
    <3>1. e[(g - 1) + 1] # e[g - 1]
      BY <1>3, <2>3, <2>4, <2>5
    <3>2. files[g - 1] = Span(e[(g - 1) + 1], e[g - 1])
      BY <1>2, <2>4, <3>1 DEF InSpans
    <3>3. PICK a, b \in Nat : a = e[(g - 1) + 1] /\ b = e[g - 1] /\ a <= b
      BY <1>3, <2>4
    <3>4. Span(a, b) # Log!Absent
      BY <3>3, SpanIs
    <3> QED
      BY <3>2, <3>3, <3>4
  <2>7. r - e[g] \in DOMAIN files[g - 1] /\ files[g - 1][r - e[g]] = r
    <3>1. r - e[g] \in 1..(e[g - 1] - e[g]) /\ e[g] + (r - e[g]) = r
      BY <1>3, <2>3, <2>4, <2>5
    <3> QED
      BY <1>4, <2>4, <2>6, <3>1
  <2>8. r \in Log!Range(files[g - 1])
    BY <2>7 DEF Log!Range
  <2> QED
    BY <2>4, <2>6, <2>8 DEF Log!Kept, Log!Exists
<1>9. gone > 0 => accepted - gone >= MaxSize
  BY <1>2, <1>3 DEF Safe
<1> HIDE DEF gone
<1>10. Log!Kept = (gone + 1)..accepted
  BY <1>7, <1>8
<1> QED
  BY <1>5, <1>6, <1>9, <1>10 DEF NewestKept, Log!NewestKept
-----------------------------------------------------------------------------
(* The steps.  One that changes a file moves an edge, and says which. *)

LEMMA LogInit == Log!Init => LogInv
<1> SUFFICES ASSUME Log!Init PROVE LogInv
  OBVIOUS
<1>1. PICK e : e = [f \in Places |-> 0]
  OBVIOUS
<1>2. e \in Edges
  BY <1>1 DEF Edges
<1>3. Good(e)
  BY <1>1, LogFacts DEF Good, InSpans, Safe, Counted, Log!Init
<1>4. LogTypes /\ Course
  <2>1. files = [f \in Log!Numbers |-> Log!Absent]
    BY DEF Log!Init
  <2>2. files = [f \in Log!Numbers |-> files[f]]
    BY <2>1
  <2>3. Course
    BY DEF Course, Log!Init
  <2>4. /\ handle \in BOOLEAN /\ first \in BOOLEAN /\ written \in Nat /\ pc = "idle"
        /\ from \in Log!Numbers /\ depth \in Nat /\ accepted \in Nat /\ failures \in Nat
    BY LogFacts DEF Log!Init
  <2> QED
    BY <2>2, <2>3, <2>4 DEF LogTypes
<1> QED
  BY <1>2, <1>3, <1>4 DEF LogInv

\* The edges after file f has gone to f + 1, or has been removed if f is the last.
Moved(e, f) == [e EXCEPT ![f + 1] = e[f]]

LEMMA MovedIs ==
  ASSUME NEW e \in Edges, InSpans(e), LogTypes, NEW f \in Log!Numbers
  PROVE  /\ Moved(e, f) \in Edges
         /\ Moved(e, f)[f + 1] = e[f]
         /\ \A g \in Places : g # f + 1 => Moved(e, f)[g] = e[g]
  BY LogFacts DEF Moved, Edges

\* The edges stay in order if what file f would overwrite is not there.
LEMMA MovedInOrder ==
  ASSUME NEW e \in Edges, InSpans(e), LogTypes, NEW f \in Log!Numbers,
         f < LastFile => e[f + 2] = e[f + 1]
  PROVE  \A g, h \in Places : g <= h => Moved(e, f)[h] <= Moved(e, f)[g]
<1> SUFFICES ASSUME NEW g \in Places, NEW h \in Places, g <= h
             PROVE  Moved(e, f)[h] <= Moved(e, f)[g]
  OBVIOUS
<1>0. /\ \A p \in Places : e[p] \in Nat
      /\ \A p, q \in Places : p <= q => e[q] <= e[p]
  BY EdgesAre DEF InSpans
<1>1. g \in Nat /\ h \in Nat /\ f \in Nat /\ h <= LastFile + 1 /\ f \in Places /\ f + 1 \in Places
  BY LogFacts
<1>2. CASE g = f + 1 /\ h = f + 1
  <2>1. Moved(e, f)[f + 1] = e[f] /\ e[f] \in Nat
    BY <1>0, <1>1, MovedIs
  <2> QED
    BY <1>2, <2>1
<1>3. CASE g = f + 1 /\ h # f + 1
  <2>1. f <= h /\ Moved(e, f)[h] = e[h] /\ Moved(e, f)[g] = e[f]
    BY <1>1, <1>3, MovedIs
  <2> QED
    BY <1>0, <1>1, <2>1
<1>4. CASE g # f + 1 /\ h = f + 1
  <2>1. g <= f /\ Moved(e, f)[h] = e[f] /\ Moved(e, f)[g] = e[g]
    BY <1>1, <1>4, MovedIs
  <2> QED
    BY <1>0, <1>1, <2>1
<1>5. CASE g # f + 1 /\ h # f + 1
  BY <1>0, <1>5, MovedIs
<1> QED
  BY <1>2, <1>3, <1>4, <1>5

\* Begin's roll, from a write() that starts or from one that follows a failed open():
\* the file that made the log roll is not the last.
LEMMA RollKeeps ==
  ASSUME LogTypes, NEW e \in Edges, InSpans(e),
         files' \in {files, [files EXCEPT ![LastFile] = Log!Absent]},
         accepted' = accepted, failures' \in Nat, failures <= failures', depth' \in Nat, depth' <= failures',
         handle' = FALSE, pc' = "rename", from' = LastFile - 1,
         failures' < LastFile => \E f \in Log!Numbers : Big(e, f) /\ f <= depth'
  PROVE  \E e2 \in Edges : Good(e2)'
<1>0. /\ \A f \in Places : e[f] \in Nat
      /\ \A f \in Log!Numbers : e[f + 1] <= e[f]
      /\ e[0] = accepted /\ accepted \in Nat
  BY EdgesAre
<1>1. CASE files' = files
  <2>1. InSpans(e)'
    BY <1>1 DEF InSpans, Log!Numbers
  <2>2. Counted(e)'
    BY DEF Counted
  <2>3. Safe(e)'
    <3> SUFFICES ASSUME failures' < LastFile
                 PROVE  /\ e[LastFile + 1] > 0 => e[0] - e[LastFile + 1] >= MaxSize
                        /\ \E f \in Log!Numbers :
                              Big(e, f) /\ (f <= depth' \/ (f = depth' + 1 /\ f >= from' + 2))
      BY DEF Safe, Big, Log!Numbers
    <3>1. PICK f \in Log!Numbers : Big(e, f) /\ f <= depth'
      OBVIOUS
    <3>2. e[f] <= e[0] /\ e[LastFile + 1] <= e[f + 1]
      BY LogFacts DEF InSpans
    <3>3. /\ e[f] \in Nat /\ e[f + 1] \in Nat /\ e[0] \in Nat /\ e[LastFile + 1] \in Nat
          /\ MaxSize \in Nat /\ e[f] - e[f + 1] >= MaxSize
      BY <1>0, <3>1, LogFacts DEF Big
    <3>4. e[0] - e[LastFile + 1] >= MaxSize
      BY <3>2, <3>3
    <3> QED
      BY <3>1, <3>4
  <2> QED
    BY <2>1, <2>2, <2>3 DEF Good
<1>2. CASE files' = [files EXCEPT ![LastFile] = Log!Absent]
  <2> DEFINE e2 == Moved(e, LastFile)
  <2>1. /\ e2 \in Edges /\ e2[LastFile + 1] = e[LastFile]
        /\ \A g \in Places : g # LastFile + 1 => e2[g] = e[g]
    BY LogFacts, MovedIs
  <2>2. InSpans(e2)'
    <3>1. \A g, h \in Places : g <= h => e2[h] <= e2[g]
      BY LogFacts, MovedInOrder
    <3>2. ASSUME NEW f \in Log!Numbers
          PROVE  \/ files'[f] = Span(e2[f + 1], e2[f])
                 \/ files'[f] = Log!Absent /\ e2[f + 1] = e2[f]
      <4>1. CASE f = LastFile
        <5>1. files'[f] = Log!Absent
          BY <1>2, <4>1 DEF LogTypes
        <5>2. e2[f + 1] = e[f] /\ e2[f] = e[f]
          BY <2>1, <4>1, LogFacts
        <5> QED
          BY <5>1, <5>2
      <4>2. CASE f # LastFile
        <5>1. files'[f] = files[f]
          BY <1>2, <4>2 DEF LogTypes
        <5>2. e2[f + 1] = e[f + 1] /\ e2[f] = e[f]
          BY <2>1, <4>2, LogFacts
        <5> QED
          BY <5>1, <5>2 DEF InSpans
      <4> QED
        BY <4>1, <4>2
    <3>3. e2[0] = accepted'
      BY <1>0, <2>1, LogFacts
    <3> HIDE DEF e2
    <3> QED
      BY <3>1, <3>2, <3>3 DEF InSpans, Log!Numbers
  <2>3. Counted(e2)'
    BY DEF Counted
  <2>4. Safe(e2)'
    <3> HIDE DEF e2
    <3> SUFFICES ASSUME failures' < LastFile
                 PROVE  /\ e2[0] - e2[LastFile + 1] >= MaxSize
                        /\ \E f \in Log!Numbers :
                              Big(e2, f) /\ (f <= depth' \/ (f = depth' + 1 /\ f >= from' + 2))
      BY DEF Safe, Big, Log!Numbers
    <3>1. PICK f \in Log!Numbers : Big(e, f) /\ f <= depth'
      OBVIOUS
    <3>2. f < LastFile /\ f \in Nat /\ f \in Places /\ f + 1 \in Places
      BY <3>1, LogFacts
    <3>3. e[f] <= e[0] /\ e[LastFile] <= e[f + 1]
      BY <3>2, LogFacts DEF InSpans
    <3>4. e2[f] = e[f] /\ e2[f + 1] = e[f + 1] /\ e2[0] = e[0]
      BY <2>1, <3>2, LogFacts
    <3>5. /\ e[f] \in Nat /\ e[f + 1] \in Nat /\ e[0] \in Nat /\ e[LastFile] \in Nat
          /\ MaxSize \in Nat /\ e[f] - e[f + 1] >= MaxSize
      BY <1>0, <3>1, LogFacts DEF Big
    <3>6. e[0] - e[LastFile] >= MaxSize
      BY <3>3, <3>5
    <3>7. Big(e2, f)
      BY <3>4, <3>5 DEF Big
    <3> QED
      BY <2>1, <3>1, <3>4, <3>6, <3>7
  <2> QED
    BY <2>1, <2>2, <2>3, <2>4 DEF Good
<1> QED
  BY <1>1, <1>2

LEMMA StaysGood ==
  ASSUME NEW e \in Edges, Good(e), files' = files, accepted' = accepted, failures' = failures,
         handle' => handle /\ written' <= written,
         written \in Nat, written' \in Nat, accepted \in Nat,
         pc' # "rename", pc' = "open" => written' = 0
  PROVE  Good(e)'
<1>1. InSpans(e)'
  BY DEF InSpans, Good, Log!Numbers
<1>2. Safe(e)'
  BY DEF Safe, Good
<1>3. Counted(e)'
  <2>1. InSpans(e) /\ Counted(e)
    BY DEF Good
  <2>2. e[0] \in Nat /\ e[1] \in Nat
    BY LogFacts DEF Edges
  <2> QED
    BY <2>1, <2>2 DEF Counted
<1> QED
  BY <1>1, <1>2, <1>3 DEF Good

LEMMA EmptySpan == \A a \in Nat : Span(a, a) = <<>>
BY DEF Span

LEMMA GoodParts ==
  ASSUME LogInv
  PROVE  \E e \in Edges : Good(e) /\ InSpans(e) /\ Safe(e) /\ Counted(e) /\ LogTypes /\ Course
BY DEF LogInv, Good

LEMMA WriteKeeps ==
  ASSUME LogInv, Log!Write
  PROVE  \E e2 \in Edges : Good(e2)'
<1>1. PICK e \in Edges : Good(e) /\ InSpans(e) /\ Safe(e) /\ Counted(e) /\ LogTypes /\ Course
  BY GoodParts
<1>2. pc = "idle" /\ depth = 0 /\ Log!Begin /\ UNCHANGED <<depth, accepted, failures, runs>>
  BY <1>1 DEF Log!Write, Course
<1>3. CASE first
  <2>1. files' = files /\ handle' = handle /\ written' = written /\ written = 0 /\ pc' = "open"
    BY <1>1, <1>2, <1>3 DEF Log!Begin, Course
  <2> QED
    BY <1>1, <1>2, <2>1, StaysGood DEF LogTypes
<1>4. CASE ~first /\ ~Log!Rolls
  <2>1. files' = files /\ handle' = handle /\ written' = written /\ pc' = "write"
    BY <1>2, <1>4 DEF Log!Begin
  <2> QED
    BY <1>1, <1>2, <2>1, StaysGood DEF LogTypes
<1>5. CASE ~first /\ Log!Rolls
  <2>1. /\ files' \in {files, [files EXCEPT ![LastFile] = Log!Absent]}
        /\ handle' = FALSE /\ pc' = "rename" /\ from' = LastFile - 1
    BY <1>2, <1>5 DEF Log!Begin
  <2>2. written > MaxSize /\ handle
    BY <1>1, <1>2, <1>5, LogFacts DEF Log!Rolls, Course, LogTypes
  <2>3. Big(e, 0)
    <3>1. e[0] \in Nat /\ e[1] \in Nat /\ 0 + 1 = 1
      BY LogFacts DEF Edges
    <3> QED
      BY <1>1, <2>2, <3>1, LogFacts DEF Counted, Big, LogTypes
  <2>4. depth' \in Nat /\ failures' \in Nat /\ depth' <= failures' /\ failures <= failures'
    BY <1>1, <1>2 DEF LogTypes, Course
  <2>5. \E f \in Log!Numbers : Big(e, f) /\ f <= depth'
    BY <1>2, <2>3, LogFacts
  <2>6. accepted' = accepted
    BY <1>2
  <2> QED
    BY <1>1, <2>1, <2>4, <2>5, <2>6, RollKeeps
<1> QED
  BY <1>3, <1>4, <1>5

LEMMA OpenFailsKeeps ==
  ASSUME LogInv, Log!OpenFails
  PROVE  \E e2 \in Edges : Good(e2)'
<1>1. PICK e \in Edges : Good(e) /\ InSpans(e) /\ Safe(e) /\ Counted(e) /\ LogTypes /\ Course
  BY GoodParts
<1>2. ~first /\ Log!Rolls
  BY <1>1, LogFacts DEF Log!OpenFails, Log!Rolls, Course, LogTypes
<1>3. /\ files' \in {files, [files EXCEPT ![LastFile] = Log!Absent]}
      /\ handle' = FALSE /\ pc' = "rename" /\ from' = LastFile - 1
      /\ depth' = depth + 1 /\ failures' = failures + 1 /\ accepted' = accepted
  BY <1>2 DEF Log!OpenFails, Log!Begin
<1>4. /\ depth \in Nat /\ failures \in Nat /\ depth' \in Nat /\ failures' \in Nat
      /\ depth' <= failures' /\ failures <= failures'
  BY <1>1, <1>3 DEF LogTypes, Course
<1>5. failures' < LastFile => \E f \in Log!Numbers : Big(e, f) /\ f <= depth'
  BY <1>1, <1>3, <1>4, LogFacts DEF Safe, Log!OpenFails
<1> QED
  BY <1>1, <1>3, <1>4, <1>5, RollKeeps

LEMMA RenameKeeps ==
  ASSUME LogInv, Log!Rename
  PROVE  \E e2 \in Edges : Good(e2)'
<1>1. PICK e \in Edges : Good(e) /\ InSpans(e) /\ Safe(e) /\ Counted(e) /\ LogTypes /\ Course
  BY GoodParts
<1>0. /\ \A f \in Places : e[f] \in Nat
      /\ \A f \in Log!Numbers : e[f + 1] <= e[f]
      /\ e[0] = accepted /\ accepted \in Nat
  BY <1>1, EdgesAre
<1>2. /\ ~handle /\ from < LastFile /\ from \in Nat /\ from + 1 \in Log!Numbers
      /\ from \in Log!Numbers /\ from \in Places /\ from + 1 \in Places /\ from + 2 \in Places
      /\ depth \in Nat
  BY <1>1, LogFacts DEF Log!Rename, Course, LogTypes, Log!Numbers, Places
<1>3. /\ pc = "rename" /\ handle' = handle /\ depth' = depth /\ accepted' = accepted
      /\ failures' = failures /\ written' = written
      /\ \/ pc' = "open" /\ from = 0
         \/ pc' = "rename" /\ from' = from - 1 /\ from # 0
  BY DEF Log!Rename
<1>4. CASE files' = files
  <2>1. InSpans(e)'
    BY <1>1, <1>3, <1>4 DEF InSpans, Log!Numbers
  <2>2. Counted(e)'
    BY <1>2, <1>3 DEF Counted
  <2>3. Safe(e)'
    BY <1>1, <1>2, <1>3, LogFacts DEF Safe, Log!Numbers
  <2> QED
    BY <2>1, <2>2, <2>3 DEF Good
<1>5. CASE files' # files
  <2>1. /\ files[from] # Log!Absent /\ files[from + 1] = Log!Absent
        /\ files' = [files EXCEPT ![from] = Log!Absent, ![from + 1] = files[from]]
    BY <1>5 DEF Log!Rename, Log!Renamed, Log!Exists
  <2>2. e[from + 2] = e[from + 1]
    <3>1. PICK a, b \in Nat : a = e[from + 2] /\ b = e[from + 1] /\ a <= b
      <4>1. (from + 1) + 1 = from + 2
        BY <1>2
      <4> QED
        BY <1>0, <1>2, <4>1
    <3>2. Span(a, b) # Log!Absent
      BY <3>1, SpanIs
    <3>3. (from + 1) + 1 = from + 2
      BY <1>2
    <3> QED
      BY <1>1, <1>2, <2>1, <3>1, <3>2, <3>3 DEF InSpans
  <2>0. Moved(e, from) \in Edges
    BY <1>1, <1>2, MovedIs
  <2> PICK e2 \in Edges : e2 = Moved(e, from)
    BY <2>0
  <2>3. /\ e2 \in Edges /\ e2[from + 1] = e[from]
        /\ \A g \in Places : g # from + 1 => e2[g] = e[g]
    BY <1>1, <1>2, MovedIs
  <2>4. \A g, h \in Places : g <= h => e2[h] <= e2[g]
    BY <1>1, <1>2, <2>2, MovedInOrder
  <2>5. InSpans(e2)'
    <3>1. ASSUME NEW f \in Log!Numbers
          PROVE  \/ files'[f] = Span(e2[f + 1], e2[f])
                 \/ files'[f] = Log!Absent /\ e2[f + 1] = e2[f]
      <4>0. f \in Places /\ f + 1 \in Places /\ f \in Nat
        BY LogFacts
      <4>1. CASE f = from
        <5>1. files'[f] = Log!Absent
          BY <1>1, <1>2, <2>1, <4>1 DEF LogTypes
        <5>2. e2[f + 1] = e[from] /\ e2[f] = e[from]
          BY <1>2, <2>3, <4>1
        <5> QED
          BY <5>1, <5>2
      <4>2. CASE f = from + 1
        <5>1. files'[f] = files[from]
          BY <1>1, <1>2, <2>1, <4>2 DEF LogTypes
        <5>2. files[from] = Span(e[from + 1], e[from])
          BY <1>1, <1>2, <2>1, FileIs
        <5>3. e2[f] = e[from] /\ e2[f + 1] = e[from + 1]
          <6>1. f + 1 = from + 2 /\ from + 2 # from + 1
            BY <1>2, <4>2
          <6> QED
            BY <1>2, <2>2, <2>3, <4>2, <6>1
        <5> QED
          BY <5>1, <5>2, <5>3
      <4>3. CASE f # from /\ f # from + 1
        <5>1. files'[f] = files[f]
          BY <1>1, <1>2, <2>1, <4>3 DEF LogTypes
        <5>2. e2[f + 1] = e[f + 1] /\ e2[f] = e[f]
          BY <1>2, <2>3, <4>0, <4>3
        <5> QED
          BY <1>1, <5>1, <5>2 DEF InSpans
      <4> QED
        BY <4>1, <4>2, <4>3
    <3>2. e2[0] = accepted'
      BY <1>0, <1>2, <1>3, <2>3, LogFacts
    <3> QED
      BY <2>4, <3>1, <3>2 DEF InSpans, Log!Numbers
  <2>6. Counted(e2)'
    BY <1>2, <1>3 DEF Counted
  <2>7. Safe(e2)'
    <3> SUFFICES ASSUME failures < LastFile PROVE Safe(e2)'
      BY <1>3 DEF Safe
    <3>1. PICK f \in Log!Numbers :
            Big(e, f) /\ (f <= depth \/ (f = depth + 1 /\ f >= from + 2))
      BY <1>1, <1>3 DEF Safe
    <3>2. e2[0] = e[0] /\ e2[LastFile + 1] = e[LastFile + 1]
      BY <1>2, <2>3, LogFacts
    <3>3. e2[LastFile + 1] > 0 => e2[0] - e2[LastFile + 1] >= MaxSize
      BY <1>1, <3>2 DEF Safe
    <3>4. PICK g \in Log!Numbers :
            Big(e2, g) /\ (g <= depth \/ (g = depth + 1 /\ g >= from + 1))
      <4>0. /\ f \in Places /\ f + 1 \in Places /\ f \in Nat /\ e[f] - e[f + 1] >= MaxSize
            /\ MaxSize \in Nat /\ MaxSize > 0
        BY <3>1, LogFacts DEF Big
      <4>1. f # from + 1
        <5>1. CASE f = from + 1
          <6>1. f + 1 = from + 2
            BY <1>2, <5>1
          <6>2. e[f] = e[f + 1] /\ e[f] \in Nat
            BY <1>0, <2>2, <4>0, <5>1, <6>1
          <6> QED
            BY <4>0, <6>2
        <5> QED
          BY <5>1
      <4>2. CASE f = from
        <5>1. e2[from + 1] = e[from] /\ e2[(from + 1) + 1] = e[from + 1]
          <6>1. (from + 1) + 1 = from + 2 /\ from + 2 # from + 1
            BY <1>2
          <6> QED
            BY <1>2, <2>2, <2>3, <6>1
        <5>2. Big(e2, from + 1)
          BY <4>0, <4>2, <5>1 DEF Big
        <5>3. f <= depth
          BY <1>2, <3>1, <4>2
        <5> QED
          BY <1>2, <4>2, <5>2, <5>3
      <4>3. CASE f # from
        <5>1. e2[f] = e[f] /\ e2[f + 1] = e[f + 1]
          BY <1>2, <2>3, <4>0, <4>1, <4>3
        <5>2. Big(e2, f)
          BY <4>0, <5>1 DEF Big
        <5> QED
          BY <1>2, <3>1, <4>0, <5>2
      <4> QED
        BY <4>2, <4>3
    <3>5. g <= depth + 1
      BY <1>2, <3>4, LogFacts
    <3>6. pc' = "rename" => g <= depth' \/ (g = depth' + 1 /\ g >= from' + 2)
      BY <1>2, <1>3, <3>4, LogFacts
    <3>7. Big(e2, g)' /\ g \in Log!Numbers' /\ g <= depth' + 1
      BY <1>3, <3>4, <3>5 DEF Big, Log!Numbers
    <3> QED
      BY <3>3, <3>6, <3>7 DEF Safe
  <2> QED
    BY <2>3, <2>5, <2>6, <2>7 DEF Good
<1> QED
  BY <1>4, <1>5

LEMMA OpenSucceedsKeeps ==
  ASSUME LogInv, Log!OpenSucceeds
  PROVE  \E e2 \in Edges : Good(e2)'
<1>1. PICK e \in Edges : Good(e) /\ InSpans(e) /\ Safe(e) /\ Counted(e) /\ LogTypes /\ Course
  BY GoodParts
<1>2. /\ accepted' = accepted /\ failures' = failures /\ written' = 1 /\ pc' = "write"
      /\ files' = [files EXCEPT ![0] = IF files[0] # Log!Absent THEN files[0] ELSE <<>>]
  BY DEF Log!OpenSucceeds, Log!Opened, Log!Exists
<1>3. /\ files'[0] = IF files[0] # Log!Absent THEN files[0] ELSE <<>>
      /\ \A f \in Log!Numbers : f # 0 => files'[f] = files[f]
  BY <1>1, <1>2, LogFacts DEF LogTypes
<1>4. e[0] \in Nat /\ e[1] \in Nat /\ e[1] <= e[0] /\ 0 + 1 = 1
  BY <1>1, LogFacts DEF Edges, InSpans
<1>5. files'[0] = Span(e[1], e[0])
  <2>1. CASE files[0] # Log!Absent
    BY <1>1, <1>3, <1>4, <2>1, LogFacts DEF InSpans
  <2>2. CASE files[0] = Log!Absent
    <3>1. PICK a, b \in Nat : a = e[1] /\ b = e[0] /\ a <= b
      BY <1>4
    <3>2. Span(a, b) # Log!Absent
      BY <3>1, SpanIs
    <3>3. e[1] = e[0]
      BY <1>1, <1>4, <2>2, <3>1, <3>2, LogFacts DEF InSpans
    <3> QED
      BY <1>3, <1>4, <2>2, <3>3, EmptySpan
  <2> QED
    BY <2>1, <2>2
<1>6. InSpans(e)'
  <2>1. ASSUME NEW f \in Log!Numbers
        PROVE  \/ files'[f] = Span(e[f + 1], e[f])
               \/ files'[f] = Log!Absent /\ e[f + 1] = e[f]
    BY <1>1, <1>3, <1>4, <1>5 DEF InSpans
  <2> QED
    BY <1>1, <1>2, <2>1 DEF InSpans, Log!Numbers
<1>7. Safe(e)'
  BY <1>1, <1>2 DEF Safe
<1>8. Counted(e)'
  <2>1. PICK a, b \in Nat : a = e[1] /\ b = e[0] /\ a <= b
    BY <1>4
  <2>2. Span(a, b) # Log!Absent
    BY <2>1, SpanIs
  <2> QED
    BY <1>2, <1>5, <2>1, <2>2 DEF Counted
<1> QED
  BY <1>6, <1>7, <1>8 DEF Good

LEMMA WriteRecordKeeps ==
  ASSUME LogInv, Log!WriteRecord
  PROVE  \E e2 \in Edges : Good(e2)'
<1>1. PICK e \in Edges : Good(e) /\ InSpans(e) /\ Safe(e) /\ Counted(e) /\ LogTypes /\ Course
  BY GoodParts
<1>2. /\ handle' = handle /\ failures' = failures /\ pc' \in {"idle", "write"}
      /\ written \in Nat /\ accepted \in Nat
  BY <1>1 DEF Log!WriteRecord, LogTypes
<1>3. CASE UNCHANGED <<files, accepted>>
  <2>1. CASE handle
    <3>1. /\ written' \in {written, 0} \/ (handle /\ accepted < MaxRecords /\ accepted' = accepted + 1)
      BY DEF Log!WriteRecord
    <3>2. written' \in Nat /\ written' <= written
      BY <1>2, <1>3, <3>1
    <3> QED
      BY <1>1, <1>2, <1>3, <2>1, <3>2, StaysGood
  <2>2. CASE ~handle
    <3>1. written' \in Nat
      BY <1>2, <2>2 DEF Log!WriteRecord
    <3> QED
      BY <1>1, <1>2, <1>3, <2>2, <3>1, StaysGood
  <2> QED
    BY <2>1, <2>2
<1>4. CASE handle /\ accepted' = accepted + 1 /\ files' = [files EXCEPT ![0] = Append(@, accepted')]
  <2>0. PICK a, b \in Nat : a = e[1] /\ b = e[0] /\ a <= b /\ b = accepted /\ 0 + 1 = 1
    BY <1>1, LogFacts DEF Edges, InSpans
  <2>1. files[0] = Span(a, b)
    BY <1>1, <1>4, <2>0, LogFacts DEF Counted, InSpans
  <2>2. Append(Span(a, b), b + 1) = Span(a, b + 1)
    BY <2>0, SpanIs
  <2>3. /\ files'[0] = Span(a, b + 1)
        /\ \A f \in Log!Numbers : f # 0 => files'[f] = files[f]
    BY <1>1, <1>4, <2>0, <2>1, <2>2, LogFacts DEF LogTypes
  <2>4. [e EXCEPT ![0] = b + 1] \in Edges
    <3>1. \A n \in Nat : [e EXCEPT ![0] = n] \in Edges
      BY DEF Edges
    <3> QED
      BY <2>0, <3>1, b + 1 \in Nat
  <2> PICK e2 \in Edges : e2 = [e EXCEPT ![0] = b + 1]
    BY <2>4
  <2>5. /\ e2[0] = b + 1 /\ \A f \in Places : f # 0 => e2[f] = e[f]
        /\ \A f \in Places : e[f] \in Nat
    BY LogFacts DEF Edges
  <2>6. InSpans(e2)'
    <3>1. ASSUME NEW f \in Places, NEW g \in Places, f <= g PROVE e2[g] <= e2[f]
      <4>0. e[g] <= e[f] /\ e[f] <= e[0] /\ e[g] <= e[0] /\ f \in Nat /\ g \in Nat
        BY <1>1, <3>1, LogFacts DEF InSpans
      <4>1. CASE f = 0 /\ g = 0
        BY <2>0, <2>5, <4>1
      <4>2. CASE f = 0 /\ g # 0
        BY <2>0, <2>5, <4>0, <4>2
      <4>3. CASE f # 0
        BY <2>5, <3>1, <4>0, <4>3
      <4> QED
        BY <4>1, <4>2, <4>3
    <3>2. ASSUME NEW f \in Log!Numbers
          PROVE  \/ files'[f] = Span(e2[f + 1], e2[f])
                 \/ files'[f] = Log!Absent /\ e2[f + 1] = e2[f]
      <4>0. f \in Places /\ f + 1 \in Places /\ f + 1 # 0
        BY LogFacts
      <4>1. e2[f + 1] = e[f + 1]
        BY <2>5, <4>0
      <4>2. CASE f = 0
        BY <2>0, <2>3, <2>5, <4>1, <4>2
      <4>3. CASE f # 0
        <5>1. e2[f] = e[f] /\ files'[f] = files[f]
          BY <2>3, <2>5, <4>0, <4>3
        <5> QED
          BY <1>1, <4>1, <5>1 DEF InSpans
      <4> QED
        BY <4>2, <4>3
    <3>3. e2[0] = accepted'
      BY <1>4, <2>0, <2>5
    <3> QED
      BY <3>1, <3>2, <3>3 DEF InSpans, Log!Numbers
  <2>7. Safe(e2)'
    <3>1. e2[LastFile + 1] = e[LastFile + 1] /\ e[LastFile + 1] \in Nat /\ LastFile + 1 # 0
      BY <2>5, LogFacts
    <3>2. e[0] - e[LastFile + 1] >= MaxSize => e2[0] - e2[LastFile + 1] >= MaxSize
      BY <2>0, <2>5, <3>1, LogFacts
    <3> QED
      BY <1>1, <1>2, <3>1, <3>2 DEF Safe
  <2>8. Counted(e2)'
    <3>1. Span(a, b + 1) # Log!Absent
      BY <2>0, SpanIs, b + 1 \in Nat, a <= b + 1
    <3>2. e2[1] = a /\ e2[0] = b + 1
      BY <2>0, <2>5, LogFacts
    <3>3. written <= b - a + 1
      BY <1>1, <1>4, <2>0 DEF Counted
    <3>4. written' \in {written + 1, 0}
      BY <1>4, <2>0 DEF Log!WriteRecord
    <3>5. written' <= (b + 1) - a + 1
      BY <1>2, <2>0, <3>3, <3>4
    <3> QED
      BY <2>3, <3>1, <3>2, <3>5 DEF Counted
  <2> QED
    BY <2>6, <2>7, <2>8 DEF Good
<1> QED
  BY <1>3, <1>4 DEF Log!WriteRecord

LEMMA OthersKeep ==
  ASSUME LogInv, Log!FirstOpenFails \/ Log!Restart \/ UNCHANGED Log!vars
  PROVE  \E e2 \in Edges : Good(e2)'
<1>1. PICK e \in Edges : Good(e) /\ InSpans(e) /\ Safe(e) /\ Counted(e) /\ LogTypes /\ Course
  BY GoodParts
<1>2. CASE Log!FirstOpenFails
  BY <1>1, <1>2, StaysGood DEF Log!FirstOpenFails, LogTypes, Course
<1>3. CASE Log!Restart
  BY <1>1, <1>3, StaysGood DEF Log!Restart, LogTypes
<1>4. CASE UNCHANGED Log!vars
  <2>1. Good(e)'
    BY <1>1, <1>4 DEF Good, InSpans, Safe, Counted, Log!vars, Log!writer, Log!Numbers
  <2> QED
    BY <2>1
<1> QED
  BY <1>2, <1>3, <1>4

LEMMA LogStep == LogInv /\ [Log!Next]_(Log!vars) => LogInv'
<1> SUFFICES ASSUME LogInv, [Log!Next]_(Log!vars) PROVE LogInv'
  OBVIOUS
<1>0. LogTypes /\ Course
  BY DEF LogInv
<1>1. \E e2 \in Edges : Good(e2)'
  BY WriteKeeps, RenameKeeps, OpenSucceedsKeeps, OpenFailsKeeps, WriteRecordKeeps, OthersKeep
     DEF Log!Next
<1>2. LogTypes'
  <2>1. files' = [f \in Log!Numbers |-> files'[f]]
    <3>1. \A g, x : [files EXCEPT ![g] = x] = [f \in Log!Numbers |-> [files EXCEPT ![g] = x][f]]
      BY <1>0 DEF LogTypes
    <3>2. \/ files' = files
          \/ \E g, x : files' = [files EXCEPT ![g] = x]
          \/ \E g, x, h, y : files' = [files EXCEPT ![g] = x, ![h] = y]
      BY DEF Log!Next, Log!Write, Log!Begin, Log!Rename, Log!Renamed, Log!OpenSucceeds,
             Log!FirstOpenFails, Log!OpenFails, Log!WriteRecord, Log!Restart, Log!vars
    <3> QED
      BY <1>0, <3>1, <3>2 DEF LogTypes
  <2>2. /\ handle' \in BOOLEAN /\ first' \in BOOLEAN /\ written' \in Nat
        /\ pc' \in {"idle", "rename", "open", "write"}
    <3>1. handle' \in BOOLEAN /\ first' \in BOOLEAN
      BY <1>0, Zenon DEF LogTypes, Log!Next, Log!Write, Log!Begin, Log!Rename, Log!OpenSucceeds,
                Log!FirstOpenFails, Log!OpenFails, Log!WriteRecord, Log!Restart,
                Log!vars, Log!writer
    <3>2. written' \in Nat
      BY <1>0 DEF LogTypes, Log!Next, Log!Write, Log!Begin, Log!Rename, Log!OpenSucceeds,
                Log!FirstOpenFails, Log!OpenFails, Log!WriteRecord, Log!Restart,
                Log!vars, Log!writer
    <3>3. pc' \in {"idle", "rename", "open", "write"}
      BY <1>0 DEF LogTypes, Log!Next, Log!Write, Log!Begin, Log!Rename, Log!OpenSucceeds,
                Log!FirstOpenFails, Log!OpenFails, Log!WriteRecord, Log!Restart,
                Log!vars, Log!writer
    <3> QED
      BY <3>1, <3>2, <3>3
  <2>3. LastFile - 1 \in Log!Numbers /\ \A f \in Log!Numbers : f # 0 => f - 1 \in Log!Numbers
    BY LogFacts DEF Log!Numbers
  <2>4. from' \in Log!Numbers
    BY <1>0, <2>3, LogFacts DEF LogTypes, Log!Next, Log!Write, Log!Begin, Log!Rename,
       Log!OpenSucceeds, Log!FirstOpenFails, Log!OpenFails, Log!WriteRecord, Log!Restart,
       Log!vars, Log!writer
  <2>5. depth' \in Nat /\ accepted' \in Nat /\ failures' \in Nat
    BY <1>0 DEF LogTypes, Log!Next, Log!Write, Log!Begin, Log!Rename, Log!OpenSucceeds,
                Log!FirstOpenFails, Log!OpenFails, Log!WriteRecord, Log!Restart,
                Log!vars, Log!writer
  <2> QED
    BY <2>1, <2>2, <2>4, <2>5 DEF LogTypes, Log!Numbers
<1>3. Course'
  <2> USE <1>0, LogFacts DEF Course, LogTypes
  <2>1. CASE Log!Write
    BY <2>1 DEF Log!Write, Log!Begin, Log!Rolls
  <2>2. CASE Log!Rename
    BY <2>2 DEF Log!Rename
  <2>3. CASE Log!OpenSucceeds
    BY <2>3 DEF Log!OpenSucceeds
  <2>4. CASE Log!FirstOpenFails
    BY <2>4 DEF Log!FirstOpenFails
  <2>5. CASE Log!OpenFails
    BY <2>5 DEF Log!OpenFails, Log!Begin, Log!Rolls
  <2>6. CASE Log!WriteRecord
    BY <2>6 DEF Log!WriteRecord
  <2>7. CASE Log!Restart
    BY <2>7 DEF Log!Restart
  <2>8. CASE UNCHANGED Log!vars
    BY <2>8 DEF Log!vars, Log!writer
  <2> QED
    BY <2>1, <2>2, <2>3, <2>4, <2>5, <2>6, <2>7, <2>8 DEF Log!Next
<1> QED
  BY <1>1, <1>2, <1>3 DEF LogInv, Edges, Places

\* Whatever system calls fail and wherever processes die, the files of the log hold its
\* newest records in order, and a full file of them unless as many opens failed as there
\* are old files.
THEOREM NewestIsKept == Log!Spec => []NewestKept
BY LogInit, LogStep, NewestAre, PTL DEF Log!Spec

-----------------------------------------------------------------------------
(* Tables.  After() and FlattenSeq() are recursive functions: first, that  *)
(* a line, or a table, more does what their equations say.                 *)

Begins == [mode |-> "scan", tables |-> <<>>]

\* g is what After(how, lines) computes, up to line n.
Continues(g, how, lines, n) ==
  \A i \in 0..n : g[i] = IF i = 0 THEN Begins ELSE Sheet!ReadLine(how, g[i - 1], lines[i])
Follows(g, how, lines, n) == g = [i \in 0..n |-> g[i]] /\ Continues(g, how, lines, n)

LEMMA FollowsLonger ==
  ASSUME NEW how, NEW lines, NEW n \in Nat, NEW g, Follows(g, how, lines, n)
  PROVE  \E h : Follows(h, how, lines, n + 1)
<1>1. PICK h : h = [i \in 0..(n + 1) |->
                      IF i <= n THEN g[i] ELSE Sheet!ReadLine(how, g[n], lines[n + 1])]
  OBVIOUS
<1>2. h = [i \in 0..(n + 1) |-> h[i]]
  BY <1>1
<1>3. ASSUME NEW i \in 0..(n + 1)
      PROVE  h[i] = IF i = 0 THEN Begins ELSE Sheet!ReadLine(how, h[i - 1], lines[i])
  <2>1. CASE i <= n
    <3>1. h[i] = g[i] /\ (i # 0 => h[i - 1] = g[i - 1])
      BY <1>1, <2>1
    <3>2. Continues(g, how, lines, n) /\ i \in 0..n
      BY <2>1 DEF Follows
    <3> QED
      BY <2>1, <3>1, <3>2 DEF Continues
  <2>2. CASE i = n + 1
    <3>1. h[n + 1] = Sheet!ReadLine(how, g[n], lines[n + 1]) /\ h[n] = g[n]
      BY <1>1
    <3>2. i # 0 /\ i - 1 = n
      BY <2>2
    <3> QED
      BY <2>2, <3>1, <3>2
  <2> QED
    BY <2>1, <2>2
<1> QED
  BY <1>2, <1>3 DEF Follows, Continues

LEMMA AfterIs ==
  ASSUME NEW how, NEW lines, Len(lines) \in Nat
  PROVE  \E g : Follows(g, how, lines, Len(lines)) /\ Sheet!After(how, lines) = g[Len(lines)]
<1> DEFINE T == {n \in Nat : \E g : Follows(g, how, lines, n)}
<1>1. 0 \in T
  <2>1. PICK g : g = [i \in 0..0 |-> Begins]
    OBVIOUS
  <2>2. Follows(g, how, lines, 0)
    BY <2>1 DEF Follows, Continues
  <2> QED
    BY <2>2
<1>2. \A n \in T : n + 1 \in T
  BY FollowsLonger
<1>3. T \in SUBSET Nat
  OBVIOUS
<1>4. \A n \in T : \E g : Follows(g, how, lines, n)
  OBVIOUS
<1> HIDE DEF T
<1>5. T = Nat
  BY <1>1, <1>2, <1>3, SetInduction
<1>6. \E g : Follows(g, how, lines, Len(lines))
  BY <1>4, <1>5
<1>7. \A g : Follows(g, how, lines, Len(lines)) <=>
             g = [i \in 0..Len(lines) |->
                    IF i = 0 THEN Begins ELSE Sheet!ReadLine(how, g[i - 1], lines[i])]
  BY DEF Follows, Continues
<1> QED
  BY <1>6, <1>7 DEF Sheet!After, Begins

LEMMA FollowsUnique ==
  ASSUME NEW how, NEW lines, NEW longer, NEW m \in Nat, NEW n \in Nat, m <= n,
         \A i \in 1..m : lines[i] = longer[i],
         NEW g, NEW h, Follows(g, how, lines, m), Follows(h, how, longer, n)
  PROVE  g[m] = h[m]
<1>0. Continues(g, how, lines, m) /\ Continues(h, how, longer, n)
  BY DEF Follows
<1> DEFINE T == {k \in Nat : k <= m => g[k] = h[k]}
<1>1. 0 \in T
  BY <1>0 DEF Continues
<1>2. ASSUME NEW k \in T PROVE k + 1 \in T
  <2> SUFFICES ASSUME k + 1 <= m PROVE g[k + 1] = h[k + 1]
    OBVIOUS
  <2>1. g[k] = h[k]
    OBVIOUS
  <2>2. k + 1 \in 0..m /\ k + 1 \in 0..n /\ k + 1 \in 1..m /\ k + 1 # 0 /\ (k + 1) - 1 = k
    OBVIOUS
  <2> QED
    BY <1>0, <2>1, <2>2 DEF Continues
<1>3. T \in SUBSET Nat /\ \A k \in T : k <= m => g[k] = h[k]
  OBVIOUS
<1> HIDE DEF T
<1>4. T = Nat
  BY <1>1, <1>2, <1>3, SetInduction
<1> QED
  BY <1>3, <1>4

LEMMA AfterNothing == \A how : Sheet!After(how, <<>>) = Begins
<1> SUFFICES ASSUME NEW how PROVE Sheet!After(how, <<>>) = Begins
  OBVIOUS
<1>1. Len(<<>>) = 0
  OBVIOUS
<1>2. PICK g : Follows(g, how, <<>>, 0) /\ Sheet!After(how, <<>>) = g[0]
  BY <1>1, AfterIs
<1> QED
  BY <1>2 DEF Follows, Continues

LEMMA AfterLine ==
  ASSUME NEW how, NEW S, NEW lines \in Seq(S), NEW line \in S
  PROVE  Sheet!After(how, Append(lines, line)) =
           Sheet!ReadLine(how, Sheet!After(how, lines), line)
<1>1. PICK n \in Nat : n = Len(lines)
  BY LenProperties
<1>2. PICK longer : longer = Append(lines, line)
  OBVIOUS
<1>3. Len(longer) = n + 1 /\ longer[n + 1] = line /\ \A i \in 1..n : lines[i] = longer[i]
  BY <1>1, <1>2, AppendProperties
<1>4. PICK g : Follows(g, how, lines, n) /\ Sheet!After(how, lines) = g[n]
  BY <1>1, AfterIs
<1>5. PICK h : Follows(h, how, longer, n + 1) /\ Sheet!After(how, longer) = h[n + 1]
  BY <1>3, AfterIs
<1>6. g[n] = h[n]
  BY <1>3, <1>4, <1>5, FollowsUnique
<1>7. n + 1 \in 0..(n + 1) /\ n + 1 # 0 /\ (n + 1) - 1 = n
  OBVIOUS
<1>8. h[n + 1] = Sheet!ReadLine(how, h[n], longer[n + 1])
  BY <1>5, <1>7 DEF Follows, Continues
<1> QED
  BY <1>2, <1>3, <1>4, <1>5, <1>6, <1>8

LEMMA FlattenOne == \A s : Sheet!FlattenSeq(<<s>>) = s
<1> SUFFICES ASSUME NEW s PROVE Sheet!FlattenSeq(<<s>>) = s
  OBVIOUS
<1> DEFINE IsFlat(f) == f = [i \in 1..1 |-> IF i = 1 THEN <<s>>[i] ELSE f[i - 1] \o <<s>>[i]]
<1>1. Len(<<s>>) = 1 /\ <<s>>[1] = s
  OBVIOUS
<1>2. IsFlat([i \in 1..1 |-> s])
  BY <1>1
<1>3. \A f : IsFlat(f) => f[1] = s
  BY <1>1
<1> QED
  BY <1>1, <1>2, <1>3 DEF Sheet!FlattenSeq

Join(s, t) == s \o t

LEMMA FlattenTwo == \A s, t : Sheet!FlattenSeq(<<s, t>>) = s \o t
<1> SUFFICES ASSUME NEW s, NEW t PROVE Sheet!FlattenSeq(<<s, t>>) = s \o t
  OBVIOUS
<1> PICK ss : ss = <<s, t>>
  OBVIOUS
<1> DEFINE Flat(f) == [i \in 1..Len(ss) |-> IF i = 1 THEN ss[i] ELSE Join(f[i - 1], ss[i])]
<1>1. Len(ss) = 2 /\ ss[1] = s /\ ss[2] = t
  OBVIOUS
<1>2. \E f : f = Flat(f)
  <2>1. PICK f : f = [i \in 1..2 |-> IF i = 1 THEN s ELSE Join(s, t)]
    OBVIOUS
  <2>2. f = Flat(f)
    BY <1>1, <2>1
  <2> QED
    BY <2>2
<1>3. ASSUME NEW f, f = Flat(f) PROVE f[2] = Join(s, t)
  <2>1. \A i \in 1..2 : f[i] = IF i = 1 THEN ss[i] ELSE Join(f[i - 1], ss[i])
    BY <1>1, <1>3
  <2>2. f[1] = s /\ f[2] = Join(f[1], t)
    BY <1>1, <2>1
  <2> QED
    BY <2>2
<1>4. Sheet!FlattenSeq(ss) = (CHOOSE f : f = Flat(f))[Len(ss)]
  BY <1>1 DEF Sheet!FlattenSeq, Join
<1> HIDE DEF Flat
<1> QED
  BY <1>1, <1>2, <1>3, <1>4 DEF Join

(* Lines, fields and tables. *)

Row    == Seq(Nat)
Words  == Names \cup {"MEL::Table", "n_rows", "n_cols", "other", "a"}
Titles == Words \X Nat  \* of columns, with the \r at their ends
Fields == ({"text"} \X Words \X Nat) \cup ({"number"} \X Nat \X Nat)
Lines  == Seq(Fields)
Sheets == [name : Words, cols : Seq(Titles), rows : Seq(Row)]

Whole(cols, rws) == cols # <<>> /\ \A i \in DOMAIN rws : Len(rws[i]) = Len(cols)

SixRow(row)   == [j \in DOMAIN row |-> Sheet!Rounded(row[j])]
RowLine(row)  == [j \in DOMAIN row |-> Sheet!Number(Sheet!Rounded(row[j]))]
SixRows(rws)  == [i \in DOMAIN rws |-> SixRow(rws[i])]
RowLines(rws) == [i \in DOMAIN rws |-> RowLine(rws[i])]
NameLine(cols) == [j \in DOMAIN cols |-> Sheet!Named(cols[j])]

LEMMA RoundedIs == \A v \in Nat : Sheet!Rounded(v) \in Nat
<1>1. \A v \in Nat : (v + 5) \div 10 \in Nat
  OBVIOUS
<1> QED
  BY <1>1 DEF Sheet!Rounded

LEMMA MapSeq ==
  ASSUME NEW S, NEW T, NEW s \in Seq(S), NEW f, f = [i \in DOMAIN s |-> f[i]],
         \A i \in DOMAIN s : f[i] \in T
  PROVE  f \in Seq(T) /\ Len(f) = Len(s) /\ DOMAIN f = DOMAIN s
<1>1. PICK n \in Nat : n = Len(s)
  BY LenProperties
<1>2. DOMAIN s = 1..n
  BY <1>1, LenProperties
<1>3. f \in [1..n -> T]
  BY <1>2
<1>4. f \in Seq(T)
  BY <1>3, SeqDef
<1>5. Len(f) = n
  BY <1>3, <1>4, LenProperties
<1> QED
  BY <1>1, <1>2, <1>3, <1>4, <1>5

LEMMA RowLineIs ==
  ASSUME NEW row \in Row
  PROVE  /\ RowLine(row) \in Lines /\ Len(RowLine(row)) = Len(row)
         /\ SixRow(row) \in Row /\ Len(SixRow(row)) = Len(row)
<1>0. row \in Seq(Nat)
  BY DEF Row
<1>1. \A i \in DOMAIN row : row[i] \in Nat
  BY <1>0, ElementOfSeq, LenProperties
<1>2. \A i \in DOMAIN row : RowLine(row)[i] = Sheet!Number(Sheet!Rounded(row[i]))
  BY DEF RowLine
<1>3. \A i \in DOMAIN row : SixRow(row)[i] = Sheet!Rounded(row[i])
  BY DEF SixRow
<1>4. \A v \in Nat : Sheet!Number(v) \in Fields
  BY DEF Sheet!Number, Fields
<1>5. RowLine(row) = [j \in DOMAIN row |-> RowLine(row)[j]]
  BY DEF RowLine
<1>6. SixRow(row) = [j \in DOMAIN row |-> SixRow(row)[j]]
  BY DEF SixRow
<1>7. \A i \in DOMAIN row : RowLine(row)[i] \in Fields /\ SixRow(row)[i] \in Nat
  BY <1>1, <1>2, <1>3, <1>4, RoundedIs
<1>8. /\ RowLine(row) \in Seq(Fields) /\ Len(RowLine(row)) = Len(row)
      /\ DOMAIN RowLine(row) = DOMAIN row
  BY <1>0, <1>5, <1>7, MapSeq
<1>9. SixRow(row) \in Row /\ Len(SixRow(row)) = Len(row)
  BY <1>0, <1>6, <1>7, MapSeq DEF Row
<1> QED
  BY <1>8, <1>9 DEF Lines

\* The \r behind a row's last number is not part of it.
LEMMA RowGot ==
  ASSUME NEW how, NEW row \in Row, row # <<>>, NEW line, line = Sheet!Got(how.build, RowLine(row))
  PROVE  /\ Len(line) = Len(row) /\ line # <<>>
         /\ [j \in DOMAIN line |-> Sheet!ToNumber(how, line[j])] = SixRow(row)
<1>1. PICK l \in Lines : l = RowLine(row) /\ Len(l) = Len(row)
  BY RowLineIs
<1>2. PICK n \in Nat : n = Len(row) /\ n # 0 /\ DOMAIN row = 1..n
  BY LenProperties, EmptySeq DEF Row
<1>3. l \in Seq(Fields) /\ DOMAIN l = 1..n /\ l # <<>> /\ n \in 1..n
  BY <1>1, <1>2, LenProperties, EmptySeq DEF Lines
<1>4. \A j \in 1..n : l[j] = <<"number", Sheet!Rounded(row[j]), 0>>
  BY <1>1, <1>2 DEF RowLine, Sheet!Number
<1>5. SixRow(row) = [j \in 1..n |-> Sheet!Rounded(row[j])]
  BY <1>2 DEF SixRow
<1>8. \A v, k : Sheet!ToNumber(how, <<"number", v, k>>) = v
  BY DEF Sheet!ToNumber
<1>6. CASE how.build = "windows"
  <2>1. line = l
    BY <1>1, <1>6 DEF Sheet!Got
  <2>2. \A j \in 1..n : Sheet!ToNumber(how, l[j]) = Sheet!Rounded(row[j])
    BY <1>4, <1>8
  <2> QED
    BY <1>1, <1>2, <1>3, <1>5, <2>1, <2>2
<1>7. CASE how.build # "windows"
  <2>1. PICK e : e = <<"number", Sheet!Rounded(row[n]), 1>>
    OBVIOUS
  <2>2. line = [l EXCEPT ![n] = e]
    <3>1. Sheet!Ended(l[n]) = e
      BY <1>3, <1>4, <2>1 DEF Sheet!Ended
    <3> QED
      BY <1>1, <1>2, <1>3, <1>7, <3>1 DEF Sheet!Got
  <2>3. /\ DOMAIN line = 1..n /\ line[n] = e /\ line = [j \in 1..n |-> line[j]]
        /\ \A j \in 1..n : j # n => line[j] = l[j]
    BY <1>3, <2>2
  <2>4. \A j \in 1..n : Sheet!ToNumber(how, line[j]) = Sheet!Rounded(row[j])
    <3> SUFFICES ASSUME NEW j \in 1..n
                 PROVE  Sheet!ToNumber(how, line[j]) = Sheet!Rounded(row[j])
      OBVIOUS
    <3>1. CASE j = n
      BY <1>8, <2>1, <2>3, <3>1
    <3>2. CASE j # n
      <4>1. line[j] = <<"number", Sheet!Rounded(row[j]), 0>>
        BY <1>4, <2>3, <3>2
      <4> QED
        BY <1>8, <4>1
    <3> QED
      BY <3>1, <3>2
  <2>5. line \in Seq({line[j] : j \in 1..n})
    BY <2>3, SeqDef
  <2>6. Len(line) = n
    BY <2>3, <2>5, LenProperties
  <2>7. line # <<>>
    BY <1>2, <2>5, <2>6, EmptySeq
  <2> QED
    BY <1>2, <1>5, <2>3, <2>4, <2>6, <2>7
<1> QED
  BY <1>6, <1>7

LEMMA RowsAre ==
  ASSUME NEW rws \in Seq(Row)
  PROVE  /\ RowLines(rws) \in Seq(Lines) /\ SixRows(rws) \in Seq(Row)
         /\ \A row \in Row :
              /\ RowLines(Append(rws, row)) = Append(RowLines(rws), RowLine(row))
              /\ SixRows(Append(rws, row)) = Append(SixRows(rws), SixRow(row))
<1>0. \A i \in DOMAIN rws : rws[i] \in Row
  BY ElementOfSeq, LenProperties
<1>1. RowLines(rws) = [i \in DOMAIN rws |-> RowLines(rws)[i]]
  BY DEF RowLines
<1>2. SixRows(rws) = [i \in DOMAIN rws |-> SixRows(rws)[i]]
  BY DEF SixRows
<1>3. \A i \in DOMAIN rws : RowLines(rws)[i] \in Lines /\ SixRows(rws)[i] \in Row
  BY <1>0, RowLineIs DEF RowLines, SixRows
<1>4. RowLines(rws) \in Seq(Lines) /\ Len(RowLines(rws)) = Len(rws)
  BY <1>1, <1>3, MapSeq
<1>5. SixRows(rws) \in Seq(Row) /\ Len(SixRows(rws)) = Len(rws)
  BY <1>2, <1>3, MapSeq
<1>6. ASSUME NEW row \in Row
      PROVE  /\ RowLines(Append(rws, row)) = Append(RowLines(rws), RowLine(row))
             /\ SixRows(Append(rws, row)) = Append(SixRows(rws), SixRow(row))
  <2>1. PICK n \in Nat : n = Len(rws) /\ DOMAIN rws = 1..n
    BY LenProperties
  <2>2. PICK more : more = Append(rws, row)
    OBVIOUS
  <2>3. /\ DOMAIN more = 1..(n + 1) /\ more[n + 1] = row
        /\ \A i \in 1..n : more[i] = rws[i]
    <3>1. /\ more \in Seq(Row) /\ Len(more) = n + 1 /\ more[n + 1] = row
          /\ \A i \in 1..n : more[i] = rws[i]
      BY <2>1, <2>2, AppendProperties
    <3> QED
      BY <3>1, LenProperties
  <2>4. RowLines(more) = Append(RowLines(rws), RowLine(row))
    <3>1. PICK ls : ls = Append(RowLines(rws), RowLine(row))
      OBVIOUS
    <3>2. /\ ls \in Seq(Lines) /\ Len(ls) = n + 1 /\ ls[n + 1] = RowLine(row)
          /\ \A i \in 1..n : ls[i] = RowLines(rws)[i]
      BY <1>4, <2>1, <3>1, RowLineIs, AppendProperties
    <3>3. ls = [i \in 1..(n + 1) |-> ls[i]]
      BY <3>2, LenProperties
    <3>4. ASSUME NEW i \in 1..(n + 1) PROVE ls[i] = RowLine(more[i])
      <4>1. i = n + 1 \/ i \in 1..n
        OBVIOUS
      <4>2. \A j \in 1..n : RowLines(rws)[j] = RowLine(rws[j])
        BY <2>1 DEF RowLines
      <4> QED
        BY <2>3, <3>2, <4>1, <4>2, Zenon
    <3> QED
      BY <2>3, <3>1, <3>3, <3>4 DEF RowLines
  <2>5. SixRows(more) = Append(SixRows(rws), SixRow(row))
    <3>1. PICK ls : ls = Append(SixRows(rws), SixRow(row))
      OBVIOUS
    <3>2. /\ ls \in Seq(Row) /\ Len(ls) = n + 1 /\ ls[n + 1] = SixRow(row)
          /\ \A i \in 1..n : ls[i] = SixRows(rws)[i]
      BY <1>5, <2>1, <3>1, RowLineIs, AppendProperties
    <3>3. ls = [i \in 1..(n + 1) |-> ls[i]]
      BY <3>2, LenProperties
    <3>4. ASSUME NEW i \in 1..(n + 1) PROVE ls[i] = SixRow(more[i])
      <4>1. i = n + 1 \/ i \in 1..n
        OBVIOUS
      <4>2. \A j \in 1..n : SixRows(rws)[j] = SixRow(rws[j])
        BY <2>1 DEF SixRows
      <4> QED
        BY <2>3, <3>2, <4>1, <4>2, Zenon
    <3> QED
      BY <2>3, <3>1, <3>3, <3>4 DEF SixRows
  <2> QED
    BY <2>2, <2>4, <2>5
<1> QED
  BY <1>4, <1>5, <1>6

(* What is written, line by line. *)

Store(n, cols, rws) == Sheet!Stored(n, cols, rws)

LEMMA StoreIs ==
  ASSUME NEW n \in Words, NEW cols \in Seq(Titles), NEW rws \in Seq(Row)
  PROVE  /\ Store(n, cols, rws) \in Sheets
         /\ Store(n, cols, rws).name = n /\ Store(n, cols, rws).cols = cols
         /\ Store(n, cols, rws).rows = rws
  BY DEF Store, Sheet!Stored, Sheets

LEMMA NameLineIs ==
  ASSUME NEW cols \in Seq(Titles)
  PROVE  /\ NameLine(cols) \in Lines /\ Len(NameLine(cols)) = Len(cols)
         /\ DOMAIN NameLine(cols) = DOMAIN cols
<1>1. \A i \in DOMAIN cols : cols[i] \in Titles
  BY ElementOfSeq, LenProperties
<1>2. NameLine(cols) = [i \in DOMAIN cols |-> NameLine(cols)[i]]
  BY DEF NameLine
<1>3. \A c \in Titles : Sheet!Named(c) \in Fields
  BY DEF Titles, Fields, Sheet!Named, Sheet!Text
<1>4. \A i \in DOMAIN cols : NameLine(cols)[i] \in Fields
  BY <1>1, <1>3 DEF NameLine
<1> QED
  BY <1>2, <1>4, MapSeq DEF Lines

\* The names that are read are as many, and in a build for Windows the same.
LEMMA RereadIs ==
  ASSUME NEW stream, NEW S, NEW cols \in Seq(S \X Nat), cols # <<>>
  PROVE  /\ Sheet!Reread(stream, cols) \in Seq(S \X Nat)
         /\ Len(Sheet!Reread(stream, cols)) = Len(cols) /\ Sheet!Reread(stream, cols) # <<>>
         /\ stream = "windows" => Sheet!Reread(stream, cols) = cols
<1>1. PICK n \in Nat : n = Len(cols) /\ n # 0 /\ DOMAIN cols = 1..n
  BY LenProperties, EmptySeq
<1>2. \A j \in 1..n : cols[j] \in S \X Nat
  BY <1>1, ElementOfSeq
<1>3. CASE stream = "windows"
  BY <1>3 DEF Sheet!Reread
<1>4. CASE stream # "windows"
  <2>1. PICK e : e = <<cols[n][1], cols[n][2] + 1>>
    OBVIOUS
  <2>2. e \in S \X Nat
    <3>1. cols[n] \in S \X Nat
      BY <1>1, <1>2
    <3> QED
      BY <2>1, <3>1
  <2>3. PICK re : re = [cols EXCEPT ![n] = e]
    OBVIOUS
  <2>4. re \in [1..n -> S \X Nat]
    <3>1. re = [j \in 1..n |-> IF j = n THEN e ELSE cols[j]]
      BY <1>1, <2>3, LenProperties
    <3> QED
      BY <1>2, <2>2, <3>1
  <2>5. re \in Seq(S \X Nat)
    BY <2>4, SeqDef
  <2>6. Len(re) = n
    BY <2>4, <2>5, LenProperties
  <2>7. re # <<>>
    BY <1>1, <2>5, <2>6, EmptySeq
  <2>8. Sheet!Reread(stream, cols) = re
    BY <1>1, <1>4, <2>1, <2>3 DEF Sheet!Reread
  <2> QED
    BY <1>1, <1>4, <2>5, <2>6, <2>7, <2>8
<1> QED
  BY <1>3, <1>4

LEMMA NamesGot ==
  ASSUME NEW stream, NEW cols \in Seq(Titles), cols # <<>>,
         NEW line, line = Sheet!Got(stream, NameLine(cols))
  PROVE  [j \in DOMAIN line |-> <<line[j][2], line[j][3]>>] = Sheet!Reread(stream, cols)
<1>1. PICK n \in Nat : n = Len(cols) /\ n # 0 /\ DOMAIN cols = 1..n
  BY LenProperties, EmptySeq
<1>2. \A j \in 1..n : cols[j] = <<cols[j][1], cols[j][2]>>
  <2>1. \A j \in 1..n : cols[j] \in Titles
    BY <1>1, ElementOfSeq
  <2> QED
    BY <2>1 DEF Titles
<1>3. PICK l \in Lines : /\ l = NameLine(cols) /\ Len(l) = n /\ DOMAIN l = 1..n
                       /\ \A j \in 1..n : l[j] = <<"text", cols[j][1], cols[j][2]>>
  BY <1>1, NameLineIs DEF NameLine, Sheet!Named, Sheet!Text
<1>4. cols = [j \in 1..n |-> cols[j]] /\ n \in 1..n
  BY <1>1, LenProperties
<1>5. CASE stream = "windows"
  <2>1. line = l /\ Sheet!Reread(stream, cols) = cols
    BY <1>3, <1>5 DEF Sheet!Got, Sheet!Reread
  <2>2. \A j \in 1..n : <<l[j][2], l[j][3]>> = cols[j]
    BY <1>2, <1>3
  <2> QED
    BY <1>3, <1>4, <2>1, <2>2
<1>6. CASE stream # "windows"
  <2>1. PICK e : e = <<cols[n][1], cols[n][2] + 1>>
    OBVIOUS
  <2>2. Sheet!Ended(l[n]) = <<"text", cols[n][1], cols[n][2] + 1>>
    BY <1>3, <1>4 DEF Sheet!Ended
  <2>3. l # <<>>
    BY <1>1, <1>3, EmptySeq DEF Lines
  <2>4. line = [l EXCEPT ![n] = <<"text", cols[n][1], cols[n][2] + 1>>]
    BY <1>3, <1>6, <2>2, <2>3 DEF Sheet!Got
  <2>5. DOMAIN line = 1..n
    BY <1>3, <2>4
  <2>6. \A j \in 1..n : <<line[j][2], line[j][3]>> = IF j = n THEN e ELSE cols[j]
    <3> SUFFICES ASSUME NEW j \in 1..n
                 PROVE  <<line[j][2], line[j][3]>> = IF j = n THEN e ELSE cols[j]
      OBVIOUS
    <3>1. CASE j = n
      <4>1. line[n] = <<"text", cols[n][1], cols[n][2] + 1>>
        BY <1>3, <1>4, <2>4
      <4> QED
        BY <2>1, <3>1, <4>1
    <3>2. CASE j # n
      <4>1. line[j] = <<"text", cols[j][1], cols[j][2]>>
        BY <1>3, <2>4, <3>2
      <4> QED
        BY <1>2, <3>2, <4>1
    <3> QED
      BY <3>1, <3>2
  <2>7. Sheet!Reread(stream, cols) = [j \in 1..n |-> IF j = n THEN e ELSE cols[j]]
    BY <1>1, <1>4, <1>6, <2>1 DEF Sheet!Reread
  <2> QED
    BY <2>5, <2>6, <2>7
<1> QED
  BY <1>5, <1>6

LEMMA HeaderIs ==
  ASSUME NEW n \in Words, NEW cols, NEW rws, NEW stream,
         NEW line, line = Sheet!Got(stream, Sheet!Header(Store(n, cols, rws)))
  PROVE  /\ Sheet!Header(Store(n, cols, rws)) \in Lines
         /\ Sheet!IsHeader(line) /\ Sheet!Begun(line) = Store(n, <<>>, <<>>)
<1>1. PICK a \in Fields, b \in Fields, c \in Fields, d \in Fields :
        a = <<"text", "MEL::Table", 0>> /\ b = <<"text", n, 0>> /\ c = <<"text", "n_rows", 0>>
        /\ d = <<"text", "n_cols", 0>>
  BY DEF Fields, Words
<1>2. Sheet!Header(Store(n, cols, rws)) = <<a, b, c, d>>
  BY <1>1 DEF Sheet!Header, Sheet!Text, Store, Sheet!Stored
<1>3. <<a, b, c, d>> \in Seq(Fields) /\ Len(<<a, b, c, d>>) = 4 /\ <<a, b, c, d>> # <<>>
  OBVIOUS
<1>4. line # <<>> /\ line[1] = a /\ line[2] = b
  <2>1. CASE stream = "windows"
    BY <1>2, <1>3, <2>1 DEF Sheet!Got
  <2>2. CASE stream # "windows"
    <3>1. line = [<<a, b, c, d>> EXCEPT ![4] = Sheet!Ended(d)]
      BY <1>2, <1>3, <2>2 DEF Sheet!Got
    <3>2. line = <<a, b, c, Sheet!Ended(d)>>
      BY <3>1
    <3> QED
      BY <3>2
  <2> QED
    BY <2>1, <2>2
<1> QED
  BY <1>1, <1>2, <1>3, <1>4 DEF Lines, Sheet!IsHeader, Sheet!Begun, Sheet!Text, Store

\* The lines of a table: its header, its names, its rows.
LEMMA WrittenIs ==
  ASSUME NEW n \in Words, NEW cols \in Seq(Titles), cols # <<>>, NEW rws \in Seq(Row)
  PROVE  Sheet!WriteOne(Store(n, cols, rws)) =
           <<Sheet!Header(Store(n, cols, rws))>> \o (<<NameLine(cols)>> \o RowLines(rws))
<1>1. PICK t : t = Store(n, cols, rws)
  OBVIOUS
<1>2. t.cols = cols /\ t.rows = rws
  BY <1>1, StoreIs
<1>3. Sheet!Body(t) = <<NameLine(cols)>> \o RowLines(rws)
  BY <1>2 DEF Sheet!Body, NameLine, RowLines, RowLine
<1> QED
  BY <1>1, <1>2, <1>3 DEF Sheet!WriteOne

LEMMA WrittenBegins ==
  ASSUME NEW n \in Words, NEW cols \in Seq(Titles), cols # <<>>, NEW L \in Seq(Lines)
  PROVE  L \o Sheet!WriteOne(Store(n, cols, <<>>)) =
           Append(Append(L, Sheet!Header(Store(n, cols, <<>>))), NameLine(cols))
<1>1. PICK h \in Lines : h = Sheet!Header(Store(n, cols, <<>>))
  BY HeaderIs
<1>2. PICK m \in Lines : m = NameLine(cols)
  BY NameLineIs
<1>3. <<>> \in Seq(Row) /\ RowLines(<<>>) = <<>>
  BY DEF RowLines
<1>4. Sheet!WriteOne(Store(n, cols, <<>>)) = <<h>> \o (<<m>> \o <<>>)
  BY <1>1, <1>2, <1>3, WrittenIs
<1>5. <<m>> \in Seq(Lines) /\ <<h>> \in Seq(Lines) /\ <<m>> \o <<>> = <<m>>
  BY ConcatEmptySeq
<1>6. L \o (<<h>> \o <<m>>) = (L \o <<h>>) \o <<m>>
  BY <1>5, ConcatAssociative
<1>7. L \o <<h>> = Append(L, h)
  BY AppendIsConcat
<1>8. Append(L, h) \o <<m>> = Append(Append(L, h), m)
  BY AppendIsConcat, AppendProperties
<1> QED
  BY <1>1, <1>2, <1>4, <1>5, <1>6, <1>7, <1>8

LEMMA WrittenRow ==
  ASSUME NEW n \in Words, NEW cols \in Seq(Titles), cols # <<>>, NEW rws \in Seq(Row),
         NEW row \in Row, NEW L \in Seq(Lines)
  PROVE  /\ Sheet!WriteOne(Store(n, cols, rws)) \in Seq(Lines)
         /\ L \o Sheet!WriteOne(Store(n, cols, rws)) \in Seq(Lines)
         /\ L \o Sheet!WriteOne(Store(n, cols, Append(rws, row))) =
              Append(L \o Sheet!WriteOne(Store(n, cols, rws)), RowLine(row))
<1>1. PICK h \in Lines : h = Sheet!Header(Store(n, cols, rws))
  BY HeaderIs
<1>2. PICK m \in Lines : m = NameLine(cols)
  BY NameLineIs
<1>3. PICK rs \in Seq(Lines) : rs = RowLines(rws)
  BY RowsAre
<1>4. PICK r \in Lines : r = RowLine(row)
  BY RowLineIs
<1>5. RowLines(Append(rws, row)) = Append(rs, r) /\ Append(rws, row) \in Seq(Row)
  BY <1>3, <1>4, RowsAre, AppendProperties
<1>6. h = Sheet!Header(Store(n, cols, Append(rws, row)))
  BY <1>1 DEF Sheet!Header, Store, Sheet!Stored
<1>7. /\ Sheet!WriteOne(Store(n, cols, rws)) = <<h>> \o (<<m>> \o rs)
      /\ Sheet!WriteOne(Store(n, cols, Append(rws, row))) = <<h>> \o (<<m>> \o Append(rs, r))
  BY <1>1, <1>2, <1>3, <1>5, <1>6, WrittenIs
<1>8. /\ <<h>> \in Seq(Lines) /\ <<m>> \in Seq(Lines) /\ <<r>> \in Seq(Lines)
      /\ Append(rs, r) = rs \o <<r>>
  BY AppendIsConcat
<1>9. PICK mr \in Seq(Lines) : mr = <<m>> \o rs
  BY <1>8, ConcatProperties
<1>10. PICK w \in Seq(Lines) : w = <<h>> \o mr
  BY <1>8, ConcatProperties
<1>11. PICK lw \in Seq(Lines) : lw = L \o w
  BY ConcatProperties
<1>12. <<m>> \o (rs \o <<r>>) = mr \o <<r>>
  BY <1>8, <1>9, ConcatAssociative
<1>13. <<h>> \o (mr \o <<r>>) = w \o <<r>>
  BY <1>8, <1>10, ConcatAssociative
<1>14. L \o (w \o <<r>>) = lw \o <<r>>
  BY <1>8, <1>11, ConcatAssociative
<1>15. lw \o <<r>> = Append(lw, r)
  BY AppendIsConcat
<1> QED
  BY <1>4, <1>7, <1>8, <1>9, <1>10, <1>11, <1>12, <1>13, <1>14, <1>15

(* What is read. *)

Scan(ts)  == [mode |-> "scan", tables |-> ts]
Naming(ts) == [mode |-> "names", tables |-> ts]
Filling(ts) == [mode |-> "rows", tables |-> ts]

LEMMA LastChanges ==
  ASSUME NEW S, NEW ts \in Seq(S), NEW t \in S, NEW u \in S
  PROVE  /\ Len(Append(ts, t)) = Len(ts) + 1 /\ Append(ts, t)[Len(ts) + 1] = t
         /\ [Append(ts, t) EXCEPT ![Len(ts) + 1] = u] = Append(ts, u)
<1>1. PICK n \in Nat : n = Len(ts)
  BY LenProperties
<1>2. PICK a : a = Append(ts, t)
  OBVIOUS
<1>3. PICK b : b = Append(ts, u)
  OBVIOUS
<1>4. /\ a \in Seq(S) /\ Len(a) = n + 1 /\ a[n + 1] = t /\ \A i \in 1..n : a[i] = ts[i]
      /\ b \in Seq(S) /\ Len(b) = n + 1 /\ b[n + 1] = u /\ \A i \in 1..n : b[i] = ts[i]
  BY <1>1, <1>2, <1>3, AppendProperties
<1>5. a = [i \in 1..(n + 1) |-> a[i]] /\ b = [i \in 1..(n + 1) |-> b[i]]
  BY <1>4, LenProperties
<1>6. [a EXCEPT ![n + 1] = u] = [i \in 1..(n + 1) |-> IF i = n + 1 THEN u ELSE a[i]]
  BY <1>5
<1>7. \A i \in 1..(n + 1) : (IF i = n + 1 THEN u ELSE a[i]) = b[i]
  <2> SUFFICES ASSUME NEW i \in 1..(n + 1) PROVE (IF i = n + 1 THEN u ELSE a[i]) = b[i]
    OBVIOUS
  <2>1. i = n + 1 \/ i \in 1..n
    OBVIOUS
  <2> QED
    BY <1>4, <2>1
<1>8. [a EXCEPT ![n + 1] = u] = b
  BY <1>5, <1>6, <1>7, Zenon
<1> QED
  BY <1>1, <1>2, <1>3, <1>4, <1>8

LEMMA HeaderRead ==
  ASSUME NEW how, NEW ts \in Seq(Sheets), NEW n \in Words, NEW cols, NEW rws
  PROVE  Sheet!ReadLine(how, Scan(ts), Sheet!Header(Store(n, cols, rws))) =
           Naming(Append(ts, Store(n, <<>>, <<>>)))
<1>1. PICK line : line = Sheet!Got(how.build, Sheet!Header(Store(n, cols, rws)))
  OBVIOUS
<1>2. Sheet!IsHeader(line) /\ Sheet!Begun(line) = Store(n, <<>>, <<>>)
  BY <1>1, HeaderIs
<1> QED
  BY <1>1, <1>2 DEF Sheet!ReadLine, Scan, Naming

LEMMA NamesRead ==
  ASSUME NEW how, NEW ts \in Seq(Sheets), NEW n \in Words, NEW cols \in Seq(Titles), cols # <<>>,
         NEW re \in Seq(Titles), re = Sheet!Reread(how.build, cols)
  PROVE  Sheet!ReadLine(how, Naming(Append(ts, Store(n, <<>>, <<>>))), NameLine(cols)) =
           Filling(Append(ts, Store(n, re, <<>>)))
<1>1. PICK k : k = Len(ts) + 1
  OBVIOUS
<1> <<>> \in Seq(Titles) /\ <<>> \in Seq(Row)
  OBVIOUS
<1>2. PICK t \in Sheets : t = Store(n, <<>>, <<>>)
  BY StoreIs
<1>3. PICK u \in Sheets : u = Store(n, re, <<>>)
  BY StoreIs
<1>4. PICK as : as = Append(ts, t)
  OBVIOUS
<1>5. Len(as) = k /\ as[k] = t /\ [as EXCEPT ![k] = u] = Append(ts, u)
  BY <1>1, <1>4, LastChanges
<1>6. PICK line : line = Sheet!Got(how.build, NameLine(cols))
  OBVIOUS
<1>7. Sheet!WithNames(t, line) = u
  <2>1. [j \in DOMAIN line |-> <<line[j][2], line[j][3]>>] = re
    BY <1>6, NamesGot
  <2>2. Sheet!WithNames(t, line) = [t EXCEPT !.cols = re]
    BY <2>1, Zenon DEF Sheet!WithNames
  <2> QED
    BY <1>2, <1>3, <2>2 DEF Store, Sheet!Stored
<1>8. Sheet!ReadLine(how, Naming(as), NameLine(cols)) =
        [mode |-> "rows", tables |-> [as EXCEPT ![k] = Sheet!WithNames(as[k], line)]]
  BY <1>5, <1>6 DEF Sheet!ReadLine, Naming
<1> QED
  BY <1>2, <1>3, <1>4, <1>5, <1>7, <1>8 DEF Filling

LEMMA RowRead ==
  ASSUME NEW how, NEW ts \in Seq(Sheets), NEW n \in Words, NEW cols \in Seq(Titles), cols # <<>>,
         NEW rws \in Seq(Row), NEW row \in Row, Len(row) = Len(cols)
  PROVE  Sheet!ReadLine(how, Filling(Append(ts, Store(n, cols, rws))), RowLine(row)) =
           Filling(Append(ts, Store(n, cols, Append(rws, SixRow(row)))))
<1>1. PICK k : k = Len(ts) + 1
  OBVIOUS
<1>2. PICK t \in Sheets : t = Store(n, cols, rws)
  BY StoreIs
<1>3. PICK six \in Row : six = SixRow(row)
  BY RowLineIs
<1>4. PICK u \in Sheets : u = Store(n, cols, Append(rws, six))
  BY <1>3, StoreIs, AppendProperties
<1>5. PICK as : as = Append(ts, t)
  OBVIOUS
<1>6. Len(as) = k /\ as[k] = t /\ [as EXCEPT ![k] = u] = Append(ts, u)
  BY <1>1, <1>5, LastChanges
<1>7. row # <<>>
  <2>1. Len(cols) # 0
    BY EmptySeq
  <2> QED
    BY <2>1
<1>8. PICK l : /\ l = Sheet!Got(how.build, RowLine(row)) /\ Len(l) = Len(cols) /\ l # <<>>
              /\ [j \in DOMAIN l |-> Sheet!ToNumber(how, l[j])] = six
  BY <1>3, <1>7, RowGot
<1>9. t.cols = cols /\ [t EXCEPT !.rows = Append(@, six)] = u
  <2>1. t = [name |-> n, cols |-> cols, rows |-> rws]
    BY <1>2 DEF Store, Sheet!Stored
  <2>2. u = [name |-> n, cols |-> cols, rows |-> Append(rws, six)]
    BY <1>4 DEF Store, Sheet!Stored
  <2>3. PICK new : new = Append(rws, six)
    OBVIOUS
  <2>4. [t EXCEPT !.rows = new] = [name |-> n, cols |-> cols, rows |-> new]
    BY <2>1
  <2>5. u = [name |-> n, cols |-> cols, rows |-> new]
    BY <2>2, <2>3
  <2> QED
    BY <2>1, <2>3, <2>4, <2>5
<1>10. Sheet!WithRow(how, t, l) = u
  BY <1>8, <1>9 DEF Sheet!WithRow
<1>11. Sheet!ReadLine(how, Filling(as), RowLine(row)) =
         Filling([as EXCEPT ![k] = Sheet!WithRow(how, as[k], l)])
  <2>1. PICK r : r = Filling(as)
    OBVIOUS
  <2>2. r.mode = "rows" /\ r.tables = as
    BY <2>1 DEF Filling
  <2>3. Sheet!ReadLine(how, r, RowLine(row)) = [r EXCEPT !.tables[k] = Sheet!WithRow(how, @, l)]
    BY <1>6, <1>8, <2>2 DEF Sheet!ReadLine
  <2>4. PICK new : new = [as EXCEPT ![k] = Sheet!WithRow(how, as[k], l)]
    OBVIOUS
  <2>5. [r EXCEPT !.tables[k] = Sheet!WithRow(how, @, l)] = [r EXCEPT !.tables = new]
    BY <2>2, <2>4
  <2>6. [r EXCEPT !.tables = new] = [mode |-> "rows", tables |-> new]
    BY <2>1 DEF Filling
  <2> QED
    BY <2>1, <2>3, <2>4, <2>5, <2>6 DEF Filling
<1> QED
  BY <1>2, <1>3, <1>4, <1>5, <1>6, <1>10, <1>11

\* A table that is written whole is read whole, after whatever was read before.
LEMMA TableRead ==
  ASSUME NEW how, NEW L \in Seq(Lines), NEW ts \in Seq(Sheets),
         Sheet!After(how, L) = Scan(ts),
         NEW n \in Words, NEW cols \in Seq(Titles), cols # <<>>,
         NEW re, re = Sheet!Reread(how.build, cols)
  PROVE  \A rws \in Seq(Row) : Whole(cols, rws) =>
           Sheet!After(how, L \o Sheet!WriteOne(Store(n, cols, rws))) =
             Filling(Append(ts, Store(n, re, SixRows(rws))))
<1>0. re \in Seq(Titles) /\ Len(re) = Len(cols) /\ re # <<>>
  BY RereadIs DEF Titles
<1> DEFINE Reads(rws) ==
      Sheet!After(how, L \o Sheet!WriteOne(Store(n, cols, rws))) =
        Filling(Append(ts, Store(n, re, SixRows(rws))))
<1> DEFINE T == {m \in Nat : \A rws \in Seq(Row) :
                              Len(rws) = m /\ Whole(cols, rws) => Reads(rws)}
<1>1. 0 \in T
  <2> SUFFICES Reads(<<>>)
    BY EmptySeq
  <2>1. PICK h \in Lines : h = Sheet!Header(Store(n, cols, <<>>))
    BY HeaderIs
  <2>2. PICK m \in Lines : m = NameLine(cols)
    BY NameLineIs
  <2>3. Append(L, h) \in Seq(Lines)
    BY AppendProperties
  <2>4. Sheet!After(how, Append(L, h)) = Naming(Append(ts, Store(n, <<>>, <<>>)))
    BY <2>1, AfterLine, HeaderRead
  <2>5. Sheet!After(how, Append(Append(L, h), m)) = Filling(Append(ts, Store(n, re, <<>>)))
    <3>1. PICK st : st = Naming(Append(ts, Store(n, <<>>, <<>>)))
      OBVIOUS
    <3>2. PICK Lh \in Seq(Lines) : Lh = Append(L, h)
      BY <2>3
    <3>3. Sheet!After(how, Append(Lh, m)) = Sheet!ReadLine(how, Sheet!After(how, Lh), m)
      BY <2>2, AfterLine
    <3>4. Sheet!ReadLine(how, st, m) = Filling(Append(ts, Store(n, re, <<>>)))
      BY <1>0, <2>2, <3>1, NamesRead
    <3> QED
      BY <2>4, <3>1, <3>2, <3>3, <3>4
  <2>6. SixRows(<<>>) = <<>>
    BY DEF SixRows
  <2> QED
    BY <2>1, <2>2, <2>5, <2>6, WrittenBegins
<1>2. ASSUME NEW m \in T PROVE m + 1 \in T
  <2> SUFFICES ASSUME NEW more \in Seq(Row), Len(more) = m + 1, Whole(cols, more)
               PROVE  Reads(more)
    OBVIOUS
  <2>1. more # <<>>
    BY EmptySeq
  <2>2. PICK rws \in Seq(Row), row \in Row : more = Append(rws, row)
    BY <2>1, SequenceEmptyOrAppend
  <2>3. /\ Len(rws) = m /\ Len(more) = m + 1 /\ more[m + 1] = row
        /\ DOMAIN more = 1..(m + 1) /\ DOMAIN rws = 1..m /\ \A i \in 1..m : more[i] = rws[i]
    <3>1. /\ Len(more) = Len(rws) + 1 /\ more[Len(rws) + 1] = row
          /\ \A i \in 1..Len(rws) : more[i] = rws[i]
      BY <2>2, AppendProperties
    <3>2. Len(rws) \in Nat /\ Len(rws) = m
      BY <3>1, LenProperties
    <3> QED
      BY <3>1, <3>2, LenProperties
  <2>4. Whole(cols, rws) /\ Len(row) = Len(cols)
    BY <2>3 DEF Whole
  <2>5. Reads(rws)
    BY <2>3, <2>4
  <2> HIDE DEF T
  <2>6. PICK w \in Seq(Lines) : w = L \o Sheet!WriteOne(Store(n, cols, rws))
    BY <2>2, WrittenRow
  <2>7. L \o Sheet!WriteOne(Store(n, cols, more)) = Append(w, RowLine(row))
    BY <2>2, <2>6, WrittenRow
  <2>8. PICK six \in Seq(Row) : six = SixRows(rws)
    BY RowsAre
  <2>9. Sheet!After(how, w) = Filling(Append(ts, Store(n, re, six)))
    BY <2>5, <2>6, <2>8
  <2>10. Sheet!After(how, Append(w, RowLine(row))) =
           Sheet!ReadLine(how, Filling(Append(ts, Store(n, re, six))), RowLine(row))
    BY <2>9, AfterLine, RowLineIs
  <2>11. Sheet!ReadLine(how, Filling(Append(ts, Store(n, re, six))), RowLine(row)) =
           Filling(Append(ts, Store(n, re, Append(six, SixRow(row)))))
    BY <1>0, <2>2, <2>4, <2>8, RowRead
  <2>12. SixRows(more) = Append(six, SixRow(row))
    BY <2>2, <2>8, RowsAre
  <2> QED
    BY <2>7, <2>10, <2>11, <2>12
<1>3. T = Nat
  <2>1. T \in SUBSET Nat
    OBVIOUS
  <2> HIDE DEF T
  <2> QED
    BY <1>1, <1>2, <2>1, SetInduction
<1> QED
  BY <1>3, LenProperties

(* Tables alone and among others. *)

Storable == {t \in Sheets : Whole(t.cols, t.rows)}

LEMMA StorableIs ==
  ASSUME NEW t \in Storable
  PROVE  /\ t.name \in Words /\ t.cols \in Seq(Titles) /\ t.cols # <<>> /\ t.rows \in Seq(Row)
         /\ Whole(t.cols, t.rows) /\ t = Store(t.name, t.cols, t.rows)
         /\ Sheet!Six(t) = Store(t.name, t.cols, SixRows(t.rows)) /\ Sheet!Six(t) \in Sheets
<1>1. /\ t.name \in Words /\ t.cols \in Seq(Titles) /\ t.cols # <<>> /\ t.rows \in Seq(Row)
      /\ Whole(t.cols, t.rows)
  BY DEF Storable, Sheets, Whole
<1>2. t = [name |-> t.name, cols |-> t.cols, rows |-> t.rows]
  BY DEF Storable, Sheets
<1>3. PICK six \in Seq(Row) : six = SixRows(t.rows)
  BY <1>1, RowsAre
<1>4. Sheet!Six(t) = [t EXCEPT !.rows = six]
  BY <1>3 DEF Sheet!Six, SixRows, SixRow
<1>5. [t EXCEPT !.rows = six] = [name |-> t.name, cols |-> t.cols, rows |-> six]
  BY <1>2
<1>6. Store(t.name, t.cols, six) \in Sheets
  BY <1>1, StoreIs
<1> QED
  BY <1>1, <1>2, <1>3, <1>4, <1>5, <1>6 DEF Store, Sheet!Stored

\* What a table is once it has been read: six digits of it, and in a build for Windows
\* nothing else is changed.
LEMMA OnceMoreIs ==
  ASSUME NEW t \in Storable, NEW stream
  PROVE  /\ Sheet!OnceMore(stream, t) =
              Store(t.name, Sheet!Reread(stream, t.cols), SixRows(t.rows))
         /\ Sheet!OnceMore(stream, t) \in Sheets
         /\ stream = "windows" => Sheet!OnceMore(stream, t) = Sheet!Six(t)
<1>1. /\ t.name \in Words /\ t.cols \in Seq(Titles) /\ t.cols # <<>> /\ t.rows \in Seq(Row)
      /\ Sheet!Six(t) = Store(t.name, t.cols, SixRows(t.rows))
  BY StorableIs
<1>2. PICK re \in Seq(Titles) :
        re = Sheet!Reread(stream, t.cols) /\ (stream = "windows" => re = t.cols)
  <2>1. Sheet!Reread(stream, t.cols) \in Seq(Titles)
    BY <1>1, RereadIs DEF Titles
  <2>2. stream = "windows" => Sheet!Reread(stream, t.cols) = t.cols
    BY <1>1, RereadIs DEF Titles
  <2> QED
    BY <2>1, <2>2
<1>3. PICK six \in Seq(Row) : six = SixRows(t.rows)
  BY <1>1, RowsAre
<1>4. Sheet!OnceMore(stream, t) = [Sheet!Six(t) EXCEPT !.cols = re]
  BY <1>2 DEF Sheet!OnceMore
<1>5. Sheet!Six(t) = [name |-> t.name, cols |-> t.cols, rows |-> six]
  BY <1>1, <1>3 DEF Store, Sheet!Stored
<1>6. Sheet!OnceMore(stream, t) = [name |-> t.name, cols |-> re, rows |-> six]
  BY <1>4, <1>5
<1>7. Sheet!OnceMore(stream, t) = Store(t.name, re, six) /\ Store(t.name, re, six) \in Sheets
  BY <1>1, <1>6, StoreIs DEF Store, Sheet!Stored
<1>8. stream = "windows" => Sheet!OnceMore(stream, t) = Sheet!Six(t)
  BY <1>2, <1>5, <1>6
<1> QED
  BY <1>2, <1>3, <1>7, <1>8

LEMMA StorableRead ==
  ASSUME NEW how, NEW L \in Seq(Lines), NEW ts \in Seq(Sheets),
         Sheet!After(how, L) = Scan(ts), NEW t \in Storable
  PROVE  /\ Sheet!WriteOne(t) \in Seq(Lines)
         /\ Sheet!After(how, L \o Sheet!WriteOne(t)) =
              Filling(Append(ts, Sheet!OnceMore(how.build, t)))
<1>1. /\ t.name \in Words /\ t.cols \in Seq(Titles) /\ t.cols # <<>> /\ t.rows \in Seq(Row)
      /\ Whole(t.cols, t.rows) /\ t = Store(t.name, t.cols, t.rows)
  BY StorableIs
<1>2. <<>> \in Row
  BY DEF Row
<1>3. Sheet!WriteOne(Store(t.name, t.cols, t.rows)) \in Seq(Lines)
  BY <1>1, <1>2, WrittenRow
<1>4. PICK re : re = Sheet!Reread(how.build, t.cols)
  OBVIOUS
<1>5. Sheet!After(how, L \o Sheet!WriteOne(Store(t.name, t.cols, t.rows))) =
        Filling(Append(ts, Store(t.name, re, SixRows(t.rows))))
  BY <1>1, <1>4, TableRead
<1>6. Sheet!OnceMore(how.build, t) = Store(t.name, re, SixRows(t.rows))
  BY <1>4, OnceMoreIs
<1> QED
  BY <1>1, <1>3, <1>5, <1>6

\* Several tables are read, each up to an empty line.
Several(how) == how.many = TRUE /\ how.build = "windows"

LEMMA BlankRead ==
  ASSUME NEW how, Several(how), NEW L \in Seq(Lines), NEW ts \in Seq(Sheets),
         Sheet!After(how, L) = Scan(ts), NEW t \in Storable
  PROVE  LET W == Append(Sheet!WriteOne(t), <<>>)
         IN  /\ W \in Seq(Lines) /\ L \o W \in Seq(Lines)
             /\ Append(ts, Sheet!Six(t)) \in Seq(Sheets)
             /\ Sheet!After(how, L \o W) = Scan(Append(ts, Sheet!Six(t)))
<1>1. PICK w \in Seq(Lines) : w = Sheet!WriteOne(t)
  BY StorableRead
<1>2. PICK b \in Lines : b = <<>>
  <2>1. <<>> \in Seq(Fields)
    OBVIOUS
  <2> QED
    BY <2>1 DEF Lines
<1>3. PICK lw \in Seq(Lines) : lw = L \o w
  BY ConcatProperties
<1>4. PICK us \in Seq(Sheets) : us = Append(ts, Sheet!Six(t))
  BY StorableIs, AppendProperties
<1>5. Append(w, b) \in Seq(Lines) /\ Append(lw, b) \in Seq(Lines)
  BY AppendProperties
<1>6. <<b>> \in Seq(Lines) /\ L \o (w \o <<b>>) = (L \o w) \o <<b>>
  BY ConcatAssociative
<1>7. w \o <<b>> = Append(w, b) /\ lw \o <<b>> = Append(lw, b)
  BY AppendIsConcat
<1>8. L \o Append(w, b) = Append(lw, b)
  BY <1>3, <1>6, <1>7
<1>9. Sheet!After(how, lw) = Filling(us)
  <2>1. Sheet!OnceMore(how.build, t) = Sheet!Six(t)
    BY OnceMoreIs DEF Several
  <2> QED
    BY <1>1, <1>3, <1>4, <2>1, StorableRead
<1>10. Sheet!ReadLine(how, Filling(us), b) = Scan(us)
  <2>1. PICK r : r = Filling(us)
    OBVIOUS
  <2>2. r = [mode |-> "rows", tables |-> us] /\ r.mode = "rows"
    BY <2>1 DEF Filling
  <2>3. Sheet!ReadLine(how, r, b) = [r EXCEPT !.mode = "scan"]
    BY <1>2, <2>2 DEF Sheet!ReadLine, Sheet!Got, Several
  <2>4. [r EXCEPT !.mode = "scan"] = [mode |-> "scan", tables |-> us]
    BY <2>2
  <2> QED
    BY <2>1, <2>3, <2>4 DEF Scan
<1>11. Sheet!After(how, Append(lw, b)) = Scan(us)
  BY <1>9, <1>10, AfterLine
<1> QED
  BY <1>1, <1>2, <1>4, <1>5, <1>8, <1>11

\* Alone, and in a file of one or of two.
LEMMA FileRead ==
  ASSUME NEW t \in Storable
  PROVE  /\ \A stream : Sheet!Read(Sheet!How(stream, FALSE, 0), Sheet!WriteOne(t)) =
                         <<Sheet!OnceMore(stream, t)>>
         /\ Sheet!Read(Sheet!How("windows", TRUE, 0), Sheet!WriteAll(<<t>>)) = <<Sheet!Six(t)>>
         /\ \A u \in Storable : Sheet!Read(Sheet!How("windows", TRUE, 0), Sheet!WriteAll(<<t, u>>)) =
                              <<Sheet!Six(t), Sheet!Six(u)>>
<1>15. PICK how : how = Sheet!How("windows", TRUE, 0)
  OBVIOUS
<1>13. Several(how)
  BY <1>15, Zenon DEF Several, Sheet!How
<1>14. \A lines : Sheet!Read(Sheet!How("windows", TRUE, 0), lines) = Sheet!After(how, lines).tables
  BY <1>15 DEF Sheet!Read
<1>0. <<>> \in Seq(Lines) /\ <<>> \in Seq(Sheets)
  OBVIOUS
<1>1. PICK none \in Seq(Lines) : none = <<>>
  BY <1>0
<1>2. PICK ts \in Seq(Sheets) : ts = <<>>
  BY <1>0
<1>3. \A all : Sheet!After(all, none) = Scan(ts)
  BY <1>1, <1>2, AfterNothing DEF Begins, Scan
<1>4. \A w \in Seq(Lines) : none \o w = w
  BY <1>1, ConcatEmptySeq
<1>5. \A s \in Sheets : Append(ts, s) = <<s>>
  BY <1>2
<1>6. \A us : Scan(us).tables = us /\ Filling(us).tables = us
  BY DEF Scan, Filling
<1>7. Sheet!Six(t) \in Sheets
  BY StorableIs
<1>8. ASSUME NEW stream
      PROVE  Sheet!Read(Sheet!How(stream, FALSE, 0), Sheet!WriteOne(t)) =
               <<Sheet!OnceMore(stream, t)>>
  <2>1. PICK one : one = Sheet!How(stream, FALSE, 0) /\ one.build = stream
    <3>1. Sheet!How(stream, FALSE, 0).build = stream
      BY DEF Sheet!How
    <3> QED
      BY <3>1
  <2>2. PICK again \in Sheets : again = Sheet!OnceMore(stream, t)
    BY OnceMoreIs
  <2>3. Sheet!WriteOne(t) \in Seq(Lines)
    BY <1>3, StorableRead
  <2>4. Sheet!After(one, none \o Sheet!WriteOne(t)) = Filling(Append(ts, again))
    BY <1>3, <2>1, <2>2, StorableRead
  <2>5. Sheet!After(one, Sheet!WriteOne(t)) = Filling(<<again>>)
    BY <1>4, <1>5, <2>3, <2>4
  <2> QED
    BY <1>6, <2>1, <2>2, <2>5 DEF Sheet!Read
<1>9. PICK w : w = Append(Sheet!WriteOne(t), <<>>)
  OBVIOUS
<1>10. /\ w \in Seq(Lines) /\ <<Sheet!Six(t)>> \in Seq(Sheets)
       /\ Sheet!After(how, w) = Scan(<<Sheet!Six(t)>>)
  <2>1. /\ w \in Seq(Lines) /\ Append(ts, Sheet!Six(t)) \in Seq(Sheets)
        /\ Sheet!After(how, none \o w) = Scan(Append(ts, Sheet!Six(t)))
    BY <1>3, <1>9, <1>13, BlankRead
  <2> QED
    BY <1>4, <1>5, <1>7, <2>1
<1>11. Sheet!Read(Sheet!How("windows", TRUE, 0), Sheet!WriteAll(<<t>>)) = <<Sheet!Six(t)>>
  <2>1. [k \in DOMAIN <<t>> |-> Append(Sheet!WriteOne(<<t>>[k]), <<>>)] = <<w>>
    BY <1>9
  <2>2. Sheet!WriteAll(<<t>>) = w
    BY <2>1, FlattenOne DEF Sheet!WriteAll
  <2> QED
    BY <1>6, <1>10, <1>14, <2>2
<1>12. ASSUME NEW u \in Storable
       PROVE  Sheet!Read(Sheet!How("windows", TRUE, 0), Sheet!WriteAll(<<t, u>>)) = <<Sheet!Six(t), Sheet!Six(u)>>
  <2>1. PICK v : v = Append(Sheet!WriteOne(u), <<>>)
    OBVIOUS
  <2>2. [k \in DOMAIN <<t, u>> |-> Append(Sheet!WriteOne(<<t, u>>[k]), <<>>)] = <<w, v>>
    BY <1>9, <2>1
  <2>3. Sheet!WriteAll(<<t, u>>) = w \o v
    BY <2>2, FlattenTwo DEF Sheet!WriteAll
  <2>4. PICK us \in Seq(Sheets) : us = <<Sheet!Six(t)>>
    BY <1>10
  <2>5. Sheet!After(how, w) = Scan(us)
    BY <1>10, <2>4
  <2>6. Sheet!After(how, w \o v) = Scan(Append(us, Sheet!Six(u)))
    BY <1>10, <1>13, <2>1, <2>5, BlankRead
  <2>7. Append(us, Sheet!Six(u)) = <<Sheet!Six(t), Sheet!Six(u)>>
    <3>1. PICK a \in Sheets, b \in Sheets : a = Sheet!Six(t) /\ b = Sheet!Six(u)
      BY StorableIs
    <3>2. <<a>> \in Seq(Sheets) /\ Len(<<a>>) = 1 /\ <<a>>[1] = a
      OBVIOUS
    <3>3. PICK ab \in Seq(Sheets) : ab = Append(<<a>>, b)
      BY <3>2, AppendProperties
    <3>4. Len(ab) = 2 /\ ab[1] = a /\ ab[2] = b
      BY <3>2, <3>3, AppendProperties
    <3>5. ab = <<a, b>>
      BY <3>4, LenProperties
    <3> QED
      BY <2>4, <3>1, <3>3, <3>5
  <2> QED
    BY <1>6, <1>14, <2>3, <2>6, <2>7
<1> QED
  BY <1>8, <1>11, <1>12

(* Vectors. *)

Wide(w) == {row \in Row : Len(row) = w}

LEMMA SpliceIs ==
  ASSUME NEW S, NEW s \in Seq(S), NEW t \in Seq(S), NEW i \in 0..Len(s)
  PROVE  Sheet!Splice(s, i, t) \in Seq(S) /\ Len(Sheet!Splice(s, i, t)) = Len(s) + Len(t)
<1>1. PICK n \in Nat : n = Len(s)
  BY LenProperties
<1>2. \A j \in 1..n : s[j] \in S
  BY <1>1, ElementOfSeq
<1>3. PICK a \in Seq(S) : a = SubSeq(s, 1, i) /\ Len(a) = i
  <2>1. (\A j \in 1..i : s[j] \in S) /\ i \in Int /\ i >= 0
    BY <1>1, <1>2
  <2>2. PICK a : a = SubSeq(s, 1, i)
    OBVIOUS
  <2>3. a \in Seq(S) /\ Len(a) = IF 1 <= i THEN i - 1 + 1 ELSE 0
    BY <2>1, <2>2, SubSeqProperties
  <2>4. Len(a) = i
    BY <2>1, <2>3
  <2> QED
    BY <2>2, <2>3, <2>4
<1>4. PICK b \in Seq(S) : b = SubSeq(s, i + 1, n) /\ Len(b) = n - i
  <2>1. \A j \in (i + 1)..n : s[j] \in S
    BY <1>1, <1>2
  <2>2. i + 1 \in Int /\ n \in Int
    BY <1>1
  <2>3. PICK b : b = SubSeq(s, i + 1, n)
    OBVIOUS
  <2>4. b \in Seq(S) /\ Len(b) = IF i + 1 <= n THEN n - (i + 1) + 1 ELSE 0
    BY <2>1, <2>2, <2>3, SubSeqProperties
  <2>5. Len(b) = n - i
    BY <1>1, <2>4
  <2> QED
    BY <2>3, <2>4, <2>5
<1>5. PICK at \in Seq(S) : at = a \o t /\ Len(at) = Len(a) + Len(t)
  BY ConcatProperties
<1>6. at \o b \in Seq(S) /\ Len(at \o b) = Len(at) + Len(b)
  BY ConcatProperties
<1>7. Len(t) \in Nat
  BY LenProperties
<1>8. Sheet!Splice(s, i, t) = at \o b
  BY <1>1, <1>3, <1>4, <1>5 DEF Sheet!Splice
<1> QED
  <2>1. Len(at) + Len(b) = n + Len(t)
    <3>1. Len(a) = i /\ Len(b) = n - i /\ Len(at) = Len(a) + Len(t) /\ i \in 0..n
      BY <1>1, <1>3, <1>4, <1>5
    <3> QED
      BY <1>7, <3>1
  <2> QED
    BY <1>1, <1>6, <1>8, <2>1, Zenon

LEMMA CutIs ==
  ASSUME NEW S, NEW s \in Seq(S), NEW i \in Nat, NEW j \in Nat, i <= j, j <= Len(s)
  PROVE  Sheet!Cut(s, i, j) \in Seq(S) /\ Len(Sheet!Cut(s, i, j)) = Len(s) - (j - i)
<1>1. PICK n \in Nat : n = Len(s)
  BY LenProperties
<1>2. \A k \in 1..n : s[k] \in S
  BY <1>1, ElementOfSeq
<1>3. PICK a \in Seq(S) : a = SubSeq(s, 1, i) /\ Len(a) = i
  <2>1. (\A k \in 1..i : s[k] \in S) /\ i \in Int /\ i >= 0
    BY <1>1, <1>2
  <2>2. PICK a : a = SubSeq(s, 1, i)
    OBVIOUS
  <2>3. a \in Seq(S) /\ Len(a) = IF 1 <= i THEN i - 1 + 1 ELSE 0
    BY <2>1, <2>2, SubSeqProperties
  <2>4. Len(a) = i
    BY <2>1, <2>3
  <2> QED
    BY <2>2, <2>3, <2>4
<1>4. PICK b \in Seq(S) : b = SubSeq(s, j + 1, n) /\ Len(b) = n - j
  <2>1. \A k \in (j + 1)..n : s[k] \in S
    BY <1>1, <1>2
  <2>2. j + 1 \in Int /\ n \in Int
    BY <1>1
  <2>3. PICK b : b = SubSeq(s, j + 1, n)
    OBVIOUS
  <2>4. b \in Seq(S) /\ Len(b) = IF j + 1 <= n THEN n - (j + 1) + 1 ELSE 0
    BY <2>1, <2>2, <2>3, SubSeqProperties
  <2>5. Len(b) = n - j
    BY <1>1, <2>4
  <2> QED
    BY <2>3, <2>4, <2>5
<1>5. a \o b \in Seq(S) /\ Len(a \o b) = Len(a) + Len(b)
  BY ConcatProperties
<1>6. Sheet!Cut(s, i, j) = a \o b
  BY <1>1, <1>3, <1>4 DEF Sheet!Cut
<1> QED
  <2>1. Len(a) + Len(b) = n - (j - i)
    BY <1>3, <1>4
  <2> QED
    BY <1>1, <1>5, <1>6, <2>1, Zenon

LEMMA FrontIs ==
  ASSUME NEW S, NEW s \in Seq(S), s # <<>>
  PROVE  Sheet!Front(s) \in Seq(S) /\ Len(Sheet!Front(s)) = Len(s) - 1
<1>1. PICK n \in Nat : n = Len(s) /\ n > 0
  BY EmptySeq
<1>2. \A k \in 1..(n - 1) : s[k] \in S
  BY <1>1, ElementOfSeq
<1>3. /\ SubSeq(s, 1, n - 1) \in Seq(S)
      /\ Len(SubSeq(s, 1, n - 1)) = IF 1 <= n - 1 THEN (n - 1) - 1 + 1 ELSE 0
  BY <1>2, SubSeqProperties
<1> QED
  BY <1>1, <1>3 DEF Sheet!Front

LEMMA ResizeIs ==
  ASSUME NEW rws \in Seq(Wide(0)), NEW n \in Nat
  PROVE  /\ Sheet!Resize(rws, n) \in Seq(Wide(0)) /\ Len(Sheet!Resize(rws, n)) = n
         /\ DOMAIN Sheet!Resize(rws, n) = 1..n
<1>1. <<>> \in Wide(0)
  BY EmptySeq DEF Wide, Row
<1>2. \A i \in DOMAIN rws : rws[i] \in Wide(0)
  BY ElementOfSeq, LenProperties
<1>3. Sheet!Resize(rws, n) \in [1..n -> Wide(0)]
  BY <1>1, <1>2 DEF Sheet!Resize
<1>4. Sheet!Resize(rws, n) \in Seq(Wide(0))
  BY <1>3, SeqDef
<1> QED
  BY <1>3, <1>4, LenProperties

LEMMA ListIs ==
  ASSUME NEW S, NEW n \in Nat, NEW l \in Sheet!Lists(S, n)
  PROVE  l \in Seq(S) /\ Len(l) \in Nat /\ DOMAIN l = 1..Len(l)
<1>1. PICK k \in 0..n : l \in [1..k -> S]
  BY DEF Sheet!Lists
<1>2. l \in Seq(S)
  BY <1>1, SeqDef
<1> QED
  BY <1>2, LenProperties

LEMMA TableBounds == Figures \subseteq Nat /\ MaxRows \in Nat /\ MaxCols \in Nat
BY SheetAssumption DEF Sheet!TableAssumption

LEMMA RowsGiven ==
  ASSUME NEW w \in Nat, NEW n \in Nat, NEW l \in Sheet!Lists(Sheet!Rows(w), n)
  PROVE  l \in Seq(Wide(w)) /\ l \in Seq(Row) /\ Len(l) \in Nat /\ DOMAIN l = 1..Len(l)
<1>1. ASSUME NEW row \in Sheet!Rows(w) PROVE row \in Wide(w)
  <2>1. row \in [1..w -> Nat]
    BY TableBounds DEF Sheet!Rows
  <2>2. row \in Seq(Nat)
    BY <2>1, SeqDef
  <2>3. Len(row) = w
    BY <2>1, <2>2, LenProperties
  <2> QED
    BY <2>2, <2>3 DEF Wide, Row
<1>2. Sheet!Rows(w) \subseteq Wide(w) /\ Wide(w) \subseteq Row
  BY <1>1 DEF Wide
<1>3. l \in Seq(Sheet!Rows(w)) /\ Len(l) \in Nat /\ DOMAIN l = 1..Len(l)
  BY ListIs
<1>4. l \in Seq(Wide(w))
  BY <1>2, <1>3, SeqMonotonic
<1> QED
  BY <1>2, <1>3, <1>4, SeqMonotonic

\* check_inner_dim says that rows have the width.
LEMMA WidthMeans ==
  ASSUME NEW rws \in Seq(Row), NEW w
  PROVE  Sheet!HasWidth(rws, w) <=> rws \in Seq(Wide(w))
<1>1. /\ Len(rws) \in Nat /\ DOMAIN rws = 1..Len(rws) /\ rws \in [1..Len(rws) -> Row]
  BY LenProperties
<1>2. ASSUME Sheet!HasWidth(rws, w) PROVE rws \in Seq(Wide(w))
  <2>1. \A i \in 1..Len(rws) : rws[i] \in Wide(w)
    BY <1>1, <1>2 DEF Sheet!HasWidth, Wide
  <2>2. rws \in [1..Len(rws) -> Wide(w)]
    BY <1>1, <2>1
  <2> QED
    BY <1>1, <2>2, SeqDef
<1>3. ASSUME rws \in Seq(Wide(w)) PROVE Sheet!HasWidth(rws, w)
  BY <1>3, LenProperties DEF Sheet!HasWidth, Wide
<1> QED
  BY <1>2, <1>3

(* The table keeps its shape. *)

Labels == Names \X Nat  \* a column's name, with the \r at its end

Shape ==
  /\ col_names \in Seq(Labels) /\ n_cols = Len(col_names)
  /\ rows \in Seq(Wide(n_cols)) /\ n_rows = Len(rows)

SheetInv == build \in {"windows", "posix"} /\ name \in Names /\ (~lost => Shape)

LEMMA WideIs ==
  ASSUME NEW w, NEW rws \in Seq(Wide(w))
  PROVE  /\ Len(rws) \in Nat /\ DOMAIN rws = 1..Len(rws)
         /\ \A i \in 1..Len(rws) : rws[i] \in Seq(Nat) /\ Len(rws[i]) = w
<1>1. Len(rws) \in Nat /\ DOMAIN rws = 1..Len(rws)
  BY LenProperties
<1>2. \A i \in 1..Len(rws) : rws[i] \in Wide(w)
  BY ElementOfSeq
<1> QED
  BY <1>1, <1>2 DEF Wide, Row

\* Each row changes by itself.
LEMMA EachRow ==
  ASSUME NEW w, NEW rws \in Seq(Wide(w)), NEW v, NEW f, f = [i \in DOMAIN rws |-> f[i]],
         \A i \in 1..Len(rws) : f[i] \in Wide(v)
  PROVE  f \in Seq(Wide(v)) /\ Len(f) = Len(rws)
<1>1. DOMAIN rws = 1..Len(rws)
  BY LenProperties
<1>2. \A i \in DOMAIN rws : f[i] \in Wide(v)
  BY <1>1
<1> QED
  BY <1>2, MapSeq

\* A list of the names a program gives.
LEMMA NamesGiven ==
  ASSUME NEW n \in Nat, NEW ns \in Sheet!Lists(Sheet!Given, n)
  PROVE  ns \in Seq(Labels) /\ Len(ns) \in Nat
<1>1. ns \in Seq(Sheet!Given) /\ Len(ns) \in Nat
  BY ListIs
<1> QED
  BY <1>1, SeqMonotonic DEF Sheet!Given, Labels

LEMMA ShapeInit == Sheet!Init => SheetInv
<1> SUFFICES ASSUME Sheet!Init PROVE Shape
  BY DEF SheetInv, Sheet!Init
<1>1. col_names \in Seq(Labels) /\ n_cols = Len(col_names) /\ n_rows = Len(rows)
  BY TableBounds, NamesGiven DEF Sheet!Init
<1>2. PICK w \in Sheet!Widths : \E rws \in Sheet!Lists(Sheet!Rows(w), 1) :
        rows = IF Sheet!HasWidth(rws, Len(col_names)) THEN rws ELSE <<>>
  BY DEF Sheet!Init
<1>3. PICK rws \in Sheet!Lists(Sheet!Rows(w), 1) :
        rows = IF Sheet!HasWidth(rws, Len(col_names)) THEN rws ELSE <<>>
  BY <1>2
<1>4. w \in Nat
  BY TableBounds DEF Sheet!Widths
<1>5. rws \in Seq(Row)
  BY <1>4, RowsGiven
<1>6. rows \in Seq(Wide(n_cols))
  BY <1>1, <1>3, <1>5, WidthMeans, EmptySeq
<1> QED
  BY <1>1, <1>6 DEF Shape

LEMMA ShapeSimple ==
  ASSUME SheetInv, ~lost, build' = build
  PROVE  /\ Sheet!ClearValues => SheetInv'
         /\ \A n \in Names : Sheet!Rename(n) => SheetInv'
         /\ \A ns \in Sheet!Lists(Sheet!Given, MaxCols) : Sheet!SetColNames(ns) => SheetInv'
<1>1. Shape /\ name \in Names
  BY DEF SheetInv
<1>2. <<>> \in Seq(Wide(n_cols)) /\ Len(<<>>) = 0
  BY EmptySeq
<1>3. Sheet!ClearValues => SheetInv'
  BY <1>1, <1>2 DEF Sheet!ClearValues, Sheet!Keep, SheetInv, Shape
<1>4. ASSUME NEW n \in Names, Sheet!Rename(n) PROVE SheetInv'
  BY <1>1, <1>4 DEF Sheet!Rename, SheetInv, Shape
<1>5. ASSUME NEW ns \in Sheet!Lists(Sheet!Given, MaxCols), Sheet!SetColNames(ns) PROVE SheetInv'
  <2>1. ns \in Seq(Labels)
    BY TableBounds, NamesGiven
  <2>2. n_rows = 0 => rows = <<>>
    BY <1>1, EmptySeq DEF Shape
  <2>3. /\ n_rows # 0 => Len(ns) = n_cols
        /\ n_cols' = Len(ns) /\ col_names' = ns
        /\ name' = name /\ rows' = rows /\ n_rows' = n_rows
    BY <1>5 DEF Sheet!SetColNames
  <2>4. rows' \in Seq(Wide(n_cols'))
    <3>1. CASE n_rows = 0
      BY <2>2, <2>3, <3>1, EmptySeq
    <3>2. CASE n_rows # 0
      BY <1>1, <2>3, <3>2 DEF Shape
    <3> QED
      BY <3>1, <3>2
  <2> QED
    BY <1>1, <2>1, <2>3, <2>4 DEF SheetInv, Shape
<1> QED
  BY <1>3, <1>4, <1>5

LEMMA ShapeRows ==
  ASSUME SheetInv, ~lost, build' = build
  PROVE  /\ \A w \in Sheet!Widths : \A rws \in Sheet!Lists(Sheet!Rows(w), MaxRows) :
              Sheet!SetValues(rws) => SheetInv'
         /\ \A rws \in Sheet!Lists(Sheet!Rows(n_cols), 2), i \in 0..n_rows :
              Sheet!InsertRows(rws, i) => SheetInv'
         /\ \A i, j \in 0..MaxRows : Sheet!EraseRows(i, j) \/ Sheet!EraseRow(i) => SheetInv'
<1>1. /\ name \in Names /\ col_names \in Seq(Labels) /\ n_cols = Len(col_names)
      /\ rows \in Seq(Wide(n_cols)) /\ n_rows = Len(rows)
  BY DEF SheetInv, Shape
<1>2. n_cols \in Nat /\ n_rows \in Nat
  BY <1>1, LenProperties
<1>3. ASSUME name' = name, col_names' = col_names, n_cols' = n_cols,
             rows' \in Seq(Wide(n_cols)), n_rows' = Len(rows')
      PROVE  SheetInv'
  BY <1>1, <1>3 DEF SheetInv, Shape
<1>4. ASSUME NEW w \in Sheet!Widths, NEW rws \in Sheet!Lists(Sheet!Rows(w), MaxRows),
             Sheet!SetValues(rws)
      PROVE  SheetInv'
  <2>1. w \in Nat
    BY TableBounds DEF Sheet!Widths
  <2>2. rws \in Seq(Row)
    BY <2>1, TableBounds, RowsGiven
  <2>3. rows' \in Seq(Wide(n_cols))
    BY <1>4, <2>2, WidthMeans, EmptySeq DEF Sheet!SetValues
  <2> QED
    BY <1>3, <1>4, <2>3 DEF Sheet!SetValues, Sheet!Keep
<1>5. ASSUME NEW rws \in Sheet!Lists(Sheet!Rows(n_cols), 2), NEW i \in 0..n_rows,
             Sheet!InsertRows(rws, i)
      PROVE  SheetInv'
  <2>1. rws \in Seq(Wide(n_cols))
    BY <1>2, RowsGiven
  <2>2. /\ Sheet!Splice(rows, i, rws) \in Seq(Wide(n_cols))
        /\ Len(Sheet!Splice(rows, i, rws)) = n_rows + Len(rws)
    BY <1>1, <2>1, SpliceIs
  <2> QED
    BY <1>3, <1>5, <2>2 DEF Sheet!InsertRows, Sheet!Keep
<1>6. ASSUME NEW i \in 0..MaxRows, NEW j \in 0..MaxRows, Sheet!EraseRows(i, j)
      PROVE  SheetInv'
  <2>1. i \in Nat /\ j \in Nat /\ i <= j /\ j <= Len(rows)
    BY <1>1, <1>2, <1>6, TableBounds DEF Sheet!EraseRows
  <2>2. /\ Sheet!Cut(rows, i, j) \in Seq(Wide(n_cols))
        /\ Len(Sheet!Cut(rows, i, j)) = n_rows - (j - i)
    BY <1>1, <2>1, CutIs
  <2> QED
    BY <1>3, <1>6, <2>2 DEF Sheet!EraseRows, Sheet!Keep
<1>7. ASSUME NEW i \in 0..MaxRows, Sheet!EraseRow(i)
      PROVE  SheetInv'
  <2>1. i \in Nat /\ i + 1 \in Nat /\ i <= i + 1 /\ i + 1 <= Len(rows) /\ (i + 1) - i = 1
    BY <1>1, <1>2, <1>7, TableBounds DEF Sheet!EraseRow
  <2>2. /\ Sheet!Cut(rows, i, i + 1) \in Seq(Wide(n_cols))
        /\ Len(Sheet!Cut(rows, i, i + 1)) = n_rows - 1
    BY <1>1, <2>1, CutIs
  <2> QED
    BY <1>3, <1>7, <2>2 DEF Sheet!EraseRow, Sheet!Keep
<1> QED
  BY <1>4, <1>5, <1>6, <1>7

LEMMA ShapeColsLess ==
  ASSUME SheetInv, ~lost, build' = build
  PROVE  /\ Sheet!PopBackCol => SheetInv'
         /\ \A i, j \in 0..MaxCols : Sheet!EraseCols(i, j) \/ Sheet!EraseCol(i) => SheetInv'
<1>1. /\ name \in Names /\ col_names \in Seq(Labels) /\ n_cols = Len(col_names)
      /\ rows \in Seq(Wide(n_cols)) /\ n_rows = Len(rows)
  BY DEF SheetInv, Shape
<1>2. /\ n_cols \in Nat /\ n_rows \in Nat /\ DOMAIN rows = 1..Len(rows)
      /\ \A i \in 1..Len(rows) : rows[i] \in Seq(Nat) /\ Len(rows[i]) = n_cols
  BY <1>1, LenProperties, WideIs
<1>3. ASSUME Sheet!PopBackCol PROVE SheetInv'
  <2>1. /\ n_cols > 0 /\ n_cols' = n_cols - 1 /\ col_names' = Sheet!Front(col_names)
        /\ rows' = [i \in DOMAIN rows |-> Sheet!Front(rows[i])]
        /\ name' = name /\ n_rows' = n_rows
    BY <1>3 DEF Sheet!PopBackCol
  <2>2. col_names' \in Seq(Labels) /\ Len(col_names') = n_cols'
    <3>1. col_names # <<>>
      BY <1>1, <2>1, EmptySeq
    <3> QED
      BY <1>1, <2>1, <3>1, FrontIs
  <2>3. ASSUME NEW i \in 1..Len(rows) PROVE rows'[i] \in Wide(n_cols')
    <3>1. rows[i] \in Seq(Nat) /\ Len(rows[i]) = n_cols
      BY <1>2
    <3>2. rows[i] # <<>>
      BY <2>1, <3>1, EmptySeq
    <3>3. Sheet!Front(rows[i]) \in Seq(Nat) /\ Len(Sheet!Front(rows[i])) = n_cols - 1
      BY <3>1, <3>2, FrontIs
    <3> QED
      BY <1>2, <2>1, <3>3 DEF Wide, Row
  <2>4. rows' = [i \in DOMAIN rows |-> rows'[i]]
    BY <2>1
  <2>5. rows' \in Seq(Wide(n_cols')) /\ Len(rows') = Len(rows)
    BY <1>1, <2>3, <2>4, EachRow
  <2> QED
    BY <1>1, <2>1, <2>2, <2>5 DEF SheetInv, Shape
<1>4. ASSUME NEW i \in 0..MaxCols, NEW j \in 0..MaxCols, Sheet!EraseCols(i, j)
      PROVE  SheetInv'
  <2>1. /\ i < j /\ j < n_cols /\ n_cols' = n_cols - (j - i)
        /\ col_names' = Sheet!Cut(col_names, i, j)
        /\ rows' = [k \in DOMAIN rows |-> Sheet!Cut(rows[k], i, j)]
        /\ name' = name /\ n_rows' = n_rows
    BY <1>4 DEF Sheet!EraseCols
  <2>2. i \in Nat /\ j \in Nat /\ i <= j /\ j <= n_cols
    BY <1>2, <2>1, TableBounds
  <2>3. col_names' \in Seq(Labels) /\ Len(col_names') = n_cols'
    BY <1>1, <2>1, <2>2, CutIs
  <2>4. ASSUME NEW k \in 1..Len(rows) PROVE rows'[k] \in Wide(n_cols')
    <3>1. rows[k] \in Seq(Nat) /\ Len(rows[k]) = n_cols
      BY <1>2
    <3>2. /\ Sheet!Cut(rows[k], i, j) \in Seq(Nat)
          /\ Len(Sheet!Cut(rows[k], i, j)) = n_cols - (j - i)
      BY <2>2, <3>1, CutIs
    <3> QED
      BY <1>2, <2>1, <3>2 DEF Wide, Row
  <2>5. rows' = [k \in DOMAIN rows |-> rows'[k]]
    BY <2>1
  <2>6. rows' \in Seq(Wide(n_cols')) /\ Len(rows') = Len(rows)
    BY <1>1, <2>4, <2>5, EachRow
  <2> QED
    BY <1>1, <2>1, <2>3, <2>6 DEF SheetInv, Shape
<1>5. ASSUME NEW i \in 0..MaxCols, Sheet!EraseCol(i) PROVE SheetInv'
  BY <1>1, <1>5 DEF Sheet!EraseCol, SheetInv
<1> QED
  BY <1>3, <1>4, <1>5

\* A vector of rows is made as long as the first columns before they are put in.
LEMMA Lengthened ==
  ASSUME Shape, NEW m \in Nat, n_cols > 0 => m = n_rows
  PROVE  LET old == IF n_cols = 0 THEN Sheet!Resize(rows, m) ELSE rows
         IN  old \in Seq(Wide(n_cols)) /\ Len(old) = m
<1>1. n_cols \in Nat
  BY LenProperties DEF Shape
<1>2. CASE n_cols = 0
  BY <1>2, ResizeIs DEF Shape
<1>3. CASE n_cols # 0
  BY <1>1, <1>3 DEF Shape
<1> QED
  BY <1>2, <1>3

LEMMA ShapePushed ==
  ASSUME SheetInv, ~lost, build' = build
  PROVE  /\ \A n \in Sheet!Given, col \in Sheet!Lists(Figures, MaxRows) :
              Sheet!PushBackCol(n, col) => SheetInv'
         /\ \A ns \in Sheet!Lists(Sheet!Given, 2) :
              \A cols \in Sheet!Lists(Sheet!Rows(Len(ns)), MaxRows) :
                Sheet!PushBackCols(ns, cols) => SheetInv'
<1>1. /\ Shape /\ name \in Names /\ col_names \in Seq(Labels) /\ n_cols = Len(col_names)
      /\ n_rows = Len(rows)
  BY DEF SheetInv, Shape
<1>2. n_cols \in Nat
  BY <1>1, LenProperties
<1>3. ASSUME NEW n \in Sheet!Given, NEW col \in Sheet!Lists(Figures, MaxRows),
             Sheet!PushBackCol(n, col)
      PROVE  SheetInv'
  <2>1. PICK old : old = IF n_cols = 0 THEN Sheet!Resize(rows, Len(col)) ELSE rows
    OBVIOUS
  <2>2. /\ n_cols > 0 => Len(col) = n_rows
        /\ n_rows' = Len(col) /\ n_cols' = n_cols + 1 /\ col_names' = Append(col_names, n)
        /\ rows' = [i \in DOMAIN old |-> Append(old[i], col[i])]
        /\ name' = name
    BY <1>3, <2>1 DEF Sheet!PushBackCol
  <2>3. col \in Seq(Figures) /\ Len(col) \in Nat
    BY TableBounds, ListIs
  <2>4. old \in Seq(Wide(n_cols)) /\ Len(old) = Len(col)
    BY <1>1, <2>1, <2>2, <2>3, Lengthened
  <2>5. DOMAIN old = 1..Len(col) /\ \A i \in 1..Len(col) : old[i] \in Seq(Nat) /\ Len(old[i]) = n_cols
    BY <2>4, WideIs
  <2>6. col_names' \in Seq(Labels) /\ Len(col_names') = n_cols'
    <3>1. n \in Labels
      BY DEF Sheet!Given, Labels
    <3> QED
      BY <1>1, <2>2, <3>1, AppendProperties
  <2>7. ASSUME NEW i \in 1..Len(old) PROVE rows'[i] \in Wide(n_cols')
    <3>1. col[i] \in Nat
      BY <2>3, <2>4, TableBounds, ElementOfSeq
    <3>2. Append(old[i], col[i]) \in Seq(Nat) /\ Len(Append(old[i], col[i])) = n_cols + 1
      BY <2>4, <2>5, <3>1, AppendProperties
    <3> QED
      BY <2>2, <2>4, <2>5, <3>2 DEF Wide, Row
  <2>8. rows' = [i \in DOMAIN old |-> rows'[i]]
    BY <2>2
  <2>9. rows' \in Seq(Wide(n_cols')) /\ Len(rows') = Len(col)
    BY <2>4, <2>7, <2>8, EachRow
  <2> QED
    BY <1>1, <2>2, <2>6, <2>9 DEF SheetInv, Shape
<1>4. ASSUME NEW ns \in Sheet!Lists(Sheet!Given, 2),
             NEW cols \in Sheet!Lists(Sheet!Rows(Len(ns)), MaxRows), Sheet!PushBackCols(ns, cols)
      PROVE  SheetInv'
  <2>1. PICK old : old = IF n_cols = 0 THEN Sheet!Resize(rows, Len(cols)) ELSE rows
    OBVIOUS
  <2>2. /\ n_cols > 0 => Len(cols) = n_rows
        /\ n_rows' = Len(cols) /\ n_cols' = n_cols + Len(ns)
        /\ rows' = [i \in DOMAIN old |-> old[i] \o cols[i]]
        /\ lost' = (ns # <<>>) /\ name' = name /\ col_names' = col_names
    BY <1>4, <2>1 DEF Sheet!PushBackCols
  <2> SUFFICES ASSUME ns = <<>> PROVE SheetInv'
    <3>1. CASE ns # <<>>
      <4>1. lost' = TRUE
        BY <2>2, <3>1
      <4> QED
        BY <1>1, <2>2, <4>1 DEF SheetInv
    <3> QED
      BY <3>1
  <2>3. Len(ns) = 0
    BY EmptySeq
  <2>4. /\ cols \in Seq(Wide(0)) /\ Len(cols) \in Nat
        /\ \A i \in 1..Len(cols) : cols[i] \in Seq(Nat) /\ Len(cols[i]) = 0
    BY <2>3, TableBounds, RowsGiven, WideIs
  <2>5. old \in Seq(Wide(n_cols)) /\ Len(old) = Len(cols)
    BY <1>1, <2>1, <2>2, <2>4, Lengthened
  <2>6. /\ DOMAIN old = 1..Len(cols)
        /\ \A i \in 1..Len(cols) : old[i] \in Seq(Nat) /\ Len(old[i]) = n_cols
    BY <2>5, WideIs
  <2>7. n_cols' = n_cols
    BY <1>2, <2>2, <2>3
  <2>8. ASSUME NEW i \in 1..Len(old) PROVE rows'[i] \in Wide(n_cols')
    <3>1. old[i] \o cols[i] \in Seq(Nat) /\ Len(old[i] \o cols[i]) = n_cols + 0
      BY <2>4, <2>5, <2>6, ConcatProperties
    <3> QED
      BY <1>2, <2>2, <2>5, <2>6, <2>7, <3>1 DEF Wide, Row
  <2>9. rows' = [i \in DOMAIN old |-> rows'[i]]
    BY <2>2
  <2>10. rows' \in Seq(Wide(n_cols')) /\ Len(rows') = Len(cols)
    BY <2>5, <2>8, <2>9, EachRow
  <2> QED
    BY <1>1, <2>2, <2>7, <2>10 DEF SheetInv, Shape
<1> QED
  BY <1>3, <1>4

LEMMA ShapeInserted ==
  ASSUME SheetInv, ~lost, build' = build
  PROVE  /\ \A n \in Sheet!Given, col \in Sheet!Lists(Figures, MaxRows), index \in 0..n_cols :
              Sheet!InsertCol(n, col, index) => SheetInv'
         /\ \A ns \in Sheet!Lists(Sheet!Given, 2) :
              \A cols \in Sheet!Lists(Sheet!Rows(Len(ns)), MaxRows), index \in 0..n_cols :
                Sheet!InsertCols(ns, cols, index) => SheetInv'
<1>1. /\ Shape /\ name \in Names /\ col_names \in Seq(Labels) /\ n_cols = Len(col_names)
      /\ rows \in Seq(Wide(n_cols)) /\ n_rows = Len(rows)
  BY DEF SheetInv, Shape
<1>2. /\ n_cols \in Nat /\ n_rows \in Nat /\ DOMAIN rows = 1..Len(rows)
      /\ \A i \in 1..Len(rows) : rows[i] \in Seq(Nat) /\ Len(rows[i]) = n_cols
  BY <1>1, LenProperties, WideIs
<1>3. ASSUME NEW n \in Sheet!Given, NEW col \in Sheet!Lists(Figures, MaxRows), NEW index \in 0..n_cols,
             Sheet!InsertCol(n, col, index)
      PROVE  SheetInv'
  <2>1. /\ Len(col) = n_rows /\ n_rows' = IF n_cols = 0 THEN 1 ELSE n_rows
        /\ n_cols' = n_cols + 1 /\ col_names' = Sheet!Splice(col_names, index, <<n>>)
        /\ name' = name
    BY <1>3 DEF Sheet!InsertCol
  <2>2. n_rows' \in Nat
    BY <1>2, <2>1
  <2>3. PICK m \in Nat : m = n_rows'
    BY <2>2
  <2>4. PICK beyond \in Figures :
          rows' = [i \in 1..n_rows' |->
                     Sheet!Splice(Sheet!Resize(rows, n_rows')[i], index,
                                  <<IF i \in DOMAIN col THEN col[i] ELSE beyond>>)]
    BY <1>3 DEF Sheet!InsertCol
  <2>5. col \in Seq(Figures) /\ DOMAIN col = 1..Len(col)
    BY TableBounds, ListIs
  <2>6. ASSUME NEW i \in 1..m
        PROVE  Sheet!Resize(rows, m)[i] \in Seq(Nat) /\ Len(Sheet!Resize(rows, m)[i]) = n_cols
    <3>1. Sheet!Resize(rows, m)[i] = IF i \in DOMAIN rows THEN rows[i] ELSE <<>>
      BY DEF Sheet!Resize
    <3>2. CASE i \in DOMAIN rows
      BY <1>2, <3>1, <3>2
    <3>3. CASE i \notin DOMAIN rows
      <4>1. n_cols = 0
        BY <1>1, <1>2, <2>1, <2>3, <3>3
      <4> QED
        BY <3>1, <3>3, <4>1, EmptySeq
    <3> QED
      BY <3>2, <3>3
  <2>7. ASSUME NEW i \in 1..m PROVE rows'[i] \in Wide(n_cols')
    <3>1. PICK at : at = IF i \in DOMAIN col THEN col[i] ELSE beyond
      OBVIOUS
    <3>2. at \in Nat
      BY <2>5, <3>1, TableBounds, ElementOfSeq
    <3>3. <<at>> \in Seq(Nat) /\ Len(<<at>>) = 1
      BY <3>2
    <3>4. PICK r \in Seq(Nat) : r = Sheet!Resize(rows, m)[i] /\ Len(r) = n_cols
      BY <2>6
    <3>5. /\ Sheet!Splice(r, index, <<at>>) \in Seq(Nat)
          /\ Len(Sheet!Splice(r, index, <<at>>)) = n_cols + 1
      BY <3>3, <3>4, SpliceIs
    <3>6. rows'[i] = Sheet!Splice(r, index, <<at>>)
      BY <2>3, <2>4, <3>1, <3>4
    <3> QED
      BY <2>1, <3>5, <3>6 DEF Wide, Row
  <2>8. rows' \in [1..m -> Wide(n_cols')]
    <3>1. rows' = [i \in 1..m |-> rows'[i]]
      BY <2>3, <2>4
    <3> QED
      BY <2>7, <3>1
  <2>9. rows' \in Seq(Wide(n_cols'))
    BY <2>8, SeqDef
  <2>10. Len(rows') = m
    BY <2>8, <2>9, LenProperties
  <2>11. col_names' \in Seq(Labels) /\ Len(col_names') = n_cols'
    <3>1. PICK ns \in Seq(Labels) : ns = <<n>> /\ Len(ns) = 1
      <4>1. n \in Labels
        BY DEF Sheet!Given, Labels
      <4>2. <<n>> \in Seq(Labels) /\ Len(<<n>>) = 1
        BY <4>1
      <4> QED
        BY <4>2
    <3>2. PICK names : names = Sheet!Splice(col_names, index, ns)
      OBVIOUS
    <3>3. names \in Seq(Labels) /\ Len(names) = n_cols + 1
      BY <1>1, <3>1, <3>2, SpliceIs
    <3> QED
      BY <2>1, <3>1, <3>2, <3>3
  <2> QED
    BY <1>1, <2>1, <2>3, <2>9, <2>10, <2>11 DEF SheetInv, Shape
<1>4. ASSUME NEW ns \in Sheet!Lists(Sheet!Given, 2),
             NEW cols \in Sheet!Lists(Sheet!Rows(Len(ns)), MaxRows), NEW index \in 0..n_cols,
             Sheet!InsertCols(ns, cols, index)
      PROVE  SheetInv'
  <2>1. /\ Len(cols) = n_rows /\ n_cols' = n_cols + Len(ns)
        /\ col_names' = Sheet!Splice(col_names, index, ns)
        /\ rows' = [i \in DOMAIN rows |-> Sheet!Splice(rows[i], index, cols[i])]
        /\ name' = name /\ n_rows' = n_rows
    BY <1>4 DEF Sheet!InsertCols
  <2>2. ns \in Seq(Labels) /\ Len(ns) \in Nat
    BY NamesGiven
  <2>3. /\ cols \in Seq(Wide(Len(ns)))
        /\ \A i \in 1..Len(cols) : cols[i] \in Seq(Nat) /\ Len(cols[i]) = Len(ns)
    BY <2>2, TableBounds, RowsGiven, WideIs
  <2>4. col_names' \in Seq(Labels) /\ Len(col_names') = n_cols'
    BY <1>1, <2>1, <2>2, SpliceIs
  <2>5. ASSUME NEW i \in 1..Len(rows) PROVE rows'[i] \in Wide(n_cols')
    <3>1. /\ rows[i] \in Seq(Nat) /\ Len(rows[i]) = n_cols
          /\ cols[i] \in Seq(Nat) /\ Len(cols[i]) = Len(ns)
      BY <1>1, <1>2, <2>1, <2>3
    <3>2. PICK r \in Seq(Nat), c \in Seq(Nat) :
            r = rows[i] /\ c = cols[i] /\ Len(r) = n_cols /\ Len(c) = Len(ns)
      BY <3>1
    <3>3. Sheet!Splice(r, index, c) \in Seq(Nat) /\ Len(Sheet!Splice(r, index, c)) = Len(r) + Len(c)
      BY <3>2, SpliceIs
    <3>4. rows'[i] = Sheet!Splice(r, index, c)
      BY <1>2, <2>1, <3>2
    <3> QED
      BY <2>1, <3>2, <3>3, <3>4 DEF Wide, Row
  <2>6. rows' = [i \in DOMAIN rows |-> rows'[i]]
    BY <2>1
  <2>7. rows' \in Seq(Wide(n_cols')) /\ Len(rows') = Len(rows)
    BY <1>1, <2>5, <2>6, EachRow
  <2> QED
    BY <1>1, <2>1, <2>4, <2>7 DEF SheetInv, Shape
<1> QED
  BY <1>3, <1>4

\* A table of this shape that has columns is one that a file keeps.
LEMMA ThisIsStorable ==
  ASSUME SheetInv, ~lost, col_names # <<>>
  PROVE  /\ Sheet!This \in Storable
         /\ Sheet!This.name = name /\ Sheet!This.cols = col_names /\ Sheet!This.rows = rows
<1>1. /\ name \in Names /\ col_names \in Seq(Labels) /\ n_cols = Len(col_names)
      /\ rows \in Seq(Wide(n_cols))
  BY DEF SheetInv, Shape
<1>2. Names \subseteq Words /\ Labels \subseteq Titles /\ Wide(n_cols) \subseteq Row
  BY DEF Words, Wide, Labels, Titles
<1>3. name \in Words /\ col_names \in Seq(Titles) /\ rows \in Seq(Row)
  BY <1>1, <1>2, SeqMonotonic
<1>4. /\ Sheet!This \in Sheets
      /\ Sheet!This.name = name /\ Sheet!This.cols = col_names /\ Sheet!This.rows = rows
  BY <1>3, StoreIs DEF Sheet!This, Store
<1>5. Whole(col_names, rows)
  BY <1>1, WideIs DEF Whole
<1> QED
  BY <1>4, <1>5 DEF Storable

LEMMA SixWide ==
  ASSUME NEW w, NEW rws \in Seq(Wide(w))
  PROVE  SixRows(rws) \in Seq(Wide(w))
<1>1. SixRows(rws) = [i \in DOMAIN rws |-> SixRows(rws)[i]]
  BY DEF SixRows
<1>2. ASSUME NEW i \in 1..Len(rws) PROVE SixRows(rws)[i] \in Wide(w)
  <2>1. rws[i] \in Row /\ Len(rws[i]) = w /\ i \in DOMAIN rws
    BY WideIs DEF Row
  <2>2. SixRow(rws[i]) \in Row /\ Len(SixRow(rws[i])) = w
    BY <2>1, RowLineIs
  <2> QED
    BY <2>1, <2>2 DEF SixRows, Wide
<1> QED
  BY <1>1, <1>2, EachRow

LEMMA ShapeReloaded ==
  ASSUME SheetInv, ~lost, Sheet!Reload, build' = build
  PROVE  SheetInv'
<1>1. col_names # <<>>
  BY DEF Sheet!Reload
<1>2. PICK t \in Storable : t = Sheet!This /\ t.name = name /\ t.cols = col_names /\ t.rows = rows
  BY <1>1, ThisIsStorable
<1>3. PICK again : again = Sheet!OnceMore(build, t)
  OBVIOUS
<1>4. PICK re : re = Sheet!Reread(build, col_names)
  OBVIOUS
<1>5. again = Store(name, re, SixRows(rows))
  BY <1>2, <1>3, <1>4, OnceMoreIs
<1>6. Sheet!Read(Sheet!How(build, FALSE, 0), Sheet!WriteOne(Sheet!This))[1] = again
  <2>1. Sheet!Read(Sheet!How(build, FALSE, 0), Sheet!WriteOne(t)) = <<again>>
    BY <1>3, FileRead
  <2>2. <<again>>[1] = again
    OBVIOUS
  <2> QED
    BY <1>2, <2>1, <2>2, Zenon
<1>7. /\ name' = again.name /\ col_names' = again.cols /\ rows' = again.rows
      /\ n_cols' = Len(again.cols) /\ n_rows' = Len(again.rows)
  BY <1>6 DEF Sheet!Reload
<1>8. again.name = name /\ again.cols = re /\ again.rows = SixRows(rows)
  BY <1>5 DEF Store, Sheet!Stored
<1>9. /\ name \in Names /\ col_names \in Seq(Labels) /\ n_cols = Len(col_names)
      /\ rows \in Seq(Wide(n_cols)) /\ build \in {"windows", "posix"}
  BY DEF SheetInv, Shape
<1>10. SixRows(rows) \in Seq(Wide(n_cols))
  BY <1>9, SixWide
<1>11. re \in Seq(Labels) /\ Len(re) = n_cols
  BY <1>1, <1>4, <1>9, RereadIs DEF Labels
<1> QED
  BY <1>7, <1>8, <1>9, <1>10, <1>11 DEF SheetInv, Shape

LEMMA ShapeStep ==
  SheetInv /\ [Sheet!Next]_<<name, col_names, rows, n_cols, n_rows, lost, build>> => SheetInv'
<1> SUFFICES ASSUME SheetInv, [Sheet!Next]_<<name, col_names, rows, n_cols, n_rows, lost, build>>
             PROVE  SheetInv'
  OBVIOUS
<1>1. CASE Sheet!Clear /\ build' = build
  BY <1>1, EmptySeq DEF Sheet!Clear, SheetInv, Shape
<1>2. CASE UNCHANGED <<name, col_names, rows, n_cols, n_rows, lost, build>>
  BY <1>2 DEF SheetInv, Shape
<1>3. CASE Sheet!Next /\ ~Sheet!Clear
  <2>1. ~lost /\ build' = build
    BY <1>3 DEF Sheet!Next
  <2>2. CASE \/ Sheet!ClearValues \/ \E n \in Names : Sheet!Rename(n)
             \/ \E ns \in Sheet!Lists(Sheet!Given, MaxCols) : Sheet!SetColNames(ns)
    BY <2>1, <2>2, ShapeSimple
  <2>3. CASE \/ \E w \in Sheet!Widths : \E rws \in Sheet!Lists(Sheet!Rows(w), MaxRows) :
                  Sheet!SetValues(rws)
             \/ \E rws \in Sheet!Lists(Sheet!Rows(n_cols), 2), i \in 0..n_rows :
                  Sheet!InsertRows(rws, i)
             \/ \E i, j \in 0..MaxRows : Sheet!EraseRows(i, j) \/ Sheet!EraseRow(i)
    BY <2>1, <2>3, ShapeRows
  <2>4. CASE \E n \in Sheet!Given, col \in Sheet!Lists(Figures, MaxRows) :
               \/ Sheet!PushBackCol(n, col)
               \/ \E i \in 0..n_cols : Sheet!InsertCol(n, col, i)
    BY <2>1, <2>4, ShapePushed, ShapeInserted
  <2>5. CASE \E ns \in Sheet!Lists(Sheet!Given, 2) :
               \E cols \in Sheet!Lists(Sheet!Rows(Len(ns)), MaxRows) :
                 \/ Sheet!PushBackCols(ns, cols)
                 \/ \E i \in 0..n_cols : Sheet!InsertCols(ns, cols, i)
    BY <2>1, <2>5, ShapePushed, ShapeInserted
  <2>6. CASE \/ Sheet!PopBackCol
             \/ \E i, j \in 0..MaxCols : Sheet!EraseCols(i, j) \/ Sheet!EraseCol(i)
    BY <2>1, <2>6, ShapeColsLess
  <2>7. CASE Sheet!Reload
    BY <2>1, <2>7, ShapeReloaded
  <2> QED
    BY <1>3, <2>2, <2>3, <2>4, <2>5, <2>6, <2>7, Zenon DEF Sheet!Next
<1> QED
  BY <1>1, <1>2, <1>3 DEF Sheet!Next

LEMMA ShapeIsEnough == SheetInv => TablesReadBack
<1> SUFFICES ASSUME SheetInv PROVE Sheet!Rectangular /\ Sheet!ReadsBack
  BY DEF TablesReadBack
<1>1. Sheet!Rectangular
  <2> SUFFICES ASSUME ~lost
               PROVE  /\ n_rows = Len(rows) /\ n_cols = Len(col_names)
                      /\ Sheet!HasWidth(rows, n_cols)
                      /\ \A i \in DOMAIN rows : rows[i] \in [1..n_cols -> Nat]
    BY DEF SheetInv, Sheet!Rectangular
  <2>1. n_rows = Len(rows) /\ n_cols = Len(col_names) /\ rows \in Seq(Wide(n_cols))
    BY DEF SheetInv, Shape
  <2>2. /\ DOMAIN rows = 1..Len(rows)
        /\ \A i \in 1..Len(rows) : rows[i] \in Seq(Nat) /\ Len(rows[i]) = n_cols
    BY <2>1, WideIs
  <2>3. \A i \in DOMAIN rows : rows[i] \in [1..n_cols -> Nat]
    BY <2>2, LenProperties
  <2> QED
    BY <2>1, <2>2, <2>3 DEF Sheet!HasWidth
<1>2. Sheet!ReadsBack
  <2> SUFFICES ASSUME ~lost, n_cols > 0
               PROVE  /\ Sheet!Read(Sheet!How(build, FALSE, 0), Sheet!WriteOne(Sheet!This)) =
                           <<Sheet!OnceMore(build, Sheet!This)>>
                      /\ build = "windows" =>
                           \A ts \in {<<Sheet!This>>, <<Sheet!This, Sheet!Other>>,
                                     <<Sheet!Other, Sheet!This>>} :
                             Sheet!Read(Sheet!How(build, TRUE, 0), Sheet!WriteAll(ts)) =
                               [k \in DOMAIN ts |-> Sheet!Six(ts[k])]
    BY DEF Sheet!ReadsBack
  <2>0. PICK other : other = Sheet!Other
    OBVIOUS
  <2>1. PICK t \in Storable : t = Sheet!This
    <3>1. col_names # <<>>
      BY EmptySeq DEF SheetInv, Shape
    <3> QED
      BY <3>1, ThisIsStorable
  <2>2. other \in Storable
    <3>1. PICK cols \in Seq(Titles) : cols = << <<"a", 0>> >> /\ Len(cols) = 1 /\ cols # <<>>
      <4>1. PICK a \in Titles : a = <<"a", 0>>
        BY DEF Words, Titles
      <4>2. <<a>> \in Seq(Titles) /\ Len(<<a>>) = 1
        OBVIOUS
      <4>3. <<a>> # <<>>
        BY <4>2, EmptySeq
      <4> QED
        BY <4>1, <4>2, <4>3
    <3>2. << 5 >> \in Row /\ << 6 >> \in Row /\ Len(<< 5 >>) = 1 /\ Len(<< 6 >>) = 1
      BY DEF Row
    <3>3. PICK rws \in Seq(Row) : rws = << << 5 >>, << 6 >> >>
      <4>1. PICK a \in Row, b \in Row : a = << 5 >> /\ b = << 6 >>
        BY <3>2
      <4>2. <<a, b>> \in Seq(Row)
        OBVIOUS
      <4> QED
        BY <4>1, <4>2
    <3>4. \A i \in DOMAIN rws : Len(rws[i]) = 1
      BY <3>2, <3>3
    <3>5. "other" \in Words
      BY DEF Words
    <3>6. other = Store("other", cols, rws)
      BY <2>0, <3>1, <3>3 DEF Store, Sheet!Other
    <3>7. other \in Sheets /\ other.cols = cols /\ other.rows = rws
      BY <3>5, <3>6, StoreIs
    <3> QED
      BY <3>1, <3>4, <3>7 DEF Storable, Whole
  <2>3. /\ [k \in DOMAIN <<t>> |-> Sheet!Six(<<t>>[k])] = <<Sheet!Six(t)>>
        /\ [k \in DOMAIN <<t, other>> |-> Sheet!Six(<<t, other>>[k])] =
             <<Sheet!Six(t), Sheet!Six(other)>>
        /\ [k \in DOMAIN <<other, t>> |-> Sheet!Six(<<other, t>>[k])] =
             <<Sheet!Six(other), Sheet!Six(t)>>
    OBVIOUS
  <2>4. PICK windows : windows = Sheet!How("windows", TRUE, 0)
    OBVIOUS
  <2>5. /\ Sheet!Read(windows, Sheet!WriteAll(<<t>>)) = <<Sheet!Six(t)>>
        /\ Sheet!Read(windows, Sheet!WriteAll(<<t, other>>)) = <<Sheet!Six(t), Sheet!Six(other)>>
        /\ Sheet!Read(windows, Sheet!WriteAll(<<other, t>>)) = <<Sheet!Six(other), Sheet!Six(t)>>
    BY <2>2, <2>4, FileRead
  <2>6. Sheet!Read(Sheet!How(build, FALSE, 0), Sheet!WriteOne(t)) = <<Sheet!OnceMore(build, t)>>
    BY FileRead
  <2>7. ASSUME build = "windows",
               NEW ts \in {<<t>>, <<t, other>>, <<other, t>>}
        PROVE  Sheet!Read(Sheet!How(build, TRUE, 0), Sheet!WriteAll(ts)) =
                 [k \in DOMAIN ts |-> Sheet!Six(ts[k])]
    BY <2>3, <2>4, <2>5, <2>7, Zenon
  <2> QED
    BY <2>0, <2>1, <2>6, <2>7, Zenon
<1> QED
  BY <1>1, <1>2

\* Whatever calls are made in whatever order, until one of the two that lose the shape
\* (erase_col and push_back_cols), and in every build: a table alone reads back but for an
\* \r at the end of its last name in those for POSIX, and with others in one for Windows.
THEOREM TablesAreReadBack == Sheet!Spec => []TablesReadBack
<1>1. Sheet!Init => SheetInv
  BY ShapeInit
<1>2. SheetInv /\ [Sheet!Next]_Sheet!vars => SheetInv'
  BY ShapeStep DEF Sheet!vars
<1> QED
  BY <1>1, <1>2, ShapeIsEnough, PTL DEF Sheet!Spec

-----------------------------------------------------------------------------
(* Packets. *)

Pair == [1..2 -> Packet!Byte]

\* What is written, and the bytes of it.
Items    == UNION {{<<type, v>> : v \in Payloads[type]} : type \in Packet!Types}
Coded(x) == Packet!Encode(x[1], x[2])

\* A float is not converted, and an empty text is not read into a character array.
Converted ==
  /\ "float" \in Packet!Types => Writer = Reader
  /\ \A type \in {"char*", "wchar_t*"} \cap Packet!Types : <<>> \notin Payloads[type]

LEMMA ReversedTwice ==
  ASSUME NEW S, NEW w \in Nat, NEW v \in [1..w -> S]
  PROVE  /\ v \in Seq(S) /\ Len(v) = w
         /\ Packet!Reverse(v) \in [1..w -> S]
         /\ Packet!Reverse(Packet!Reverse(v)) = v
<1>1. v \in Seq(S) /\ Len(v) = w
  BY SeqDef, LenProperties
<1>2. PICK r : r = Packet!Reverse(v)
  OBVIOUS
<1>3. r \in [1..w -> S] /\ r = [i \in 1..w |-> v[(w - i) + 1]]
  BY <1>1, <1>2 DEF Packet!Reverse
<1>4. r \in Seq(S) /\ Len(r) = w
  BY <1>3, SeqDef, LenProperties
<1>5. Packet!Reverse(r) = [i \in 1..w |-> r[(w - i) + 1]]
  BY <1>4 DEF Packet!Reverse
<1>6. \A i \in 1..w : r[(w - i) + 1] = v[i]
  BY <1>3
<1>7. v = [i \in 1..w |-> v[i]]
  OBVIOUS
<1> QED
  BY <1>1, <1>2, <1>3, <1>5, <1>6, <1>7

\* Through hton and ntoh a number is itself.
LEMMA WireIs ==
  ASSUME NEW host \in {Writer, Reader}, NEW w \in Nat, NEW v \in [1..w -> Packet!Byte]
  PROVE  /\ Packet!Wire(host, "int16", v) = v
         /\ Packet!Wire(host, "int32", v) = v
         /\ Packet!Wire(host, "int64", v) = v
         /\ Packet!Wire(host, "bool", v) = v
<1>1. Packet!Reverse(Packet!Reverse(v)) = v
  BY ReversedTwice
<1> QED
  BY <1>1 DEF Packet!Wire, Packet!Memory, Packet!Swapped

LEMMA FloatIs ==
  ASSUME Writer = Reader, NEW w \in Nat, NEW v \in [1..w -> Packet!Byte]
  PROVE  /\ Packet!Wire(Writer, "float", v) \in [1..w -> Packet!Byte]
         /\ Packet!Wire(Reader, "float", Packet!Wire(Writer, "float", v)) = v
<1>1. Packet!Reverse(Packet!Reverse(v)) = v /\ Packet!Reverse(v) \in [1..w -> Packet!Byte]
  BY ReversedTwice
<1> QED
  BY <1>1 DEF Packet!Wire, Packet!Memory, Packet!Swapped
-----------------------------------------------------------------------------
(* Elements of one width, one after another. *)

\* g is the function FlattenSeq defines, on the first n of ss
Joins(g, ss, n) == \A i \in 1..n : g[i] = IF i = 1 THEN ss[i] ELSE Join(g[i - 1], ss[i])

Flattens(g, ss, n) == g = [i \in 1..n |-> g[i]] /\ Joins(g, ss, n)

LEMMA FlattensLonger ==
  ASSUME NEW ss, NEW n \in Nat \ {0}, NEW g, Flattens(g, ss, n)
  PROVE  \E h : Flattens(h, ss, n + 1)
<1>0. Joins(g, ss, n)
  BY DEF Flattens
<1>1. PICK h : h = [i \in 1..(n + 1) |-> IF i <= n THEN g[i] ELSE Join(g[n], ss[n + 1])]
  OBVIOUS
<1>2. h = [i \in 1..(n + 1) |-> h[i]]
  BY <1>1
<1>3. ASSUME NEW i \in 1..(n + 1) PROVE h[i] = IF i = 1 THEN ss[i] ELSE Join(h[i - 1], ss[i])
  <2>1. CASE i <= n
    <3>1. h[i] = g[i] /\ (i # 1 => h[i - 1] = g[i - 1])
      BY <1>1, <2>1
    <3> QED
      BY <1>0, <2>1, <3>1 DEF Joins
  <2>2. CASE i = n + 1
    <3>1. h[n + 1] = Join(g[n], ss[n + 1]) /\ h[n] = g[n]
      BY <1>1
    <3> QED
      BY <2>2, <3>1
  <2> QED
    BY <2>1, <2>2
<1> QED
  BY <1>2, <1>3 DEF Flattens, Joins

LEMMA FlattenIs ==
  ASSUME NEW ss, Len(ss) \in Nat, Len(ss) # 0
  PROVE  \E g : Flattens(g, ss, Len(ss)) /\ Packet!FlattenSeq(ss) = g[Len(ss)]
<1> DEFINE T == {n \in Nat : \E g : Flattens(g, ss, n + 1)}
<1>1. 0 \in T
  <2>1. PICK g : g = [i \in 1..1 |-> ss[1]]
    OBVIOUS
  <2>2. Flattens(g, ss, 0 + 1)
    BY <2>1 DEF Flattens, Joins
  <2> QED
    BY <2>2
<1>2. \A n \in T : n + 1 \in T
  BY FlattensLonger
<1>3. T \in SUBSET Nat
  OBVIOUS
<1>4. \A n \in T : \E g : Flattens(g, ss, n + 1)
  OBVIOUS
<1> HIDE DEF T
<1>5. T = Nat
  BY <1>1, <1>2, <1>3, SetInduction
<1>6. (Len(ss) - 1) + 1 = Len(ss)
  OBVIOUS
<1>7. \E g : Flattens(g, ss, Len(ss))
  BY <1>4, <1>5, <1>6, Len(ss) - 1 \in Nat
<1>8. \A g : Flattens(g, ss, Len(ss)) <=>
             g = [i \in 1..Len(ss) |-> IF i = 1 THEN ss[i] ELSE Join(g[i - 1], ss[i])]
  BY DEF Flattens, Joins
<1> QED
  BY <1>7, <1>8 DEF Packet!FlattenSeq, Join

\* f holds the first k elements of ss, each w wide.
Spread(f, S, ss, w, k) ==
  /\ f \in Seq(S) /\ Len(f) = w * k
  /\ \A i \in 1..k : \A j \in 1..w : f[w * (i - 1) + j] = ss[i][j]

LEMMA SpreadOn ==
  ASSUME NEW S, NEW w \in {2, 4}, NEW k \in Nat, NEW ss, NEW f, Spread(f, S, ss, w, k),
         NEW e \in [1..w -> S], e = ss[k + 1]
  PROVE  Spread(Join(f, e), S, ss, w, k + 1)
<1>1. e \in Seq(S) /\ Len(e) = w
  BY ReversedTwice
<1>2. f \in Seq(S) /\ Len(f) = w * k
  BY DEF Spread
<1>3. w * k \in Nat /\ w * (k + 1) = w * k + w
  BY w = 2 \/ w = 4
<1>4. /\ Join(f, e) \in Seq(S) /\ Len(Join(f, e)) = w * (k + 1)
      /\ \A i \in 1..(w * k + w) : Join(f, e)[i] = IF i <= w * k THEN f[i] ELSE e[i - w * k]
  BY <1>1, <1>2, <1>3, ConcatProperties DEF Join
<1>5. ASSUME NEW i \in 1..(k + 1), NEW j \in 1..w
      PROVE  Join(f, e)[w * (i - 1) + j] = ss[i][j]
  <2>1. CASE i <= k
    <3>1. w * (i - 1) + j \in 1..(w * k + w) /\ w * (i - 1) + j <= w * k
      BY <2>1, w = 2 \/ w = 4
    <3> QED
      BY <1>4, <2>1, <3>1 DEF Spread
  <2>2. CASE i = k + 1
    <3>1. /\ w * (i - 1) + j \in 1..(w * k + w) /\ ~(w * (i - 1) + j <= w * k)
          /\ (w * (i - 1) + j) - w * k = j
      BY <2>2, w = 2 \/ w = 4
    <3> QED
      BY <1>4, <2>2, <3>1
  <2> QED
    BY <2>1, <2>2
<1> QED
  BY <1>4, <1>5 DEF Spread

LEMMA FlattenWide ==
  ASSUME NEW S, NEW w \in {2, 4}, NEW ss \in Seq([1..w -> S])
  PROVE  Spread(Packet!FlattenSeq(ss), S, ss, w, Len(ss))
<1>1. PICK m \in Nat : m = Len(ss)
  BY LenProperties
<1>2. CASE m = 0
  <2>1. ss = <<>> /\ Packet!FlattenSeq(ss) = <<>>
    BY <1>1, <1>2, EmptySeq DEF Packet!FlattenSeq
  <2>2. Packet!FlattenSeq(ss) \in Seq(S) /\ Len(Packet!FlattenSeq(ss)) = 0 /\ Len(ss) = 0
    BY <2>1, EmptySeq
  <2>3. w * 0 = 0 /\ 1..0 = {}
    OBVIOUS
  <2> QED
    BY <2>2, <2>3 DEF Spread
<1>3. CASE m # 0
  <2>1. PICK g : Flattens(g, ss, m) /\ Packet!FlattenSeq(ss) = g[m]
    BY <1>1, <1>3, FlattenIs
  <2>2. \A i \in 1..m : ss[i] \in [1..w -> S] /\ g[i] = IF i = 1 THEN ss[i] ELSE Join(g[i - 1], ss[i])
    BY <1>1, <2>1, ElementOfSeq DEF Flattens, Joins
  <2> DEFINE T == {n \in Nat : n + 1 <= m => Spread(g[n + 1], S, ss, w, n + 1)}
  <2>3. 0 \in T
    <3>1. g[1] = ss[1] /\ ss[1] \in [1..w -> S]
      BY <1>3, <2>2
    <3>2. g[1] \in Seq(S) /\ Len(g[1]) = w
      BY <3>1, ReversedTwice
    <3>3. w * 1 = w /\ \A i \in 1..1 : \A j \in 1..w : i = 1 /\ w * (i - 1) + j = j
      BY w = 2 \/ w = 4
    <3>4. Spread(g[1], S, ss, w, 1)
      BY <3>1, <3>2, <3>3 DEF Spread
    <3> QED
      BY <3>4
  <2>4. ASSUME NEW n \in T PROVE n + 1 \in T
    <3> SUFFICES ASSUME n + 2 <= m PROVE Spread(g[n + 2], S, ss, w, n + 2)
      OBVIOUS
    <3>1. Spread(g[n + 1], S, ss, w, n + 1)
      OBVIOUS
    <3>2. /\ n \in Nat /\ n + 2 \in 1..m /\ n + 2 # 1 /\ (n + 2) - 1 = n + 1
          /\ (n + 1) + 1 = n + 2 /\ n + 1 \in Nat
      OBVIOUS
    <3>3. g[n + 2] = Join(g[n + 1], ss[n + 2]) /\ ss[n + 2] \in [1..w -> S]
      BY <2>2, <3>2
    <3> HIDE DEF T
    <3> QED
      BY <3>1, <3>2, <3>3, SpreadOn
  <2>5. T \in SUBSET Nat /\ \A n \in T : n + 1 <= m => Spread(g[n + 1], S, ss, w, n + 1)
    OBVIOUS
  <2> HIDE DEF T
  <2>6. T = Nat
    BY <2>3, <2>4, <2>5, SetInduction
  <2>7. m - 1 \in T /\ (m - 1) + 1 = m
    BY <1>3, <2>6
  <2> QED
    BY <1>1, <2>1, <2>5, <2>7
<1> QED
  BY <1>2, <1>3
-----------------------------------------------------------------------------
(* Writing and reading one value. *)

LEMMA PacketBounds ==
  /\ Writer \in {"little", "big"} /\ Reader \in {"little", "big"}
  /\ Packet!Types \subseteq Packet!Scalars \cup Packet!Texts \cup Packet!Wides \cup {Packet!Vector}
  /\ Old \notin [1..4 -> Packet!Byte]
  /\ MaxWrites \in Nat /\ MaxReads \in Nat
BY PacketAssumption DEF Packet!PacketCodecAssumption, Packet!Types

\* The values of each type.
LEMMA ValuesAre ==
  ASSUME NEW type \in Packet!Types, NEW v \in Payloads[type]
  PROVE  /\ type \in Packet!Scalars => v \in [1..Packet!Width[type] -> Packet!Byte]
         /\ type = "bool" => v \in {<< 0 >>, << 1 >>}
         /\ type \in Packet!Texts => v \in Seq(Packet!Byte) /\ Len(v) < 256
         /\ type \in Packet!Wides => v \in Seq(Pair) /\ Len(v) < 256
         /\ type = Packet!Vector => v \in Seq(Pair)
BY PacketAssumption DEF Packet!PacketCodecAssumption, Packet!Types, Pair

\* b is at p in d, and in the packet.
FoundIn(d, b, p) ==
  /\ b \in Seq(Packet!Byte) /\ p \in Nat /\ p + Len(b) <= Len(d)
  /\ \A j \in 1..Len(b) : d[p + j] = b[j]
Found(b, p) == FoundIn(data, b, p)

LEMMA FoundBytes ==
  ASSUME data \in Seq(Packet!Byte), NEW b, NEW p, Found(b, p)
  PROVE  Packet!Bytes(p, Len(b)) = b
<1>1. PICK n \in Nat : n = Len(b) /\ b \in Seq(Packet!Byte)
  BY LenProperties DEF Found, FoundIn
<1>2. PICK m \in Nat : m = Len(data)
  BY LenProperties
<1>3. p \in Nat /\ p + n <= m /\ \A j \in 1..n : data[p + j] = b[j]
  BY <1>1, <1>2 DEF Found, FoundIn
<1>4. \A i \in (p + 1)..(p + n) : data[i] \in Packet!Byte
  BY <1>2, <1>3, ElementOfSeq
<1>5. p + 1 \in Int /\ p + n \in Int /\ (p + n) - (p + 1) + 1 = n
  BY <1>3
<1>6. /\ SubSeq(data, p + 1, p + n) \in Seq(Packet!Byte)
      /\ Len(SubSeq(data, p + 1, p + n)) = IF p + 1 <= p + n THEN (p + n) - (p + 1) + 1 ELSE 0
      /\ \A i \in 1..((p + n) - (p + 1) + 1) : SubSeq(data, p + 1, p + n)[i] = data[(p + 1) + i - 1]
  BY <1>4, <1>5, SubSeqProperties
<1>7. Len(SubSeq(data, p + 1, p + n)) = n
  BY <1>3, <1>5, <1>6
<1>8. \A i \in 1..n : SubSeq(data, p + 1, p + n)[i] = b[i]
  <2> SUFFICES ASSUME NEW i \in 1..n PROVE SubSeq(data, p + 1, p + n)[i] = b[i]
    OBVIOUS
  <2>1. (p + 1) + i - 1 = p + i
    BY <1>3
  <2> QED
    BY <1>3, <1>5, <1>6, <2>1
<1>9. SubSeq(data, p + 1, p + n) = b
  BY <1>1, <1>6, <1>7, <1>8, SeqEqual
<1> QED
  BY <1>1, <1>9 DEF Packet!Bytes

LEMMA ScalarRead ==
  ASSUME data \in Seq(Packet!Byte), NEW type \in Packet!Scalars, NEW v,
         v \in [1..Packet!Width[type] -> Packet!Byte], type = "bool" => v \in {<< 0 >>, << 1 >>},
         type = "float" => Writer = Reader, NEW p, Found(Packet!Wire(Writer, type, v), p)
  PROVE  Packet!Scalar(type, TRUE, p) =
           [valid |-> TRUE, pos |-> p + Len(Packet!Wire(Writer, type, v)), value |-> v]
<1>1. PICK w \in Nat : w = Packet!Width[type]
  BY DEF Packet!Width, Packet!Scalars
<1>2. PICK b : b = Packet!Wire(Writer, type, v)
  OBVIOUS
<1>3. b \in [1..w -> Packet!Byte] /\ Packet!Wire(Reader, type, b) = v
  <2>1. CASE type = "float"
    BY <1>1, <1>2, <2>1, FloatIs
  <2>2. CASE type # "float"
    BY <1>1, <1>2, <2>2, WireIs DEF Packet!Scalars
  <2> QED
    BY <2>1, <2>2
<1>4. Len(b) = w
  BY <1>3, ReversedTwice
<1>5. Packet!Bytes(p, w) = b /\ Packet!CheckSize(TRUE, p, w)
  BY <1>2, <1>4, FoundBytes DEF Found, FoundIn, Packet!CheckSize
<1>6. type = "bool" => (IF v = << 0 >> THEN << 0 >> ELSE << 1 >>) = v
  OBVIOUS
<1> QED
  BY <1>1, <1>2, <1>3, <1>4, <1>5, <1>6 DEF Packet!Scalar
LEMMA FoundParts ==
  ASSUME data \in Seq(Packet!Byte), NEW b \in Seq(Packet!Byte), NEW c \in Seq(Packet!Byte), NEW p,
         Found(b \o c, p)
  PROVE  Found(b, p) /\ Found(c, p + Len(b)) /\ Len(b \o c) = Len(b) + Len(c)
<1>1. PICK m \in Nat, n \in Nat : m = Len(b) /\ n = Len(c)
  BY LenProperties
<1>2. PICK e : e = b \o c
  OBVIOUS
<1>3. Len(e) = m + n /\ \A j \in 1..(m + n) : e[j] = IF j <= m THEN b[j] ELSE c[j - m]
  BY <1>1, <1>2, ConcatProperties
<1>4. p \in Nat /\ p + (m + n) <= Len(data) /\ \A j \in 1..(m + n) : data[p + j] = e[j]
  BY <1>2, <1>3 DEF Found, FoundIn
<1>5. Len(data) \in Nat
  BY LenProperties
<1>6. Found(b, p)
  <2>1. \A j \in 1..m : j \in 1..(m + n) /\ j <= m
    OBVIOUS
  <2>2. \A j \in 1..m : data[p + j] = b[j]
    BY <1>3, <1>4, <2>1
  <2>3. p + m <= Len(data)
    BY <1>4, <1>5
  <2> QED
    BY <1>1, <1>4, <2>2, <2>3 DEF Found, FoundIn
<1>7. Found(c, p + m)
  <2>1. ASSUME NEW j \in 1..n PROVE data[(p + m) + j] = c[j]
    <3>1. m + j \in 1..(m + n) /\ ~(m + j <= m) /\ (m + j) - m = j /\ p + (m + j) = (p + m) + j
      BY <1>4
    <3> QED
      BY <1>3, <1>4, <3>1
  <2>2. (p + m) + n <= Len(data) /\ p + m \in Nat
    BY <1>4, <1>5
  <2> QED
    BY <1>1, <2>1, <2>2 DEF Found, FoundIn
<1> QED
  BY <1>1, <1>2, <1>3, <1>6, <1>7

LEMMA LengthIs ==
  ASSUME NEW n \in 0..255
  PROVE  /\ Packet!Length(n) \in [1..4 -> Packet!Byte]
         /\ Packet!Length(n) \in Seq(Packet!Byte) /\ Len(Packet!Length(n)) = 4
         /\ Packet!Wire(Writer, "int32", Packet!Length(n)) = Packet!Length(n)
         /\ Packet!Number(Packet!Length(n)) = n
<1>1. PICK b : b = Packet!Length(n)
  OBVIOUS
<1>2. b = <<0, 0, 0, n>> /\ b[1] = 0 /\ b[2] = 0 /\ b[3] = 0 /\ b[4] = n
  BY <1>1 DEF Packet!Length
<1>3. b \in [1..4 -> Packet!Byte]
  BY <1>2 DEF Packet!Byte
<1>4. Packet!Number(b) = n
  BY <1>2 DEF Packet!Number
<1>5. b \in Seq(Packet!Byte) /\ Len(b) = 4
  BY <1>3, 4 \in Nat, ReversedTwice
<1>6. Packet!Wire(Writer, "int32", b) = b
  BY <1>3, 4 \in Nat, Writer \in {Writer, Reader}, WireIs
<1> QED
  BY <1>1, <1>3, <1>4, <1>5, <1>6

\* The length in front of a text.
LEMMA LengthRead ==
  ASSUME data \in Seq(Packet!Byte), NEW n \in 0..255, NEW p, Found(Packet!Length(n), p)
  PROVE  Packet!Scalar("int32", TRUE, p) = [valid |-> TRUE, pos |-> p + 4, value |-> Packet!Length(n)]
<1>1. Packet!Width["int32"] = 4 /\ "int32" \in Packet!Scalars
  BY DEF Packet!Width, Packet!Scalars
<1> QED
  BY <1>1, ScalarRead, LengthIs

LEMMA TextRead ==
  ASSUME data \in Seq(Packet!Byte), NEW type \in Packet!Texts, NEW v \in Seq(Packet!Byte),
         Len(v) < 256, type = "char*" => v # <<>>, NEW p, Found(Packet!Encode(type, v), p)
  PROVE  Packet!Text(type, TRUE, p) =
           [valid |-> TRUE, pos |-> p + Len(Packet!Encode(type, v)), value |-> v]
<1>1. PICK n \in 0..255 : n = Len(v)
  <2>1. PICK n \in Nat : n = Len(v)
    BY LenProperties
  <2>2. n < 256
    BY <2>1
  <2>3. n \in 0..255
    BY <2>2
  <2> QED
    BY <2>1, <2>3
<1>2. PICK b : b = Packet!Length(n)
  OBVIOUS
<1>3. Packet!Encode(type, v) = b \o v
  <2>1. Packet!Wire(Writer, "int32", b) = b
    BY <1>2, LengthIs
  <2>2. type \notin Packet!Scalars /\ type \in Packet!Texts
    BY DEF Packet!Texts, Packet!Scalars
  <2>3. Packet!Encode(type, v) = Packet!Wire(Writer, "int32", Packet!Length(Len(v))) \o v
    BY <2>2 DEF Packet!Encode, Packet!Wides, Packet!Vector, Packet!Texts
  <2> QED
    BY <1>1, <1>2, <2>1, <2>3
<1>4. b \in Seq(Packet!Byte) /\ Len(b) = 4 /\ b \in [1..4 -> Packet!Byte] /\ Packet!Number(b) = n
  BY <1>2, LengthIs
<1>5. Found(b, p) /\ Found(v, p + 4) /\ Len(Packet!Encode(type, v)) = 4 + n
  <2>1. Found(b \o v, p)
    BY <1>3
  <2>2. Found(b, p) /\ Found(v, p + Len(b)) /\ Len(b \o v) = Len(b) + Len(v)
    BY <1>4, <2>1, FoundParts
  <2> QED
    BY <1>1, <1>3, <1>4, <2>2
<1>6. PICK r : r = Packet!Scalar("int32", TRUE, p)
  OBVIOUS
<1>7. r = [valid |-> TRUE, pos |-> p + 4, value |-> b]
  BY <1>2, <1>5, <1>6, LengthRead
<1>8. b # Old /\ p \in Nat
  BY <1>4, <1>5, PacketBounds DEF Found, FoundIn
<1>9. CASE n = 0
  <2>1. v = <<>> /\ type = "string"
    BY <1>1, <1>9, EmptySeq DEF Packet!Texts
  <2>2. PICK num : num = Packet!Number(r.value) /\ num = 0
    BY <1>4, <1>7, <1>9
  <2>3. r.valid = TRUE /\ r.pos = p + 4 /\ r.value # Old
    BY <1>7, <1>8
  <2>5. Packet!Text(type, TRUE, p) = [valid |-> TRUE, pos |-> p + 4, value |-> <<>>]
    BY <1>6, <2>1, <2>2, <2>3, Zenon DEF Packet!Text
  <2>4. p + 4 = p + (4 + n)
    BY <1>8, <1>9
  <2> QED
    BY <1>5, <2>1, <2>4, <2>5
<1>10. CASE n # 0
  <2>1. type \notin Packet!Wides
    BY DEF Packet!Texts, Packet!Wides
  <2>2. n * 1 = n
    OBVIOUS
  <2>3. Packet!CheckSize(TRUE, p + 4, n)
    BY <1>1, <1>5 DEF Packet!CheckSize, Found, FoundIn
  <2>4. PICK val : val = [i \in 1..n |-> data[(p + 4) + i]]
    OBVIOUS
  <2>5. val = v
    <3>1. \A i \in 1..n : data[(p + 4) + i] = v[i]
      BY <1>1, <1>5 DEF Found, FoundIn
    <3>2. v = [i \in 1..n |-> v[i]]
      BY <1>1, SeqDef, LenProperties
    <3> QED
      BY <2>4, <3>1, <3>2
  <2>6. PICK num : num = Packet!Number(r.value) /\ num = n
    BY <1>4, <1>7
  <2>7. r.valid = TRUE /\ r.pos = p + 4 /\ r.value # Old
    BY <1>7, <1>8
  <2>8. Packet!Text(type, TRUE, p) = [valid |-> TRUE, pos |-> (p + 4) + n * 1, value |-> val]
    BY <1>6, <1>10, <2>1, <2>2, <2>3, <2>4, <2>6, <2>7, Zenon DEF Packet!Text
  <2>9. (p + 4) + n * 1 = p + (4 + n)
    BY <1>8
  <2> QED
    BY <1>5, <2>5, <2>8, <2>9
<1> QED
  BY <1>9, <1>10
\* An element is where the ones before it end.
LEMMA SpreadFound ==
  ASSUME NEW w \in {2, 4}, NEW n \in Nat, NEW ss, NEW f, Spread(f, Packet!Byte, ss, w, n),
         NEW q, Found(f, q), NEW i \in 1..n, ss[i] \in [1..w -> Packet!Byte]
  PROVE  Found(ss[i], q + w * (i - 1)) /\ Len(ss[i]) = w
<1>1. PICK e \in [1..w -> Packet!Byte] : e = ss[i]
  OBVIOUS
<1>2. e \in Seq(Packet!Byte) /\ Len(e) = w
  BY <1>1, w \in Nat, ReversedTwice
<1>3. /\ Len(f) = w * n /\ \A j \in 1..w : f[w * (i - 1) + j] = e[j]
      /\ q \in Nat /\ q + Len(f) <= Len(data) /\ \A j \in 1..Len(f) : data[q + j] = f[j]
  BY <1>1 DEF Spread, Found, FoundIn
<1>4. Len(data) >= q + w * n
  BY <1>3
<1>5. \A j \in 1..w : w * (i - 1) + j \in 1..(w * n) /\ q + (w * (i - 1) + j) = (q + w * (i - 1)) + j
  BY <1>3, w = 2 \/ w = 4
<1>6. \A j \in 1..w : data[(q + w * (i - 1)) + j] = e[j]
  BY <1>3, <1>5
<1>7. (q + w * (i - 1)) + w <= q + w * n /\ q + w * (i - 1) \in Nat
  BY <1>3, w = 2 \/ w = 4
<1>8. (q + w * (i - 1)) + w <= Len(data)
  <2>1. q + Len(f) \in Int /\ q + Len(f) <= Len(data) /\ q + Len(f) = q + w * n
    BY <1>3, w = 2 \/ w = 4
  <2>2. Len(data) \in Int
    BY DEF Found, FoundIn
  <2> QED
    BY <1>7, <2>1, <2>2
<1> QED
  BY <1>1, <1>2, <1>6, <1>7, <1>8 DEF Found, FoundIn

\* A character of 16 bits in one of 32.
LEMMA WideIs32 ==
  ASSUME NEW u \in Pair
  PROVE  /\ <<0, 0>> \o u \in [1..4 -> Packet!Byte]
         /\ SubSeq(<<0, 0>> \o u, 3, 4) = u
<1>1. u \in Seq(Packet!Byte) /\ Len(u) = 2
  BY ReversedTwice, 2 \in Nat DEF Pair
<1>2. PICK z \in Seq(Packet!Byte) : z = <<0, 0>> /\ Len(z) = 2 /\ z[1] = 0 /\ z[2] = 0
  <2>1. 0 \in Packet!Byte
    BY DEF Packet!Byte
  <2>2. PICK o \in Packet!Byte : o = 0
    BY <2>1
  <2>3. <<o, o>> \in Seq(Packet!Byte) /\ Len(<<o, o>>) = 2 /\ <<o, o>>[1] = o /\ <<o, o>>[2] = o
    OBVIOUS
  <2> QED
    BY <2>2, <2>3
<1>3. PICK e : e = z \o u
  OBVIOUS
<1>4. /\ e \in Seq(Packet!Byte) /\ Len(e) = 4
      /\ \A i \in 1..4 : e[i] = IF i <= 2 THEN z[i] ELSE u[i - 2]
  BY <1>1, <1>2, <1>3, ConcatProperties
<1>5. e \in [1..4 -> Packet!Byte]
  BY <1>4, LenProperties
<1>6. \A i \in 3..4 : e[i] \in Packet!Byte
  BY <1>5
<1>7. /\ SubSeq(e, 3, 4) \in Seq(Packet!Byte) /\ Len(SubSeq(e, 3, 4)) = 2
      /\ \A i \in 1..2 : SubSeq(e, 3, 4)[i] = e[3 + i - 1]
  BY <1>6, SubSeqProperties
<1>8. \A i \in 1..2 : SubSeq(e, 3, 4)[i] = u[i]
  BY <1>4, <1>7
<1>9. SubSeq(e, 3, 4) = u
  BY <1>1, <1>7, <1>8, SeqEqual
<1> QED
  BY <1>2, <1>3, <1>5, <1>9

\* The characters of a text as they are written.
LEMMA Widened ==
  ASSUME NEW v \in Seq(Pair), NEW cs,
         cs = [i \in DOMAIN v |-> Packet!Wire(Writer, "int32", <<0, 0>> \o v[i])]
  PROVE  /\ cs \in Seq([1..4 -> Packet!Byte]) /\ Len(cs) = Len(v)
         /\ \A i \in 1..Len(v) : /\ cs[i] \in [1..4 -> Packet!Byte]
                                 /\ Packet!Wire(Reader, "int32", cs[i]) = cs[i]
                                 /\ SubSeq(cs[i], 3, 4) = v[i]
<1>1. PICK n \in Nat : n = Len(v) /\ DOMAIN v = 1..n
  BY LenProperties
<1>2. ASSUME NEW i \in 1..n
      PROVE  /\ cs[i] \in [1..4 -> Packet!Byte]
             /\ Packet!Wire(Reader, "int32", cs[i]) = cs[i]
             /\ SubSeq(cs[i], 3, 4) = v[i]
  <2>1. v[i] \in Pair
    BY <1>1, ElementOfSeq
  <2>2. PICK e : e = <<0, 0>> \o v[i] /\ e \in [1..4 -> Packet!Byte] /\ SubSeq(e, 3, 4) = v[i]
    BY <2>1, WideIs32
  <2>3. Packet!Wire(Writer, "int32", e) = e /\ Packet!Wire(Reader, "int32", e) = e
    BY <2>2, WireIs, 4 \in Nat
  <2>4. cs[i] = e
    BY <1>1, <2>2, <2>3
  <2> QED
    BY <2>2, <2>3, <2>4
<1>3. cs \in [1..n -> [1..4 -> Packet!Byte]]
  BY <1>1, <1>2
<1>4. cs \in Seq([1..4 -> Packet!Byte]) /\ Len(cs) = n
  BY <1>3, ReversedTwice
<1> QED
  BY <1>1, <1>2, <1>4

LEMMA WideRead ==
  ASSUME data \in Seq(Packet!Byte), NEW type \in Packet!Wides, NEW v \in Seq(Pair),
         Len(v) < 256, type = "wchar_t*" => v # <<>>, NEW p, Found(Packet!Encode(type, v), p)
  PROVE  Packet!Text(type, TRUE, p) =
           [valid |-> TRUE, pos |-> p + Len(Packet!Encode(type, v)), value |-> v]
<1>1. PICK n \in 0..255 : n = Len(v)
  <2>1. PICK n \in Nat : n = Len(v)
    BY LenProperties
  <2>2. n < 256
    BY <2>1
  <2>3. n \in 0..255
    BY <2>2
  <2> QED
    BY <2>1, <2>3
<1>2. PICK b : b = Packet!Length(n)
  OBVIOUS
<1>3. PICK cs : cs = [i \in DOMAIN v |-> Packet!Wire(Writer, "int32", <<0, 0>> \o v[i])]
  OBVIOUS
<1>4. PICK f : f = Packet!FlattenSeq(cs)
  OBVIOUS
<1>5. Packet!Encode(type, v) = b \o f
  <2>1. Packet!Wire(Writer, "int32", b) = b
    BY <1>2, LengthIs
  <2>2. type \notin Packet!Scalars /\ type \notin Packet!Texts /\ type \in Packet!Wides
    BY DEF Packet!Texts, Packet!Scalars, Packet!Wides
  <2>3. Packet!Encode(type, v) =
          Packet!Wire(Writer, "int32", Packet!Length(Len(v))) \o
            Packet!FlattenSeq([i \in DOMAIN v |-> Packet!Wire(Writer, "int32", <<0, 0>> \o v[i])])
    BY <2>2 DEF Packet!Encode, Packet!Wides, Packet!Vector, Packet!Texts, Packet!Scalars
  <2> QED
    BY <1>1, <1>2, <1>3, <1>4, <2>1, <2>3
<1>6. b \in Seq(Packet!Byte) /\ Len(b) = 4 /\ b \in [1..4 -> Packet!Byte] /\ Packet!Number(b) = n
  BY <1>2, LengthIs
<1>7. /\ cs \in Seq([1..4 -> Packet!Byte]) /\ Len(cs) = n
      /\ \A i \in 1..n : /\ cs[i] \in [1..4 -> Packet!Byte]
                         /\ Packet!Wire(Reader, "int32", cs[i]) = cs[i]
                         /\ SubSeq(cs[i], 3, 4) = v[i]
  BY <1>1, <1>3, Widened
<1>8. Spread(f, Packet!Byte, cs, 4, n) /\ f \in Seq(Packet!Byte) /\ Len(f) = 4 * n
  <2>1. 4 \in {2, 4}
    OBVIOUS
  <2>2. Spread(Packet!FlattenSeq(cs), Packet!Byte, cs, 4, Len(cs))
    BY <1>7, <2>1, FlattenWide
  <2>3. Spread(f, Packet!Byte, cs, 4, n)
    BY <1>4, <1>7, <2>2
  <2> QED
    BY <2>3 DEF Spread
<1>9. Found(b, p) /\ Found(f, p + 4) /\ Len(Packet!Encode(type, v)) = 4 + 4 * n
  <2>1. Found(b \o f, p)
    BY <1>5
  <2>2. Found(b, p) /\ Found(f, p + Len(b)) /\ Len(b \o f) = Len(b) + Len(f)
    BY <1>6, <1>8, <2>1, FoundParts
  <2> QED
    BY <1>5, <1>6, <1>8, <2>2
<1>10. PICK r : r = Packet!Scalar("int32", TRUE, p)
  OBVIOUS
<1>11. r = [valid |-> TRUE, pos |-> p + 4, value |-> b]
  BY <1>2, <1>9, <1>10, LengthRead
<1>12. b # Old /\ p \in Nat
  BY <1>6, <1>9, PacketBounds DEF Found, FoundIn
<1>13. PICK num : num = Packet!Number(r.value) /\ num = n
  BY <1>6, <1>11
<1>14. r.valid = TRUE /\ r.pos = p + 4 /\ r.value # Old
  BY <1>11, <1>12
<1>15. CASE n = 0
  <2>1. v = <<>> /\ type = "wstring"
    BY <1>1, <1>15, EmptySeq DEF Packet!Wides
  <2>2. p + 4 = p + (4 + 4 * n)
    BY <1>12, <1>15
  <2>3. Packet!Text(type, TRUE, p) = [valid |-> TRUE, pos |-> p + 4, value |-> <<>>]
    BY <1>10, <1>13, <1>14, <1>15, <2>1, Zenon DEF Packet!Text
  <2> QED
    BY <1>9, <2>1, <2>2, <2>3
<1>16. CASE n # 0
  <2>1. type \in Packet!Wides /\ 4 # 1
    OBVIOUS
  <2>2. n * 4 = 4 * n
    OBVIOUS
  <2>3. Packet!CheckSize(TRUE, p + 4, n * 4)
    BY <1>8, <1>9, <2>2 DEF Packet!CheckSize, Found, FoundIn
  <2>4. PICK val : val = [i \in 1..n |->
          SubSeq(Packet!Wire(Reader, "int32", Packet!Bytes((p + 4) + (i - 1) * 4, 4)), 3, 4)]
    OBVIOUS
  <2>5. val = v
    <3>1. ASSUME NEW i \in 1..n
          PROVE  SubSeq(Packet!Wire(Reader, "int32", Packet!Bytes((p + 4) + (i - 1) * 4, 4)), 3, 4) = v[i]
      <4>1. Found(cs[i], (p + 4) + 4 * (i - 1)) /\ Len(cs[i]) = 4
        BY <1>7, <1>8, <1>9, SpreadFound
      <4>2. Packet!Bytes((p + 4) + 4 * (i - 1), 4) = cs[i]
        BY <4>1, FoundBytes
      <4>3. 4 * (i - 1) = (i - 1) * 4
        OBVIOUS
      <4> QED
        BY <1>7, <4>2, <4>3
    <3>2. v = [i \in 1..n |-> v[i]]
      BY <1>1, SeqDef, LenProperties
    <3> QED
      BY <2>4, <3>1, <3>2
  <2>6. Packet!Text(type, TRUE, p) = [valid |-> TRUE, pos |-> (p + 4) + n * 4, value |-> val]
    BY <1>10, <1>13, <1>14, <1>16, <2>1, <2>3, <2>4, Zenon DEF Packet!Text
  <2>7. (p + 4) + n * 4 = p + (4 + 4 * n)
    BY <1>12
  <2> QED
    BY <1>9, <2>5, <2>6, <2>7
<1> QED
  BY <1>15, <1>16

LEMMA VectorIs ==
  ASSUME NEW v \in Seq(Pair)
  PROVE  Packet!Encode(Packet!Vector, v) = Packet!FlattenSeq(v)
<1>1. PICK n \in Nat : n = Len(v) /\ DOMAIN v = 1..n
  BY LenProperties
<1>2. \A i \in 1..n : Packet!Wire(Writer, "int16", v[i]) = v[i]
  <2> SUFFICES ASSUME NEW i \in 1..n PROVE Packet!Wire(Writer, "int16", v[i]) = v[i]
    OBVIOUS
  <2>1. v[i] \in [1..2 -> Packet!Byte]
    BY <1>1, ElementOfSeq DEF Pair
  <2> QED
    BY <2>1, WireIs, 2 \in Nat
<1>3. v = [i \in 1..n |-> v[i]]
  BY <1>1, SeqDef, LenProperties
<1>4. [i \in DOMAIN v |-> Packet!Wire(Writer, "int16", v[i])] = v
  BY <1>1, <1>2, <1>3
<1>5. Packet!Vector \notin Packet!Scalars \cup Packet!Texts \cup Packet!Wides
  BY DEF Packet!Vector, Packet!Scalars, Packet!Texts, Packet!Wides
<1>6. Packet!Encode(Packet!Vector, v) =
        Packet!FlattenSeq([i \in DOMAIN v |-> Packet!Wire(Writer, "int16", v[i])])
  BY <1>5 DEF Packet!Encode, Packet!Vector, Packet!Scalars, Packet!Texts, Packet!Wides
<1> QED
  BY <1>4, <1>6

LEMMA VectorRead ==
  ASSUME data \in Seq(Packet!Byte), NEW v \in Seq(Pair), NEW p,
         Found(Packet!Encode(Packet!Vector, v), p)
  PROVE  Packet!Elements(Len(v), TRUE, p) =
           [valid |-> TRUE, pos |-> p + Len(Packet!Encode(Packet!Vector, v)), value |-> v]
<1>1. PICK n \in Nat : n = Len(v)
  BY LenProperties
<1>2. PICK f : f = Packet!FlattenSeq(v) /\ f = Packet!Encode(Packet!Vector, v)
  BY VectorIs
<1>3. \A i \in 1..n : v[i] \in [1..2 -> Packet!Byte] /\ Packet!Wire(Reader, "int16", v[i]) = v[i]
  <2>1. \A i \in 1..n : v[i] \in [1..2 -> Packet!Byte]
    BY <1>1, ElementOfSeq DEF Pair
  <2>2. Reader \in {Writer, Reader} /\ 2 \in Nat
    OBVIOUS
  <2> QED
    BY <2>1, <2>2, WireIs
<1>4. Spread(f, Packet!Byte, v, 2, n) /\ Len(f) = 2 * n
  <2>1. 2 \in {2, 4} /\ v \in Seq([1..2 -> Packet!Byte])
    BY DEF Pair
  <2>2. Spread(Packet!FlattenSeq(v), Packet!Byte, v, 2, Len(v))
    BY <2>1, FlattenWide
  <2>3. Spread(f, Packet!Byte, v, 2, n)
    BY <1>1, <1>2, <2>2
  <2> QED
    BY <2>3 DEF Spread
<1>5. Found(f, p)
  BY <1>2
<1>6. PICK whole : whole = {k \in 0..n : k = 0 \/ Packet!CheckSize(TRUE, p, 2 * k)}
  OBVIOUS
<1>7. n \in whole /\ \A j \in whole : j <= n
  BY <1>4, <1>5, <1>6 DEF Found, FoundIn, Packet!CheckSize
<1>8. PICK k : k = CHOOSE i \in whole : \A j \in whole : j <= i
  OBVIOUS
<1>9. k = n
  <2>1. k \in whole /\ \A j \in whole : j <= k
    BY <1>7, <1>8
  <2>2. k \in Nat /\ k <= n /\ n <= k
    <3>1. k \in 0..n
      BY <1>6, <2>1
    <3> QED
      BY <1>7, <2>1, <3>1
  <2> QED
    BY <2>2
<1>10. PICK val : val = [i \in 1..n |-> IF i <= k THEN Packet!Wire(Reader, "int16", Packet!Bytes(p + 2 * (i - 1), 2)) ELSE Junk]
  OBVIOUS
<1>11. val = v
  <2>1. ASSUME NEW i \in 1..n
        PROVE  i <= k /\ Packet!Wire(Reader, "int16", Packet!Bytes(p + 2 * (i - 1), 2)) = v[i]
    <3>1. Found(v[i], p + 2 * (i - 1)) /\ Len(v[i]) = 2
      BY <1>3, <1>4, <1>5, SpreadFound
    <3>2. Packet!Bytes(p + 2 * (i - 1), 2) = v[i]
      BY <3>1, FoundBytes
    <3> QED
      BY <1>3, <1>9, <3>2
  <2>2. v = [i \in 1..n |-> v[i]]
    BY <1>1, SeqDef, LenProperties
  <2> QED
    BY <1>10, <2>1, <2>2
<1>12. Packet!Elements(n, TRUE, p) = [valid |-> TRUE /\ k = n, pos |-> p + 2 * k, value |-> val]
  BY <1>6, <1>8, <1>10, Zenon DEF Packet!Elements
<1>13. (TRUE /\ k = n) = TRUE
  BY <1>9
<1>14. [valid |-> TRUE /\ k = n, pos |-> p + 2 * k, value |-> val] =
         [valid |-> TRUE, pos |-> p + Len(f), value |-> v]
  BY <1>4, <1>9, <1>11, <1>13
<1> QED
  BY <1>1, <1>2, <1>12, <1>14

LEMMA EncodeIs ==
  ASSUME NEW type \in Packet!Types, NEW v \in Payloads[type], Converted
  PROVE  Packet!Encode(type, v) \in Seq(Packet!Byte)
<1>1. CASE type \in Packet!Scalars
  <2>1. PICK w \in Nat : w = Packet!Width[type] /\ v \in [1..w -> Packet!Byte]
    BY <1>1, ValuesAre DEF Packet!Width, Packet!Scalars
  <2>2. Packet!Encode(type, v) = Packet!Wire(Writer, type, v)
    BY <1>1 DEF Packet!Encode, Packet!Wides, Packet!Vector, Packet!Texts, Packet!Scalars
  <2>3. Packet!Wire(Writer, type, v) \in [1..w -> Packet!Byte]
    <3>1. CASE type = "float"
      BY <2>1, <3>1, FloatIs DEF Converted
    <3>2. CASE type # "float"
      BY <1>1, <2>1, <3>2, WireIs, Writer \in {Writer, Reader} DEF Packet!Scalars
    <3> QED
      BY <3>1, <3>2
  <2> QED
    BY <2>1, <2>2, <2>3, ReversedTwice
<1>2. CASE type \in Packet!Texts
  <2>1. v \in Seq(Packet!Byte) /\ Len(v) < 256
    BY <1>2, ValuesAre
  <2>2. PICK n \in Nat : n = Len(v)
    BY <2>1, LenProperties
  <2>3. n \in 0..255
    <3>1. n < 256
      BY <2>1, <2>2
    <3> QED
      BY <3>1
  <2>4. PICK b : b = Packet!Length(n) /\ b \in Seq(Packet!Byte) /\ Packet!Wire(Writer, "int32", b) = b
    BY <2>3, LengthIs
  <2>5. type \notin Packet!Scalars
    BY <1>2 DEF Packet!Texts, Packet!Scalars
  <2>6. Packet!Encode(type, v) = Packet!Wire(Writer, "int32", Packet!Length(Len(v))) \o v
    BY <1>2, <2>5 DEF Packet!Encode, Packet!Wides, Packet!Vector, Packet!Texts, Packet!Scalars
  <2>7. Packet!Encode(type, v) = b \o v
    BY <2>2, <2>4, <2>6
  <2> QED
    BY <2>1, <2>4, <2>7, ConcatProperties
<1>3. CASE type \in Packet!Wides
  <2>1. v \in Seq(Pair) /\ Len(v) < 256
    BY <1>3, ValuesAre
  <2>2. PICK n \in Nat : n = Len(v)
    BY <2>1, LenProperties
  <2>3. n \in 0..255
    <3>1. n < 256
      BY <2>1, <2>2
    <3> QED
      BY <3>1
  <2>4. PICK b : b = Packet!Length(n) /\ b \in Seq(Packet!Byte) /\ Packet!Wire(Writer, "int32", b) = b
    BY <2>3, LengthIs
  <2>5. type \notin Packet!Scalars /\ type \notin Packet!Texts
    BY <1>3 DEF Packet!Texts, Packet!Scalars, Packet!Wides
  <2>6. PICK cs : cs = [i \in DOMAIN v |-> Packet!Wire(Writer, "int32", <<0, 0>> \o v[i])]
    OBVIOUS
  <2>7. Packet!Encode(type, v) =
          Packet!Wire(Writer, "int32", Packet!Length(Len(v))) \o
            Packet!FlattenSeq([i \in DOMAIN v |-> Packet!Wire(Writer, "int32", <<0, 0>> \o v[i])])
    BY <1>3, <2>5 DEF Packet!Encode, Packet!Wides, Packet!Vector, Packet!Texts, Packet!Scalars
  <2>8. Packet!Encode(type, v) = b \o Packet!FlattenSeq(cs)
    BY <2>2, <2>4, <2>6, <2>7
  <2>9. cs \in Seq([1..4 -> Packet!Byte]) /\ 4 \in {2, 4}
    BY <2>1, <2>6, Widened
  <2>10. Spread(Packet!FlattenSeq(cs), Packet!Byte, cs, 4, Len(cs))
    BY <2>9, FlattenWide
  <2> QED
    BY <2>4, <2>8, <2>10, ConcatProperties DEF Spread
<1>4. CASE type = Packet!Vector
  <2>1. v \in Seq(Pair)
    BY <1>4, ValuesAre
  <2>2. 2 \in {2, 4} /\ v \in Seq([1..2 -> Packet!Byte])
    BY <2>1 DEF Pair
  <2>3. Spread(Packet!FlattenSeq(v), Packet!Byte, v, 2, Len(v))
    BY <2>2, FlattenWide
  <2> QED
    BY <1>4, <2>1, <2>3, VectorIs DEF Spread
<1> QED
  BY <1>1, <1>2, <1>3, <1>4, PacketBounds

\* What was written is read where it is.
LEMMA DecodeIs ==
  ASSUME Converted, data \in Seq(Packet!Byte), isValid, isValid \in BOOLEAN,
         NEW type \in Packet!Types, NEW v \in Payloads[type], Found(Packet!Encode(type, v), readPos),
         NEW n, type = Packet!Vector => n = Len(v)
  PROVE  Packet!Decode(type, n) =
           [valid |-> TRUE, pos |-> readPos + Len(Packet!Encode(type, v)), value |-> v]
<1>0. isValid = TRUE
  OBVIOUS
<1>1. CASE type \in Packet!Scalars
  <2>1. v \in [1..Packet!Width[type] -> Packet!Byte] /\ (type = "bool" => v \in {<< 0 >>, << 1 >>})
    BY <1>1, ValuesAre
  <2>2. type = "float" => Writer = Reader
    BY DEF Converted
  <2>3. Packet!Encode(type, v) = Packet!Wire(Writer, type, v)
    BY <1>1 DEF Packet!Encode, Packet!Wides, Packet!Vector, Packet!Texts, Packet!Scalars
  <2>4. Packet!Decode(type, n) = Packet!Scalar(type, TRUE, readPos)
    BY <1>0, <1>1 DEF Packet!Decode, Packet!Vector, Packet!Texts, Packet!Wides, Packet!Scalars
  <2>5. Found(Packet!Wire(Writer, type, v), readPos)
    BY <2>3
  <2>6. Packet!Scalar(type, TRUE, readPos) =
          [valid |-> TRUE, pos |-> readPos + Len(Packet!Wire(Writer, type, v)), value |-> v]
    BY <1>1, <2>1, <2>2, <2>5, ScalarRead
  <2> QED
    BY <2>3, <2>4, <2>6
<1>2. CASE type \in Packet!Texts
  <2>1. v \in Seq(Packet!Byte) /\ Len(v) < 256
    BY <1>2, ValuesAre
  <2>2. type = "char*" => v # <<>>
    BY DEF Converted
  <2>3. Packet!Decode(type, n) = Packet!Text(type, TRUE, readPos)
    <3>1. type \notin Packet!Scalars /\ type \in Packet!Texts \cup Packet!Wides
      BY <1>2 DEF Packet!Texts, Packet!Scalars
    <3> QED
      BY <1>0, <3>1 DEF Packet!Decode, Packet!Vector, Packet!Texts, Packet!Wides, Packet!Scalars
  <2> QED
    BY <1>2, <2>1, <2>2, <2>3, TextRead
<1>3. CASE type \in Packet!Wides
  <2>1. v \in Seq(Pair) /\ Len(v) < 256
    BY <1>3, ValuesAre
  <2>2. type = "wchar_t*" => v # <<>>
    BY DEF Converted
  <2>3. Packet!Decode(type, n) = Packet!Text(type, TRUE, readPos)
    <3>1. type \notin Packet!Scalars /\ type \in Packet!Texts \cup Packet!Wides
      BY <1>3 DEF Packet!Wides, Packet!Scalars
    <3> QED
      BY <1>0, <3>1 DEF Packet!Decode, Packet!Vector, Packet!Texts, Packet!Wides, Packet!Scalars
  <2> QED
    BY <1>3, <2>1, <2>2, <2>3, WideRead
<1>4. CASE type = Packet!Vector
  <2>1. v \in Seq(Pair)
    BY <1>4, ValuesAre
  <2>2. Packet!Decode(type, n) = Packet!Elements(n, TRUE, readPos)
    <3>1. type \notin Packet!Scalars /\ type \notin Packet!Texts \cup Packet!Wides
      BY <1>4 DEF Packet!Wides, Packet!Scalars, Packet!Vector, Packet!Texts
    <3> QED
      BY <1>0, <1>4, <3>1 DEF Packet!Decode, Packet!Vector, Packet!Texts, Packet!Wides, Packet!Scalars
  <2> QED
    BY <1>4, <2>1, <2>2, VectorRead
<1> QED
  BY <1>1, <1>2, <1>3, <1>4, PacketBounds

\* Which reader a type has.
LEMMA Decoders ==
  ASSUME NEW type \in Packet!Types, NEW n
  PROVE  /\ type \in Packet!Scalars => Packet!Decode(type, n) = Packet!Scalar(type, isValid, readPos)
         /\ type \in Packet!Texts \cup Packet!Wides =>
              Packet!Decode(type, n) = Packet!Text(type, isValid, readPos)
         /\ type = Packet!Vector => Packet!Decode(type, n) = Packet!Elements(n, isValid, readPos)
<1>1. type \in Packet!Scalars => Packet!Decode(type, n) = Packet!Scalar(type, isValid, readPos)
  BY DEF Packet!Decode, Packet!Vector, Packet!Texts, Packet!Wides, Packet!Scalars
<1>2. type \in Packet!Texts \cup Packet!Wides =>
        Packet!Decode(type, n) = Packet!Text(type, isValid, readPos)
  BY DEF Packet!Decode, Packet!Vector, Packet!Texts, Packet!Wides, Packet!Scalars
<1>3. type = Packet!Vector => Packet!Decode(type, n) = Packet!Elements(n, isValid, readPos)
  BY DEF Packet!Decode, Packet!Vector, Packet!Texts, Packet!Wides, Packet!Scalars
<1> QED
  BY <1>1, <1>2, <1>3

\* A number or a text that is not there makes the packet invalid.
LEMMA NothingThere ==
  ASSUME NEW type \in Packet!Scalars \cup Packet!Texts \cup Packet!Wides, NEW valid, NEW p,
         \A w \in Nat \ {0} : ~Packet!CheckSize(valid, p, w)
  PROVE  /\ type \in Packet!Scalars => Packet!Scalar(type, valid, p).valid = FALSE
         /\ type \in Packet!Texts \cup Packet!Wides => Packet!Text(type, valid, p).valid = FALSE
<1>1. ASSUME NEW t \in Packet!Scalars
      PROVE  Packet!Scalar(t, valid, p) = [valid |-> FALSE, pos |-> p, value |-> Old]
  <2>1. Packet!Width[t] \in Nat \ {0}
    BY DEF Packet!Width, Packet!Scalars
  <2>2. ~Packet!CheckSize(valid, p, Packet!Width[t])
    BY <2>1
  <2> QED
    BY <2>2, Zenon DEF Packet!Scalar
<1>2. PICK r : r = Packet!Scalar("int32", valid, p)
  OBVIOUS
<1>3. r.valid = FALSE /\ r.value = Old
  <2>1. "int32" \in Packet!Scalars
    BY DEF Packet!Scalars
  <2>2. r = [valid |-> FALSE, pos |-> p, value |-> Old]
    BY <1>1, <1>2, <2>1
  <2> QED
    BY <2>2
<1>4. PICK kept : kept = IF type \in {"string", "wstring"} THEN <<>> ELSE Old
  OBVIOUS
<1>5. Packet!Text(type, valid, p) = [valid |-> r.valid, pos |-> r.pos, value |-> kept]
  BY <1>2, <1>3, <1>4, Zenon DEF Packet!Text
<1>6. Packet!Text(type, valid, p).valid = FALSE
  BY <1>3, <1>5
<1>7. ASSUME type \in Packet!Scalars PROVE Packet!Scalar(type, valid, p).valid = FALSE
  BY <1>1, <1>7
<1> QED
  BY <1>6, <1>7

LEMMA StaysInvalid ==
  ASSUME ~isValid, isValid \in BOOLEAN, NEW type \in Packet!Types, NEW n \in Nat
  PROVE  Packet!Decode(type, n).valid = FALSE
<1>0. isValid = FALSE
  OBVIOUS
<1>1. \A w \in Nat \ {0} : ~Packet!CheckSize(isValid, readPos, w)
  BY DEF Packet!CheckSize
<1>2. CASE type \in Packet!Scalars \cup Packet!Texts \cup Packet!Wides
  <2>1. CASE type \in Packet!Scalars
    <3>1. Packet!Scalar(type, isValid, readPos).valid = FALSE
      BY <1>1, <2>1, NothingThere
    <3> QED
      BY <2>1, <3>1, Decoders
  <2>2. CASE type \in Packet!Texts \cup Packet!Wides
    <3>1. Packet!Text(type, isValid, readPos).valid = FALSE
      BY <1>1, <2>2, NothingThere
    <3> QED
      BY <2>2, <3>1, Decoders
  <2> QED
    BY <1>2, <2>1, <2>2
<1>3. CASE type = Packet!Vector
  <2>1. PICK k : k = CHOOSE i \in {j \in 0..n : j = 0 \/ Packet!CheckSize(isValid, readPos, 2 * j)} :
                       \A j \in {m \in 0..n : m = 0 \/ Packet!CheckSize(isValid, readPos, 2 * m)} : j <= i
    OBVIOUS
  <2>2. PICK val : val = [i \in 1..n |-> IF i <= k THEN Packet!Wire(Reader, "int16", Packet!Bytes(readPos + 2 * (i - 1), 2)) ELSE Junk]
    OBVIOUS
  <2>3. Packet!Elements(n, isValid, readPos) =
          [valid |-> isValid /\ k = n, pos |-> readPos + 2 * k, value |-> val]
    BY <2>1, <2>2, Zenon DEF Packet!Elements
  <2>4. (isValid /\ k = n) = FALSE
    BY <1>0
  <2>5. Packet!Elements(n, isValid, readPos).valid = FALSE
    BY <2>3, <2>4
  <2> QED
    BY <1>3, <2>5, Decoders
<1> QED
  BY <1>2, <1>3, PacketBounds

\* At the end of the packet there is nothing to read but an empty vector.
LEMMA AtTheEnd ==
  ASSUME isValid, isValid \in BOOLEAN, data \in Seq(Packet!Byte), readPos = Len(data),
         NEW type \in Packet!Types, NEW n \in Nat
  PROVE  \/ Packet!Decode(type, n).valid = FALSE
         \/ /\ type = Packet!Vector /\ n = 0
            /\ Packet!Decode(type, n) = [valid |-> TRUE, pos |-> readPos, value |-> <<>>]
<1>0. PICK p \in Nat : p = readPos /\ p = Len(data)
  BY LenProperties
<1>1. \A w \in Nat \ {0} : ~Packet!CheckSize(isValid, readPos, w)
  BY <1>0 DEF Packet!CheckSize
<1>2. CASE type \in Packet!Scalars \cup Packet!Texts \cup Packet!Wides
  <2>1. CASE type \in Packet!Scalars
    <3>1. Packet!Scalar(type, isValid, readPos).valid = FALSE
      BY <1>1, <2>1, NothingThere
    <3> QED
      BY <2>1, <3>1, Decoders
  <2>2. CASE type \in Packet!Texts \cup Packet!Wides
    <3>1. Packet!Text(type, isValid, readPos).valid = FALSE
      BY <1>1, <2>2, NothingThere
    <3> QED
      BY <2>2, <3>1, Decoders
  <2> QED
    BY <1>2, <2>1, <2>2
<1>3. CASE type = Packet!Vector /\ n # 0
  <2>0. PICK whole : whole = {j \in 0..n : j = 0 \/ Packet!CheckSize(isValid, readPos, 2 * j)}
    OBVIOUS
  <2>1. PICK k : k = CHOOSE i \in whole : \A j \in whole : j <= i
    OBVIOUS
  <2>2. PICK val : val = [i \in 1..n |-> IF i <= k THEN Packet!Wire(Reader, "int16", Packet!Bytes(readPos + 2 * (i - 1), 2)) ELSE Junk]
    OBVIOUS
  <2>3. Packet!Elements(n, isValid, readPos) =
          [valid |-> isValid /\ k = n, pos |-> readPos + 2 * k, value |-> val]
    BY <2>0, <2>1, <2>2, Zenon DEF Packet!Elements
  <2>4. whole = {0}
    <3>1. \A j \in 0..n : j # 0 => 2 * j \in Nat \ {0}
      OBVIOUS
    <3>2. \A j \in 0..n : j # 0 => ~Packet!CheckSize(isValid, readPos, 2 * j)
      BY <1>1, <3>1
    <3>3. 0 \in whole
      BY <2>0
    <3>4. \A j \in whole : j = 0
      BY <2>0, <3>2
    <3> QED
      BY <3>3, <3>4
  <2>5. k = 0
    BY <2>1, <2>4
  <2>6. PICK ok : ok = (isValid /\ k = n) /\ ok = FALSE
    BY <1>3, <2>5
  <2>7. Packet!Elements(n, isValid, readPos) =
          [valid |-> FALSE, pos |-> readPos + 2 * k, value |-> val]
    BY <2>3, <2>6
  <2>8. Packet!Elements(n, isValid, readPos).valid = FALSE
    <3>1. PICK place : place = readPos + 2 * k
      OBVIOUS
    <3>2. Packet!Elements(n, isValid, readPos) = [valid |-> FALSE, pos |-> place, value |-> val]
      BY <2>7, <3>1
    <3>3. \A r : r = [valid |-> FALSE, pos |-> place, value |-> val] => r.valid = FALSE
      OBVIOUS
    <3> QED
      BY <3>2, <3>3
  <2> QED
    BY <1>3, <2>8, Decoders
<1>4. CASE type = Packet!Vector /\ n = 0
  <2>1. PICK v \in Seq(Pair) : v = <<>> /\ Len(v) = 0
    BY EmptySeq
  <2>2. Packet!Encode(Packet!Vector, v) = <<>>
    BY <2>1, VectorIs DEF Packet!FlattenSeq
  <2>3. Found(Packet!Encode(Packet!Vector, v), readPos) /\ Len(Packet!Encode(Packet!Vector, v)) = 0
    BY <1>0, <2>2, EmptySeq DEF Found, FoundIn
  <2>4. Packet!Elements(0, TRUE, readPos) = [valid |-> TRUE, pos |-> readPos, value |-> <<>>]
    <3>1. Packet!Elements(Len(v), TRUE, readPos) =
            [valid |-> TRUE, pos |-> readPos + Len(Packet!Encode(Packet!Vector, v)), value |-> v]
      BY <2>3, VectorRead
    <3>2. readPos + Len(Packet!Encode(Packet!Vector, v)) = readPos
      BY <1>0, <2>3
    <3> QED
      BY <2>1, <3>1, <3>2
  <2>5. isValid = TRUE
    OBVIOUS
  <2>6. Packet!Decode(type, n) = Packet!Elements(0, TRUE, readPos)
    BY <1>4, <2>5, Decoders
  <2> QED
    BY <1>4, <2>4, <2>6
<1> QED
  BY <1>2, <1>3, <1>4, PacketBounds
-----------------------------------------------------------------------------
(* What was written lies one after another, and what was read of it, in    *)
(* the order of the types that were written, was read where it lies.       *)

\* The values of s lie in d, the i-th from o[i - 1] to o[i].
LaidIn(o, d, s) ==
  /\ o \in [0..Len(s) -> Nat] /\ o[0] = 0 /\ o[Len(s)] = Len(d)
  /\ \A i \in 1..Len(s) : FoundIn(d, Coded(s[i]), o[i - 1]) /\ o[i] = o[i - 1] + Len(Coded(s[i]))

NoVector == <<Packet!Vector, <<>>>>

\* The reads g of what was written s are at p, in a packet that is still ok.
Shared(g, s) == IF Len(g) <= Len(s) THEN Len(g) ELSE Len(s)
SoFar(g, s)  == \A i \in 1..Shared(g, s) : Packet!Alike(g[i], s[i])
ReadTo(o, s, g, p, ok) ==
  ok /\ SoFar(g, s) => /\ \A i \in 1..Shared(g, s) : g[i] = s[i]
                       /\ \A i \in (Shared(g, s) + 1)..Len(g) : g[i] = NoVector
                       /\ p = o[Shared(g, s)]

CodecTypes ==
  /\ data \in Seq(Packet!Byte) /\ isValid \in BOOLEAN
  /\ sent \in Seq(Items) /\ \E S : got \in Seq(S)

CodecInv == CodecTypes /\ \E o : LaidIn(o, data, sent) /\ ReadTo(o, sent, got, readPos, isValid)

LEMMA ItemIs ==
  ASSUME Converted, NEW x \in Items
  PROVE  /\ x[1] \in Packet!Types /\ x[2] \in Payloads[x[1]] /\ x = <<x[1], x[2]>>
         /\ Coded(x) \in Seq(Packet!Byte)
<1>1. PICK type \in Packet!Types : \E v \in Payloads[type] : x = <<type, v>>
  BY DEF Items
<1>0. PICK v \in Payloads[type] : x = <<type, v>>
  BY <1>1
<1>2. x[1] = type /\ x[2] = v
  BY <1>0
<1> QED
  BY <1>0, <1>2, EncodeIs DEF Coded

LEMMA FoundStays ==
  ASSUME NEW d \in Seq(Packet!Byte), NEW e \in Seq(Packet!Byte)
  PROVE  /\ \A b, p : FoundIn(d, b, p) => FoundIn(d \o e, b, p)
         /\ FoundIn(d \o e, e, Len(d)) /\ d \o e \in Seq(Packet!Byte)
         /\ Len(d \o e) = Len(d) + Len(e) /\ Len(d) \in Nat /\ Len(e) \in Nat
<1>1. PICK m \in Nat, n \in Nat : m = Len(d) /\ n = Len(e)
  BY LenProperties
<1>2. PICK f : f = d \o e
  OBVIOUS
<1>3. /\ f \in Seq(Packet!Byte) /\ Len(f) = m + n
      /\ \A i \in 1..(m + n) : f[i] = IF i <= m THEN d[i] ELSE e[i - m]
  BY <1>1, <1>2, ConcatProperties
<1>4. ASSUME NEW b, NEW p, FoundIn(d, b, p) PROVE FoundIn(f, b, p)
  <2>1. PICK k \in Nat : k = Len(b)
    BY <1>4, LenProperties DEF FoundIn
  <2>2. p \in Nat /\ p + k <= m /\ \A j \in 1..k : d[p + j] = b[j]
    BY <1>1, <1>4, <2>1 DEF FoundIn
  <2>3. \A j \in 1..k : p + j \in 1..(m + n) /\ p + j <= m
    BY <2>2
  <2>4. \A j \in 1..k : f[p + j] = b[j]
    BY <1>3, <2>2, <2>3
  <2>5. p + k <= m + n
    BY <2>2
  <2> QED
    BY <1>3, <1>4, <2>1, <2>2, <2>4, <2>5 DEF FoundIn
<1>5. FoundIn(f, e, m)
  <2>1. \A j \in 1..n : m + j \in 1..(m + n) /\ ~(m + j <= m) /\ (m + j) - m = j
    OBVIOUS
  <2>2. \A j \in 1..n : f[m + j] = e[j]
    BY <1>3, <2>1
  <2> QED
    BY <1>1, <1>3, <2>2 DEF FoundIn
<1> QED
  BY <1>1, <1>2, <1>3, <1>4, <1>5

LEMMA LaidOn ==
  ASSUME NEW o, NEW d \in Seq(Packet!Byte), NEW s \in Seq(Items), LaidIn(o, d, s),
         NEW x \in Items, Coded(x) \in Seq(Packet!Byte),
         NEW o2, o2 = [i \in 0..(Len(s) + 1) |-> IF i <= Len(s) THEN o[i] ELSE Len(d) + Len(Coded(x))]
  PROVE  LaidIn(o2, d \o Coded(x), Append(s, x))
<1>1. PICK n \in Nat : n = Len(s)
  BY LenProperties
<1>2. PICK e \in Seq(Packet!Byte) : e = Coded(x)
  OBVIOUS
<1>3. PICK t : t = Append(s, x)
  OBVIOUS
<1>4. Len(t) = n + 1 /\ t[n + 1] = x /\ \A i \in 1..n : t[i] = s[i]
  BY <1>1, <1>3, AppendProperties
<1>5. PICK f : f = d \o e
  OBVIOUS
<1>6. /\ \A b, p : FoundIn(d, b, p) => FoundIn(f, b, p)
      /\ FoundIn(f, e, Len(d)) /\ Len(f) = Len(d) + Len(e) /\ Len(d) \in Nat /\ Len(e) \in Nat
  BY <1>5, FoundStays
<1>7. /\ o \in [0..n -> Nat] /\ o[0] = 0 /\ o[n] = Len(d)
      /\ \A i \in 1..n : FoundIn(d, Coded(s[i]), o[i - 1]) /\ o[i] = o[i - 1] + Len(Coded(s[i]))
  BY <1>1 DEF LaidIn
<1>8. o2 = [i \in 0..(n + 1) |-> IF i <= n THEN o[i] ELSE Len(d) + Len(e)]
  BY <1>1, <1>2
<1>9. o2 \in [0..(n + 1) -> Nat]
  <2>1. \A i \in 0..(n + 1) : (IF i <= n THEN o[i] ELSE Len(d) + Len(e)) \in Nat
    BY <1>6, <1>7
  <2> QED
    BY <1>8, <2>1
<1>10. o2[0] = 0 /\ o2[n + 1] = Len(f) /\ \A i \in 0..n : o2[i] = o[i]
  BY <1>6, <1>7, <1>8
<1>11. ASSUME NEW i \in 1..(n + 1)
       PROVE  FoundIn(f, Coded(t[i]), o2[i - 1]) /\ o2[i] = o2[i - 1] + Len(Coded(t[i]))
  <2>1. CASE i <= n
    <3>1. i \in 1..n /\ i \in 0..n /\ i - 1 \in 0..n
      BY <2>1
    <3>2. t[i] = s[i] /\ o2[i] = o[i] /\ o2[i - 1] = o[i - 1]
      BY <1>4, <1>10, <3>1
    <3> QED
      BY <1>6, <1>7, <3>1, <3>2
  <2>2. CASE i = n + 1
    <3>0. i - 1 = n /\ n \in 0..n
      BY <2>2
    <3>1. t[i] = x /\ o2[i - 1] = Len(d) /\ o2[i] = Len(d) + Len(e)
      BY <1>4, <1>6, <1>7, <1>10, <2>2, <3>0
    <3> QED
      BY <1>2, <1>6, <3>1
  <2> QED
    BY <2>1, <2>2
<1>12. LaidIn(o2, f, t)
  BY <1>4, <1>9, <1>10, <1>11 DEF LaidIn
<1> QED
  BY <1>2, <1>3, <1>5, <1>12

\* A write after reads: what was read before is still what was written, also an empty
\* vector that was read before it was there.
LEMMA ReadOn ==
  ASSUME Converted, NEW o, NEW d \in Seq(Packet!Byte), NEW s \in Seq(Items), LaidIn(o, d, s),
         NEW x \in Items,
         NEW o2, o2 = [i \in 0..(Len(s) + 1) |-> IF i <= Len(s) THEN o[i] ELSE Len(d) + Len(Coded(x))],
         NEW g, Len(g) \in Nat, NEW p, NEW ok, ReadTo(o, s, g, p, ok)
  PROVE  ReadTo(o2, Append(s, x), g, p, ok)
<1>1. PICK n \in Nat : n = Len(s)
  BY LenProperties
<1>2. PICK k \in Nat : k = Len(g)
  OBVIOUS
<1>3. PICK t : t = Append(s, x)
  OBVIOUS
<1>4. Len(t) = n + 1 /\ t[n + 1] = x /\ \A i \in 1..n : t[i] = s[i]
  BY <1>1, <1>3, AppendProperties
<1>5. \A i \in 0..n : o2[i] = o[i]
  BY <1>1
<1> SUFFICES ASSUME ok, SoFar(g, t)
             PROVE  /\ \A i \in 1..Shared(g, t) : g[i] = t[i]
                    /\ \A i \in (Shared(g, t) + 1)..Len(g) : g[i] = NoVector
                    /\ p = o2[Shared(g, t)]
  BY <1>3 DEF ReadTo
<1>6. CASE k <= n
  <2>1. Shared(g, t) = k /\ Shared(g, s) = k
    BY <1>1, <1>2, <1>4, <1>6 DEF Shared
  <2>2. \A i \in 1..k : t[i] = s[i]
    BY <1>4, <1>6
  <2>3. SoFar(g, s)
    BY <2>1, <2>2 DEF SoFar
  <2>4. (\A i \in 1..k : g[i] = s[i]) /\ p = o[k]
    BY <2>1, <2>3 DEF ReadTo
  <2>5. (k + 1)..k = {} /\ k \in 0..n
    BY <1>6
  <2> QED
    BY <1>2, <1>5, <2>1, <2>2, <2>4, <2>5
<1>7. CASE k > n
  <2>1. Shared(g, t) = n + 1 /\ Shared(g, s) = n
    BY <1>1, <1>2, <1>4, <1>7 DEF Shared
  <2>2. SoFar(g, s)
    <3>1. \A i \in 1..n : i \in 1..(n + 1) /\ t[i] = s[i]
      BY <1>4
    <3> QED
      BY <2>1, <3>1 DEF SoFar
  <2>3. /\ \A i \in 1..n : g[i] = s[i]
        /\ \A i \in (n + 1)..k : g[i] = NoVector
        /\ p = o[n]
    BY <1>2, <2>1, <2>2 DEF ReadTo
  <2>4. Packet!Alike(g[n + 1], x) /\ g[n + 1] = NoVector
    BY <1>4, <1>7, <2>1, <2>3 DEF SoFar
  <2>5. x[1] = Packet!Vector /\ Len(x[2]) = 0
    <3>1. NoVector[1] = Packet!Vector /\ NoVector[2] = <<>>
      BY DEF NoVector
    <3>2. Len(<<>>) = 0
      OBVIOUS
    <3> QED
      BY <2>4, <3>1, <3>2 DEF Packet!Alike
  <2>6. x[2] = <<>>
    BY <2>5, ItemIs, ValuesAre, EmptySeq
  <2>7. x = NoVector
    BY <2>5, <2>6, ItemIs DEF NoVector
  <2>8. Len(Coded(x)) = 0
    <3>1. PICK v \in Seq(Pair) : v = <<>> /\ Len(v) = 0
      BY EmptySeq
    <3>2. Packet!Encode(Packet!Vector, v) = <<>>
      BY <3>1, VectorIs DEF Packet!FlattenSeq
    <3> QED
      BY <2>5, <2>6, <3>1, <3>2 DEF Coded
  <2>9. o2[n + 1] = p
    <3>1. o2[n + 1] = Len(d) + Len(Coded(x)) /\ Len(d) \in Nat
      BY <1>1, LenProperties
    <3>2. p = Len(d)
      BY <1>1, <2>3 DEF LaidIn
    <3> QED
      BY <2>8, <3>1, <3>2
  <2>10. \A i \in 1..(n + 1) : g[i] = t[i]
    <3>1. \A i \in 1..(n + 1) : i \in 1..n \/ i = n + 1
      OBVIOUS
    <3> QED
      BY <1>4, <2>3, <2>4, <2>7, <3>1
  <2>11. \A i \in ((n + 1) + 1)..k : g[i] = NoVector
    BY <2>3
  <2> QED
    BY <1>2, <2>1, <2>9, <2>10, <2>11
<1> QED
  BY <1>6, <1>7

LEMMA CodecInit == Packet!Init => CodecInv
<1> SUFFICES ASSUME Packet!Init PROVE CodecInv
  OBVIOUS
<1>1. data = <<>> /\ readPos = 0 /\ isValid = TRUE /\ sent = <<>> /\ got = <<>>
  BY DEF Packet!Init
<1>2. data \in Seq(Packet!Byte) /\ sent \in Seq(Items) /\ got \in Seq({}) /\ Len(<<>>) = 0
  BY <1>1, EmptySeq
<1>3. PICK o : o = [i \in 0..0 |-> 0]
  OBVIOUS
<1>4. LaidIn(o, data, sent)
  BY <1>1, <1>2, <1>3 DEF LaidIn
<1>5. ReadTo(o, sent, got, readPos, isValid)
  <2>1. Shared(got, sent) = 0
    BY <1>1, <1>2 DEF Shared
  <2> QED
    BY <1>1, <1>2, <1>3, <2>1 DEF ReadTo
<1> QED
  BY <1>1, <1>2, <1>4, <1>5 DEF CodecInv, CodecTypes

LEMMA CodecWrite ==
  ASSUME Converted, CodecInv, NEW type \in Packet!Types, NEW v \in Payloads[type],
         Packet!Write(type, v)
  PROVE  CodecInv'
<1>1. PICK o : LaidIn(o, data, sent) /\ ReadTo(o, sent, got, readPos, isValid)
  BY DEF CodecInv
<1>0. PICK x : x = <<type, v>>
  OBVIOUS
<1>2. x = <<type, v>> /\ x \in Items /\ Coded(x) = Packet!Encode(type, v)
  <2>1. x \in Items
    BY <1>0 DEF Items
  <2>2. x[1] = type /\ x[2] = v
    BY <1>0
  <2> QED
    BY <1>0, <2>1, <2>2 DEF Coded
<1>3. Coded(x) \in Seq(Packet!Byte)
  BY <1>2, ItemIs
<1>4. /\ data' = data \o Coded(x) /\ sent' = Append(sent, x)
      /\ readPos' = readPos /\ isValid' = isValid /\ got' = got
  BY <1>2 DEF Packet!Write
<1>5. PICK o2 : o2 = [i \in 0..(Len(sent) + 1) |-> IF i <= Len(sent) THEN o[i] ELSE Len(data) + Len(Coded(x))]
  OBVIOUS
<1>6. data \in Seq(Packet!Byte) /\ sent \in Seq(Items) /\ \E S : got \in Seq(S)
  BY DEF CodecInv, CodecTypes
<1>7. Len(got) \in Nat
  BY <1>6, LenProperties
<1>8. LaidIn(o2, data', sent')
  BY <1>1, <1>2, <1>3, <1>4, <1>5, <1>6, LaidOn
<1>9. ReadTo(o2, sent', got', readPos', isValid')
  BY <1>1, <1>2, <1>4, <1>5, <1>6, <1>7, ReadOn
<1>10. CodecTypes'
  BY <1>2, <1>3, <1>4, <1>6, FoundStays, AppendProperties DEF CodecInv, CodecTypes
<1> QED
  BY <1>8, <1>9, <1>10 DEF CodecInv

LEMMA DecodeValid ==
  ASSUME isValid \in BOOLEAN, NEW type \in Packet!Types, NEW n \in Nat
  PROVE  /\ Packet!Decode(type, n).valid \in BOOLEAN
         /\ type = Packet!Vector => Len(Packet!Decode(type, n).value) = n
<1>1. ASSUME NEW t, NEW valid, NEW p PROVE Packet!Scalar(t, valid, p).valid \in BOOLEAN
  <2>1. PICK val : val = LET v == Packet!Wire(Reader, t, Packet!Bytes(p, Packet!Width[t])) IN
          IF t = "bool" THEN (IF v = << 0 >> THEN << 0 >> ELSE << 1 >>) ELSE v
    OBVIOUS
  <2>2. PICK place : place = p + Packet!Width[t]
    OBVIOUS
  <2>3. Packet!Scalar(t, valid, p) = IF Packet!CheckSize(valid, p, Packet!Width[t])
          THEN [valid |-> TRUE, pos |-> place, value |-> val]
          ELSE [valid |-> FALSE, pos |-> p, value |-> Old]
    BY <2>1, <2>2, Zenon DEF Packet!Scalar
  <2> QED
    BY <2>3
<1>2. ASSUME NEW t, NEW valid, NEW p PROVE Packet!Text(t, valid, p).valid \in BOOLEAN
  <2>1. PICK r : r = Packet!Scalar("int32", valid, p)
    OBVIOUS
  <2>2. r.valid \in BOOLEAN
    BY <1>1, <2>1
  <2>3. \A x, ok, place, val : x = [valid |-> ok, pos |-> place, value |-> val] => x.valid = ok
    OBVIOUS
  <2>4. TRUE \in BOOLEAN /\ FALSE \in BOOLEAN
    OBVIOUS
  <2> DEFINE num  == IF r.value = Old THEN 0 ELSE Packet!Number(r.value)
             each == IF t \in Packet!Wides THEN 4 ELSE 1
             kept == IF t \in {"string", "wstring"} THEN <<>> ELSE Old
             read == [i \in 1..num |->
                        IF each = 1 THEN data[r.pos + i]
                        ELSE SubSeq(Packet!Wire(Reader, "int32", Packet!Bytes(r.pos + (i - 1) * 4, 4)), 3, 4)]
             res  == Packet!Text(t, valid, p)
  <2>5. \/ res = [valid |-> r.valid, pos |-> r.pos, value |-> kept]
        \/ res = [valid |-> FALSE, pos |-> r.pos, value |-> kept]
        \/ res = [valid |-> TRUE, pos |-> r.pos + num * each, value |-> read]
    BY <2>1, Zenon DEF Packet!Text
  <2> HIDE DEF num, each, kept, read, res
  <2>6. res.valid = r.valid \/ res.valid = FALSE \/ res.valid = TRUE
    <3>1. CASE res = [valid |-> r.valid, pos |-> r.pos, value |-> kept]
      BY <2>3, <3>1, Zenon
    <3>2. CASE res = [valid |-> FALSE, pos |-> r.pos, value |-> kept]
      BY <3>2
    <3>3. CASE res = [valid |-> TRUE, pos |-> r.pos + num * each, value |-> read]
      BY <3>3
    <3> QED
      BY <2>5, <3>1, <3>2, <3>3
  <2>7. res.valid \in BOOLEAN
    BY <2>2, <2>4, <2>6
  <2> QED
    BY <2>7 DEF res
<1>3. /\ Packet!Elements(n, isValid, readPos).valid \in BOOLEAN
      /\ Len(Packet!Elements(n, isValid, readPos).value) = n
  <2>1. PICK whole : whole = {j \in 0..n : j = 0 \/ Packet!CheckSize(isValid, readPos, 2 * j)}
    OBVIOUS
  <2>2. PICK k : k = CHOOSE i \in whole : \A j \in whole : j <= i
    OBVIOUS
  <2>3. PICK val : val = [i \in 1..n |-> IF i <= k THEN Packet!Wire(Reader, "int16", Packet!Bytes(readPos + 2 * (i - 1), 2)) ELSE Junk]
    OBVIOUS
  <2>4. PICK ok \in BOOLEAN : ok = (isValid /\ k = n)
    OBVIOUS
  <2>5. PICK place : place = readPos + 2 * k
    OBVIOUS
  <2>6. Packet!Elements(n, isValid, readPos) = [valid |-> isValid /\ k = n, pos |-> readPos + 2 * k, value |-> val]
    BY <2>1, <2>2, <2>3, Zenon DEF Packet!Elements
  <2>7. Packet!Elements(n, isValid, readPos) = [valid |-> ok, pos |-> place, value |-> val]
    BY <2>4, <2>5, <2>6
  <2>8. \A r : r = [valid |-> ok, pos |-> place, value |-> val] => r.valid = ok /\ r.value = val
    OBVIOUS
  <2>9. Len(val) = n
    BY <2>3, LenProperties
  <2> QED
    BY <2>4, <2>7, <2>8, <2>9
<1>4. CASE type \in Packet!Scalars
  <2>1. type # Packet!Vector
    BY <1>4 DEF Packet!Vector, Packet!Scalars
  <2> QED
    BY <1>1, <1>4, <2>1, Decoders
<1>5. CASE type \in Packet!Texts \cup Packet!Wides
  <2>1. type # Packet!Vector
    BY <1>5 DEF Packet!Vector, Packet!Texts, Packet!Wides
  <2> QED
    BY <1>2, <1>5, <2>1, Decoders
<1>6. CASE type = Packet!Vector
  BY <1>3, <1>6, Decoders
<1> QED
  BY <1>4, <1>5, <1>6, PacketBounds

LEMMA Longer ==
  ASSUME NEW s, \E S : s \in Seq(S), NEW y
  PROVE  /\ \E S : Append(s, y) \in Seq(S)
         /\ Len(s) \in Nat /\ Len(Append(s, y)) = Len(s) + 1 /\ Append(s, y)[Len(s) + 1] = y
         /\ \A i \in 1..Len(s) : Append(s, y)[i] = s[i]
<1>1. PICK S : s \in Seq(S)
  OBVIOUS
<1>2. PICK U : U = S \cup {y}
  OBVIOUS
<1>3. S \subseteq U /\ y \in U
  BY <1>2
<1>4. s \in Seq(U)
  BY <1>1, <1>3, SeqDef
<1> QED
  BY <1>3, <1>4, AppendProperties, LenProperties

\* A read of the type that was written next reads what was written, where it lies.
LEMMA ReadNext ==
  ASSUME Converted, CodecTypes, isValid, NEW o, LaidIn(o, data, sent),
         ReadTo(o, sent, got, readPos, isValid), Len(got) < Len(sent),
         NEW type \in Packet!Types, NEW n \in Nat, NEW r, r = Packet!Decode(type, n),
         NEW g, g = Append(got, <<type, r.value>>), SoFar(g, sent)
  PROVE  /\ r.valid = TRUE /\ r.pos = o[Len(got) + 1]
         /\ \A i \in 1..(Len(got) + 1) : g[i] = sent[i]
<1>0. PICK y : y = <<type, r.value>>
  OBVIOUS
<1>1. y = <<type, r.value>> /\ y[1] = type /\ y[2] = r.value
  BY <1>0
<1>2. /\ data \in Seq(Packet!Byte) /\ isValid \in BOOLEAN /\ sent \in Seq(Items)
      /\ \E S : got \in Seq(S)
  BY DEF CodecTypes
<1>3. type = Packet!Vector => Len(r.value) = n
  BY <1>2, DecodeValid
<1>4. PICK k \in Nat, m \in Nat : k = Len(got) /\ m = Len(sent)
  BY <1>2, LenProperties
<1>5. Len(g) = k + 1 /\ g[k + 1] = y /\ \A i \in 1..k : g[i] = got[i]
  BY <1>1, <1>2, <1>4, Longer
<1>6. k < m /\ Shared(g, sent) = k + 1 /\ Shared(got, sent) = k
  BY <1>4, <1>5 DEF Shared
<1>7. \A i \in 1..k : i \in 1..(k + 1)
  OBVIOUS
<1>8. SoFar(got, sent)
  BY <1>5, <1>6, <1>7 DEF SoFar
<1>9. (\A i \in 1..k : got[i] = sent[i]) /\ readPos = o[k]
  BY <1>6, <1>8 DEF ReadTo
<1>10. k + 1 \in 1..(k + 1) /\ k + 1 \in 1..m /\ (k + 1) - 1 = k
  BY <1>6
<1>11. PICK x \in Items : x = sent[k + 1]
  BY <1>2, <1>4, <1>10, ElementOfSeq
<1>12. Packet!Alike(y, x)
  BY <1>5, <1>6, <1>10, <1>11 DEF SoFar
<1>13. FoundIn(data, Coded(x), readPos) /\ o[k + 1] = readPos + Len(Coded(x))
  BY <1>4, <1>9, <1>10, <1>11 DEF LaidIn
<1>14. PICK v \in Payloads[type] : v = x[2] /\ x = <<type, v>> /\ Coded(x) = Packet!Encode(type, v)
  BY <1>1, <1>12, ItemIs DEF Packet!Alike, Coded
<1>15. type = Packet!Vector => n = Len(v)
  BY <1>1, <1>3, <1>12, <1>14 DEF Packet!Alike
<1>16. Found(Packet!Encode(type, v), readPos)
  BY <1>13, <1>14 DEF Found
<1>17. r = [valid |-> TRUE, pos |-> readPos + Len(Packet!Encode(type, v)), value |-> v]
  BY <1>2, <1>15, <1>16, DecodeIs
<1>18. r.pos = o[k + 1] /\ r.value = v /\ r.valid = TRUE
  BY <1>13, <1>14, <1>17
<1>19. y = x
  BY <1>1, <1>14, <1>18
<1>20. \A i \in 1..(k + 1) : i \in 1..k \/ i = k + 1
  OBVIOUS
<1>21. \A i \in 1..(k + 1) : g[i] = sent[i]
  BY <1>5, <1>9, <1>11, <1>19, <1>20
<1> QED
  BY <1>4, <1>18, <1>21

LEMMA CodecRead ==
  ASSUME Converted, CodecInv, NEW type \in Packet!Types, NEW n \in Nat, Packet!Read(type, n)
  PROVE  CodecInv'
<1>1. PICK o : LaidIn(o, data, sent) /\ ReadTo(o, sent, got, readPos, isValid)
  BY DEF CodecInv
<1>2. PICK r : r = Packet!Decode(type, n)
  OBVIOUS
<1>0. PICK y : y = <<type, r.value>>
  OBVIOUS
<1>3. y = <<type, r.value>> /\ y[1] = type /\ y[2] = r.value
  BY <1>0
<1>4. /\ readPos' = r.pos /\ isValid' = r.valid /\ got' = Append(got, y)
      /\ data' = data /\ sent' = sent
  BY <1>2, <1>3 DEF Packet!Read
<1>5. /\ data \in Seq(Packet!Byte) /\ isValid \in BOOLEAN /\ sent \in Seq(Items)
      /\ \E S : got \in Seq(S)
  BY DEF CodecInv, CodecTypes
<1>6. r.valid \in BOOLEAN /\ (type = Packet!Vector => Len(r.value) = n)
  BY <1>2, <1>5, DecodeValid
<1>8. PICK k \in Nat : k = Len(got)
  BY <1>5, LenProperties
<1>9. PICK m \in Nat : m = Len(sent)
  BY <1>5, LenProperties
<1>10. PICK g : g = Append(got, y)
  OBVIOUS
<1>12. (\E S : g \in Seq(S)) /\ Len(g) = k + 1 /\ g[k + 1] = y /\ \A i \in 1..k : g[i] = got[i]
  BY <1>5, <1>8, <1>10, Longer
<1>13. CodecTypes'
  BY <1>4, <1>5, <1>6, <1>10, <1>12 DEF CodecTypes
<1>14. ReadTo(o, sent, g, r.pos, r.valid)
  <2> SUFFICES ASSUME r.valid, SoFar(g, sent)
               PROVE  /\ \A i \in 1..Shared(g, sent) : g[i] = sent[i]
                      /\ \A i \in (Shared(g, sent) + 1)..Len(g) : g[i] = NoVector
                      /\ r.pos = o[Shared(g, sent)]
    BY DEF ReadTo
  <2>1. isValid
    BY <1>2, <1>5, StaysInvalid
  <2>2. CASE k < m
    <3>1. Shared(g, sent) = k + 1
      BY <1>9, <1>12, <2>2 DEF Shared
    <3>2. r.pos = o[k + 1] /\ \A i \in 1..(k + 1) : g[i] = sent[i]
      <4>1. g = Append(got, <<type, r.value>>)
        BY <1>3, <1>10
      <4>2. CodecTypes /\ Len(got) < Len(sent)
        BY <1>8, <1>9, <2>2 DEF CodecInv
      <4>3. r.pos = o[Len(got) + 1] /\ \A i \in 1..(Len(got) + 1) : g[i] = sent[i]
        BY <1>1, <1>2, <2>1, <4>1, <4>2, ReadNext
      <4> QED
        BY <1>8, <4>3
    <3>3. ((k + 1) + 1)..(k + 1) = {}
      OBVIOUS
    <3> QED
      BY <1>12, <3>1, <3>2, <3>3
  <2>3. CASE k >= m
    <3>1. Shared(g, sent) = m /\ Shared(got, sent) = m
      BY <1>8, <1>9, <1>12, <2>3 DEF Shared
    <3>2. \A i \in 1..m : i \in 1..k
      BY <2>3
    <3>3. SoFar(got, sent)
      BY <1>12, <3>1, <3>2 DEF SoFar
    <3>4. /\ \A i \in 1..m : got[i] = sent[i]
          /\ \A i \in (m + 1)..k : got[i] = NoVector
          /\ readPos = o[m]
      BY <1>1, <1>8, <2>1, <3>1, <3>3 DEF ReadTo
    <3>5. readPos = Len(data)
      BY <1>1, <1>9, <3>4 DEF LaidIn
    <3>6. /\ type = Packet!Vector
          /\ r = [valid |-> TRUE, pos |-> readPos, value |-> <<>>]
      BY <1>2, <1>5, <2>1, <3>5, AtTheEnd
    <3>7. r.pos = readPos /\ r.value = <<>>
      BY <3>6
    <3>8. y = NoVector
      BY <1>3, <3>6, <3>7 DEF NoVector
    <3>9. \A i \in 1..m : g[i] = sent[i]
      BY <1>12, <3>2, <3>4
    <3>10. \A i \in (m + 1)..(k + 1) : i \in (m + 1)..k \/ i = k + 1
      BY <2>3
    <3>11. \A i \in (m + 1)..k : i \in 1..k
      OBVIOUS
    <3>12. \A i \in (m + 1)..(k + 1) : g[i] = NoVector
      BY <1>12, <3>4, <3>8, <3>10, <3>11
    <3> QED
      BY <1>12, <3>1, <3>4, <3>7, <3>9, <3>12
  <2> QED
    BY <2>2, <2>3
<1>15. ReadTo(o, sent', got', readPos', isValid')
  BY <1>4, <1>10, <1>14
<1>16. LaidIn(o, data', sent')
  BY <1>1, <1>4
<1> QED
  BY <1>13, <1>15, <1>16 DEF CodecInv

LEMMA CodecStep == ASSUME Converted, CodecInv, [Packet!Next]_Packet!vars PROVE CodecInv'
<1>1. CASE \E type \in Packet!Types : \E v \in Payloads[type] : Packet!Write(type, v)
  BY <1>1, CodecWrite
<1>2. CASE \E type \in Packet!Types, n \in 0..2 : (type = Packet!Vector \/ n = 0) /\ Packet!Read(type, n)
  <2>1. PICK type \in Packet!Types, n \in Nat : Packet!Read(type, n)
    BY <1>2
  <2> QED
    BY <2>1, CodecRead
<1>3. CASE Packet!Clear
  <2>1. Packet!Init'
    BY <1>3 DEF Packet!Clear, Packet!Start, Packet!Init
  <2>2. (Packet!Init => CodecInv)'
    BY CodecInit, PTL
  <2> QED
    BY <2>1, <2>2
<1>4. CASE UNCHANGED Packet!vars
  <2>1. UNCHANGED <<data, readPos, isValid, sent, got>>
    BY <1>4 DEF Packet!vars
  <2> QED
    BY <2>1 DEF CodecInv, CodecTypes
<1> QED
  BY <1>1, <1>2, <1>3, <1>4, Zenon DEF Packet!Next

\* What is still ok and in step has been read as it was written.
LEMMA CodecMeans == ASSUME CodecInv PROVE Packet!RoundTrip /\ Packet!EndsTogether
<1> SUFFICES ASSUME isValid, Packet!InStep
             PROVE  /\ \A i \in DOMAIN got : got[i] = sent[i]
                    /\ Len(got) = Len(sent) => readPos = Len(data)
  BY DEF Packet!RoundTrip, Packet!EndsTogether
<1>1. PICK o : LaidIn(o, data, sent) /\ ReadTo(o, sent, got, readPos, isValid)
  BY DEF CodecInv
<1>2. DOMAIN got = 1..Len(got)
  BY LenProperties DEF CodecInv, CodecTypes
<1>3. Shared(got, sent) = Len(got)
  BY DEF Shared, Packet!InStep
<1>4. SoFar(got, sent)
  BY <1>2, <1>3 DEF SoFar, Packet!InStep
<1>5. (\A i \in 1..Len(got) : got[i] = sent[i]) /\ readPos = o[Len(got)]
  BY <1>1, <1>3, <1>4 DEF ReadTo
<1> QED
  BY <1>1, <1>2, <1>5 DEF LaidIn

LEMMA CodecNext ==
  ASSUME Converted, CodecInv, [Packet!Next]_Packet!vars,
         isValid, Packet!InStep, Len(got) < Len(sent), got' # got, Packet!InStep'
  PROVE  isValid'
<1>1. CASE \E type \in Packet!Types : \E v \in Payloads[type] : Packet!Write(type, v)
  BY <1>1 DEF Packet!Write
<1>2. CASE \E type \in Packet!Types, n \in 0..2 : (type = Packet!Vector \/ n = 0) /\ Packet!Read(type, n)
  <2>1. PICK type \in Packet!Types, n \in Nat : Packet!Read(type, n)
    BY <1>2
  <2>2. PICK o : LaidIn(o, data, sent) /\ ReadTo(o, sent, got, readPos, isValid)
    BY DEF CodecInv
  <2>3. PICK r : r = Packet!Decode(type, n)
    OBVIOUS
  <2>4. PICK g : g = Append(got, <<type, r.value>>)
    OBVIOUS
  <2>5. got' = g /\ isValid' = r.valid /\ sent' = sent
    BY <2>1, <2>3, <2>4 DEF Packet!Read
  <2>6. (\E S : g \in Seq(S)) /\ Len(g) = Len(got) + 1
    BY <2>4, Longer DEF CodecInv, CodecTypes
  <2>7. /\ Len(g) <= Len(sent)
        /\ \A i \in DOMAIN g : Packet!Alike(g[i], sent[i])
    BY <2>5 DEF Packet!InStep, Packet!Alike
  <2>8. SoFar(g, sent)
    <3>1. DOMAIN g = 1..Len(g) /\ Shared(g, sent) = Len(g)
      BY <2>6, <2>7, LenProperties DEF Shared
    <3> QED
      BY <2>7, <3>1 DEF SoFar
  <2>9. r.valid = TRUE
    BY <2>2, <2>3, <2>4, <2>8, ReadNext DEF CodecInv
  <2> QED
    BY <2>5, <2>9
<1>3. CASE Packet!Clear
  BY <1>3 DEF Packet!Clear
<1>4. CASE UNCHANGED Packet!vars
  BY <1>4 DEF Packet!vars
<1> QED
  BY <1>1, <1>2, <1>3, <1>4, Zenon DEF Packet!Next

\* Whoever reads the types that were written reads the values that were written, ends
\* where the packet ends, and is never refused the next one.
THEOREM PacketsReadBack == ASSUME Converted PROVE Packet!Spec => RoundTrip
<1>1. Packet!Init => CodecInv
  BY CodecInit
<1>2. CodecInv /\ [Packet!Next]_Packet!vars => CodecInv'
  BY CodecStep
<1>3. CodecInv => Packet!RoundTrip /\ Packet!EndsTogether
  BY CodecMeans
<1>4. CodecInv /\ [Packet!Next]_Packet!vars =>
        [isValid /\ Packet!InStep /\ Len(got) < Len(sent) /\ got' # got /\ Packet!InStep' => isValid']_Packet!vars
  BY CodecNext
<1> QED
  BY <1>1, <1>2, <1>3, <1>4, PTL DEF Packet!Spec, RoundTrip, Packet!NextIsThere

-----------------------------------------------------------------------------
(* The composite. *)

\* What a run of Records explores are behaviours of the four components.
THEOREM Parts == RecordsSpec => Spec /\ Log!Spec /\ Sheet!Spec /\ Packet!Spec
<1>1. RecordsInit => Init /\ Log!Init /\ Sheet!Init /\ Packet!Init
  BY DEF RecordsInit
<1>2. [RecordsNext]_<<subject, vars, logVars, tableVars, packetVars>> => [Next]_vars
  BY Zenon DEF RecordsNext
<1>3. [RecordsNext]_<<subject, vars, logVars, tableVars, packetVars>> => [Log!Next]_(Log!vars)
  <2>1. logVars' = logVars => UNCHANGED Log!vars
    BY DEF logVars, Log!vars, Log!writer
  <2> QED
    BY <2>1, Zenon DEF RecordsNext
<1>4. [RecordsNext]_<<subject, vars, logVars, tableVars, packetVars>> => [Sheet!Next]_(Sheet!vars)
  BY DEF RecordsNext, tableVars, Sheet!vars
<1>5. [RecordsNext]_<<subject, vars, logVars, tableVars, packetVars>> => [Packet!Next]_(Packet!vars)
  BY DEF RecordsNext, packetVars, Packet!vars
<1> QED
  BY <1>1, <1>2, <1>3, <1>4, <1>5, PTL DEF RecordsSpec, Spec, Log!Spec, Sheet!Spec, Packet!Spec
=============================================================================
