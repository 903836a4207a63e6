-------------------------- MODULE PacketsProofs --------------------------
(***************************************************************************)
(* Proofs about what carries packets.  About TcpPackets, for packets and   *)
(* buffers of any size, any number of connections and everything that may  *)
(* cut them off: Resumes and Implements.  About MelNet, for any number of  *)
(* faults and requests and queues of any length: DataIsRecent.             *)
(***************************************************************************)
EXTENDS Packets, SequenceTheorems, WellFoundedInduction, FiniteSetTheorems, TLAPS

(* Induction over the naturals, and FlattenSeq for every sequence. *)

Below == {p \in Nat \X Nat : p[1] < p[2]}

LEMMA BelowWF == IsWellFoundedOn(Below, Nat)
BY NatLessThanWellFounded DEF OpToRel, Below

LEMMA Least == ASSUME NEW T \in SUBSET Nat, T # {}
               PROVE \E n \in T : \A m \in T : n <= m
<1>1. PICK n \in T : \A m \in T : <<m, n>> \notin Below
  BY BelowWF, WFMin
<1>2. \A m \in T : ~ (m < n)
  BY <1>1 DEF Below
<1> QED
  BY <1>2

LEMMA SetInduction == ASSUME NEW T \in SUBSET Nat, 0 \in T, \A n \in T : n + 1 \in T
  PROVE T = Nat
<1> SUFFICES ASSUME Nat \ T # {} PROVE FALSE
  OBVIOUS
<1>1. PICK n \in Nat \ T : \A m \in Nat \ T : n <= m
  BY Least
<1>2. n # 0 /\ n - 1 \in Nat /\ n - 1 \notin T
  BY <1>1
<1> QED BY <1>1, <1>2

Join(s, t) == s \o t

\* g is the function FlattenSeq defines, on the first n of ss
Joins(g, ss, n) == \A i \in 1..n : g[i] = IF i = 1 THEN ss[i] ELSE Join(g[i - 1], ss[i])

Flattens(g, ss, n) == g = [i \in 1..n |-> g[i]] /\ Joins(g, ss, n)

LEMMA FlattensLonger ==
  ASSUME NEW ss, NEW n \in Nat \ {0}, NEW g, Flattens(g, ss, n)
  PROVE  \E h : Flattens(h, ss, n + 1)
<1>0. Joins(g, ss, n)
  BY DEF Flattens
<1>1. PICK h : h = [i \in 1..(n + 1) |-> IF i <= n THEN g[i] ELSE Join(g[n], ss[n + 1])]
  OBVIOUS
<1>2. h = [i \in 1..(n + 1) |-> h[i]]
  BY <1>1
<1>3. ASSUME NEW i \in 1..(n + 1) PROVE h[i] = IF i = 1 THEN ss[i] ELSE Join(h[i - 1], ss[i])
  <2>1. CASE i <= n
    <3>1. h[i] = g[i] /\ (i # 1 => h[i - 1] = g[i - 1])
      BY <1>1, <2>1
    <3> QED
      BY <1>0, <2>1, <3>1 DEF Joins
  <2>2. CASE i = n + 1
    <3>1. h[n + 1] = Join(g[n], ss[n + 1]) /\ h[n] = g[n]
      BY <1>1
    <3> QED
      BY <2>2, <3>1
  <2> QED
    BY <2>1, <2>2
<1> QED
  BY <1>2, <1>3 DEF Flattens, Joins

LEMMA FlattenIs ==
  ASSUME NEW ss, Len(ss) \in Nat, Len(ss) # 0
  PROVE  \E g : Flattens(g, ss, Len(ss)) /\ FlattenSeq(ss) = g[Len(ss)]
<1> DEFINE T == {n \in Nat : \E g : Flattens(g, ss, n + 1)}
<1>1. 0 \in T
  <2>1. PICK g : g = [i \in 1..1 |-> ss[1]]
    OBVIOUS
  <2>2. Flattens(g, ss, 0 + 1)
    BY <2>1 DEF Flattens, Joins
  <2> QED
    BY <2>2
<1>2. \A n \in T : n + 1 \in T
  BY FlattensLonger
<1>3. T \in SUBSET Nat
  OBVIOUS
<1>4. \A n \in T : \E g : Flattens(g, ss, n + 1)
  OBVIOUS
<1> HIDE DEF T
<1>5. T = Nat
  BY <1>1, <1>2, <1>3, SetInduction
<1>6. (Len(ss) - 1) + 1 = Len(ss)
  OBVIOUS
<1>7. \E g : Flattens(g, ss, Len(ss))
  BY <1>4, <1>5, <1>6, Len(ss) - 1 \in Nat
<1>8. \A g : Flattens(g, ss, Len(ss)) <=>
             g = [i \in 1..Len(ss) |-> IF i = 1 THEN ss[i] ELSE Join(g[i - 1], ss[i])]
  BY DEF Flattens, Joins
<1> QED
  BY <1>7, <1>8 DEF FlattenSeq, Join

LEMMA FlattensUnique ==
  ASSUME NEW ss, NEW tt, NEW m \in Nat, NEW n \in Nat, m <= n, \A i \in 1..m : ss[i] = tt[i],
         NEW g, NEW h, Flattens(g, ss, m), Flattens(h, tt, n)
  PROVE  \A i \in 1..m : g[i] = h[i]
<1>0. Joins(g, ss, m) /\ Joins(h, tt, n)
  BY DEF Flattens
<1> DEFINE T == {k \in Nat : k + 1 <= m => g[k + 1] = h[k + 1]}
<1>1. 0 \in T
  <2>1. ASSUME 1 <= m PROVE g[1] = h[1]
    BY <1>0, <2>1 DEF Joins
  <2> QED
    BY <2>1
<1>2. ASSUME NEW k \in T PROVE k + 1 \in T
  <2> SUFFICES ASSUME k + 2 <= m PROVE g[k + 2] = h[k + 2]
    OBVIOUS
  <2>1. g[k + 1] = h[k + 1]
    OBVIOUS
  <2>2. k + 2 \in 1..m /\ k + 2 \in 1..n /\ k + 2 # 1 /\ (k + 2) - 1 = k + 1
    OBVIOUS
  <2> QED
    BY <1>0, <2>1, <2>2 DEF Joins
<1>3. T \in SUBSET Nat /\ \A k \in T : k + 1 <= m => g[k + 1] = h[k + 1]
  OBVIOUS
<1> HIDE DEF T
<1>4. T = Nat
  BY <1>1, <1>2, <1>3, SetInduction
<1>5. ASSUME NEW i \in 1..m PROVE g[i] = h[i]
  <2>1. i - 1 \in T /\ (i - 1) + 1 = i
    BY <1>4
  <2> QED
    BY <1>3, <2>1
<1> QED
  BY <1>5

LEMMA FlattenAppend ==
  ASSUME NEW S, NEW ss \in Seq(Seq(S)), NEW x \in Seq(S)
  PROVE  FlattenSeq(Append(ss, x)) = FlattenSeq(ss) \o x
<1>1. PICK n \in Nat : n = Len(ss)
  BY LenProperties
<1>2. PICK tt : tt = Append(ss, x)
  OBVIOUS
<1>3. Len(tt) = n + 1 /\ tt[n + 1] = x /\ \A i \in 1..n : ss[i] = tt[i]
  BY <1>1, <1>2, AppendProperties
<1>4. PICK h : Flattens(h, tt, n + 1) /\ FlattenSeq(tt) = h[n + 1]
  BY <1>3, FlattenIs
<1>5. CASE n = 0
  <2>1. ss = <<>> /\ FlattenSeq(ss) = <<>>
    BY <1>1, <1>5, EmptySeq DEF FlattenSeq
  <2>2. h[1] = x
    BY <1>3, <1>4, <1>5 DEF Flattens, Joins
  <2> QED
    BY <1>2, <1>4, <1>5, <2>1, <2>2, ConcatEmptySeq
<1>6. CASE n # 0
  <2>1. PICK g : Flattens(g, ss, n) /\ FlattenSeq(ss) = g[n]
    BY <1>1, <1>6, FlattenIs
  <2>2. g[n] = h[n]
    BY <1>3, <1>4, <1>6, <2>1, FlattensUnique
  <2>3. n + 1 \in 1..(n + 1) /\ n + 1 # 1 /\ (n + 1) - 1 = n
    BY <1>6
  <2>4. h[n + 1] = Join(h[n], x)
    BY <1>3, <1>4, <2>3 DEF Flattens, Joins
  <2> QED
    BY <1>2, <1>4, <2>1, <2>2, <2>4 DEF Join
<1> QED
  BY <1>5, <1>6

LEMMA FlattenType ==
  ASSUME NEW S, NEW ss \in Seq(Seq(S))
  PROVE  FlattenSeq(ss) \in Seq(S)
<1> DEFINE T == {n \in Nat : \A tt \in Seq(Seq(S)) : Len(tt) = n => FlattenSeq(tt) \in Seq(S)}
<1>1. 0 \in T
  BY EmptySeq DEF FlattenSeq
<1>2. ASSUME NEW n \in T PROVE n + 1 \in T
  <2> SUFFICES ASSUME NEW tt \in Seq(Seq(S)), Len(tt) = n + 1 PROVE FlattenSeq(tt) \in Seq(S)
    OBVIOUS
  <2>1. tt # <<>>
    BY EmptySeq
  <2>2. PICK uu \in Seq(Seq(S)), x \in Seq(S) : tt = Append(uu, x)
    BY <2>1, SequenceEmptyOrAppend
  <2>3. Len(uu) = n
    BY <2>2, AppendProperties, LenProperties
  <2>4. FlattenSeq(uu) \in Seq(S)
    BY <2>3
  <2> QED
    BY <2>2, <2>4, FlattenAppend, ConcatProperties
<1>3. T = Nat
  <2>1. T \in SUBSET Nat
    OBVIOUS
  <2> HIDE DEF T
  <2> QED
    BY <1>1, <1>2, <2>1, SetInduction
<1> QED
  BY <1>3, LenProperties

LEMMA FlattenConcat ==
  ASSUME NEW S, NEW ss \in Seq(Seq(S)), NEW tt \in Seq(Seq(S))
  PROVE  FlattenSeq(ss \o tt) = FlattenSeq(ss) \o FlattenSeq(tt)
<1> DEFINE T == {n \in Nat : \A uu \in Seq(Seq(S)) :
                   Len(uu) = n => FlattenSeq(ss \o uu) = FlattenSeq(ss) \o FlattenSeq(uu)}
<1>1. 0 \in T
  <2> SUFFICES ASSUME NEW uu \in Seq(Seq(S)), Len(uu) = 0
               PROVE  FlattenSeq(ss \o uu) = FlattenSeq(ss) \o FlattenSeq(uu)
    OBVIOUS
  <2>1. uu = <<>> /\ FlattenSeq(uu) = <<>>
    BY EmptySeq DEF FlattenSeq
  <2> QED
    BY <2>1, ConcatEmptySeq, FlattenType
<1>2. ASSUME NEW n \in T PROVE n + 1 \in T
  <2> SUFFICES ASSUME NEW uu \in Seq(Seq(S)), Len(uu) = n + 1
               PROVE  FlattenSeq(ss \o uu) = FlattenSeq(ss) \o FlattenSeq(uu)
    OBVIOUS
  <2>1. uu # <<>>
    BY EmptySeq
  <2>2. PICK vv \in Seq(Seq(S)), x \in Seq(S) : uu = Append(vv, x)
    BY <2>1, SequenceEmptyOrAppend
  <2>3. Len(vv) = n
    BY <2>2, AppendProperties, LenProperties
  <2>4. FlattenSeq(ss \o vv) = FlattenSeq(ss) \o FlattenSeq(vv)
    BY <2>3
  <2> HIDE DEF T
  <2>5. ss \o uu = Append(ss \o vv, x)
    <3>1. uu = vv \o <<x>> /\ <<x>> \in Seq(Seq(S)) /\ ss \o vv \in Seq(Seq(S))
      BY <2>2, AppendIsConcat, ConcatProperties
    <3>2. Append(ss \o vv, x) = (ss \o vv) \o <<x>>
      BY <3>1, AppendIsConcat
    <3>3. (ss \o vv) \o <<x>> = ss \o (vv \o <<x>>)
      BY <3>1, ConcatAssociative
    <3> QED
      BY <3>1, <3>2, <3>3
  <2>6. FlattenSeq(ss \o uu) = FlattenSeq(ss \o vv) \o x
    BY <2>5, FlattenAppend, ConcatProperties
  <2>7. FlattenSeq(uu) = FlattenSeq(vv) \o x
    BY <2>2, FlattenAppend
  <2>8. (FlattenSeq(ss) \o FlattenSeq(vv)) \o x = FlattenSeq(ss) \o (FlattenSeq(vv) \o x)
    <3>1. FlattenSeq(ss) \in Seq(S) /\ FlattenSeq(vv) \in Seq(S)
      BY FlattenType
    <3> QED
      BY <3>1, ConcatAssociative
  <2> QED
    BY <2>4, <2>6, <2>7, <2>8
<1>3. T = Nat
  <2>1. T \in SUBSET Nat
    OBVIOUS
  <2> HIDE DEF T
  <2> QED
    BY <1>1, <1>2, <2>1, SetInduction
<1> QED
  BY <1>3, LenProperties

LEMMA ConcatPoints ==
  ASSUME NEW S, NEW s \in Seq(S), NEW t \in Seq(S)
  PROVE  /\ s \o t \in Seq(S) /\ Len(s) \in Nat /\ Len(t) \in Nat /\ Len(s \o t) = Len(s) + Len(t)
         /\ \A i \in 1..Len(s) : (s \o t)[i] = s[i]
         /\ \A i \in 1..Len(t) : (s \o t)[Len(s) + i] = t[i]
<1>1. Len(s) \in Nat /\ Len(t) \in Nat
  BY LenProperties
<1>2. /\ s \o t \in Seq(S) /\ Len(s \o t) = Len(s) + Len(t)
      /\ \A i \in 1..(Len(s) + Len(t)) : (s \o t)[i] = IF i <= Len(s) THEN s[i] ELSE t[i - Len(s)]
  BY ConcatProperties
<1> QED
  BY <1>1, <1>2

LEMMA PrefixPoints ==
  ASSUME NEW S, NEW s \in Seq(S), NEW n \in 0..Len(s)
  PROVE  /\ SubSeq(s, 1, n) \in Seq(S) /\ Len(SubSeq(s, 1, n)) = n
         /\ \A i \in 1..n : SubSeq(s, 1, n)[i] = s[i]
<1>1. Len(s) \in Nat
  BY LenProperties
<1>2. \A i \in 1..n : s[i] \in S
  BY <1>1, ElementOfSeq
<1> QED
  BY <1>1, <1>2, SubSeqProperties

LEMMA SuffixPoints ==
  ASSUME NEW S, NEW s \in Seq(S), NEW n \in 0..Len(s)
  PROVE  /\ SubSeq(s, n + 1, Len(s)) \in Seq(S) /\ Len(SubSeq(s, n + 1, Len(s))) = Len(s) - n
         /\ \A i \in 1..(Len(s) - n) : SubSeq(s, n + 1, Len(s))[i] = s[n + i]
<1>1. Len(s) \in Nat
  BY LenProperties
<1>2. PICK m \in Nat : m = Len(s)
  BY <1>1
<1>3. \A i \in (n + 1)..m : s[i] \in S
  BY <1>2, ElementOfSeq
<1>4. n + 1 \in Int /\ m \in Int /\ m - (n + 1) + 1 = m - n
  BY <1>2
<1>5. /\ SubSeq(s, n + 1, m) \in Seq(S)
      /\ Len(SubSeq(s, n + 1, m)) = IF n + 1 <= m THEN m - n ELSE 0
      /\ \A i \in 1..(m - (n + 1) + 1) : SubSeq(s, n + 1, m)[i] = s[(n + 1) + i - 1]
  BY <1>3, <1>4, SubSeqProperties
<1>6. \A i \in 1..(m - n) : i \in 1..(m - (n + 1) + 1) /\ (n + 1) + i - 1 = n + i
  BY <1>2
<1> QED
  BY <1>2, <1>5, <1>6
-----------------------------------------------------------------------------
(* Frames *)

LEMMA FrameIs ==
  ASSUME NEW p \in Packets
  PROVE  /\ p.size \in Nat /\ HeaderBytes + p.size \in Nat \ {0}
         /\ Frame(p) \in Seq(Bytes) /\ Len(Frame(p)) = HeaderBytes + p.size
         /\ \A i \in 1..(HeaderBytes + p.size) : Frame(p)[i] = [packet |-> p, at |-> i]
<1>1. p.size \in Nat /\ HeaderBytes + p.size \in Nat \ {0}
  <2>1. p.size \in Sizes
    BY DEF Packets
  <2>2. p.size \in Nat /\ HeaderBytes \in Nat \ {0}
    BY <2>1, Assumptions
  <2> QED
    BY <2>2
<1>2. ASSUME NEW i \in 1..(HeaderBytes + p.size) PROVE Frame(p)[i] \in Bytes
  BY <1>1, <1>2 DEF Bytes, ToSet, Frame
<1>3. Frame(p) \in [1..(HeaderBytes + p.size) -> Bytes]
  BY <1>2 DEF Frame
<1>4. Frame(p) \in Seq(Bytes)
  BY <1>1, <1>3, SeqDef
<1>5. DOMAIN Frame(p) = 1..(HeaderBytes + p.size)
  BY DEF Frame
<1>6. Len(Frame(p)) = HeaderBytes + p.size
  BY <1>1, <1>4, <1>5, LenProperties
<1> QED
  BY <1>1, <1>4, <1>6 DEF Frame

LEMMA BytesAre == \A b \in Bytes : b.packet \in Packets
<1> SUFFICES ASSUME NEW b \in Bytes PROVE b.packet \in Packets
  OBVIOUS
<1>1. PICK p \in Packets : b \in ToSet(Frame(p))
  BY DEF Bytes
<1>2. PICK i \in DOMAIN Frame(p) : b = Frame(p)[i]
  BY <1>1 DEF ToSet
<1>3. b = [packet |-> p, at |-> i]
  BY <1>2 DEF Frame
<1> QED
  BY <1>3

LEMMA FrameSeqIs ==
  ASSUME NEW s \in Seq(Packets)
  PROVE  /\ [i \in DOMAIN s |-> Frame(s[i])] \in Seq(Seq(Bytes))
         /\ Len([i \in DOMAIN s |-> Frame(s[i])]) = Len(s)
<1> DEFINE f == [i \in DOMAIN s |-> Frame(s[i])]
<1>1. DOMAIN s = 1..Len(s) /\ Len(s) \in Nat
  BY LenProperties
<1>2. f \in [1..Len(s) -> Seq(Bytes)]
  BY <1>1, ElementOfSeq, FrameIs
<1>3. f \in Seq(Seq(Bytes))
  BY <1>1, <1>2, SeqDef
<1> HIDE DEF f
<1>4. Len(f) = Len(s)
  BY <1>1, <1>2, <1>3, LenProperties
<1> QED
  BY <1>3, <1>4 DEF f

LEMMA FramesType == ASSUME NEW s \in Seq(Packets) PROVE Frames(s) \in Seq(Bytes)
BY FrameSeqIs, FlattenType DEF Frames

LEMMA FramesNone == Frames(<<>>) = <<>>
BY FrameSeqIs, EmptySeq DEF Frames, FlattenSeq

LEMMA FramesAppend ==
  ASSUME NEW s \in Seq(Packets), NEW p \in Packets
  PROVE  Frames(Append(s, p)) = Frames(s) \o Frame(p)
<1> DEFINE f(t) == [i \in DOMAIN t |-> Frame(t[i])]
<1>1. f(Append(s, p)) = Append(f(s), Frame(p))
  <2>1. /\ Append(s, p) \in Seq(Packets) /\ Len(Append(s, p)) = Len(s) + 1
        /\ Append(s, p)[Len(s) + 1] = p /\ \A i \in 1..Len(s) : Append(s, p)[i] = s[i]
        /\ DOMAIN Append(s, p) = 1..(Len(s) + 1) /\ DOMAIN s = 1..Len(s) /\ Len(s) \in Nat
    BY AppendProperties, LenProperties
  <2>2. f(s) \in Seq(Seq(Bytes)) /\ Len(f(s)) = Len(s) /\ Frame(p) \in Seq(Bytes)
    BY FrameSeqIs, FrameIs
  <2>3. f(Append(s, p)) \in Seq(Seq(Bytes)) /\ Len(f(Append(s, p))) = Len(s) + 1
    BY <2>1, FrameSeqIs
  <2>4. /\ Append(f(s), Frame(p)) \in Seq(Seq(Bytes))
        /\ Len(Append(f(s), Frame(p))) = Len(s) + 1
        /\ \A i \in 1..Len(s) : Append(f(s), Frame(p))[i] = f(s)[i]
        /\ Append(f(s), Frame(p))[Len(s) + 1] = Frame(p)
    <3> HIDE DEF f
    <3> QED
      BY <2>1, <2>2, AppendProperties
  <2>5. ASSUME NEW i \in 1..(Len(s) + 1)
        PROVE  f(Append(s, p))[i] = Append(f(s), Frame(p))[i]
    <3>1. f(Append(s, p))[i] = Frame(Append(s, p)[i])
      BY <2>1
    <3>2. CASE i = Len(s) + 1
      <4> HIDE DEF f
      <4> QED
        BY <2>1, <2>4, <3>1, <3>2
    <3>3. CASE i \in 1..Len(s)
      <4>1. f(s)[i] = Frame(s[i])
        BY <2>1, <3>3
      <4> HIDE DEF f
      <4> QED
        BY <2>1, <2>4, <3>1, <3>3, <4>1
    <3> QED
      BY <2>1, <3>2, <3>3
  <2> HIDE DEF f
  <2> QED
    BY <2>3, <2>4, <2>5, SeqEqual
<1>2. f(s) \in Seq(Seq(Bytes)) /\ Frame(p) \in Seq(Bytes)
  BY FrameSeqIs, FrameIs
<1>3. Frames(s) = FlattenSeq(f(s)) /\ Frames(Append(s, p)) = FlattenSeq(f(Append(s, p)))
  BY DEF Frames
<1> HIDE DEF f
<1> QED
  BY <1>1, <1>2, <1>3, FlattenAppend

LEMMA FramesConcat ==
  ASSUME NEW s \in Seq(Packets), NEW t \in Seq(Packets)
  PROVE  Frames(s \o t) = Frames(s) \o Frames(t)
<1> DEFINE f(u) == [i \in DOMAIN u |-> Frame(u[i])]
<1>1. f(s \o t) = f(s) \o f(t)
  <2>1. /\ s \o t \in Seq(Packets) /\ Len(s \o t) = Len(s) + Len(t)
        /\ \A i \in 1..(Len(s) + Len(t)) : (s \o t)[i] = IF i <= Len(s) THEN s[i] ELSE t[i - Len(s)]
        /\ DOMAIN (s \o t) = 1..(Len(s) + Len(t)) /\ DOMAIN s = 1..Len(s) /\ Len(s) \in Nat
        /\ DOMAIN t = 1..Len(t) /\ Len(t) \in Nat
    BY ConcatProperties, LenProperties
  <2>2. /\ f(s) \in Seq(Seq(Bytes)) /\ Len(f(s)) = Len(s)
        /\ f(t) \in Seq(Seq(Bytes)) /\ Len(f(t)) = Len(t)
        /\ f(s \o t) \in Seq(Seq(Bytes)) /\ Len(f(s \o t)) = Len(s) + Len(t)
    BY <2>1, FrameSeqIs
  <2>3. /\ f(s) \o f(t) \in Seq(Seq(Bytes)) /\ Len(f(s) \o f(t)) = Len(s) + Len(t)
        /\ \A i \in 1..(Len(s) + Len(t)) :
             (f(s) \o f(t))[i] = IF i <= Len(s) THEN f(s)[i] ELSE f(t)[i - Len(s)]
    <3> HIDE DEF f
    <3> QED
      BY <2>2, ConcatProperties
  <2>4. ASSUME NEW i \in 1..(Len(s) + Len(t)) PROVE f(s \o t)[i] = (f(s) \o f(t))[i]
    <3>1. f(s \o t)[i] = Frame((s \o t)[i])
      BY <2>1
    <3>2. CASE i <= Len(s)
      <4>1. f(s)[i] = Frame(s[i])
        BY <2>1, <3>2
      <4> HIDE DEF f
      <4> QED
        BY <2>1, <2>3, <3>1, <3>2, <4>1
    <3>3. CASE ~(i <= Len(s))
      <4>1. f(t)[i - Len(s)] = Frame(t[i - Len(s)])
        BY <2>1, <3>3
      <4> HIDE DEF f
      <4> QED
        BY <2>1, <2>3, <3>1, <3>3, <4>1
    <3> QED
      BY <3>2, <3>3
  <2> HIDE DEF f
  <2> QED
    BY <2>2, <2>3, <2>4, SeqEqual
<1>2. f(s) \in Seq(Seq(Bytes)) /\ f(t) \in Seq(Seq(Bytes))
  BY FrameSeqIs
<1>3. /\ Frames(s) = FlattenSeq(f(s)) /\ Frames(t) = FlattenSeq(f(t))
      /\ Frames(s \o t) = FlattenSeq(f(s \o t))
  BY DEF Frames
<1> HIDE DEF f
<1>4. FlattenSeq(f(s) \o f(t)) = FlattenSeq(f(s)) \o FlattenSeq(f(t))
  BY <1>2, FlattenConcat
<1> QED
  BY <1>1, <1>3, <1>4
-----------------------------------------------------------------------------
(* Types *)

LEMMA SidesAre ==
  receiver \in Sides => /\ sender \in Sides /\ sender # receiver
                        /\ \A s \in Sides : s = sender \/ s = receiver
BY DEF Sides, sender

\* The parts of TypeOK, ...
NetworkType ==
  /\ receiver \in Sides /\ listening \in BOOLEAN
  /\ blocking \in [Sides -> BOOLEAN] /\ inCall \in [Sides -> BOOLEAN]
  /\ backlog \in Seq(1..made) /\ made \in 0..MaxConnections
  /\ at \in [Sides -> 0..made]
  /\ shut \in [Connections -> SUBSET Sides] /\ broken \subseteq 1..made

WireType == /\ wire \in [Connections -> Seq(Bytes)]
            /\ \A c \in Connections : Len(wire[c]) <= WireBytes

SendType ==
  /\ built \in 0..MaxPackets
  /\ packet \in [of: Packets \cup {Corrupt}, pos: Nat] /\ written \in Nat
  /\ packet.of \in Packets => packet.pos + written < HeaderBytes + packet.of.size
  /\ status \in Statuses
  /\ sent \in [Connections -> Seq(Packets)]

ReceiveType ==
  /\ pending \in [header: Seq(Bytes), size: Sizes \cup {0}, data: Seq(Bytes)]
  /\ Len(pending.header) <= HeaderBytes /\ Len(pending.data) <= pending.size
  /\ received \in [Connections -> Seq(Packets \cup {Corrupt})]

LEMMA TypeParts == TypeOK <=> NetworkType /\ WireType /\ SendType /\ ReceiveType
BY DEF TypeOK, NetworkType, WireType, SendType, ReceiveType

\* ... and what else is true of a call that runs and of pending_packet_,
\* between the steps of the calls.
Calls ==
  /\ \A side \in Sides : inCall[side] => at[side] # 0
  /\ inCall[sender] => Sendable /\ packet.of \in Packets
  /\ ~inCall[sender] => written = 0
  /\ packet = NoPacket \/ packet.of \in Packets

PendingKnown ==
  IF Len(pending.header) = HeaderBytes
    THEN Len(pending.data) < pending.size /\ pending.size \in SizesRead(pending.header)
    ELSE pending.data = <<>> /\ pending.size = 0

Typed == NetworkType /\ WireType /\ SendType /\ ReceiveType /\ Calls /\ PendingKnown

LEMMA NoPacketIs == NoPacket \in [of: {Corrupt}, pos: {0}] /\ Corrupt \notin Packets
BY DEF NoPacket, Corrupt, Packets

LEMMA NoPendingIs ==
  /\ NoPending \in [header: Seq(Bytes), size: Sizes \cup {0}, data: Seq(Bytes)]
  /\ NoPending.header = <<>> /\ NoPending.data = <<>> /\ NoPending.size = 0
BY EmptySeq DEF NoPending

LEMMA EmptyLen == Len(<<>>) = 0 /\ \A S : <<>> \in Seq(S)
BY EmptySeq

LEMMA InitTyped == Init => Typed
<1> SUFFICES ASSUME Init PROVE Typed
  OBVIOUS
<1> USE Assumptions, EmptyLen DEF Init
<1>1. NetworkType
  <2>1. backlog \in Seq(1..made) /\ made \in 0..MaxConnections
    OBVIOUS
  <2>2. /\ at \in [Sides -> 0..made] /\ broken \subseteq 1..made
        /\ shut \in [Connections -> SUBSET Sides]
    OBVIOUS
  <2> QED
    BY <2>1, <2>2 DEF NetworkType
<1>2. WireType
  BY DEF WireType
<1>3. SendType
  BY NoPacketIs DEF SendType, Statuses
<1>4. ReceiveType
  BY NoPendingIs DEF ReceiveType
<1>5. Calls
  BY <1>1, SidesAre DEF Calls, NetworkType
<1>6. PendingKnown
  BY NoPendingIs DEF PendingKnown
<1> QED
  BY <1>1, <1>2, <1>3, <1>4, <1>5, <1>6 DEF Typed

LEMMA WireUpdate ==
  ASSUME WireType, NEW c, NEW t \in Seq(Bytes), Len(t) <= WireBytes,
         wire' = [wire EXCEPT ![c] = t]
  PROVE  WireType'
BY DEF WireType

LEMMA ClosesType ==
  ASSUME NetworkType, WireType, NEW side \in Sides, Closes(side)
  PROVE  shut' \in [Connections -> SUBSET Sides] /\ WireType'
<1>1. CASE at[side] = 0
  BY <1>1 DEF Closes, NetworkType, WireType
<1>2. CASE at[side] # 0
  <2>1. at[side] \in Connections
    BY <1>2, Assumptions DEF NetworkType, Connections
  <2>2. shut' = [shut EXCEPT ![at[side]] = @ \cup {side}] /\ shut[at[side]] \cup {side} \in SUBSET Sides
    BY <1>2, <2>1 DEF Closes, NetworkType
  <2>3. shut' \in [Connections -> SUBSET Sides]
    BY <2>2 DEF NetworkType
  <2>4. wire' = wire \/ wire' = [wire EXCEPT ![at[side]] = <<>>]
    BY <1>2 DEF Closes
  <2>5. WireType'
    <3>1. Len(<<>>) <= WireBytes /\ <<>> \in Seq(Bytes)
      BY EmptyLen, Assumptions
    <3>2. CASE wire' = wire
      BY <3>2 DEF WireType
    <3> QED
      BY <2>4, <3>1, <3>2, WireUpdate
  <2> QED
    BY <2>3, <2>5
<1> QED
  BY <1>1, <1>2

LEMMA NewConnectionType ==
  ASSUME Typed, NEW side \in Sides, NewConnection(side)
  PROVE  /\ SendType' /\ written' = written
         /\ packet' \in {NoPacket, packet} /\ (side # sender => packet' = packet)
         /\ Sendable => Sendable'
BY NoPacketIs DEF Typed, SendType, NewConnection, Statuses, Sendable, Calls

LEMMA MinOfTwo == ASSUME NEW a \in Int, NEW b \in Int PROVE Min({a, b}) <= a /\ Min({a, b}) \in {a, b}
<1>1. \E x \in {a, b} : \A y \in {a, b} : x =< y
  OBVIOUS
<1> QED
  BY <1>1 DEF Min

LEMMA SizeIsNat == \A n \in Sizes \cup {0} : n \in Nat
<1>1. Sizes \subseteq Nat
  BY Assumptions
<1> QED
  BY <1>1

LEMMA SizesReadType ==
  ASSUME NEW h \in Seq(Bytes), Len(h) # 0
  PROVE  SizesRead(h) \subseteq Sizes /\ \A n \in SizesRead(h) : n \in Nat
<1>1. h # <<>>
  BY EmptyLen
<1>2. Head(h).packet \in Packets
  BY <1>1, HeadTailProperties, BytesAre
<1>3. Head(h).packet.size \in Sizes
  BY <1>2 DEF Packets
<1> QED
  BY <1>3, Assumptions DEF SizesRead

\* A pending_packet_ the loops of receive() may hand to Progress
Progressing(p) ==
  /\ p \in [header: Seq(Bytes), size: Sizes \cup {0}, data: Seq(Bytes)]
  /\ Len(p.header) <= HeaderBytes /\ Len(p.data) <= p.size
  /\ IF Len(p.header) = HeaderBytes THEN p.size \in SizesRead(p.header)
                                    ELSE p.data = <<>> /\ p.size = 0

LEMMA AssembledType ==
  ASSUME NEW p, Progressing(p), Len(p.header) = HeaderBytes
  PROVE  Assembled(p) \in Packets \cup {Corrupt}
<1>1. p.header \in Seq(Bytes) /\ p.data \in Seq(Bytes) /\ p.header # <<>>
  BY EmptyLen, Assumptions DEF Progressing
<1>2. Last(p.header) \in Bytes
  <2>1. Len(p.header) \in 1..Len(p.header)
    BY <1>1, EmptyLen, LenProperties, Assumptions
  <2> QED
    BY <1>1, <2>1, ElementOfSeq DEF Last
<1>3. p.data # <<>> => Head(p.data) \in Bytes
  BY <1>1, HeadTailProperties
<1> QED
  BY <1>2, <1>3, BytesAre DEF Assembled

LEMMA ProgressType ==
  ASSUME Typed, NEW p, Progressing(p), Progress(p), at[receiver] # 0
  PROVE  ReceiveType' /\ PendingKnown'
<1>1. CASE Len(p.header) = HeaderBytes /\ Len(p.data) >= p.size
  <2>1. /\ pending' = NoPending
        /\ received' = [received EXCEPT ![at[receiver]] = Append(@, Assembled(p))]
    BY <1>1 DEF Progress
  <2>2. at[receiver] \in Connections
    BY Assumptions DEF Typed, NetworkType, Connections
  <2>3. Append(received[at[receiver]], Assembled(p)) \in Seq(Packets \cup {Corrupt})
    BY <1>1, <2>2, AssembledType, AppendProperties DEF Typed, ReceiveType
  <2> QED
    <3>1. received' \in [Connections -> Seq(Packets \cup {Corrupt})]
      BY <2>1, <2>3 DEF Typed, ReceiveType
    <3> QED
      BY <2>1, <3>1, NoPendingIs, EmptyLen, Assumptions DEF ReceiveType, PendingKnown
<1>2. CASE ~(Len(p.header) = HeaderBytes /\ Len(p.data) >= p.size)
  <2>1. pending' = p /\ received' = received
    BY <1>2 DEF Progress
  <2>2. Len(p.data) \in Nat /\ p.size \in Nat
    <3>1. p.data \in Seq(Bytes) /\ p.size \in Sizes \cup {0}
      BY DEF Progressing
    <3>2. Len(p.data) \in Nat
      BY <3>1, LenProperties
    <3> QED
      BY <3>1, <3>2, SizeIsNat
  <2>3. ReceiveType'
    BY <2>1 DEF Typed, ReceiveType, Progressing
  <2>4. PendingKnown'
    BY <1>2, <2>1, <2>2 DEF PendingKnown, Progressing
  <2> QED
    BY <2>3, <2>4
<1> QED
  BY <1>1, <1>2

\* A ::recv() takes `got` from connection c, leaves `rest` there and makes pending_packet_ p.
Reads(c, got, rest, p) ==
  /\ c = at[receiver] /\ got # <<>> /\ wire[c] = got \o rest
  /\ Len(rest) <= WireBytes /\ wire' = [wire EXCEPT ![c] = rest]
  /\ IF Len(pending.header) = HeaderBytes
       THEN p.header = pending.header /\ p.data = pending.data \o got
       ELSE p.header = pending.header \o got /\ p.data = <<>> /\ pending.data = <<>>
  /\ Progressing(p) /\ Progress(p)

LEMMA RecvProgress ==
  ASSUME Typed, NEW k \in 1..WireBytes, RecvBytes(k)
  PROVE  \E c \in Connections, got \in Seq(Bytes), rest \in Seq(Bytes) : \E p : Reads(c, got, rest, p)
<1> USE DEF Typed
<1>1. PICK c \in Connections, w \in Seq(Bytes) : c = at[receiver] /\ w = wire[c]
  <2>1. inCall[receiver] /\ receiver \in Sides
    BY DEF RecvBytes, NetworkType
  <2>2. at[receiver] \in Connections
    BY <2>1, Assumptions DEF Calls, NetworkType, Connections
  <2>3. wire[at[receiver]] \in Seq(Bytes)
    BY <2>2 DEF WireType
  <2> QED
    BY <2>2, <2>3
<1>2. Len(w) \in Nat /\ Len(w) <= WireBytes /\ k \in Nat \ {0} /\ k <= Len(w) /\ k <= Wanted
      /\ wire' = [wire EXCEPT ![c] = SubSeq(w, k + 1, Len(w))]
  <2>1. Len(w) \in Nat
    BY LenProperties
  <2>2. Len(w) <= WireBytes
    BY <1>1 DEF WireType
  <2>3. k <= Len(w) /\ k <= Wanted /\ wire' = [wire EXCEPT ![c] = SubSeq(w, k + 1, Len(w))]
    BY <1>1 DEF RecvBytes
  <2> QED
    BY <2>1, <2>2, <2>3, Assumptions
<1>3. PICK got \in Seq(Bytes) : got = SubSeq(w, 1, k) /\ Len(got) = k
  <2>1. k \in 0..Len(w)
    BY <1>2
  <2>2. SubSeq(w, 1, k) \in Seq(Bytes) /\ Len(SubSeq(w, 1, k)) = k
    BY <2>1, PrefixPoints
  <2> QED
    BY <2>2
<1>4. PICK rest \in Seq(Bytes) : rest = SubSeq(w, k + 1, Len(w)) /\ Len(rest) <= WireBytes
  <2>1. Len(w) - k <= WireBytes
    BY <1>2, Assumptions
  <2>2. k \in 0..Len(w)
    BY <1>2
  <2>3. SubSeq(w, k + 1, Len(w)) \in Seq(Bytes) /\ Len(SubSeq(w, k + 1, Len(w))) = Len(w) - k
    BY <2>2, SuffixPoints
  <2> QED
    BY <2>1, <2>3
<1>5. got # <<>> /\ w = got \o rest
  <2>1. 1 \in 1..(Len(w) + 1) /\ k \in (1 - 1)..Len(w) /\ Len(w) \in k..Len(w)
    BY <1>2
  <2>2. SubSeq(w, 1, k) \o SubSeq(w, k + 1, Len(w)) = SubSeq(w, 1, Len(w))
    BY <2>1, ConcatAdjacentSubSeq
  <2>3. SubSeq(w, 1, Len(w)) = w
    BY SubSeqFull
  <2> QED
    BY <1>2, <1>3, <1>4, <2>2, <2>3, EmptyLen
<1>6. IF Len(pending.header) = HeaderBytes THEN Progress([pending EXCEPT !.data = @ \o got])
      ELSE \E n \in IF Len(pending.header \o got) = HeaderBytes
                      THEN SizesRead(pending.header \o got) ELSE {0} :
             Progress([pending EXCEPT !.header = pending.header \o got, !.size = n])
  BY <1>1, <1>3 DEF RecvBytes
<1>7. /\ pending \in [header: Seq(Bytes), size: Sizes \cup {0}, data: Seq(Bytes)]
      /\ Len(pending.header) <= HeaderBytes /\ Len(pending.header) \in Nat
      /\ pending.size \in Nat /\ Len(pending.data) \in Nat /\ Len(pending.data) <= pending.size
  <2>1. pending.header \in Seq(Bytes) /\ pending.data \in Seq(Bytes)
        /\ pending.size \in Sizes \cup {0}
    BY DEF ReceiveType
  <2>2. Len(pending.header) \in Nat /\ Len(pending.data) \in Nat
    BY <2>1, LenProperties
  <2> QED
    BY <2>1, <2>2, SizeIsNat DEF ReceiveType
<1> SUFFICES \E p : /\ IF Len(pending.header) = HeaderBytes
                         THEN p.header = pending.header /\ p.data = pending.data \o got
                         ELSE p.header = pending.header \o got /\ p.data = <<>> /\ pending.data = <<>>
                    /\ Progressing(p) /\ Progress(p)
  BY <1>1, <1>2, <1>3, <1>4, <1>5 DEF Reads
<1>8. CASE Len(pending.header) = HeaderBytes
  <2>1. k <= pending.size - Len(pending.data)
    <3>1. Wanted = Min({pending.size - Len(pending.data), ChunkBytes})
      BY <1>8, Assumptions DEF Wanted
    <3>2. pending.size - Len(pending.data) \in Int /\ ChunkBytes \in Int
      BY <1>7, Assumptions
    <3>3. Wanted \in Int /\ Wanted <= pending.size - Len(pending.data)
      BY <3>1, <3>2, MinOfTwo
    <3> QED
      BY <1>2, <3>2, <3>3
  <2>2. pending.data \o got \in Seq(Bytes) /\ Len(pending.data \o got) = Len(pending.data) + k
    BY <1>3, <1>7, ConcatProperties
  <2>3. PICK p : p = [pending EXCEPT !.data = @ \o got]
    OBVIOUS
  <2>4. /\ p.header = pending.header /\ p.size = pending.size
        /\ p.data = pending.data \o got
        /\ p \in [header: Seq(Bytes), size: Sizes \cup {0}, data: Seq(Bytes)]
    BY <1>7, <2>2, <2>3
  <2>5. Len(p.data) <= p.size
    BY <1>2, <1>7, <2>1, <2>2, <2>4
  <2>6. p.size \in SizesRead(p.header)
    BY <1>8, <2>4 DEF PendingKnown
  <2>7. Progressing(p)
    BY <1>7, <1>8, <2>4, <2>5, <2>6 DEF Progressing
  <2> QED
    BY <1>6, <1>8, <2>3, <2>4, <2>7
<1>9. CASE Len(pending.header) # HeaderBytes
  <2>1. PICK header : header = pending.header \o got
    OBVIOUS
  <2>2. PICK n \in IF Len(header) = HeaderBytes THEN SizesRead(header) ELSE {0} :
          Progress([pending EXCEPT !.header = header, !.size = n])
    BY <1>6, <1>9, <2>1
  <2>3. pending.data = <<>> /\ pending.size = 0
    BY <1>9 DEF PendingKnown
  <2>4. k <= HeaderBytes - Len(pending.header)
    BY <1>2, <1>7, <1>9, Assumptions DEF Wanted
  <2>5. header \in Seq(Bytes) /\ Len(header) = Len(pending.header) + k
    BY <1>3, <1>7, <2>1, ConcatProperties
  <2>6. n \in Sizes \cup {0} /\ n \in Nat
    BY <1>2, <1>7, <2>2, <2>5, SizesReadType, Assumptions
  <2>7. PICK p : p = [pending EXCEPT !.header = header, !.size = n]
    OBVIOUS
  <2>8. /\ p.header = header /\ p.size = n /\ p.data = <<>>
        /\ p \in [header: Seq(Bytes), size: Sizes \cup {0}, data: Seq(Bytes)]
    BY <1>7, <2>3, <2>5, <2>6, <2>7
  <2>9. Len(p.header) <= HeaderBytes /\ Len(p.data) <= p.size
    BY <1>2, <1>7, <2>4, <2>5, <2>6, <2>8, EmptyLen, Assumptions
  <2>10. Progressing(p)
    BY <2>2, <2>8, <2>9 DEF Progressing
  <2> QED
    BY <1>9, <2>1, <2>2, <2>3, <2>7, <2>8, <2>10
<1> QED
  BY <1>8, <1>9

LEMMA TypedStep == Typed /\ [Next]_vars => Typed'
<1> SUFFICES ASSUME Typed, [Next]_vars PROVE Typed'
  OBVIOUS
<1> sender \in Sides /\ sender # receiver /\ (\A s \in Sides : s = sender \/ s = receiver)
    /\ (receiver' = receiver => sender' = sender)
  BY SidesAre DEF Typed, NetworkType, sender
<1> USE DEF Typed
<1>1. CASE UNCHANGED vars
  BY <1>1 DEF vars, network, sending, NetworkType, WireType, SendType, ReceiveType, Calls,
              PendingKnown, Sendable
<1>2. ASSUME NEW ok \in BOOLEAN, Listen(ok) PROVE Typed'
  <2>1. NetworkType'
    <3>1. \A i \in DOMAIN backlog : backlog[i] \in 1..made
      BY LenProperties, ElementOfSeq DEF NetworkType
    <3>2. broken' \subseteq 1..made
      BY <1>2, <3>1 DEF Listen, NetworkType, ToSet
    <3> QED
      BY <1>2, <3>2, EmptyLen DEF Listen, NetworkType
  <2>2. UNCHANGED <<sending, pending, received, wire, at, inCall, receiver>>
    BY <1>2 DEF Listen
  <2> QED
    BY <2>1, <2>2 DEF sending, WireType, SendType, ReceiveType, Calls, PendingKnown, Sendable
<1>3. ASSUME NEW ok \in BOOLEAN, Connect(ok) PROVE Typed'
  <2>1. Closes("client") /\ NewConnection("client") /\ Forgets("client") /\ ~inCall["client"]
        /\ UNCHANGED <<receiver, listening, broken, blocking, inCall, received>>
    BY <1>3 DEF Connect
  <2>2. NetworkType'
    <3>1. made' \in {made, made + 1} /\ made' \in 0..MaxConnections
      BY <1>3, Assumptions DEF Connect, NetworkType
    <3>2. backlog' \in Seq(1..made')
      <4>1. CASE made' = made /\ backlog' = backlog
        BY <4>1 DEF NetworkType
      <4>2. CASE made' = made + 1 /\ backlog' = Append(backlog, made + 1)
        <5>1. backlog \in Seq(1..(made + 1)) /\ made + 1 \in 1..(made + 1)
          <6>1. 1..made \subseteq 1..(made + 1)
            BY Assumptions DEF NetworkType
          <6> QED
            BY <6>1, SeqMonotonic, Assumptions DEF NetworkType
        <5>2. Append(backlog, made + 1) \in Seq(1..(made + 1))
          BY <5>1, AppendProperties
        <5> QED
          BY <4>2, <5>2
      <4> QED
        BY <1>3, <4>1, <4>2 DEF Connect
    <3>3. at' \in [Sides -> 0..made']
      BY <1>3, <3>1 DEF Connect, NetworkType
    <3> QED
      BY <2>1, <3>1, <3>2, <3>3, ClosesType DEF NetworkType, Sides
  <2>3. WireType'
    BY <2>1, ClosesType DEF Sides
  <2>4. SendType' /\ Calls'
    <3>1. at' = [at EXCEPT !["client"] = at'["client"]]
      BY <1>3 DEF Connect, NetworkType, Sides
    <3>2. SendType' /\ written' = written /\ packet' \in {NoPacket, packet}
          /\ ("client" # sender => packet' = packet) /\ (Sendable => Sendable')
      BY <2>1, NewConnectionType DEF Sides
    <3> QED
      BY <2>1, <3>1, <3>2 DEF NetworkType, Calls, Sides
  <2>5. ReceiveType' /\ PendingKnown'
    BY <2>1, NoPendingIs, EmptyLen, Assumptions DEF Forgets, ReceiveType, PendingKnown
  <2> QED
    BY <2>2, <2>3, <2>4, <2>5
<1>4. ASSUME NEW side \in Sides, Disconnect(side) PROVE Typed'
  <2>1. Closes(side) /\ Forgets(side) /\ ~inCall[side] /\ at' = [at EXCEPT ![side] = 0]
        /\ UNCHANGED <<receiver, listening, backlog, made, broken, blocking, inCall, received>>
        /\ UNCHANGED sending
    BY <1>4 DEF Disconnect
  <2>2. NetworkType'
    BY <2>1, ClosesType, Assumptions DEF NetworkType
  <2>3. WireType'
    BY <2>1, ClosesType
  <2>4. SendType' /\ Calls'
    BY <2>1 DEF NetworkType, SendType, Calls, Sendable, sending
  <2>5. ReceiveType' /\ PendingKnown'
    BY <2>1, NoPendingIs, EmptyLen, Assumptions DEF Forgets, ReceiveType, PendingKnown
  <2> QED
    BY <2>2, <2>3, <2>4, <2>5
<1>5. ASSUME Accept PROVE Typed'
  <2>1. Closes("server") /\ NewConnection("server") /\ ~inCall["server"] /\ backlog # <<>>
        /\ at' = [at EXCEPT !["server"] = Head(backlog)] /\ backlog' = Tail(backlog)
        /\ pending' \in {NoPending, pending}
        /\ UNCHANGED <<receiver, listening, made, broken, blocking, inCall, received>>
    BY <1>5 DEF Accept
  <2>2. Head(backlog) \in 1..made /\ Tail(backlog) \in Seq(1..made)
    BY <2>1, HeadTailProperties DEF NetworkType
  <2>3. NetworkType'
    BY <2>1, <2>2, ClosesType DEF NetworkType, Sides
  <2>4. WireType'
    BY <2>1, ClosesType DEF Sides
  <2>5. SendType' /\ Calls'
    <3>1. SendType' /\ written' = written /\ packet' \in {NoPacket, packet}
          /\ ("server" # sender => packet' = packet) /\ (Sendable => Sendable')
      BY <2>1, NewConnectionType DEF Sides
    <3> QED
      BY <2>1, <2>2, <3>1 DEF NetworkType, Calls, Sides
  <2>6. ReceiveType' /\ PendingKnown'
    BY <2>1, NoPendingIs, EmptyLen, Assumptions DEF ReceiveType, PendingKnown
  <2> QED
    BY <2>3, <2>4, <2>5, <2>6
<1>6. ASSUME NEW side \in Sides, SetBlocking(side) PROVE Typed'
  BY <1>6 DEF SetBlocking, network, sending, NetworkType, WireType, SendType, ReceiveType, Calls,
              PendingKnown, Sendable
<1>7. ASSUME NEW c \in Connections, Breaks(c) PROVE Typed'
  <2>1. PICK k \in 0..Len(wire[c]) : wire' = [wire EXCEPT ![c] = SubSeq(@, 1, k)]
    BY <1>7 DEF Breaks
  <2>2. SubSeq(wire[c], 1, k) \in Seq(Bytes) /\ Len(SubSeq(wire[c], 1, k)) <= WireBytes
    BY SubSeqProperties, LenProperties, Assumptions DEF WireType
  <2>3. WireType'
    BY <2>1, <2>2, WireUpdate
  <2>4. NetworkType'
    BY <1>7 DEF Breaks, NetworkType
  <2>5. UNCHANGED <<sending, pending, received, at, inCall, receiver>>
    BY <1>7 DEF Breaks
  <2> QED
    BY <2>3, <2>4, <2>5 DEF sending, SendType, ReceiveType, Calls, PendingKnown, Sendable
<1>8. ASSUME NEW n \in Sizes, StartSend(n) PROVE Typed'
  <2>1. /\ ~inCall[sender] /\ at[sender] # 0 /\ Sendable /\ written' = 0
        /\ inCall' = [inCall EXCEPT ![sender] = TRUE]
        /\ UNCHANGED <<network, blocking, wire, status, sent, pending, received>>
    BY <1>8 DEF StartSend
  <2>2. NetworkType' /\ WireType' /\ ReceiveType' /\ PendingKnown'
    BY <2>1 DEF network, NetworkType, WireType, ReceiveType, PendingKnown
  <2>3. /\ built' \in 0..MaxPackets
        /\ packet' \in [of: Packets \cup {Corrupt}, pos: Nat]
        /\ packet'.of \in Packets /\ packet'.pos < HeaderBytes + packet'.of.size
    <3>1. CASE packet # NoPacket
      <4>1. built' = built /\ packet' = packet
        BY <1>8, <3>1 DEF StartSend
      <4>2. packet.of \in Packets
        BY <3>1 DEF Calls
      <4>3. HeaderBytes + packet.of.size \in Nat
        BY <4>2, FrameIs
      <4> QED
        BY <4>1, <4>2, <4>3 DEF SendType
    <3>2. CASE packet = NoPacket
      <4>1. built < MaxPackets /\ built' = built + 1
            /\ packet' = [of |-> [id |-> built + 1, size |-> n], pos |-> 0]
        BY <1>8, <3>2 DEF StartSend
      <4>2. built + 1 \in 1..MaxPackets
        BY <4>1, Assumptions DEF SendType
      <4> QED
        BY <4>1, <4>2, Assumptions DEF Packets
    <3> QED
      BY <3>1, <3>2
  <2>4. SendType'
    BY <2>1, <2>3 DEF SendType
  <2>5. Calls'
    BY <2>1, <2>3 DEF Calls, Sendable, network, NetworkType
  <2> QED
    BY <2>2, <2>4, <2>5
<1>9. ASSUME NEW k \in 1..WireBytes, SendBytes(k) PROVE Typed'
  <2> DEFINE c == at[sender]
             first == packet.pos + written + 1
             frame == Frame(packet.of)
  <2>1. /\ inCall[sender] /\ Len(wire[c]) + k <= WireBytes /\ first + k - 1 <= Len(frame)
        /\ UNCHANGED <<network, blocking, built, pending, received>>
        /\ \/ wire' = wire
           \/ wire' = [wire EXCEPT ![c] = @ \o SubSeq(frame, first, first + k - 1)]
    BY <1>9 DEF SendBytes
  <2>2. c \in Connections /\ packet.of \in Packets /\ Sendable
    BY <2>1, Assumptions DEF Calls, NetworkType, Connections
  <2>3. frame \in Seq(Bytes) /\ Len(frame) = HeaderBytes + packet.of.size
        /\ HeaderBytes + packet.of.size \in Nat
    BY <2>2, FrameIs
  <2>4. /\ first \in Nat \ {0} /\ k \in Nat \ {0} /\ packet.pos \in Nat /\ written \in Nat
        /\ packet \in [of: Packets \cup {Corrupt}, pos: Nat]
    BY Assumptions DEF SendType
  <2>5. WireType'
    <3>1. SubSeq(frame, first, first + k - 1) \in Seq(Bytes)
          /\ Len(SubSeq(frame, first, first + k - 1)) = k
      <4> HIDE DEF frame, first
      <4> QED
        BY <2>1, <2>3, <2>4, SubSeqProperties
    <3>2. wire[c] \in Seq(Bytes)
      BY <2>2 DEF WireType
    <3>3. wire[c] \o SubSeq(frame, first, first + k - 1) \in Seq(Bytes)
          /\ Len(wire[c] \o SubSeq(frame, first, first + k - 1)) = Len(wire[c]) + k
      <4> HIDE DEF frame, first
      <4> QED
        BY <3>1, <3>2, ConcatProperties
    <3>4. CASE wire' = wire
      BY <3>4 DEF WireType
    <3>5. CASE wire' = [wire EXCEPT ![c] = @ \o SubSeq(frame, first, first + k - 1)]
      <4> HIDE DEF frame, first, c
      <4> QED
        BY <2>1, <3>3, <3>5, WireUpdate
    <3> QED
      BY <2>1, <3>4, <3>5
  <2>6. SendType' /\ Calls'
    <3>1. CASE first + k - 1 = Len(frame)
      <4>1. /\ sent' = [sent EXCEPT ![c] = Append(@, packet.of)] /\ status' = "Done"
            /\ written' = 0 /\ inCall' = [inCall EXCEPT ![sender] = FALSE]
            /\ packet' = NoPacket
        BY <1>9, <3>1 DEF SendBytes, SendReturns
      <4>2. Append(sent[c], packet.of) \in Seq(Packets)
        BY <2>2, AppendProperties DEF SendType
      <4> HIDE DEF frame, first, c
      <4>3. SendType'
        <5>1. sent' \in [Connections -> Seq(Packets)]
          BY <4>1, <4>2 DEF SendType
        <5>2. NoPacket \in [of: Packets \cup {Corrupt}, pos: Nat] /\ NoPacket.of \notin Packets
          BY NoPacketIs
        <5> QED
          BY <2>1, <4>1, <5>1, <5>2 DEF SendType, Statuses
      <4>4. Calls'
        BY <2>1, <4>1 DEF Calls, NetworkType, network
      <4> QED
        BY <4>3, <4>4
    <3>2. CASE first + k - 1 # Len(frame)
      <4>1. written' = written + k /\ UNCHANGED <<sent, status, inCall, packet>>
        BY <1>9, <3>2 DEF SendBytes
      <4>2. packet.pos + (written + k) < HeaderBytes + packet.of.size
        BY <2>1, <2>3, <2>4, <3>2
      <4>3. SendType'
        BY <2>1, <2>4, <4>1, <4>2 DEF SendType
      <4>4. Calls'
        BY <2>1, <4>1 DEF Calls, NetworkType, network, Sendable
      <4> QED
        BY <4>3, <4>4
    <3> QED
      BY <3>1, <3>2
  <2>7. NetworkType' /\ ReceiveType' /\ PendingKnown'
    <3>1. inCall' \in [Sides -> BOOLEAN]
      BY <1>9 DEF SendBytes, SendReturns, NetworkType
    <3> QED
      BY <2>1, <3>1 DEF network, NetworkType, ReceiveType, PendingKnown
  <2> QED
    BY <2>5, <2>6, <2>7
<1>10. ASSUME NEW s \in Statuses, SendFails(s) PROVE Typed'
  <2>1. /\ inCall[sender] /\ s \in {"Partial", "NotReady", "Error", "Disconnected"}
        /\ packet' = [packet EXCEPT !.pos = SendPos(s, written)]
        /\ status' = s /\ written' = 0 /\ inCall' = [inCall EXCEPT ![sender] = FALSE]
        /\ UNCHANGED <<network, blocking, wire, built, sent, pending, received>>
    BY <1>10 DEF SendFails, SendReturns
  <2>2. NetworkType' /\ WireType' /\ ReceiveType' /\ PendingKnown'
    BY <2>1 DEF network, NetworkType, WireType, ReceiveType, PendingKnown
  <2>3. packet.of \in Packets
    BY <2>1 DEF Calls
  <2>4. SendPos(s, written) \in {packet.pos, packet.pos + written}
    BY <2>1 DEF SendPos
  <2>5. HeaderBytes + packet.of.size \in Nat
    BY <2>3, FrameIs
  <2>6. SendType'
    BY <2>1, <2>3, <2>4, <2>5 DEF SendType
  <2>7. Calls'
    BY <2>1, <2>3 DEF Calls, NetworkType, network, SendType
  <2> QED
    BY <2>2, <2>6, <2>7
<1>11. ASSUME StartReceive PROVE Typed'
  BY <1>11 DEF StartReceive, network, sending, NetworkType, WireType, SendType, ReceiveType, Calls,
              PendingKnown, Sendable
<1>12. ASSUME NEW k \in 1..WireBytes, RecvBytes(k) PROVE Typed'
  <2>a. PICK c \in Connections, got \in Seq(Bytes), rest \in Seq(Bytes) : \E p : Reads(c, got, rest, p)
    BY <1>12, RecvProgress
  <2>1. PICK p : Reads(c, got, rest, p)
    BY <2>a
  <2>2. WireType'
    BY <2>1, WireUpdate DEF Reads
  <2>3. ReceiveType' /\ PendingKnown'
    BY <2>1, ProgressType, Assumptions DEF Connections, Reads
  <2>4. inCall' = inCall \/ inCall' = [inCall EXCEPT ![receiver] = FALSE]
    BY <2>1 DEF Progress, Reads
  <2>5. NetworkType' /\ SendType' /\ Calls'
    BY <1>12, <2>4 DEF RecvBytes, network, sending, NetworkType, SendType, Calls, Sendable
  <2> QED
    BY <2>2, <2>3, <2>5
<1>13. ASSUME NEW s \in Statuses, RecvFails(s) PROVE Typed'
  BY <1>13 DEF RecvFails, PendingAfter, network, sending, NetworkType, WireType, SendType,
               ReceiveType, Calls, PendingKnown, Sendable
<1> QED
  BY <1>1, <1>2, <1>3, <1>4, <1>5, <1>6, <1>7, <1>8, <1>9, <1>10, <1>11, <1>12, <1>13
  DEF Next, Connecting, Sending, RecvAny, Receiving

LEMMA TypedHolds == Spec => []Typed
BY InitTyped, TypedStep, PTL DEF Spec

\* send_pos_ and what a call has sent stay inside the frame, and pending_packet_ inside the header
\* and the size it announced, for packets of any sizes.
THEOREM TypeCorrect == Spec => []TypeOK
<1>1. Typed => TypeOK
  BY TypeParts DEF Typed
<1> QED
  BY <1>1, TypedHolds, PTL
-----------------------------------------------------------------------------
(* What a connection carries *)

\* The part of a frame a sender has put on a connection before the rest of it
Pieces == {<<>>} \cup UNION {{SubSeq(Frame(p), 1, n) : n \in 0..(HeaderBytes + p.size - 1)} : p \in Packets}

\* A connection on which `snt` was sent and `rcv` received carries `transit`, which an error may
\* have cut short by u: the frames of the packets between the two, and a piece x of the next.
Ahead(rest, x) == Frames(rest) \o x
Single(p)      == <<p>>

Carried(rcv, snt, transit, x, u) ==
  /\ rcv \in Seq(Packets)
  /\ \E rest \in Seq(Packets) : snt = rcv \o rest /\ transit \o u = Ahead(rest, x)

\* Frame(p) and the size of p, as constants of a proof
LEMMA FramePoints ==
  ASSUME NEW p \in Packets
  PROVE  \E n \in Nat, f \in Seq(Bytes) :
           /\ n = p.size /\ f = Frame(p) /\ Len(f) = HeaderBytes + n
           /\ \A i \in 1..(HeaderBytes + n) : f[i] = [packet |-> p, at |-> i]
<1>1. PICK n \in Nat, f \in Seq(Bytes) : n = p.size /\ f = Frame(p)
  BY FrameIs
<1> QED
  BY <1>1, FrameIs

LEMMA PiecesType == ASSUME NEW x \in Pieces PROVE x \in Seq(Bytes)
<1>1. CASE x = <<>>
  BY <1>1, EmptyLen
<1>2. ASSUME NEW p \in Packets, NEW n \in 0..(HeaderBytes + p.size - 1), x = SubSeq(Frame(p), 1, n)
      PROVE  x \in Seq(Bytes)
  <2>1. PICK m \in Nat, f \in Seq(Bytes) : m = p.size /\ f = Frame(p) /\ Len(f) = HeaderBytes + m
    BY FramePoints
  <2>2. n \in 0..Len(f) /\ x = SubSeq(f, 1, n)
    BY <1>2, <2>1, Assumptions
  <2> QED
    BY <2>2, PrefixPoints
<1> QED
  BY <1>1, <1>2 DEF Pieces

LEMMA PieceIs ==
  ASSUME NEW p \in Packets, NEW n \in Nat, n < HeaderBytes + p.size
  PROVE  SubSeq(Frame(p), 1, n) \in Pieces
<1>1. PICK m \in Nat : m = p.size
  BY FrameIs
<1>2. n \in 0..(HeaderBytes + p.size - 1)
  BY <1>1, Assumptions
<1> QED
  BY <1>2 DEF Pieces

LEMMA HeaderRead ==
  ASSUME NEW p \in Packets, NEW h \in Seq(Bytes), Len(h) = HeaderBytes,
         \A i \in 1..HeaderBytes : h[i] = Frame(p)[i]
  PROVE  SizesRead(h) = {p.size}
<1>1. HeaderBytes \in Nat \ {0} /\ HeaderBytes <= Len(Frame(p)) /\ h # <<>>
  BY FrameIs, Assumptions, EmptyLen
<1>2. Head(h) = h[1]
  BY <1>1
<1>3. h[1] = [packet |-> p, at |-> 1]
  BY <1>1, FrameIs
<1>4. Head(h).packet = p
  BY <1>2, <1>3
<1>5. \A i \in 1..HeaderBytes : Frame(p)[i] \in Bytes
  BY <1>1, FrameIs, ElementOfSeq
<1>6. h = SubSeq(Frame(p), 1, HeaderBytes)
  <2>1. /\ SubSeq(Frame(p), 1, HeaderBytes) \in Seq(Bytes)
        /\ Len(SubSeq(Frame(p), 1, HeaderBytes)) = HeaderBytes
        /\ \A i \in 1..HeaderBytes : SubSeq(Frame(p), 1, HeaderBytes)[i] = Frame(p)[i]
    BY <1>1, <1>5, SubSeqProperties
  <2> QED
    BY <2>1, SeqEqual
<1> QED
  BY <1>4, <1>6 DEF SizesRead

LEMMA FramesCons ==
  ASSUME NEW q \in Packets, NEW r \in Seq(Packets)
  PROVE  Frames(<<q>> \o r) = Frame(q) \o Frames(r)
<1>1. <<>> \in Seq(Packets) /\ Append(<<>>, q) = <<q>> /\ <<q>> \in Seq(Packets)
  BY EmptyLen, AppendProperties
<1>2. Frames(<<q>>) = <<>> \o Frame(q)
  BY <1>1, FramesAppend, FramesNone
<1>3. Frames(<<q>>) = Frame(q)
  BY <1>2, FrameIs, ConcatEmptySeq
<1> QED
  BY <1>1, <1>3, FramesConcat

LEMMA FramesConsThen ==
  ASSUME NEW q \in Packets, NEW r \in Seq(Packets), NEW x \in Seq(Bytes)
  PROVE  Frames(<<q>> \o r) \o x = Frame(q) \o (Frames(r) \o x)
<1>1. Frame(q) \in Seq(Bytes) /\ Frames(r) \in Seq(Bytes)
  BY FrameIs, FramesType
<1>2. (Frame(q) \o Frames(r)) \o x = Frame(q) \o (Frames(r) \o x)
  BY <1>1, ConcatAssociative
<1> QED
  BY <1>2, FramesCons

LEMMA HeadAndTail ==
  ASSUME NEW S, NEW s \in Seq(S), s # <<>>
  PROVE  Head(s) \in S /\ Tail(s) \in Seq(S) /\ s = <<Head(s)>> \o Tail(s)
<1>1. Head(s) \in S /\ Tail(s) \in Seq(S)
  BY HeadTailProperties
<1>2. Len(s) \in Nat \ {0}
  BY EmptySeq
<1>3. Tail(s) = SubSeq(s, 2, Len(s)) /\ SubSeq(s, 1, Len(s)) = s
  BY TailIsSubSeq, SubSeqFull
<1>4. SubSeq(s, 1, Len(s)) = <<s[1]>> \o SubSeq(s, 1 + 1, Len(s))
  BY <1>2, SubSeqRecursiveFirst
<1>5. Head(s) = s[1]
  OBVIOUS
<1> QED
  BY <1>1, <1>3, <1>4, <1>5

\* A whole header and as much data as it announces are the frame of the first packet on its way
LEMMA Whole ==
  ASSUME NEW h \in Seq(Bytes), NEW d \in Seq(Bytes), NEW w \in Seq(Bytes),
         Len(h) = HeaderBytes, Len(d) \in SizesRead(h),
         NEW rest \in Seq(Packets), NEW x \in Pieces, Join(Join(h, d), w) = Ahead(rest, x)
  PROVE  \E q \in Packets, r \in Seq(Packets) :
           /\ rest = Join(Single(q), r) /\ w = Ahead(r, x)
           /\ Join(h, d) = Frame(q) /\ Len(d) = q.size
<1> USE DEF Join, Ahead, Single
<1> PICK z : z = (h \o d) \o w
  OBVIOUS
<1>0. HeaderBytes \in Nat \ {0} /\ Len(d) \in Nat /\ Len(w) \in Nat
  BY Assumptions, LenProperties
<1>1. /\ h \o d \in Seq(Bytes) /\ Len(h \o d) = HeaderBytes + Len(d)
      /\ \A i \in 1..HeaderBytes : (h \o d)[i] = h[i]
  BY ConcatPoints
<1>2. /\ z \in Seq(Bytes) /\ Len(z) = HeaderBytes + Len(d) + Len(w)
      /\ \A i \in 1..(HeaderBytes + Len(d)) : z[i] = (h \o d)[i]
  <2> PICK y \in Seq(Bytes) : y = h \o d
    BY <1>1
  <2>1. y \in Seq(Bytes) /\ Len(y) = HeaderBytes + Len(d) /\ z = y \o w
    BY <1>1
  <2>2. z \in Seq(Bytes) /\ Len(z) = Len(y) + Len(w) /\ \A i \in 1..Len(y) : z[i] = y[i]
    <3>1. /\ y \o w \in Seq(Bytes) /\ Len(y \o w) = Len(y) + Len(w)
          /\ \A i \in 1..Len(y) : (y \o w)[i] = y[i]
      BY ConcatPoints
    <3> QED
      BY <2>1, <3>1
  <2> QED
    BY <1>0, <2>1, <2>2
<1>3. \A i \in 1..HeaderBytes : z[i] = h[i]
  BY <1>0, <1>1, <1>2
<1>4. rest # <<>>
  <2> SUFFICES ASSUME rest = <<>> PROVE FALSE
    OBVIOUS
  <2>1. z = x
    <3>1. Frames(rest) = <<>>
      BY FramesNone
    <3> QED
      BY <3>1, PiecesType, ConcatEmptySeq
  <2>2. x # <<>>
    BY <1>0, <1>2, <2>1, EmptyLen
  <2>0. PICK p \in Packets : \E n \in 0..(HeaderBytes + p.size - 1) : x = SubSeq(Frame(p), 1, n)
    BY <2>2 DEF Pieces
  <2>3. PICK n \in 0..(HeaderBytes + p.size - 1) : x = SubSeq(Frame(p), 1, n)
    BY <2>0
  <2>4. PICK m \in Nat, f \in Seq(Bytes) : m = p.size /\ f = Frame(p) /\ Len(f) = HeaderBytes + m
    BY FramePoints
  <2>5. n \in 0..Len(f) /\ n \in Nat /\ n < HeaderBytes + m /\ x = SubSeq(f, 1, n)
    BY <1>0, <2>3, <2>4
  <2>6. Len(x) = n /\ \A i \in 1..n : x[i] = f[i]
    BY <2>5, PrefixPoints
  <2>7. HeaderBytes + Len(d) <= n
    BY <1>0, <1>2, <2>1, <2>6
  <2>8. \A i \in 1..HeaderBytes : h[i] = f[i]
    <3>1. \A i \in 1..HeaderBytes : i \in 1..n
      BY <1>0, <2>5, <2>7
    <3> QED
      BY <1>3, <2>1, <2>6, <3>1
  <2>9. Len(d) = m
    BY <2>4, <2>8, HeaderRead
  <2> QED
    BY <1>0, <2>5, <2>7, <2>9
<1>5. PICK q \in Packets, r \in Seq(Packets) : rest = <<q>> \o r
  <2>1. Head(rest) \in Packets /\ Tail(rest) \in Seq(Packets) /\ rest = <<Head(rest)>> \o Tail(rest)
    BY <1>4, HeadAndTail
  <2> QED
    BY <2>1
<1>6. PICK m \in Nat, f \in Seq(Bytes) : m = q.size /\ f = Frame(q) /\ Len(f) = HeaderBytes + m
  BY FramePoints
<1>7. PICK g \in Seq(Bytes) : g = Frames(r)
  BY FramesType
<1>8. PICK y \in Seq(Bytes) : y = g \o x
  BY PiecesType, ConcatProperties
<1>9. z = f \o y
  <2>1. Frames(<<q>> \o r) \o x = Frame(q) \o (Frames(r) \o x)
    BY PiecesType, FramesConsThen
  <2> QED
    BY <1>5, <1>6, <1>7, <1>8, <2>1
<1>10. \A i \in 1..(HeaderBytes + m) : z[i] = f[i]
  <2>1. \A i \in 1..Len(f) : z[i] = f[i]
    BY <1>9, ConcatPoints
  <2> QED
    BY <1>6, <2>1
<1>11. Len(d) = m
  <2>1. \A i \in 1..HeaderBytes : h[i] = f[i]
    <3>1. \A i \in 1..HeaderBytes : i \in 1..(HeaderBytes + m)
      BY <1>0
    <3> QED
      BY <1>3, <1>10, <3>1
  <2> QED
    BY <1>6, <2>1, HeaderRead
<1>12. h \o d = f
  <2>1. \A i \in 1..(HeaderBytes + m) : (h \o d)[i] = f[i]
    BY <1>2, <1>10, <1>11
  <2> PICK e : e = h \o d
    OBVIOUS
  <2>2. e \in Seq(Bytes) /\ Len(e) = Len(f) /\ \A i \in 1..Len(e) : e[i] = f[i]
    BY <1>1, <1>6, <1>11, <2>1
  <2> QED
    BY <2>2, SeqEqual
<1>13. w = y
  <2>1. f \o w = f \o y
    BY <1>9, <1>12
  <2> QED
    BY <2>1, ConcatSimplifications
<1> QED
  BY <1>5, <1>6, <1>7, <1>8, <1>11, <1>12, <1>13

LEMMA AssembledIs ==
  ASSUME NEW p, p.header \in Seq(Bytes), p.data \in Seq(Bytes), Len(p.header) = HeaderBytes,
         NEW q \in Packets, p.header \o p.data = Frame(q), Len(p.data) = q.size
  PROVE  Assembled(p) = q
<1>0. PICK h \in Seq(Bytes), d \in Seq(Bytes) : h = p.header /\ d = p.data
  OBVIOUS
<1>1. PICK m \in Nat, f \in Seq(Bytes) :
        /\ m = q.size /\ f = Frame(q) /\ Len(f) = HeaderBytes + m
        /\ \A i \in 1..(HeaderBytes + m) : f[i] = [packet |-> q, at |-> i]
  BY FramePoints
<1>2. /\ f = h \o d /\ Len(h) = HeaderBytes /\ Len(d) = m /\ HeaderBytes \in Nat \ {0}
  BY <1>0, <1>1, Assumptions
<1>3. /\ \A i \in 1..HeaderBytes : h[i] = f[i]
      /\ \A i \in 1..m : d[i] = f[HeaderBytes + i]
  <2>1. /\ \A i \in 1..Len(h) : (h \o d)[i] = h[i]
        /\ \A i \in 1..Len(d) : (h \o d)[Len(h) + i] = d[i]
    BY ConcatPoints
  <2> QED
    BY <1>2, <2>1
<1>4. Last(h).packet = q
  <2>1. h[HeaderBytes] = [packet |-> q, at |-> HeaderBytes]
    BY <1>1, <1>2, <1>3
  <2> QED
    BY <1>2, <2>1 DEF Last
<1>5. d # <<>> => Head(d).packet = q
  <2> SUFFICES ASSUME d # <<>> PROVE Head(d).packet = q
    OBVIOUS
  <2>1. m \in Nat \ {0}
    BY <1>2, EmptySeq
  <2>2. Head(d) = d[1]
    OBVIOUS
  <2>3. d[1] = f[HeaderBytes + 1] /\ HeaderBytes + 1 \in 1..(HeaderBytes + m)
    BY <1>2, <1>3, <2>1
  <2>4. d[1] = [packet |-> q, at |-> HeaderBytes + 1]
    BY <1>1, <2>3
  <2> QED
    BY <2>2, <2>4
<1>6. d = SubSeq(f, HeaderBytes + 1, HeaderBytes + m)
  <2>1. HeaderBytes \in 0..Len(f) /\ Len(f) - HeaderBytes = m
    BY <1>1, <1>2
  <2>2. PICK e : e = SubSeq(f, HeaderBytes + 1, Len(f))
    OBVIOUS
  <2>3. e \in Seq(Bytes) /\ Len(e) = m /\ \A i \in 1..m : e[i] = f[HeaderBytes + i]
    BY <2>1, <2>2, SuffixPoints
  <2>4. Len(d) = Len(e) /\ \A i \in 1..Len(d) : d[i] = e[i]
    BY <1>2, <1>3, <2>3
  <2>5. d = e
    BY <2>3, <2>4, SeqEqual
  <2> QED
    BY <1>1, <2>2, <2>5
<1>7. LET of == IF p.data = <<>> THEN Last(p.header).packet ELSE Head(p.data).packet IN of = q
  BY <1>0, <1>4, <1>5
<1> QED
  BY <1>0, <1>1, <1>6, <1>7 DEF Assembled

LEMMA CarriedNothing == Carried(<<>>, <<>>, <<>>, <<>>, <<>>)
<1>1. <<>> \in Seq(Packets) /\ <<>> \in Seq(Bytes)
  BY EmptyLen
<1>2. <<>> \o <<>> = <<>>
  BY <1>1, ConcatEmptySeq
<1> QED
  BY <1>1, <1>2, FramesNone DEF Carried, Ahead

\* Less of what was sent is still there
LEMMA CarriedLess ==
  ASSUME NEW rcv, NEW snt, NEW x, NEW t \in Seq(Bytes), NEW v \in Seq(Bytes), NEW u \in Seq(Bytes),
         Carried(rcv, snt, t \o v, x, u)
  PROVE  Carried(rcv, snt, t, x, v \o u)
<1>1. (t \o v) \o u = t \o (v \o u)
  BY ConcatAssociative
<1> QED
  BY <1>1 DEF Carried, Ahead

\* y is put on the connection
LEMMA CarriedMore ==
  ASSUME NEW rcv, NEW snt, NEW t \in Seq(Bytes), NEW x \in Seq(Bytes), NEW y \in Seq(Bytes),
         Carried(rcv, snt, t, x, <<>>)
  PROVE  Carried(rcv, snt, t \o y, x \o y, <<>>)
<1>1. PICK rest \in Seq(Packets) : snt = rcv \o rest /\ t \o <<>> = Frames(rest) \o x
  BY DEF Carried, Ahead
<1>2. t = Frames(rest) \o x
  BY <1>1, ConcatEmptySeq
<1>3. t \o y = Frames(rest) \o (x \o y)
  BY <1>2, FramesType, ConcatAssociative
<1>4. t \o y \in Seq(Bytes)
  BY ConcatProperties
<1>5. (t \o y) \o <<>> = t \o y
  BY <1>4, ConcatEmptySeq
<1> QED
  BY <1>1, <1>3, <1>5 DEF Carried, Ahead

LEMMA SentNext ==
  ASSUME NEW rcv \in Seq(Packets), NEW rest \in Seq(Packets), NEW p \in Packets
  PROVE  Append(rcv \o rest, p) = rcv \o Append(rest, p) /\ Append(rest, p) \in Seq(Packets)
<1>1. Append(rest, p) = rest \o <<p>> /\ <<p>> \in Seq(Packets) /\ rcv \o rest \in Seq(Packets)
  BY AppendIsConcat, ConcatProperties
<1>2. Append(rcv \o rest, p) = (rcv \o rest) \o <<p>>
  BY <1>1, AppendIsConcat
<1>3. (rcv \o rest) \o <<p>> = rcv \o (rest \o <<p>>)
  BY <1>1, ConcatAssociative
<1> QED
  BY <1>1, <1>2, <1>3, AppendProperties

\* The frame of p is all there: p has been sent
LEMMA CarriedFrame ==
  ASSUME NEW rcv, NEW snt, NEW t \in Seq(Bytes), NEW p \in Packets,
         Carried(rcv, snt, t, Frame(p), <<>>)
  PROVE  Carried(rcv, Append(snt, p), t, <<>>, <<>>)
<1>1. PICK rest \in Seq(Packets) : snt = rcv \o rest /\ t \o <<>> = Frames(rest) \o Frame(p)
  BY DEF Carried, Ahead
<1>2. Append(snt, p) = rcv \o Append(rest, p) /\ Append(rest, p) \in Seq(Packets)
  BY <1>1, SentNext DEF Carried, Ahead
<1>3. Frames(Append(rest, p)) = Frames(rest) \o Frame(p) /\ Frames(Append(rest, p)) \in Seq(Bytes)
  BY <1>2, FramesAppend, FramesType
<1>4. Frames(Append(rest, p)) \o <<>> = Frames(Append(rest, p))
  BY <1>3, ConcatEmptySeq
<1> QED
  BY <1>1, <1>2, <1>3, <1>4 DEF Carried, Ahead

\* p is sent to a receiver that has closed the connection
LEMMA CarriedNowhere ==
  ASSUME NEW rcv, NEW snt, NEW x, NEW u, NEW p \in Packets, Carried(rcv, snt, <<>>, x, u)
  PROVE  \E v \in Seq(Bytes) : Carried(rcv, Append(snt, p), <<>>, <<>>, v)
<1>1. PICK rest \in Seq(Packets) : snt = rcv \o rest
  BY DEF Carried, Ahead
<1>2. Append(snt, p) = rcv \o Append(rest, p) /\ Append(rest, p) \in Seq(Packets)
  BY <1>1, SentNext DEF Carried, Ahead
<1>3. PICK v \in Seq(Bytes) : v = Frames(Append(rest, p))
  BY <1>2, FramesType
<1>4. <<>> \o v = v /\ v \o <<>> = v
  BY ConcatEmptySeq
<1> QED
  BY <1>2, <1>3, <1>4 DEF Carried, Ahead

LEMMA ThenLast ==
  ASSUME NEW h \in Seq(Bytes), NEW d \in Seq(Bytes), NEW w \in Seq(Bytes), NEW u \in Seq(Bytes)
  PROVE  ((h \o d) \o w) \o u = (h \o d) \o (w \o u) /\ w \o u \in Seq(Bytes)
<1>1. h \o d \in Seq(Bytes) /\ w \o u \in Seq(Bytes)
  BY ConcatProperties
<1> QED
  BY <1>1, ConcatAssociative

\* A packet is put together: it is the next of those sent
LEMMA CarriedFirst ==
  ASSUME NEW rcv, NEW snt, NEW h \in Seq(Bytes), NEW d \in Seq(Bytes), NEW w \in Seq(Bytes),
         NEW x \in Pieces, NEW u \in Seq(Bytes),
         Len(h) = HeaderBytes, Len(d) \in SizesRead(h), Carried(rcv, snt, (h \o d) \o w, x, u)
  PROVE  \E q \in Packets :
           /\ h \o d = Frame(q) /\ Len(d) = q.size
           /\ Carried(Append(rcv, q), snt, w, x, u)
           /\ rcv \in Seq(Packets) /\ Len(rcv) < Len(snt) /\ snt[Len(rcv) + 1] = q
<1>0. ((h \o d) \o w) \o u = (h \o d) \o (w \o u) /\ w \o u \in Seq(Bytes)
  BY ThenLast
<1>1. PICK y \in Seq(Bytes) : y = w \o u /\ ((h \o d) \o w) \o u = Join(Join(h, d), y)
  BY <1>0 DEF Join
<1>2. PICK rest \in Seq(Packets) : snt = rcv \o rest /\ ((h \o d) \o w) \o u = Ahead(rest, x)
  BY DEF Carried
<1>3. Join(Join(h, d), y) = Ahead(rest, x)
  BY <1>1, <1>2
<1>4. PICK q \in Packets, r \in Seq(Packets) :
        /\ rest = Join(Single(q), r) /\ y = Ahead(r, x)
        /\ Join(h, d) = Frame(q) /\ Len(d) = q.size
  BY <1>3, Whole
<1>5. rest = <<q>> \o r /\ w \o u = Ahead(r, x) /\ h \o d = Frame(q) /\ Len(d) = q.size
  BY <1>1, <1>4 DEF Join, Single
<1>7. rcv \in Seq(Packets)
  BY DEF Carried, Ahead
<1>8. Append(rcv, q) \in Seq(Packets) /\ Append(rcv, q) \o r = snt
  <2>1. Append(rcv, q) = rcv \o <<q>> /\ <<q>> \in Seq(Packets) /\ Append(rcv, q) \in Seq(Packets)
    BY <1>7, AppendIsConcat, AppendProperties
  <2>2. (rcv \o <<q>>) \o r = rcv \o (<<q>> \o r)
    BY <1>7, <2>1, ConcatAssociative
  <2> QED
    BY <1>2, <1>5, <2>1, <2>2
<1>9. Len(rcv) < Len(snt) /\ snt[Len(rcv) + 1] = q
  <2>1. PICK a \in Seq(Packets) : a = Append(rcv, q)
    BY <1>8
  <2>2. Len(a) = Len(rcv) + 1 /\ a[Len(rcv) + 1] = q /\ Len(rcv) \in Nat
    BY <1>7, <2>1, AppendProperties, LenProperties
  <2>3. Len(a \o r) = Len(a) + Len(r) /\ Len(r) \in Nat /\ \A i \in 1..Len(a) : (a \o r)[i] = a[i]
    BY ConcatPoints
  <2>4. a \o r = snt
    BY <1>8, <2>1
  <2>5. Len(snt) = Len(a) + Len(r) /\ \A i \in 1..Len(a) : snt[i] = a[i]
    BY <2>3, <2>4
  <2> QED
    BY <2>2, <2>3, <2>5
<1> QED
  BY <1>5, <1>7, <1>8, <1>9 DEF Carried, Ahead

LEMMA CarriedRead ==
  ASSUME NEW rcv, NEW snt, NEW p, NEW w \in Seq(Bytes), NEW x \in Pieces, NEW u \in Seq(Bytes),
         p.header \in Seq(Bytes), p.data \in Seq(Bytes), Len(p.header) = HeaderBytes,
         Len(p.data) \in SizesRead(p.header),
         Carried(rcv, snt, (p.header \o p.data) \o w, x, u)
  PROVE  /\ Assembled(p) \in Packets
         /\ Carried(Append(rcv, Assembled(p)), snt, w, x, u)
         /\ rcv \in Seq(Packets) /\ Len(rcv) < Len(snt) /\ snt[Len(rcv) + 1] = Assembled(p)
<1>1. PICK q \in Packets :
        /\ p.header \o p.data = Frame(q) /\ Len(p.data) = q.size
        /\ Carried(Append(rcv, q), snt, w, x, u)
        /\ rcv \in Seq(Packets) /\ Len(rcv) < Len(snt) /\ snt[Len(rcv) + 1] = q
  BY CarriedFirst
<1>2. Assembled(p) = q
  BY <1>1, AssembledIs
<1> QED
  BY <1>1, <1>2

\* Every byte of what was sent, and of x, is received or on its way
LEMMA CarriedBytes ==
  ASSUME NEW rcv, NEW snt, NEW t \in Seq(Bytes), NEW x \in Seq(Bytes), Carried(rcv, snt, t, x, <<>>)
  PROVE  Frames(rcv) \o t = Frames(snt) \o x
<1>1. PICK rest \in Seq(Packets) : snt = rcv \o rest /\ t \o <<>> = Frames(rest) \o x
  BY DEF Carried, Ahead
<1>2. rcv \in Seq(Packets)
  BY DEF Carried, Ahead
<1>3. t = Frames(rest) \o x
  BY <1>1, ConcatEmptySeq
<1>4. Frames(rcv) \in Seq(Bytes) /\ Frames(rest) \in Seq(Bytes)
  BY <1>2, FramesType
<1>5. (Frames(rcv) \o Frames(rest)) \o x = Frames(rcv) \o (Frames(rest) \o x)
  BY <1>4, ConcatAssociative
<1>6. Frames(snt) = Frames(rcv) \o Frames(rest)
  BY <1>1, <1>2, FramesConcat
<1> QED
  BY <1>3, <1>5, <1>6
-----------------------------------------------------------------------------
(* The inductive invariant *)

\* The part of the sender's packet that send_pos_ and the running call account for
Begun == IF packet = NoPacket THEN <<>> ELSE SubSeq(Frame(packet.of), 1, packet.pos + written)

Fresh(c) == sent[c] = <<>> /\ received[c] = <<>> /\ InTransit(c) = <<>>

\* A connection is accepted once, by a server that does not hold it; nothing has passed on one that
\* is not made, nor, from a server, on one it has not accepted; a side that closed it has left it.
Conns ==
  /\ \A i, j \in 1..Len(backlog) : backlog[i] = backlog[j] => i = j
  /\ \A c \in ToSet(backlog) : "server" \notin shut[c] /\ at["server"] # c
  /\ \A c \in Connections : c > made => shut[c] = {} /\ Fresh(c)
  /\ \A c \in Connections : c \in ToSet(backlog) /\ sender = "server" => Fresh(c)
  /\ \A c \in Connections : \A side \in Sides : side \in shut[c] => at[side] # c
  /\ \A c \in Connections : receiver \in shut[c] => wire[c] = <<>>

\* Every connection, broken or not, carries whole frames and a piece of one; ...
Stream(c) == \E x \in Pieces, u \in Seq(Bytes) :
               Carried(received[c], sent[c], InTransit(c), x, u)
Streams   == \A c \in Connections : Stream(c)

\* ... the one in use by a sender that has met no error carries all of them, and just what the
\* sender believes it has sent of the next.
Exact == \A c \in Connections :
           c = at[sender] /\ Sendable /\ c \notin broken /\ receiver \notin shut[c] =>
             Carried(received[c], sent[c], InTransit(c), Begun, <<>>)

Inv == Typed /\ Conns /\ Streams /\ Exact

LEMMA HoldsConnection == ASSUME Typed, NEW side \in Sides, at[side] # 0 PROVE at[side] \in Connections
BY Assumptions DEF Typed, NetworkType, Connections

LEMMA WaitingAre == ASSUME Typed PROVE \A c \in ToSet(backlog) : c \in 1..made /\ c \in Connections
<1>1. backlog \in Seq(1..made) /\ DOMAIN backlog = 1..Len(backlog) /\ made \in 0..MaxConnections
  BY LenProperties DEF Typed, NetworkType
<1>2. \A i \in DOMAIN backlog : backlog[i] \in 1..made
  BY <1>1, ElementOfSeq
<1> QED
  BY <1>1, <1>2, Assumptions DEF ToSet, Connections

LEMMA InTransitType == ASSUME Typed, NEW c \in Connections PROVE InTransit(c) \in Seq(Bytes)
<1>1. pending.header \o pending.data \in Seq(Bytes)
  BY ConcatProperties DEF Typed, ReceiveType
<1>2. PICK a \in Seq(Bytes) : a = IF at[receiver] = c THEN pending.header \o pending.data ELSE <<>>
  BY <1>1, EmptyLen
<1>3. wire[c] \in Seq(Bytes)
  BY DEF Typed, WireType
<1>4. a \o wire[c] \in Seq(Bytes)
  BY <1>3, ConcatProperties
<1> QED
  BY <1>2, <1>4 DEF InTransit

LEMMA BegunIs ==
  ASSUME Typed
  PROVE  /\ Begun \in Pieces /\ Begun \in Seq(Bytes)
         /\ packet.pos + written = 0 => Begun = <<>>
<1>1. CASE packet = NoPacket
  BY <1>1, EmptyLen DEF Begun, Pieces
<1>2. CASE packet # NoPacket
  <2>1. packet.of \in Packets /\ packet.pos \in Nat /\ written \in Nat
        /\ packet.pos + written < HeaderBytes + packet.of.size
    BY <1>2 DEF Typed, Calls, SendType
  <2>2. Begun = SubSeq(Frame(packet.of), 1, packet.pos + written)
    BY <1>2 DEF Begun
  <2>3. Begun \in Pieces
    BY <2>1, <2>2, PieceIs
  <2>4. packet.pos + written = 0 => Begun = <<>>
    BY <2>2, SubSeqEmpty
  <2> QED
    BY <2>3, <2>4, PiecesType
<1> QED
  BY <1>1, <1>2

LEMMA BegunTyped == ASSUME Typed' PROVE Begun' \in Pieces
<1>1. CASE packet' = NoPacket
  BY <1>1 DEF Begun, Pieces
<1>2. CASE packet' # NoPacket
  <2>1. packet'.of \in Packets /\ packet'.pos \in Nat /\ written' \in Nat
        /\ packet'.pos + written' < HeaderBytes + packet'.of.size
    BY <1>2 DEF Typed, Calls, SendType
  <2>2. Begun' = SubSeq(Frame(packet'.of), 1, packet'.pos + written')
    BY <1>2 DEF Begun
  <2> QED
    BY <2>1, <2>2, PieceIs
<1> QED
  BY <1>1, <1>2

LEMMA ResumesFromInv == Inv => ResumesWhereItStopped
<1> SUFFICES ASSUME Inv, at[sender] # 0, Sendable, at[sender] \notin broken, receiver \notin shut[at[sender]]
             PROVE  Frames(received[at[sender]]) \o InTransit(at[sender]) = Frames(sent[at[sender]]) \o Begun
  BY DEF ResumesWhereItStopped, Begun
<1>1. PICK c \in Connections : c = at[sender]
  BY HoldsConnection, SidesAre DEF Inv, Typed, NetworkType
<1>2. Carried(received[c], sent[c], InTransit(c), Begun, <<>>)
  BY <1>1 DEF Inv, Exact
<1>3. InTransit(c) \in Seq(Bytes) /\ Begun \in Seq(Bytes)
  BY InTransitType, BegunIs DEF Inv
<1>4. Frames(received[c]) \o InTransit(c) = Frames(sent[c]) \o Begun
  BY <1>2, <1>3, CarriedBytes
<1>5. InTransit(c) = InTransit(at[sender])
  BY <1>1
<1> QED
  BY <1>1, <1>4, <1>5

LEMMA InitInv == Init => Inv
<1> SUFFICES ASSUME Init PROVE Inv
  OBVIOUS
<1>1. Typed
  BY InitTyped
<1>2. ASSUME NEW c \in Connections PROVE Fresh(c) /\ shut[c] = {} /\ wire[c] = <<>>
  <2>1. <<>> \o <<>> = <<>>
    BY EmptyLen, ConcatEmptySeq
  <2>2. at[receiver] # c
    BY DEF Init, Connections
  <2> QED
    BY <2>1, <2>2 DEF Init, Fresh, InTransit
<1>3. ToSet(backlog) = {} /\ Len(backlog) = 0
  BY EmptyLen DEF Init, ToSet
<1>4. Conns
  BY <1>2, <1>3 DEF Conns
<1>5. ASSUME NEW c \in Connections PROVE Carried(received[c], sent[c], InTransit(c), <<>>, <<>>)
  BY <1>2, CarriedNothing DEF Fresh
<1>6. Streams /\ Exact
  <2>1. <<>> \in Pieces /\ <<>> \in Seq(Bytes)
    BY EmptyLen DEF Pieces
  <2>2. Begun = <<>>
    BY DEF Init, Begun
  <2> QED
    BY <1>5, <2>1, <2>2 DEF Streams, Stream, Exact
<1> QED
  BY <1>1, <1>4, <1>6 DEF Inv
-----------------------------------------------------------------------------
(* Steps that move a side to another connection, t, or to none *)

Moves(side, t) ==
  /\ Closes(side) /\ at' = [at EXCEPT ![side] = t]
  /\ pending' = IF side = receiver THEN NoPending ELSE pending
  /\ UNCHANGED <<receiver, broken, sent, received>>

\* t has carried nothing a side would see there, and a sender goes there with nothing begun
Movable(side, t) ==
  /\ t # 0 => t # at[side] /\ t \in Connections /\ side \notin shut[t]
  /\ IF side = sender THEN t # 0 => Begun' = <<>> /\ Fresh(t)
                      ELSE UNCHANGED <<packet, status, written>>

LEMMA SenderKept == receiver' = receiver => sender' = sender
BY DEF sender

LEMMA ClosesOne ==
  ASSUME Typed, NEW side \in Sides, Closes(side), NEW c \in Connections
  PROVE  /\ shut'[c] = IF at[side] = c THEN shut[c] \cup {side} ELSE shut[c]
         /\ wire'[c] = IF side = receiver /\ at[side] = c THEN <<>> ELSE wire[c]
<1>1. shut \in [Connections -> SUBSET Sides] /\ wire \in [Connections -> Seq(Bytes)]
  BY DEF Typed, NetworkType, WireType
<1>2. c # 0
  BY DEF Connections
<1>3. CASE at[side] = 0
  BY <1>2, <1>3 DEF Closes
<1>4. CASE at[side] # 0
  BY <1>1, <1>4 DEF Closes
<1> QED
  BY <1>3, <1>4

LEMMA MovesTransit ==
  ASSUME Typed, NEW side \in Sides, NEW t, Moves(side, t), Movable(side, t), NEW c \in Connections
  PROVE  InTransit(c)' = IF side = receiver /\ at[side] = c THEN <<>> ELSE InTransit(c)
<1> PICK w \in Seq(Bytes) : w = wire[c]
  BY DEF Typed, WireType
<1>1. at'[side] = t /\ receiver' = receiver /\ \A s \in Sides : s # side => at'[s] = at[s]
  BY DEF Moves, Typed, NetworkType
<1>2. c # 0 /\ receiver \in Sides
  BY DEF Connections, Typed, NetworkType
<1>3. <<>> \o <<>> = <<>> /\ <<>> \o w = w
  BY EmptyLen, ConcatEmptySeq
<1>4. wire'[c] = IF side = receiver /\ at[side] = c THEN <<>> ELSE w
  BY ClosesOne DEF Moves
<1>5. CASE side = receiver
  <2>1. pending'.header \o pending'.data = <<>>
    BY <1>3, <1>5, NoPendingIs DEF Moves
  <2>2. InTransit(c)' = <<>> \o wire'[c]
    BY <1>1, <1>5, <2>1 DEF InTransit
  <2>3. CASE at[side] = c
    BY <1>3, <1>4, <1>5, <2>2, <2>3
  <2>4. CASE at[side] # c
    <3>1. InTransit(c) = <<>> \o w
      BY <1>5, <2>4 DEF InTransit
    <3> QED
      BY <1>4, <2>2, <2>4, <3>1
  <2> QED
    BY <2>3, <2>4
<1>6. CASE side # receiver
  <2>1. pending' = pending /\ wire'[c] = wire[c] /\ at'[receiver] = at[receiver]
    BY <1>1, <1>2, <1>4, <1>6 DEF Moves
  <2> QED
    BY <1>1, <1>6, <2>1 DEF InTransit
<1> QED
  BY <1>5, <1>6

\* A connection that carries the same, or less of it, still carries a stream
LEMMA StreamLess ==
  ASSUME NEW c \in Connections, Stream(c), sent'[c] = sent[c], received'[c] = received[c],
         NEW t \in Seq(Bytes), NEW v \in Seq(Bytes), InTransit(c) = t \o v, InTransit(c)' = t
  PROVE  Stream(c)'
<1>1. PICK x \in Pieces, u \in Seq(Bytes) : Carried(received[c], sent[c], t \o v, x, u)
  BY DEF Stream
<1>2. Carried(received[c], sent[c], t, x, v \o u) /\ v \o u \in Seq(Bytes)
  BY <1>1, CarriedLess, ConcatProperties
<1>3. Carried(received'[c], sent'[c], InTransit(c)', x, v \o u)
  BY <1>2
<1> QED
  BY <1>2, <1>3 DEF Stream

LEMMA StreamSame ==
  ASSUME NEW c \in Connections, Stream(c), sent'[c] = sent[c], received'[c] = received[c],
         InTransit(c)' = InTransit(c)
  PROVE  Stream(c)'
BY DEF Stream

LEMMA StreamEmptied ==
  ASSUME Typed, NEW c \in Connections, Stream(c), sent'[c] = sent[c], received'[c] = received[c],
         InTransit(c)' = <<>>
  PROVE  Stream(c)'
<1>1. PICK v \in Seq(Bytes) : v = InTransit(c)
  BY InTransitType
<1>2. InTransit(c) = <<>> \o v /\ <<>> \in Seq(Bytes)
  BY <1>1, EmptyLen, ConcatEmptySeq
<1> QED
  BY <1>2, StreamLess

LEMMA MovesStreams ==
  ASSUME Inv, NEW side \in Sides, NEW t, Moves(side, t), Movable(side, t)
  PROVE  Streams'
<1> SUFFICES ASSUME NEW c \in Connections PROVE Stream(c)'
  BY DEF Streams
<1>1. Stream(c) /\ Typed /\ sent'[c] = sent[c] /\ received'[c] = received[c]
  BY DEF Inv, Streams, Moves
<1>2. InTransit(c)' = <<>> \/ InTransit(c)' = InTransit(c)
  BY <1>1, MovesTransit
<1> QED
  BY <1>1, <1>2, StreamSame, StreamEmptied

LEMMA MovesExact ==
  ASSUME Inv, NEW side \in Sides, NEW t, Moves(side, t), Movable(side, t)
  PROVE  Exact'
<1> SUFFICES ASSUME NEW c \in Connections, c = at'[sender], Sendable', c \notin broken,
                    receiver \notin shut'[c]
             PROVE  Carried(received[c], sent[c], InTransit(c)', Begun', <<>>)
  <2>1. sender' = sender /\ UNCHANGED <<receiver, broken, sent, received>>
    BY SenderKept DEF Moves
  <2> QED
    BY <2>1 DEF Exact
<1>1. Typed /\ receiver \in Sides /\ sender \in Sides /\ sender # receiver
      /\ (\A s \in Sides : s = sender \/ s = receiver) /\ c # 0
  BY SidesAre DEF Inv, Typed, NetworkType, Connections
<1>2. at'[side] = t /\ \A s \in Sides : s # side => at'[s] = at[s]
  BY <1>1 DEF Moves, Typed, NetworkType
<1>3. receiver \notin shut[c] /\ (side = receiver => at[side] # c)
  BY <1>1, ClosesOne DEF Moves
<1>4. InTransit(c)' = InTransit(c)
  BY <1>1, <1>3, MovesTransit
<1>5. CASE side = sender
  <2>1. Fresh(c) /\ Begun' = <<>>
    BY <1>1, <1>2, <1>5 DEF Movable
  <2> QED
    BY <1>4, <2>1, CarriedNothing DEF Fresh
<1>6. CASE side = receiver
  <2>1. c = at[sender] /\ UNCHANGED <<packet, status, written>>
    BY <1>1, <1>2, <1>6 DEF Movable
  <2>2. Sendable /\ Begun' = Begun
    BY <2>1 DEF Sendable, Begun
  <2>3. Carried(received[c], sent[c], InTransit(c), Begun, <<>>)
    BY <1>3, <2>1, <2>2 DEF Inv, Exact
  <2> QED
    BY <1>4, <2>2, <2>3
<1> QED
  BY <1>1, <1>5, <1>6

\* The parts of Conns that do not depend on which connections wait to be accepted
LEMMA MovesConns ==
  ASSUME Inv, NEW side \in Sides, NEW t, Moves(side, t), Movable(side, t)
  PROVE  /\ \A c \in Connections : Fresh(c) => Fresh(c)'
         /\ \A c \in Connections : \A s \in Sides : s \in shut'[c] => at'[s] # c
         /\ \A c \in Connections : receiver' \in shut'[c] => wire'[c] = <<>>
         /\ \A c \in Connections : shut'[c] = IF at[side] = c THEN shut[c] \cup {side} ELSE shut[c]
<1>1. Typed /\ UNCHANGED <<receiver, sent, received>>
  BY DEF Inv, Moves
<1>2. at'[side] = t /\ \A s \in Sides : s # side => at'[s] = at[s]
  BY <1>1 DEF Moves, Typed, NetworkType
<1>3. ASSUME NEW c \in Connections, Fresh(c) PROVE Fresh(c)'
  BY <1>1, <1>3, MovesTransit DEF Fresh
<1>4. ASSUME NEW c \in Connections
      PROVE  /\ shut'[c] = IF at[side] = c THEN shut[c] \cup {side} ELSE shut[c]
             /\ wire'[c] = IF side = receiver /\ at[side] = c THEN <<>> ELSE wire[c]
  BY <1>1, ClosesOne DEF Moves
<1>5. ASSUME NEW c \in Connections, NEW s \in Sides, s \in shut'[c] PROVE at'[s] # c
  <2>1. c # 0 /\ (s \in shut[c] => at[s] # c)
    BY DEF Connections, Inv, Conns
  <2>2. CASE s # side
    BY <1>2, <1>4, <1>5, <2>1, <2>2
  <2>3. CASE s = side
    <3>1. CASE at[side] = c
      BY <1>2, <2>1, <2>3, <3>1 DEF Movable
    <3>2. CASE at[side] # c
      <4>1. s \in shut[c]
        BY <1>4, <1>5, <3>2
      <4> QED
        BY <1>2, <2>1, <2>3, <4>1 DEF Movable
    <3> QED
      BY <3>1, <3>2
  <2> QED
    BY <2>2, <2>3
<1>6. ASSUME NEW c \in Connections, receiver' \in shut'[c] PROVE wire'[c] = <<>>
  <2>1. receiver \in shut[c] => wire[c] = <<>>
    BY DEF Inv, Conns
  <2>2. receiver \in shut'[c]
    BY <1>1, <1>6
  <2>3. CASE side = receiver /\ at[side] = c
    BY <1>4, <2>3
  <2>4. CASE ~(side = receiver /\ at[side] = c)
    <3>1. receiver \in shut[c]
      BY <1>4, <2>2, <2>4
    <3> QED
      BY <1>4, <2>1, <2>4, <3>1
  <2> QED
    BY <2>3, <2>4
<1> QED
  BY <1>3, <1>4, <1>5, <1>6

LEMMA WaitsAppended ==
  ASSUME NEW S, NEW s \in Seq(S), NEW e \in S, e \notin ToSet(s),
         \A i, j \in 1..Len(s) : s[i] = s[j] => i = j
  PROVE  /\ ToSet(Append(s, e)) = ToSet(s) \cup {e}
         /\ \A i, j \in 1..Len(Append(s, e)) : Append(s, e)[i] = Append(s, e)[j] => i = j
<1> PICK n \in Nat, a \in Seq(S) :
      /\ n = Len(s) /\ a = Append(s, e) /\ Len(a) = n + 1 /\ a[n + 1] = e
      /\ \A i \in 1..n : a[i] = s[i]
  <2>1. Len(s) \in Nat
    BY LenProperties
  <2>2. /\ Append(s, e) \in Seq(S) /\ Len(Append(s, e)) = Len(s) + 1
        /\ Append(s, e)[Len(s) + 1] = e /\ \A i \in 1..Len(s) : Append(s, e)[i] = s[i]
    BY AppendProperties
  <2> QED
    BY <2>1, <2>2
<1>1. DOMAIN s = 1..n /\ DOMAIN a = 1..(n + 1)
  BY LenProperties
<1>2. \A i \in 1..n : s[i] # e
  BY <1>1 DEF ToSet
<1>3. ToSet(a) = ToSet(s) \cup {e}
  BY <1>1 DEF ToSet
<1>4. ASSUME NEW i \in 1..(n + 1), NEW j \in 1..(n + 1), a[i] = a[j] PROVE i = j
  <2>1. CASE i \in 1..n /\ j \in 1..n
    BY <1>4, <2>1
  <2>2. CASE i = n + 1 /\ j \in 1..n
    BY <1>2, <1>4, <2>2
  <2>3. CASE i \in 1..n /\ j = n + 1
    BY <1>2, <1>4, <2>3
  <2> QED
    BY <2>1, <2>2, <2>3
<1> QED
  BY <1>3, <1>4

LEMMA WaitsTail ==
  ASSUME NEW S, NEW s \in Seq(S), s # <<>>, \A i, j \in 1..Len(s) : s[i] = s[j] => i = j
  PROVE  /\ Head(s) \in ToSet(s) /\ ToSet(Tail(s)) \subseteq ToSet(s) /\ Head(s) \notin ToSet(Tail(s))
         /\ \A i, j \in 1..Len(Tail(s)) : Tail(s)[i] = Tail(s)[j] => i = j
<1> PICK n \in Nat, a \in Seq(S) :
      /\ n = Len(s) /\ n # 0 /\ a = Tail(s) /\ Len(a) = n - 1
      /\ \A i \in 1..(n - 1) : a[i] = s[i + 1]
  <2>1. Len(s) \in Nat \ {0}
    BY EmptySeq
  <2>2. Tail(s) \in Seq(S) /\ Len(Tail(s)) = Len(s) - 1
        /\ \A i \in 1..Len(Tail(s)) : Tail(s)[i] = s[i + 1]
    BY HeadTailProperties
  <2> QED
    BY <2>1, <2>2
<1>1. DOMAIN s = 1..n /\ DOMAIN a = 1..(n - 1) /\ Head(s) = s[1]
  BY LenProperties
<1>2. Head(s) \in ToSet(s) /\ ToSet(a) \subseteq ToSet(s) /\ Head(s) \notin ToSet(a)
  BY <1>1 DEF ToSet
<1>3. \A i, j \in 1..(n - 1) : a[i] = a[j] => i = j
  <2> SUFFICES ASSUME NEW i \in 1..(n - 1), NEW j \in 1..(n - 1), a[i] = a[j] PROVE i = j
    OBVIOUS
  <2>1. i + 1 \in 1..n /\ j + 1 \in 1..n /\ s[i + 1] = s[j + 1]
    OBVIOUS
  <2>2. i + 1 = j + 1
    BY <2>1
  <2> QED
    BY <2>2
<1> QED
  BY <1>2, <1>3

LEMMA InvConnect == ASSUME Inv, Typed', NEW ok \in BOOLEAN, Connect(ok) PROVE Inv'
<1> DEFINE t == IF ok THEN made + 1 ELSE 0
<1>0. Typed /\ Conns
  BY DEF Inv
<1>1. /\ ~inCall["client"] /\ Forgets("client") /\ Closes("client") /\ NewConnection("client")
      /\ at' = [at EXCEPT !["client"] = t]
      /\ UNCHANGED <<receiver, listening, broken, blocking, inCall, received>>
      /\ IF ok THEN made < MaxConnections /\ made' = made + 1 /\ backlog' = Append(backlog, made + 1)
               ELSE UNCHANGED <<made, backlog>>
  BY DEF Connect
<1>2. "client" \in Sides /\ "server" \in Sides /\ sender \in Sides /\ made \in Nat
      /\ (\A s \in Sides : s = "client" \/ s = "server") /\ sender' = sender
      /\ (ok => made + 1 \in Connections) /\ (\A s \in Sides : at[s] \in 0..made)
  BY <1>0, <1>1, SidesAre, SenderKept, Assumptions DEF Typed, NetworkType, Sides, Connections
<1>3. sent' = sent /\ ("client" # sender => UNCHANGED <<packet, status, written>>)
  BY <1>1 DEF NewConnection
<1>4. ok => Fresh(made + 1) /\ shut[made + 1] = {}
  BY <1>2 DEF Inv, Conns
<1>5. "client" = sender => Begun' = <<>>
  <2> SUFFICES ASSUME "client" = sender PROVE Begun' = <<>>
    OBVIOUS
  <2>1. written = 0 /\ written' = written /\ packet' = IF packet.pos = 0 THEN packet ELSE NoPacket
    BY <1>0, <1>1 DEF Typed, Calls, NewConnection
  <2>2. packet' = NoPacket \/ packet'.pos + written' = 0
    BY <2>1
  <2>3. packet'.pos + written' = 0 => SubSeq(Frame(packet'.of), 1, packet'.pos + written') = <<>>
    BY SubSeqEmpty
  <2> QED
    BY <2>2, <2>3 DEF Begun
<1>6. Moves("client", t) /\ Movable("client", t)
  BY <1>1, <1>2, <1>3, <1>4, <1>5 DEF Moves, Movable, Forgets
<1> HIDE DEF t
<1>7. Streams' /\ Exact'
  BY <1>2, <1>6, MovesStreams, MovesExact
<1>8. /\ \A c \in Connections : Fresh(c) => Fresh(c)'
      /\ \A c \in Connections : \A s \in Sides : s \in shut'[c] => at'[s] # c
      /\ \A c \in Connections : receiver' \in shut'[c] => wire'[c] = <<>>
      /\ \A c \in Connections : shut'[c] = IF at["client"] = c THEN shut[c] \cup {"client"} ELSE shut[c]
  BY <1>2, <1>6, MovesConns
<1>9. \A c \in ToSet(backlog) : c \in 1..made /\ c \in Connections
  BY <1>0, WaitingAre
<1>10. /\ \A i, j \in 1..Len(backlog') : backlog'[i] = backlog'[j] => i = j
       /\ ToSet(backlog') = ToSet(backlog) \cup (IF ok THEN {made + 1} ELSE {})
  <2>1. \A i, j \in 1..Len(backlog) : backlog[i] = backlog[j] => i = j
    BY <1>0 DEF Conns
  <2>2. CASE ok
    <3>1. backlog \in Seq(1..(made + 1)) /\ made + 1 \in 1..(made + 1) /\ made + 1 \notin ToSet(backlog)
      <4>1. 1..made \subseteq 1..(made + 1) /\ backlog \in Seq(1..made)
        BY <1>0, <1>2 DEF Typed, NetworkType
      <4>2. backlog \in Seq(1..(made + 1))
        BY <4>1, SeqMonotonic
      <4> QED
        BY <1>2, <1>9, <4>2
    <3> QED
      <4>1. /\ ToSet(Append(backlog, made + 1)) = ToSet(backlog) \cup {made + 1}
            /\ \A i, j \in 1..Len(Append(backlog, made + 1)) :
                 Append(backlog, made + 1)[i] = Append(backlog, made + 1)[j] => i = j
        BY <2>1, <3>1, WaitsAppended
      <4>2. backlog' = Append(backlog, made + 1)
        BY <1>1, <2>2
      <4> QED
        BY <2>2, <4>1, <4>2
  <2>3. CASE ~ok
    BY <1>1, <2>1, <2>3
  <2> QED
    BY <2>2, <2>3
<1>11. at'["server"] = at["server"]
  BY <1>0, <1>1 DEF Typed, NetworkType, Sides
<1>12. ASSUME NEW c \in ToSet(backlog')
       PROVE  c \in Connections /\ "server" \notin shut'[c] /\ at'["server"] # c
              /\ (sender = "server" => Fresh(c)')
  <2>1. CASE c \in ToSet(backlog)
    <3>1. "server" \notin shut[c] /\ at["server"] # c /\ (sender = "server" => Fresh(c)) /\ c \in Connections
      BY <1>0, <1>9, <2>1 DEF Conns
    <3> QED
      BY <1>8, <1>11, <3>1
  <2>2. CASE ok /\ c = made + 1
    <3>1. c \in Connections /\ Fresh(c) /\ shut[c] = {} /\ at["server"] # c
      BY <1>2, <1>4, <2>2
    <3> QED
      BY <1>8, <1>11, <3>1
  <2> QED
    BY <1>10, <2>1, <2>2
<1>13. ASSUME NEW c \in Connections, c > made' PROVE shut'[c] = {} /\ Fresh(c)'
  <2>1. c > made /\ at["client"] # c
    BY <1>1, <1>2, <1>13 DEF Connections
  <2>2. shut[c] = {} /\ Fresh(c)
    BY <1>0, <2>1 DEF Conns
  <2> QED
    BY <1>8, <2>1, <2>2
<1>14. Conns'
  BY <1>2, <1>8, <1>10, <1>12, <1>13 DEF Conns
<1> QED
  BY <1>7, <1>14 DEF Inv

LEMMA InvDisconnect == ASSUME Inv, Typed', NEW side \in Sides, Disconnect(side) PROVE Inv'
<1>0. Typed /\ Conns
  BY DEF Inv
<1>1. /\ Forgets(side) /\ Closes(side) /\ at' = [at EXCEPT ![side] = 0]
      /\ UNCHANGED <<receiver, listening, backlog, made, broken, blocking, inCall, sending, received>>
  BY DEF Disconnect
<1>2. sender' = sender /\ UNCHANGED <<packet, status, written, sent>> /\ "server" \in Sides
      /\ side \in {"client", "server"} /\ made \in Nat
  BY <1>0, <1>1, SenderKept, Assumptions DEF sending, Sides, Typed, NetworkType
<1>3. Moves(side, 0) /\ Movable(side, 0)
  BY <1>1, <1>2 DEF Moves, Movable, Forgets
<1>4. Streams' /\ Exact'
  BY <1>3, MovesStreams, MovesExact
<1>5. /\ \A c \in Connections : Fresh(c) => Fresh(c)'
      /\ \A c \in Connections : \A s \in Sides : s \in shut'[c] => at'[s] # c
      /\ \A c \in Connections : receiver' \in shut'[c] => wire'[c] = <<>>
      /\ \A c \in Connections : shut'[c] = IF at[side] = c THEN shut[c] \cup {side} ELSE shut[c]
  BY <1>3, MovesConns
<1>6. at'["server"] = (IF side = "server" THEN 0 ELSE at["server"])
  BY <1>0, <1>1, <1>2 DEF Typed, NetworkType
<1>7. ASSUME NEW c \in ToSet(backlog)
      PROVE  c \in Connections /\ "server" \notin shut'[c] /\ at'["server"] # c
             /\ (sender = "server" => Fresh(c)')
  <2>1. "server" \notin shut[c] /\ at["server"] # c /\ (sender = "server" => Fresh(c))
        /\ c \in Connections /\ c # 0
    BY <1>0, WaitingAre DEF Conns
  <2> QED
    BY <1>2, <1>5, <1>6, <2>1
<1>8. ASSUME NEW c \in Connections, c > made PROVE shut'[c] = {} /\ Fresh(c)'
  <2>1. shut[c] = {} /\ Fresh(c) /\ at[side] # c
    BY <1>0, <1>2, <1>8 DEF Conns, Typed, NetworkType, Connections
  <2> QED
    BY <1>5, <2>1
<1>9. Conns'
  BY <1>0, <1>1, <1>2, <1>5, <1>7, <1>8 DEF Conns
<1> QED
  BY <1>4, <1>9 DEF Inv

LEMMA InvAccept == ASSUME ~SocketReused, Inv, Typed', Accept PROVE Inv'
<1> PICK b : b = Head(backlog)
  OBVIOUS
<1>0. Typed /\ Conns
  BY DEF Inv
<1>1. /\ ~inCall["server"] /\ backlog # <<>> /\ Closes("server") /\ NewConnection("server")
      /\ at' = [at EXCEPT !["server"] = b] /\ backlog' = Tail(backlog)
      /\ pending' = IF receiver = "server" THEN NoPending ELSE pending
      /\ UNCHANGED <<receiver, listening, made, broken, blocking, inCall, received>>
  BY DEF Accept
<1>2. "server" \in Sides /\ sender' = sender /\ made \in Nat /\ "client" \in Sides
  BY <1>0, <1>1, SenderKept, Assumptions DEF Sides, Typed, NetworkType
<1>3. sent' = sent /\ ("server" # sender => UNCHANGED <<packet, status, written>>)
  BY <1>1 DEF NewConnection
<1>4. /\ b \in ToSet(backlog) /\ ToSet(backlog') \subseteq ToSet(backlog) /\ b \notin ToSet(backlog')
      /\ \A i, j \in 1..Len(backlog') : backlog'[i] = backlog'[j] => i = j
  <2>1. \A i, j \in 1..Len(backlog) : backlog[i] = backlog[j] => i = j
    BY <1>0 DEF Conns
  <2>2. backlog \in Seq(1..made) /\ backlog # <<>>
    BY <1>0, <1>1 DEF Typed, NetworkType
  <2>3. /\ Head(backlog) \in ToSet(backlog) /\ ToSet(Tail(backlog)) \subseteq ToSet(backlog)
        /\ Head(backlog) \notin ToSet(Tail(backlog))
        /\ \A i, j \in 1..Len(Tail(backlog)) : Tail(backlog)[i] = Tail(backlog)[j] => i = j
    BY <2>1, <2>2, WaitsTail
  <2> QED
    BY <1>1, <2>3
<1>5. /\ b \in Connections /\ "server" \notin shut[b] /\ at["server"] # b
      /\ (sender = "server" => Fresh(b))
  BY <1>0, <1>4, WaitingAre DEF Conns
<1>6. "server" = sender => Begun' = <<>>
  <2> SUFFICES ASSUME "server" = sender PROVE Begun' = <<>>
    OBVIOUS
  <2>1. written = 0 /\ written' = written /\ packet' = IF packet.pos = 0 THEN packet ELSE NoPacket
    BY <1>0, <1>1 DEF Typed, Calls, NewConnection
  <2>2. packet' = NoPacket \/ packet'.pos + written' = 0
    BY <2>1
  <2>3. packet'.pos + written' = 0 => SubSeq(Frame(packet'.of), 1, packet'.pos + written') = <<>>
    BY SubSeqEmpty
  <2> QED
    BY <2>2, <2>3 DEF Begun
<1>7. Moves("server", b) /\ Movable("server", b)
  <2>1. Moves("server", b)
    BY <1>1, <1>3 DEF Moves
  <2>2. Movable("server", b)
    BY <1>3, <1>5, <1>6 DEF Movable
  <2> QED
    BY <2>1, <2>2
<1>8. Streams' /\ Exact'
  BY <1>2, <1>7, MovesStreams, MovesExact
<1>9. /\ \A c \in Connections : Fresh(c) => Fresh(c)'
      /\ \A c \in Connections : \A s \in Sides : s \in shut'[c] => at'[s] # c
      /\ \A c \in Connections : receiver' \in shut'[c] => wire'[c] = <<>>
      /\ \A c \in Connections : shut'[c] = IF at["server"] = c THEN shut[c] \cup {"server"} ELSE shut[c]
  BY <1>2, <1>7, MovesConns
<1>10. at'["server"] = b
  BY <1>0, <1>1, <1>2 DEF Typed, NetworkType
<1>11. ASSUME NEW c \in ToSet(backlog')
       PROVE  c \in Connections /\ "server" \notin shut'[c] /\ at'["server"] # c
              /\ (sender = "server" => Fresh(c)')
  <2>1. "server" \notin shut[c] /\ at["server"] # c /\ (sender = "server" => Fresh(c))
        /\ c \in Connections /\ c # b
    BY <1>0, <1>4, WaitingAre DEF Conns
  <2> QED
    BY <1>2, <1>9, <1>10, <2>1
<1>12. ASSUME NEW c \in Connections, c > made PROVE shut'[c] = {} /\ Fresh(c)'
  <2>1. shut[c] = {} /\ Fresh(c) /\ at["server"] # c
    BY <1>0, <1>2, <1>12 DEF Conns, Typed, NetworkType, Connections
  <2> QED
    BY <1>9, <2>1
<1>13. Conns'
  BY <1>1, <1>2, <1>4, <1>9, <1>11, <1>12 DEF Conns
<1> QED
  BY <1>8, <1>13 DEF Inv
-----------------------------------------------------------------------------
(* Steps that leave both sides on their connections *)

Stays == /\ UNCHANGED <<receiver, at, shut, made>>
         /\ backlog' \in {backlog, <<>>}

\* Nothing passes on a connection that nobody may use yet, and nothing reaches a receiver that left
LEMMA StaysConns ==
  ASSUME Typed, Conns, Stays,
         \A c \in Connections : Fresh(c) /\ c # at[sender] => Fresh(c)',
         \A c \in Connections : receiver \in shut[c] /\ wire[c] = <<>> => wire'[c] = <<>>
  PROVE  Conns'
<1>1. sender' = sender /\ sender \in Sides /\ made \in Nat
  BY SenderKept, SidesAre, Assumptions DEF Stays, Typed, NetworkType
<1>2. ToSet(backlog') \subseteq ToSet(backlog)
      /\ \A i, j \in 1..Len(backlog') : backlog'[i] = backlog'[j] => i = j
  <2>1. CASE backlog' = backlog
    BY <2>1 DEF Conns
  <2>2. CASE backlog' = <<>>
    BY <2>2, EmptyLen DEF ToSet
  <2> QED
    BY <2>1, <2>2 DEF Stays
<1>3. ASSUME NEW c \in Connections, c > made PROVE Fresh(c)'
  <2>1. Fresh(c) /\ c # at[sender]
    BY <1>1, <1>3 DEF Conns, Typed, NetworkType, Connections
  <2> QED
    BY <2>1
<1>4. ASSUME NEW c \in Connections, c \in ToSet(backlog'), sender = "server" PROVE Fresh(c)'
  <2>1. Fresh(c) /\ c # at[sender]
    BY <1>2, <1>4 DEF Conns
  <2> QED
    BY <2>1
<1> QED
  BY <1>1, <1>2, <1>3, <1>4 DEF Conns, Stays

LEMMA TransitSame ==
  ASSUME Stays, NEW c, wire'[c] = wire[c], pending' = pending PROVE InTransit(c)' = InTransit(c)
BY DEF Stays, InTransit

\* Steps that neither send nor receive a byte
LEMMA InvQuiet ==
  ASSUME Inv, Typed', Stays, UNCHANGED <<wire, pending, sent, received>>,
         broken \subseteq broken', Sendable' => Sendable /\ Begun' = Begun
  PROVE  Inv'
<1>1. \A c \in Connections : InTransit(c)' = InTransit(c)
  BY TransitSame
<1>2. Conns'
  BY <1>1, StaysConns DEF Inv, Fresh
<1>3. Streams'
  BY <1>1, StreamSame DEF Inv, Streams
<1>4. sender' = sender
  BY SenderKept DEF Stays
<1>5. Exact'
  <2> SUFFICES ASSUME NEW c \in Connections, c = at[sender], Sendable', c \notin broken',
                      receiver \notin shut[c]
               PROVE  Carried(received[c], sent[c], InTransit(c)', Begun', <<>>)
    BY <1>4 DEF Exact, Stays
  <2> QED
    BY <1>1 DEF Inv, Exact
<1> QED
  BY <1>2, <1>3, <1>5 DEF Inv

LEMMA InvBreaks == ASSUME Inv, Typed', NEW c \in Connections, Breaks(c) PROVE Inv'
<1>0. Typed /\ Stays /\ UNCHANGED <<sending, pending, received>> /\ broken' = broken \cup {c}
  BY DEF Inv, Breaks, Stays
<1>1. PICK k : k \in 0..Len(wire[c]) /\ wire' = [wire EXCEPT ![c] = SubSeq(@, 1, k)]
  BY DEF Breaks
<1>2. PICK w \in Seq(Bytes), a \in Seq(Bytes) :
        w = wire[c] /\ a = IF at[receiver] = c THEN pending.header \o pending.data ELSE <<>>
  <2>1. wire[c] \in Seq(Bytes)
    BY <1>0 DEF Typed, WireType
  <2>2. pending.header \o pending.data \in Seq(Bytes) /\ <<>> \in Seq(Bytes)
    BY <1>0, ConcatProperties, EmptyLen DEF Typed, ReceiveType
  <2> QED
    BY <2>1, <2>2
<1>3. PICK l \in Seq(Bytes), r \in Seq(Bytes) : l = SubSeq(w, 1, k) /\ w = l \o r
  <2>1. Len(w) \in Nat /\ k \in 0..Len(w)
    BY <1>1, <1>2, LenProperties
  <2>2. SubSeq(w, 1, k) \in Seq(Bytes)
    BY <2>1, PrefixPoints
  <2>3. SubSeq(w, k + 1, Len(w)) \in Seq(Bytes)
    BY <2>1, SuffixPoints
  <2>4. 1 \in 1..(Len(w) + 1) /\ k \in (1 - 1)..Len(w) /\ Len(w) \in k..Len(w)
    BY <2>1
  <2>5. SubSeq(w, 1, k) \o SubSeq(w, k + 1, Len(w)) = SubSeq(w, 1, Len(w))
    BY <2>4, ConcatAdjacentSubSeq
  <2> QED
    BY <2>2, <2>3, <2>5, SubSeqFull
<1>4. wire'[c] = l /\ \A d \in Connections : d # c => wire'[d] = wire[d]
  BY <1>0, <1>1, <1>2, <1>3 DEF Typed, WireType
<1>5. PICK t \in Seq(Bytes) : t = a \o l
  BY ConcatProperties
<1>6. InTransit(c) = t \o r /\ InTransit(c)' = t
  <2>1. a \o (l \o r) = (a \o l) \o r
    BY ConcatAssociative
  <2> QED
    BY <1>0, <1>2, <1>3, <1>4, <1>5, <2>1 DEF InTransit, Stays
<1>7. \A d \in Connections : d # c => InTransit(d)' = InTransit(d)
  BY <1>0, <1>4, TransitSame
<1>8. UNCHANGED <<sent, packet, written, status>>
  BY <1>0 DEF sending
<1>9. Conns'
  <2>1. ASSUME NEW d \in Connections, Fresh(d) PROVE Fresh(d)'
    <3>1. t \o r = <<>> => t = <<>>
      BY ConcatEqualIffEmpty
    <3> QED
      BY <1>0, <1>6, <1>7, <1>8, <2>1, <3>1 DEF Fresh
  <2>2. ASSUME NEW d \in Connections, wire[d] = <<>> PROVE wire'[d] = <<>>
    <3>1. l \o r = <<>> => l = <<>>
      BY ConcatEqualIffEmpty
    <3> QED
      BY <1>2, <1>3, <1>4, <2>2, <3>1
  <2> QED
    BY <1>0, <2>1, <2>2, StaysConns DEF Inv
<1>10. Streams'
  <2>1. ASSUME NEW d \in Connections PROVE Stream(d)'
    <3>1. Stream(d) /\ sent'[d] = sent[d] /\ received'[d] = received[d]
      BY <1>0, <1>8 DEF Inv, Streams
    <3> QED
      BY <1>6, <1>7, <3>1, StreamSame, StreamLess
  <2> QED
    BY <2>1 DEF Streams
<1>11. sender' = sender
  BY <1>0, SenderKept DEF Stays
<1>12. Exact'
  <2> SUFFICES ASSUME NEW d \in Connections, d = at[sender], Sendable, d \notin broken',
                      receiver \notin shut[d]
               PROVE  Carried(received[d], sent[d], InTransit(d)', Begun, <<>>)
    BY <1>0, <1>8, <1>11 DEF Exact, Stays, Sendable, Begun
  <2>1. d # c /\ d \notin broken
    BY <1>0
  <2> QED
    BY <1>7, <2>1 DEF Inv, Exact
<1> QED
  BY <1>9, <1>10, <1>12 DEF Inv

LEMMA BegunSame ==
  ASSUME Typed, packet'.of = packet.of, packet' # NoPacket, packet # NoPacket,
         packet'.pos + written' = packet.pos + written
  PROVE  Begun' = Begun
BY DEF Begun

LEMMA InvSendFails == ASSUME Inv, Typed', NEW s \in Statuses, SendFails(s) PROVE Inv'
<1>0. Typed /\ Stays /\ UNCHANGED <<wire, pending, sent, received, broken>>
  BY DEF Inv, SendFails, Stays, network
<1>1. /\ inCall[sender] /\ s \in {"Partial", "NotReady", "Error", "Disconnected"}
      /\ packet' = [packet EXCEPT !.pos = SendPos(s, written)] /\ status' = s /\ written' = 0
      /\ s = "NotReady" => written = 0
  BY DEF SendFails, SendReturns
<1>2. packet.of \in Packets /\ Sendable /\ written \in Nat /\ packet.pos \in Nat
      /\ packet \in [of: Packets \cup {Corrupt}, pos: Nat]
  BY <1>0, <1>1 DEF Typed, Calls, SendType
<1>3. Sendable' => s \in {"Partial", "NotReady"}
  BY <1>1 DEF Sendable
<1>4. Sendable' => Begun' = Begun
  <2> SUFFICES ASSUME s \in {"Partial", "NotReady"} PROVE Begun' = Begun
    BY <1>3
  <2>1. packet'.of = packet.of /\ packet'.pos + written' = packet.pos + written
    BY <1>1, <1>2 DEF SendPos
  <2>2. packet # NoPacket /\ packet' # NoPacket
    BY <1>2, <2>1, NoPacketIs
  <2> QED
    BY <1>0, <2>1, <2>2, BegunSame
<1> QED
  BY <1>0, <1>2, <1>4, InvQuiet

LEMMA InvStartSend == ASSUME Inv, Typed', NEW n \in Sizes, StartSend(n) PROVE Inv'
<1>0. Typed /\ Stays /\ UNCHANGED <<wire, pending, sent, received, broken, status>>
  BY DEF Inv, StartSend, Stays, network
<1>1. /\ ~inCall[sender] /\ written' = 0 /\ Sendable
      /\ IF packet # NoPacket THEN packet' = packet
         ELSE packet' = [of |-> [id |-> built + 1, size |-> n], pos |-> 0]
  BY DEF StartSend
<1>2. written = 0
  BY <1>0, <1>1 DEF Typed, Calls
<1>3. Begun' = Begun
  <2>1. CASE packet # NoPacket
    BY <1>1, <1>2, <2>1 DEF Begun
  <2>2. CASE packet = NoPacket
    <3>1. Begun = <<>> /\ packet'.pos + written' = 0
      BY <1>1, <2>2 DEF Begun
    <3>2. SubSeq(Frame(packet'.of), 1, packet'.pos + written') = <<>>
      BY <3>1, SubSeqEmpty
    <3> QED
      BY <3>1, <3>2 DEF Begun
  <2> QED
    BY <2>1, <2>2
<1> QED
  BY <1>0, <1>1, <1>3, InvQuiet

\* What a ::send() that takes k bytes does to the connection c of the sender of p, whose frame f it
\* has sent b bytes of
Sends(c, p, f, b, k) ==
  /\ c = at[sender] /\ p = packet.of /\ f = Frame(p) /\ b = packet.pos + written
  /\ b + k <= Len(f) /\ packet # NoPacket /\ Sendable /\ c \notin broken
  /\ wire' = IF receiver \in shut[c] THEN wire
             ELSE [wire EXCEPT ![c] = @ \o SubSeq(f, b + 1, b + k)]
  /\ IF b + k = Len(f)
       THEN sent' = [sent EXCEPT ![c] = Append(@, p)] /\ packet' = NoPacket /\ written' = 0
       ELSE written' = written + k /\ UNCHANGED <<sent, packet>>

LEMMA SendProgress ==
  ASSUME Typed, NEW k \in 1..WireBytes, SendBytes(k)
  PROVE  /\ k \in Nat \ {0} /\ Stays /\ UNCHANGED <<broken, pending, received>>
         /\ \E c \in Connections, p \in Packets, f \in Seq(Bytes), b \in Nat : Sends(c, p, f, b, k)
<1>0. Stays /\ UNCHANGED <<broken, pending, received>> /\ inCall[sender] /\ k \in Nat \ {0}
  BY Assumptions DEF SendBytes, Stays, network
<1>1. PICK c \in Connections, p \in Packets : c = at[sender] /\ p = packet.of
  BY <1>0, HoldsConnection, SidesAre DEF Typed, Calls, NetworkType
<1>2. packet # NoPacket /\ Sendable /\ c \notin broken
  BY <1>0, <1>1, NoPacketIs DEF Typed, Calls, SendBytes
<1>3. PICK f \in Seq(Bytes) : f = Frame(p)
  BY FramePoints
<1>4. PICK b \in Nat : b = packet.pos + written
  BY DEF Typed, SendType
<1>5. packet.pos + written + 1 = b + 1 /\ packet.pos + written + 1 + k - 1 = b + k
  BY <1>0, <1>4
<1>6. /\ b + k <= Len(f)
      /\ wire' = IF receiver \in shut[c] THEN wire
                 ELSE [wire EXCEPT ![c] = @ \o SubSeq(f, b + 1, b + k)]
      /\ IF b + k = Len(f)
           THEN sent' = [sent EXCEPT ![c] = Append(@, p)] /\ packet' = NoPacket /\ written' = 0
           ELSE written' = written + k /\ UNCHANGED <<sent, packet>>
  BY <1>1, <1>3, <1>5 DEF SendBytes, SendReturns
<1> QED
  BY <1>0, <1>1, <1>2, <1>3, <1>4, <1>6 DEF Sends

LEMMA InvSendBytes == ASSUME Inv, Typed', NEW k \in 1..WireBytes, SendBytes(k) PROVE Inv'
<1>0. Typed /\ Conns /\ k \in Nat \ {0} /\ Stays /\ UNCHANGED <<broken, pending, received>>
  BY SendProgress DEF Inv
<1>1. PICK c \in Connections, p \in Packets, f \in Seq(Bytes), b \in Nat : Sends(c, p, f, b, k)
  BY <1>0, SendProgress
<1>2. Len(f) \in Nat /\ b + k <= Len(f)
  BY <1>1, LenProperties DEF Sends
<1>3. PICK y \in Seq(Bytes) : y = SubSeq(f, b + 1, b + k)
  <2>1. \A i \in (b + 1)..(b + k) : f[i] \in Bytes
    BY <1>0, <1>2, ElementOfSeq
  <2>2. SubSeq(f, b + 1, b + k) \in Seq(Bytes)
    BY <1>0, <2>1, SubSeqProperties
  <2> QED
    BY <2>2
<1>4. PICK x \in Seq(Bytes) : x = Begun /\ x \o y = SubSeq(f, 1, b + k)
  <2>1. Begun = SubSeq(f, 1, b)
    BY <1>1 DEF Sends, Begun
  <2>2. 1 \in 1..(Len(f) + 1) /\ b \in (1 - 1)..Len(f) /\ b + k \in b..Len(f)
    BY <1>0, <1>2
  <2>3. SubSeq(f, 1, b) \o SubSeq(f, b + 1, b + k) = SubSeq(f, 1, b + k)
    BY <2>2, ConcatAdjacentSubSeq
  <2> QED
    BY <1>0, <1>3, <2>1, <2>3, BegunIs
<1>5. PICK w \in Seq(Bytes), a \in Seq(Bytes) :
        w = wire[c] /\ a = IF at[receiver] = c THEN pending.header \o pending.data ELSE <<>>
  <2>1. wire[c] \in Seq(Bytes)
    BY <1>0 DEF Typed, WireType
  <2>2. pending.header \o pending.data \in Seq(Bytes) /\ <<>> \in Seq(Bytes)
    BY <1>0, ConcatProperties, EmptyLen DEF Typed, ReceiveType
  <2> QED
    BY <2>1, <2>2
<1>6. PICK t \in Seq(Bytes) : t = InTransit(c)
  BY <1>0, InTransitType
<1>7. /\ \A d \in Connections : d # c => wire'[d] = wire[d] /\ sent'[d] = sent[d]
      /\ wire'[c] = IF receiver \in shut[c] THEN w ELSE w \o y
  BY <1>0, <1>1, <1>3, <1>5 DEF Sends, Typed, WireType, SendType
<1>8. \A d \in Connections : d # c => InTransit(d)' = InTransit(d)
  BY <1>0, <1>7, TransitSame
<1>9. InTransit(c)' = IF receiver \in shut[c] THEN t ELSE t \o y
  <2>1. (a \o w) \o y = a \o (w \o y)
    BY ConcatAssociative
  <2>2. t = a \o w
    BY <1>5, <1>6 DEF InTransit
  <2>3. InTransit(c)' = a \o wire'[c]
    BY <1>0, <1>5 DEF InTransit, Stays
  <2> QED
    BY <1>7, <2>1, <2>2, <2>3
<1>10. ASSUME receiver \in shut[c] PROVE t = <<>>
  <2>1. at[receiver] # c /\ wire[c] = <<>>
    BY <1>0, <1>10 DEF Conns, Typed, NetworkType
  <2>2. <<>> \o <<>> = <<>>
    BY EmptyLen, ConcatEmptySeq
  <2> QED
    BY <1>6, <2>1, <2>2 DEF InTransit
<1>11. ASSUME receiver \notin shut[c] PROVE Carried(received[c], sent'[c], InTransit(c)', Begun', <<>>)
  <2>1. Carried(received[c], sent[c], t, x, <<>>)
    BY <1>1, <1>4, <1>6, <1>11 DEF Inv, Exact, Sends
  <2>2. Carried(received[c], sent[c], t \o y, SubSeq(f, 1, b + k), <<>>)
    BY <1>4, <2>1, CarriedMore
  <2>3. InTransit(c)' = t \o y /\ t \o y \in Seq(Bytes)
    BY <1>9, <1>11, ConcatProperties
  <2>4. CASE b + k = Len(f)
    <3>1. SubSeq(f, 1, b + k) = Frame(p)
      BY <1>1, <2>4, SubSeqFull DEF Sends
    <3>2. Carried(received[c], Append(sent[c], p), t \o y, <<>>, <<>>)
      BY <2>2, <2>3, <3>1, CarriedFrame
    <3>3. sent'[c] = Append(sent[c], p) /\ packet' = NoPacket
      BY <1>0, <1>1, <2>4 DEF Sends, Typed, SendType
    <3>4. Begun' = <<>>
      BY <3>3 DEF Begun
    <3> QED
      BY <2>3, <3>2, <3>3, <3>4
  <2>5. CASE b + k # Len(f)
    <3>1. written' = written + k /\ UNCHANGED <<sent, packet>>
      BY <1>1, <2>5 DEF Sends
    <3>2. packet'.pos + written' = b + k /\ packet' # NoPacket /\ Frame(packet'.of) = f
      BY <1>0, <1>1, <3>1 DEF Sends, Typed, SendType
    <3>3. Begun' = SubSeq(f, 1, b + k)
      BY <3>2 DEF Begun
    <3> QED
      BY <2>2, <2>3, <3>1, <3>3
  <2> QED
    BY <2>4, <2>5
<1>12. Stream(c)'
  <2>1. CASE receiver \in shut[c]
    <3>1. Stream(c) /\ InTransit(c)' = <<>> /\ InTransit(c) = <<>>
      BY <1>6, <1>9, <1>10, <2>1 DEF Inv, Streams
    <3>2. CASE sent'[c] = sent[c]
      BY <1>0, <3>1, <3>2, StreamSame
    <3>3. CASE sent'[c] = Append(sent[c], p)
      <4>1. PICK z \in Pieces, u \in Seq(Bytes) : Carried(received[c], sent[c], <<>>, z, u)
        BY <3>1 DEF Stream
      <4>2. PICK v \in Seq(Bytes) : Carried(received[c], Append(sent[c], p), <<>>, <<>>, v)
        BY <4>1, CarriedNowhere
      <4>3. <<>> \in Pieces
        BY DEF Pieces
      <4> QED
        BY <1>0, <3>1, <3>3, <4>2, <4>3 DEF Stream
    <3>4. sent'[c] = sent[c] \/ sent'[c] = Append(sent[c], p)
      BY <1>0, <1>1 DEF Sends, Typed, SendType
    <3> QED
      BY <3>2, <3>3, <3>4
  <2>2. CASE receiver \notin shut[c]
    <3>1. Begun' \in Pieces /\ <<>> \in Seq(Bytes)
      BY BegunTyped, EmptyLen
    <3> QED
      BY <1>0, <1>11, <2>2, <3>1 DEF Stream
  <2> QED
    BY <2>1, <2>2
<1>13. Streams'
  <2>1. ASSUME NEW d \in Connections, d # c PROVE Stream(d)'
    <3>1. Stream(d) /\ sent'[d] = sent[d] /\ received'[d] = received[d]
      BY <1>0, <1>7, <2>1 DEF Inv, Streams
    <3> QED
      BY <1>8, <2>1, <3>1, StreamSame
  <2> QED
    BY <1>12, <2>1 DEF Streams
<1>14. sender' = sender /\ at[sender] = c
  BY <1>0, <1>1, SenderKept DEF Stays, Sends
<1>15. Exact'
  <2> SUFFICES ASSUME NEW d \in Connections, d = c, receiver \notin shut[c]
               PROVE  Carried(received[d], sent'[d], InTransit(d)', Begun', <<>>)
    BY <1>0, <1>14 DEF Exact, Stays
  <2> QED
    BY <1>11
<1>16. Conns'
  <2>1. \A d \in Connections : Fresh(d) /\ d # at[sender] => Fresh(d)'
    BY <1>0, <1>7, <1>8, <1>14 DEF Fresh
  <2>2. \A d \in Connections : receiver \in shut[d] /\ wire[d] = <<>> => wire'[d] = <<>>
    BY <1>5, <1>7
  <2> QED
    BY <1>0, <2>1, <2>2, StaysConns
<1> QED
  BY <1>13, <1>15, <1>16 DEF Inv

LEMMA FourThen ==
  ASSUME NEW h \in Seq(Bytes), NEW d \in Seq(Bytes), NEW g \in Seq(Bytes), NEW r \in Seq(Bytes)
  PROVE  (h \o d) \o (g \o r) = (h \o (d \o g)) \o r
<1>1. h \o d \in Seq(Bytes) /\ d \o g \in Seq(Bytes)
  BY ConcatProperties
<1>2. (h \o d) \o (g \o r) = ((h \o d) \o g) \o r
  BY <1>1, ConcatAssociative
<1>3. (h \o d) \o g = h \o (d \o g)
  BY ConcatAssociative
<1> QED
  BY <1>2, <1>3

LEMMA EmptyThen ==
  ASSUME NEW h \in Seq(Bytes), NEW g \in Seq(Bytes), NEW r \in Seq(Bytes)
  PROVE  (h \o <<>>) \o (g \o r) = ((h \o g) \o <<>>) \o r
<1>1. h \o <<>> = h /\ h \o g \in Seq(Bytes)
  BY ConcatEmptySeq, ConcatProperties
<1>2. (h \o g) \o <<>> = h \o g
  BY <1>1, ConcatEmptySeq
<1>3. h \o (g \o r) = (h \o g) \o r
  BY ConcatAssociative
<1> QED
  BY <1>1, <1>2, <1>3

LEMMA ReadOthers ==
  ASSUME Typed, NEW c \in Connections, NEW got \in Seq(Bytes),
         NEW rest \in Seq(Bytes), NEW p, Reads(c, got, rest, p)
  PROVE  /\ wire[c] # <<>> /\ wire'[c] = rest
         /\ \A d \in Connections : d # c => wire'[d] = wire[d] /\ received'[d] = received[d]
<1>1. got \o rest # <<>>
  BY ConcatEqualIffEmpty DEF Reads
<1>2. received' = received \/ received' = [received EXCEPT ![c] = Append(@, Assembled(p))]
  BY DEF Reads, Progress
<1> QED
  BY <1>1, <1>2 DEF Reads, Typed, WireType, ReceiveType

\* What a ::recv() leaves of what connection c carried, and the packet it may complete
LEMMA ReadCarried ==
  ASSUME Typed, Stays, UNCHANGED sent, NEW c \in Connections, NEW got \in Seq(Bytes),
         NEW rest \in Seq(Bytes), NEW p, Reads(c, got, rest, p)
  PROVE  /\ InTransit(c) = (p.header \o p.data) \o rest
         /\ \/ /\ ~(Len(p.header) = HeaderBytes /\ Len(p.data) >= p.size)
               /\ received' = received /\ InTransit(c)' = InTransit(c)
            \/ /\ Len(p.header) = HeaderBytes /\ Len(p.data) \in SizesRead(p.header)
               /\ received' = [received EXCEPT ![c] = Append(@, Assembled(p))]
               /\ InTransit(c)' = rest
         /\ wire[c] # <<>> /\ wire'[c] = rest
         /\ \A d \in Connections : d # c => wire'[d] = wire[d] /\ received'[d] = received[d]
<1>1. PICK h \in Seq(Bytes), d \in Seq(Bytes) : h = pending.header /\ d = pending.data
  BY DEF Typed, ReceiveType
<1>2. c = at[receiver] /\ c = at'[receiver'] /\ wire[c] = got \o rest /\ wire'[c] = rest /\ got # <<>>
  BY DEF Reads, Stays, Typed, WireType
<1>3. InTransit(c) = (h \o d) \o (got \o rest)
  BY <1>1, <1>2 DEF InTransit
<1>4. p.header \in Seq(Bytes) /\ p.data \in Seq(Bytes) /\ p.size \in Sizes \cup {0}
  BY DEF Reads, Progressing
<1>5. InTransit(c) = (p.header \o p.data) \o rest
  <2>1. CASE Len(pending.header) = HeaderBytes
    <3>1. p.header = h /\ p.data = d \o got
      BY <1>1, <2>1 DEF Reads
    <3>2. (h \o d) \o (got \o rest) = (h \o (d \o got)) \o rest
      BY FourThen
    <3> QED
      BY <1>3, <3>1, <3>2
  <2>2. CASE Len(pending.header) # HeaderBytes
    <3>1. p.header = h \o got /\ p.data = <<>> /\ d = <<>>
      BY <1>1, <2>2 DEF Reads
    <3>2. (h \o <<>>) \o (got \o rest) = ((h \o got) \o <<>>) \o rest
      BY EmptyThen
    <3> QED
      BY <1>3, <3>1, <3>2
  <2> QED
    BY <2>1, <2>2
<1>6. CASE Len(p.header) = HeaderBytes /\ Len(p.data) >= p.size
  <2>1. pending' = NoPending /\ received' = [received EXCEPT ![c] = Append(@, Assembled(p))]
    BY <1>2, <1>6 DEF Reads, Progress
  <2>2. (<<>> \o <<>>) \o rest = rest
    BY EmptyLen, ConcatEmptySeq
  <2>3. InTransit(c)' = rest
    BY <1>2, <2>1, <2>2, NoPendingIs DEF InTransit
  <2>4. Len(p.data) = p.size /\ p.size \in SizesRead(p.header)
    <3>1. Len(p.data) \in Nat /\ p.size \in Nat
      BY <1>4, LenProperties, SizeIsNat
    <3>2. Len(p.data) <= p.size /\ p.size \in SizesRead(p.header)
      BY <1>6 DEF Reads, Progressing
    <3> QED
      BY <1>6, <3>1, <3>2
  <2> QED
    BY <1>2, <1>5, <1>6, <2>1, <2>3, <2>4, ReadOthers
<1>7. CASE ~(Len(p.header) = HeaderBytes /\ Len(p.data) >= p.size)
  <2>1. pending' = p /\ received' = received
    BY <1>7 DEF Reads, Progress
  <2>2. InTransit(c)' = (p.header \o p.data) \o rest
    BY <1>2, <2>1 DEF InTransit
  <2> QED
    BY <1>2, <1>5, <1>7, <2>1, <2>2, ReadOthers
<1> QED
  BY <1>6, <1>7

LEMMA InvRecvBytes == ASSUME Inv, Typed', NEW k \in 1..WireBytes, RecvBytes(k) PROVE Inv'
<1>0. Typed /\ Conns /\ Stays /\ UNCHANGED <<broken, status, sent, packet, written>>
  BY DEF Inv, RecvBytes, Stays, network, sending
<1>a. PICK c \in Connections, got \in Seq(Bytes), rest \in Seq(Bytes) : \E p : Reads(c, got, rest, p)
  BY <1>0, RecvProgress
<1>1. PICK p : Reads(c, got, rest, p)
  BY <1>a
<1>2. c = at[receiver] /\ p.header \in Seq(Bytes) /\ p.data \in Seq(Bytes)
  BY <1>1 DEF Reads, Progressing
<1>3. /\ InTransit(c) = (p.header \o p.data) \o rest
      /\ \/ received' = received /\ InTransit(c)' = InTransit(c)
         \/ /\ Len(p.header) = HeaderBytes /\ Len(p.data) \in SizesRead(p.header)
            /\ received' = [received EXCEPT ![c] = Append(@, Assembled(p))]
            /\ InTransit(c)' = rest
      /\ wire[c] # <<>>
      /\ \A d \in Connections : d # c => wire'[d] = wire[d] /\ received'[d] = received[d]
  BY <1>0, <1>1, ReadCarried
<1>4. \A d \in Connections : d # c => InTransit(d)' = InTransit(d)
  <2> SUFFICES ASSUME NEW d \in Connections, d # c PROVE InTransit(d)' = InTransit(d)
    OBVIOUS
  <2> QED
    BY <1>0, <1>2, <1>3 DEF InTransit, Stays
<1>5. ASSUME NEW x \in Pieces, NEW u \in Seq(Bytes), Carried(received[c], sent[c], InTransit(c), x, u)
      PROVE  Carried(received'[c], sent[c], InTransit(c)', x, u)
  <2>1. CASE received' = received /\ InTransit(c)' = InTransit(c)
    BY <1>5, <2>1
  <2>2. CASE /\ Len(p.header) = HeaderBytes /\ Len(p.data) \in SizesRead(p.header)
             /\ received' = [received EXCEPT ![c] = Append(@, Assembled(p))]
             /\ InTransit(c)' = rest
    <3>1. Carried(received[c], sent[c], (p.header \o p.data) \o rest, x, u)
      BY <1>3, <1>5
    <3>2. Carried(Append(received[c], Assembled(p)), sent[c], rest, x, u)
      BY <1>2, <2>2, <3>1, CarriedRead
    <3>3. received'[c] = Append(received[c], Assembled(p))
      BY <1>0, <2>2 DEF Typed, ReceiveType
    <3> QED
      BY <2>2, <3>2, <3>3
  <2> QED
    BY <1>3, <2>1, <2>2
<1>6. Streams'
  <2>1. PICK x \in Pieces, u \in Seq(Bytes) : Carried(received[c], sent[c], InTransit(c), x, u)
    BY DEF Inv, Streams, Stream
  <2>2. Carried(received'[c], sent'[c], InTransit(c)', x, u)
    BY <1>0, <1>5, <2>1
  <2>3. Stream(c)'
    BY <2>2 DEF Stream
  <2>4. ASSUME NEW d \in Connections, d # c PROVE Stream(d)'
    <3>1. Stream(d) /\ sent'[d] = sent[d] /\ received'[d] = received[d]
      BY <1>0, <1>3, <2>4 DEF Inv, Streams
    <3> QED
      BY <1>4, <2>4, <3>1, StreamSame
  <2> QED
    BY <2>3, <2>4 DEF Streams
<1>7. sender' = sender /\ Begun' = Begun /\ (Sendable' => Sendable)
  BY <1>0, SenderKept DEF Stays, Begun, Sendable
<1>8. Exact'
  <2> SUFFICES ASSUME NEW d \in Connections, d = at[sender], Sendable, d \notin broken,
                      receiver \notin shut[d]
               PROVE  Carried(received'[d], sent[d], InTransit(d)', Begun, <<>>)
    BY <1>0, <1>7 DEF Exact, Stays
  <2>1. Carried(received[d], sent[d], InTransit(d), Begun, <<>>)
    BY DEF Inv, Exact
  <2>2. CASE d = c
    BY <1>0, <1>5, <2>1, <2>2, BegunIs, EmptyLen
  <2>3. CASE d # c
    BY <1>3, <1>4, <2>1, <2>3
  <2> QED
    BY <2>2, <2>3
<1>9. Conns'
  <2>1. ~Fresh(c)
    <3>1. (p.header \o p.data) \o rest = <<>> => FALSE
      <4> SUFFICES ASSUME InTransit(c) = <<>> PROVE FALSE
        BY <1>3
      <4>1. InTransit(c) = (pending.header \o pending.data) \o wire[c]
        BY <1>2 DEF InTransit
      <4>2. pending.header \o pending.data \in Seq(Bytes) /\ wire[c] \in Seq(Bytes)
        BY <1>0, ConcatProperties DEF Typed, ReceiveType, WireType
      <4> QED
        <5>1. PICK a \in Seq(Bytes), w \in Seq(Bytes) : a = pending.header \o pending.data /\ w = wire[c]
          BY <4>2
        <5>2. a \o w = <<>> => w = <<>>
          BY ConcatEqualIffEmpty
        <5> QED
          BY <1>3, <4>1, <5>1, <5>2
    <3> QED
      BY <1>3, <3>1 DEF Fresh
  <2>2. \A d \in Connections : Fresh(d) /\ d # at[sender] => Fresh(d)'
    BY <1>0, <1>3, <1>4, <2>1 DEF Fresh
  <2>3. \A d \in Connections : receiver \in shut[d] /\ wire[d] = <<>> => wire'[d] = <<>>
    BY <1>3
  <2> QED
    BY <1>0, <2>2, <2>3, StaysConns
<1> QED
  BY <1>6, <1>8, <1>9 DEF Inv

LEMMA InvStep == ASSUME ~SocketReused PROVE Inv /\ [Next]_vars => Inv'
<1> SUFFICES ASSUME Inv, [Next]_vars PROVE Inv'
  OBVIOUS
<1>0. Typed /\ Typed'
  BY TypedStep DEF Inv
<1>1. ASSUME Stays, UNCHANGED <<wire, sending, pending, received>>, broken \subseteq broken' PROVE Inv'
  BY <1>0, <1>1, InvQuiet DEF sending, Sendable, Begun
<1>2. CASE UNCHANGED vars
  BY <1>1, <1>2 DEF vars, network, Stays
<1>3. ASSUME NEW ok \in BOOLEAN, Listen(ok) PROVE Inv'
  BY <1>1, <1>3 DEF Listen, Stays
<1>4. ASSUME NEW side \in Sides, SetBlocking(side) PROVE Inv'
  BY <1>1, <1>4 DEF SetBlocking, Stays, network
<1>5. ASSUME StartReceive PROVE Inv'
  BY <1>1, <1>5 DEF StartReceive, Stays, network
<1>6. ASSUME NEW s \in Statuses, RecvFails(s) PROVE Inv'
  BY <1>1, <1>6 DEF RecvFails, PendingAfter, Stays, network
<1> QED
  BY <1>0, <1>2, <1>3, <1>4, <1>5, <1>6, InvConnect, InvDisconnect, InvAccept, InvBreaks,
     InvStartSend, InvSendBytes, InvSendFails, InvRecvBytes
  DEF Next, Connecting, Sending, RecvAny, Receiving

LEMMA InvHolds == ASSUME ~SocketReused PROVE Spec => []Inv
<1>1. Init => Inv
  BY InitInv
<1>2. Inv /\ [Next]_vars => Inv'
  BY InvStep
<1> QED
  BY <1>1, <1>2, PTL DEF Spec

\* While a sender has met no error, its connection carries the frames of the packets sent and the
\* part of the next that send_pos_ and the running call account for, each byte once, whatever
\* Partial and NotReady calls, reconnections and interrupted receives came before: for packets,
\* buffers and chunks of any size, provided that accept() is never given a socket used before.
THEOREM Resumes == ASSUME ~SocketReused PROVE Spec => []ResumesWhereItStopped
BY InvHolds, ResumesFromInv, PTL
-----------------------------------------------------------------------------
(* TcpPackets implements PacketChannel *)

LEMMA SendsPacket ==
  ASSUME Inv, NEW k \in 1..WireBytes, SendBytes(k)
  PROVE  Channel!Next \/ UNCHANGED Channel!vars
<1>1. PICK c \in Connections, p \in Packets, f \in Seq(Bytes), b \in Nat : Sends(c, p, f, b, k)
  BY SendProgress DEF Inv
<1>2. received' = received
  BY SendProgress DEF Inv
<1>3. CASE b + k = Len(f)
  <2>1. sent' = [sent EXCEPT ![c] = Append(@, p)]
    BY <1>1, <1>3 DEF Sends
  <2>2. Channel!Send(c, p)
    BY <1>2, <2>1 DEF Channel!Send
  <2> QED
    BY <2>2 DEF Channel!Next
<1>4. CASE b + k # Len(f)
  BY <1>1, <1>2, <1>4 DEF Sends, Channel!vars
<1> QED
  BY <1>3, <1>4

LEMMA ReceivesPacket ==
  ASSUME Inv, NEW k \in 1..WireBytes, RecvBytes(k)
  PROVE  Channel!Next \/ UNCHANGED Channel!vars
<1>0. Typed /\ Stays /\ UNCHANGED sent
  BY DEF Inv, RecvBytes, Stays, network, sending
<1>a. PICK c \in Connections, got \in Seq(Bytes), rest \in Seq(Bytes) : \E p : Reads(c, got, rest, p)
  BY <1>0, RecvProgress
<1>1. PICK p : Reads(c, got, rest, p)
  BY <1>a
<1>2. p.header \in Seq(Bytes) /\ p.data \in Seq(Bytes)
  BY <1>1 DEF Reads, Progressing
<1>5. /\ InTransit(c) = (p.header \o p.data) \o rest
      /\ \/ /\ ~(Len(p.header) = HeaderBytes /\ Len(p.data) >= p.size)
            /\ received' = received /\ InTransit(c)' = InTransit(c)
         \/ /\ Len(p.header) = HeaderBytes /\ Len(p.data) \in SizesRead(p.header)
            /\ received' = [received EXCEPT ![c] = Append(@, Assembled(p))]
            /\ InTransit(c)' = rest
  BY <1>0, <1>1, ReadCarried
<1>3. CASE received' = received
  BY <1>0, <1>3 DEF Channel!vars
<1>4. CASE /\ Len(p.header) = HeaderBytes /\ Len(p.data) \in SizesRead(p.header)
           /\ received' = [received EXCEPT ![c] = Append(@, Assembled(p))]
  <2>1. PICK x \in Pieces, u \in Seq(Bytes) : Carried(received[c], sent[c], InTransit(c), x, u)
    BY DEF Inv, Streams, Stream
  <2>2. Carried(received[c], sent[c], (p.header \o p.data) \o rest, x, u)
    BY <1>5, <2>1
  <2>3. Len(received[c]) < Len(sent[c]) /\ sent[c][Len(received[c]) + 1] = Assembled(p)
    BY <1>2, <1>4, <2>2, CarriedRead
  <2>4. Channel!Receive(c)
    BY <1>0, <1>4, <2>3 DEF Channel!Receive
  <2> QED
    BY <2>4 DEF Channel!Next
<1> QED
  BY <1>3, <1>4, <1>5

\* On every connection the packets received are the packets sent, in order, none corrupted, lost
\* between two others or duplicated: a call of send() that writes the last byte of a packet is
\* PacketChannel's Send, a call of receive() that completes one its Receive, every other step of
\* either side, of the listener or of the network no step of it.
THEOREM Implements == ASSUME ~SocketReused PROVE Spec => ImplementsChannel
<1>1. Init => Channel!Init
  BY DEF Init, Channel!Init
<1>2. Inv /\ [Next]_vars => [Channel!Next]_Channel!vars
  <2> SUFFICES ASSUME Inv, [Next]_vars PROVE Channel!Next \/ UNCHANGED Channel!vars
    OBVIOUS
  <2>1. ASSUME UNCHANGED <<sent, received>> PROVE UNCHANGED Channel!vars
    BY <2>1 DEF Channel!vars
  <2>2. CASE UNCHANGED vars
    BY <2>1, <2>2 DEF vars, sending
  <2>3. CASE Connecting
    BY <2>1, <2>3 DEF Connecting, Listen, Connect, Disconnect, SetBlocking, Accept, Breaks,
                      NewConnection, sending
  <2>4. CASE Sending
    <3>1. ASSUME NEW n \in Sizes, StartSend(n) PROVE UNCHANGED Channel!vars
      BY <2>1, <3>1 DEF StartSend
    <3>2. ASSUME NEW s \in Statuses, SendFails(s) PROVE UNCHANGED Channel!vars
      BY <2>1, <3>2 DEF SendFails
    <3> QED
      BY <2>4, <3>1, <3>2, SendsPacket DEF Sending
  <2>5. CASE Receiving
    <3>1. CASE StartReceive
      BY <2>1, <3>1 DEF StartReceive, sending
    <3>2. ASSUME NEW s \in Statuses, RecvFails(s) PROVE UNCHANGED Channel!vars
      BY <2>1, <3>2 DEF RecvFails, sending
    <3> QED
      BY <2>5, <3>1, <3>2, ReceivesPacket DEF Receiving, RecvAny
  <2> QED
    BY <2>2, <2>3, <2>4, <2>5 DEF Next
<1>3. Spec => []Inv
  BY InvHolds
<1> QED
  BY <1>1, <1>2, <1>3, PTL DEF Spec, ImplementsChannel, Channel!Spec
-----------------------------------------------------------------------------
(* Datagrams. *)

Orders   == {Net!Request, Net!Command}
Readings == {Net!Data(n) : n \in Nat}

\* Sequences with one element more or less.
LEMMA RemoveAtIs ==
  ASSUME NEW S, NEW s \in Seq(S), NEW i \in 1..Len(s)
  PROVE  /\ RemoveAt(s, i) \in Seq(S) /\ Len(RemoveAt(s, i)) = Len(s) - 1
         /\ \A j \in 1..(Len(s) - 1) : RemoveAt(s, i)[j] = IF j < i THEN s[j] ELSE s[j + 1]
<1> DEFINE a == SubSeq(s, 1, i - 1)
           b == SubSeq(s, i + 1, Len(s))
<1>0. Len(s) \in Nat /\ \A j \in 1..Len(s) : s[j] \in S
  BY LenProperties, ElementOfSeq
<1>1. a \in Seq(S) /\ Len(a) = i - 1 /\ \A j \in 1..(i - 1) : a[j] = s[j]
  <2>1. \A j \in 1..(i - 1) : s[j] \in S
    BY <1>0
  <2> QED
    BY <1>0, <2>1, SubSeqProperties
<1>2. b \in Seq(S) /\ Len(b) = Len(s) - i /\ \A j \in 1..(Len(s) - i) : b[j] = s[j + i]
  <2>1. \A j \in (i + 1)..Len(s) : s[j] \in S
    BY <1>0
  <2> QED
    BY <1>0, <2>1, SubSeqProperties
<1>3. RemoveAt(s, i) = a \o b
  BY DEF RemoveAt
<1> HIDE DEF a, b
<1>4. /\ a \o b \in Seq(S) /\ Len(a \o b) = Len(a) + Len(b)
      /\ \A j \in 1..(Len(a) + Len(b)) : (a \o b)[j] = IF j <= Len(a) THEN a[j] ELSE b[j - Len(a)]
  BY <1>1, <1>2, ConcatProperties
<1>5. ASSUME NEW j \in 1..(Len(s) - 1) PROVE (a \o b)[j] = IF j < i THEN s[j] ELSE s[j + 1]
  <2>1. (a \o b)[j] = IF j <= i - 1 THEN a[j] ELSE b[j - (i - 1)]
    BY <1>0, <1>1, <1>2, <1>4
  <2>2. j <= i - 1 => a[j] = s[j]
    BY <1>0, <1>1
  <2>3. ~(j <= i - 1) => b[j - (i - 1)] = s[(j - (i - 1)) + i]
    BY <1>0, <1>2
  <2> QED
    BY <1>0, <2>1, <2>2, <2>3
<1> QED
  BY <1>0, <1>1, <1>2, <1>3, <1>4, <1>5

LEMMA InsertAtIs ==
  ASSUME NEW S, NEW s \in Seq(S), NEW i \in 1..Len(s), NEW e \in S
  PROVE  /\ InsertAt(s, i, e) \in Seq(S) /\ Len(InsertAt(s, i, e)) = Len(s) + 1
         /\ \A j \in 1..(Len(s) + 1) :
              InsertAt(s, i, e)[j] = IF j < i THEN s[j] ELSE IF j = i THEN e ELSE s[j - 1]
<1> DEFINE a == SubSeq(s, 1, i - 1)
           b == SubSeq(s, i, Len(s))
<1>0. Len(s) \in Nat /\ \A j \in 1..Len(s) : s[j] \in S
  BY LenProperties, ElementOfSeq
<1>1. a \in Seq(S) /\ Len(a) = i - 1 /\ \A j \in 1..(i - 1) : a[j] = s[j]
  <2>1. \A j \in 1..(i - 1) : s[j] \in S
    BY <1>0
  <2> QED
    BY <1>0, <2>1, SubSeqProperties
<1>2. b \in Seq(S) /\ Len(b) = Len(s) - i + 1 /\ \A j \in 1..(Len(s) - i + 1) : b[j] = s[j + i - 1]
  <2>1. \A j \in i..Len(s) : s[j] \in S
    BY <1>0
  <2> QED
    BY <1>0, <2>1, SubSeqProperties
<1>3. InsertAt(s, i, e) = a \o <<e>> \o b
  BY DEF InsertAt
<1>4. <<e>> \in Seq(S) /\ Len(<<e>>) = 1 /\ <<e>>[1] = e
  OBVIOUS
<1> HIDE DEF a, b
<1>5. /\ a \o <<e>> \in Seq(S) /\ Len(a \o <<e>>) = i
      /\ \A j \in 1..i : (a \o <<e>>)[j] = IF j < i THEN s[j] ELSE e
  BY <1>0, <1>1, <1>4, ConcatProperties
<1> DEFINE c == a \o <<e>>
<1> HIDE DEF c
<1>6. /\ c \o b \in Seq(S) /\ Len(c \o b) = Len(c) + Len(b)
      /\ \A j \in 1..(Len(c) + Len(b)) : (c \o b)[j] = IF j <= Len(c) THEN c[j] ELSE b[j - Len(c)]
  <2>1. c \in Seq(S) /\ b \in Seq(S)
    BY <1>2, <1>5 DEF c
  <2> QED
    BY <2>1, ConcatProperties
<1>7. ASSUME NEW j \in 1..(Len(s) + 1)
      PROVE  (c \o b)[j] = IF j < i THEN s[j] ELSE IF j = i THEN e ELSE s[j - 1]
  <2>1. (c \o b)[j] = IF j <= i THEN c[j] ELSE b[j - i]
    BY <1>0, <1>2, <1>5, <1>6 DEF c
  <2>2. j <= i => c[j] = IF j < i THEN s[j] ELSE e
    BY <1>0, <1>5 DEF c
  <2>3. ~(j <= i) => b[j - i] = s[(j - i) + i - 1]
    BY <1>0, <1>2
  <2> QED
    BY <1>0, <2>1, <2>2, <2>3
<1> QED
  <2>1. Len(c) = i /\ Len(b) = Len(s) - i + 1 /\ i \in Nat
    BY <1>0, <1>2, <1>5 DEF c
  <2>2. InsertAt(s, i, e) = c \o b
    BY <1>3 DEF c
  <2> QED
    BY <1>0, <1>6, <1>7, <2>1, <2>2

-----------------------------------------------------------------------------
\* The requests among s, by their places.
Asking(s) == {i \in 1..Len(s) : s[i] = Net!Request}
Asks(s)   == Cardinality(Asking(s))

LEMMA AskingFinite ==
  ASSUME NEW s \in Seq(Orders)
  PROVE  IsFiniteSet(Asking(s)) /\ Asks(s) \in Nat
<1>1. Len(s) \in Nat
  BY LenProperties
<1>2. IsFiniteSet(1..Len(s)) /\ Asking(s) \in SUBSET (1..Len(s))
  BY <1>1, FS_Interval DEF Asking
<1> QED
  BY <1>2, FS_Subset, FS_CardinalityType DEF Asks

\* There are no more places in S than in T, to which f sends them one by one.
LEMMA NoMore ==
  ASSUME NEW S, NEW T, IsFiniteSet(T), NEW f \in [S -> T], \A a, b \in S : f[a] = f[b] => a = b
  PROVE  IsFiniteSet(S) /\ Cardinality(S) <= Cardinality(T)
<1>1. f \in Injection(S, T)
  BY DEF Injection, IsInjective
<1> QED
  BY <1>1, FS_Injection

LEMMA AsksOne ==
  ASSUME NEW s \in Seq(Orders), NEW d \in Orders
  PROVE  Asks(Append(s, d)) = IF d = Net!Request THEN Asks(s) + 1 ELSE Asks(s)
<1> DEFINE t == Append(s, d)
<1>1. Len(s) \in Nat /\ Len(t) = Len(s) + 1 /\ t[Len(s) + 1] = d /\ \A i \in 1..Len(s) : t[i] = s[i]
  BY LenProperties, AppendProperties
<1> HIDE DEF t
<1>2. CASE d = Net!Request
  <2>1. Asking(t) = Asking(s) \cup {Len(s) + 1} /\ Len(s) + 1 \notin Asking(s)
    BY <1>1, <1>2 DEF Asking
  <2> QED
    BY <1>2, <2>1, AskingFinite, FS_AddElement DEF Asks, t
<1>3. CASE d # Net!Request
  <2>1. Asking(t) = Asking(s)
    BY <1>1, <1>3 DEF Asking
  <2> QED
    BY <1>3, <2>1 DEF Asks, t
<1> QED
  BY <1>2, <1>3

LEMMA AsksHead ==
  ASSUME NEW s \in Seq(Orders), s # <<>>
  PROVE  Asks(Tail(s)) <= IF Head(s) = Net!Request THEN Asks(s) - 1 ELSE Asks(s)
<1> DEFINE f == [i \in Asking(Tail(s)) |-> i + 1]
<1>1. /\ Len(s) \in Nat \ {0} /\ Len(Tail(s)) = Len(s) - 1 /\ Head(s) = s[1]
      /\ \A i \in 1..Len(Tail(s)) : Tail(s)[i] = s[i + 1]
  BY HeadTailProperties, LenProperties, EmptySeq
<1>2. f \in [Asking(Tail(s)) -> Asking(s) \ {1}] /\ \A a, b \in Asking(Tail(s)) : f[a] = f[b] => a = b
  BY <1>1 DEF Asking
<1>3. IsFiniteSet(Asking(s)) /\ Asks(s) \in Nat
  BY AskingFinite
<1>4. /\ IsFiniteSet(Asking(s) \ {1})
      /\ Cardinality(Asking(s) \ {1}) = IF Head(s) = Net!Request THEN Asks(s) - 1 ELSE Asks(s)
  <2>1. 1 \in Asking(s) <=> Head(s) = Net!Request
    BY <1>1 DEF Asking
  <2> QED
    BY <1>3, <2>1, FS_RemoveElement DEF Asks
<1> HIDE DEF f
<1>5. Cardinality(Asking(Tail(s))) <= Cardinality(Asking(s) \ {1})
  BY <1>2, <1>4, NoMore
<1> QED
  BY <1>4, <1>5 DEF Asks

LEMMA AsksLost ==
  ASSUME NEW s \in Seq(Orders), NEW i \in 1..Len(s)
  PROVE  Asks(RemoveAt(s, i)) <= Asks(s)
<1> DEFINE r == RemoveAt(s, i)
           f == [j \in Asking(r) |-> IF j < i THEN j ELSE j + 1]
<1>1. /\ Len(s) \in Nat /\ Len(r) = Len(s) - 1
      /\ \A j \in 1..Len(r) : r[j] = IF j < i THEN s[j] ELSE s[j + 1]
  BY RemoveAtIs, LenProperties
<1> HIDE DEF r
<1>2. f \in [Asking(r) -> Asking(s)] /\ \A a, b \in Asking(r) : f[a] = f[b] => a = b
  BY <1>1 DEF Asking
<1> HIDE DEF f
<1> QED
  BY <1>2, NoMore, AskingFinite DEF Asks, r

LEMMA AsksTwice ==
  ASSUME NEW s \in Seq(Orders), NEW i \in 1..Len(s)
  PROVE  Asks(InsertAt(s, i, s[i])) <= Asks(s) + 1
<1> DEFINE r == InsertAt(s, i, s[i])
           f == [j \in Asking(r) \ {i} |-> IF j < i THEN j ELSE j - 1]
<1>1. /\ Len(s) \in Nat /\ Len(r) = Len(s) + 1 /\ r \in Seq(Orders)
      /\ \A j \in 1..Len(r) : j # i => r[j] = IF j < i THEN s[j] ELSE s[j - 1]
  <2> DEFINE e == s[i]
  <2>1. e \in Orders /\ Len(s) \in Nat
    BY LenProperties, ElementOfSeq
  <2> HIDE DEF e
  <2>2. /\ InsertAt(s, i, e) \in Seq(Orders) /\ Len(InsertAt(s, i, e)) = Len(s) + 1
        /\ \A j \in 1..(Len(s) + 1) :
              InsertAt(s, i, e)[j] = IF j < i THEN s[j] ELSE IF j = i THEN e ELSE s[j - 1]
    BY ONLY <2>1, InsertAtIs, i \in 1..Len(s), s \in Seq(Orders)
  <2> QED
    BY <2>1, <2>2 DEF e
<1> HIDE DEF r
<1>2. f \in [Asking(r) \ {i} -> Asking(s)] /\ \A a, b \in Asking(r) \ {i} : f[a] = f[b] => a = b
  BY <1>1 DEF Asking
<1> HIDE DEF f
<1>3. Cardinality(Asking(r) \ {i}) <= Asks(s) /\ Asks(s) \in Nat
  BY <1>2, NoMore, AskingFinite DEF Asks
<1>4. Asks(r) <= Cardinality(Asking(r) \ {i}) + 1
  <2>1. IsFiniteSet(Asking(r)) /\ Asks(r) \in Nat
    BY <1>1, AskingFinite
  <2>2. Cardinality(Asking(r) \ {i}) = IF i \in Asking(r) THEN Cardinality(Asking(r)) - 1 ELSE Cardinality(Asking(r))
    BY <2>1, FS_RemoveElement
  <2> QED
    BY <2>1, <2>2 DEF Asks
<1>5. IsFiniteSet(Asking(r) \ {i}) /\ Cardinality(Asking(r) \ {i}) \in Nat /\ Asks(r) \in Nat
  BY <1>1, AskingFinite, FS_RemoveElement, FS_CardinalityType
<1> QED
  BY <1>3, <1>4, <1>5 DEF r

\* s with two neighbours changed round.
Swapped(s, i) == [s EXCEPT ![i] = s[i - 1], ![i - 1] = s[i]]

LEMMA SwappedIs ==
  ASSUME NEW S, NEW s \in Seq(S), NEW i \in 2..Len(s)
  PROVE  /\ Swapped(s, i) \in Seq(S) /\ Len(Swapped(s, i)) = Len(s)
         /\ \A j \in 1..Len(s) : Swapped(s, i)[j] = IF j = i THEN s[i - 1] ELSE IF j = i - 1 THEN s[i] ELSE s[j]
BY DEF Swapped

LEMMA AsksOvertaken ==
  ASSUME NEW s \in Seq(Orders), NEW i \in 2..Len(s)
  PROVE  Asks(Swapped(s, i)) <= Asks(s)
<1> DEFINE r == Swapped(s, i)
           f == [j \in Asking(r) |-> IF j = i THEN i - 1 ELSE IF j = i - 1 THEN i ELSE j]
<1>1. /\ Len(s) \in Nat /\ Len(r) = Len(s)
      /\ \A j \in 1..Len(s) : r[j] = IF j = i THEN s[i - 1] ELSE IF j = i - 1 THEN s[i] ELSE s[j]
  BY SwappedIs, LenProperties
<1> HIDE DEF r
<1>2. f \in [Asking(r) -> Asking(s)] /\ \A a, b \in Asking(r) : f[a] = f[b] => a = b
  BY <1>1 DEF Asking
<1> HIDE DEF f
<1> QED
  BY <1>2, NoMore, AskingFinite DEF Asks, r

LEMMA AsksDropped ==
  ASSUME NEW s \in Seq(Orders), NEW k \in 0..Len(s)
  PROVE  /\ SubSeq(s, k + 1, Len(s)) \in Seq(Orders)
         /\ Asks(SubSeq(s, k + 1, Len(s))) <= Asks(s)
<1> DEFINE r == SubSeq(s, k + 1, Len(s))
           f == [j \in Asking(r) |-> j + k]
<1>0. Len(s) \in Nat /\ \A j \in (k + 1)..Len(s) : s[j] \in Orders
  BY LenProperties, ElementOfSeq
<1>1. r \in Seq(Orders) /\ Len(r) = Len(s) - k /\ \A j \in 1..Len(r) : r[j] = s[j + k]
  BY <1>0, SubSeqProperties
<1> HIDE DEF r
<1>2. f \in [Asking(r) -> Asking(s)] /\ \A a, b \in Asking(r) : f[a] = f[b] => a = b
  BY <1>0, <1>1 DEF Asking
<1> HIDE DEF f
<1> QED
  BY <1>1, <1>2, NoMore, AskingFinite DEF Asks, r

-----------------------------------------------------------------------------
Orderly  == net["feeder"]  \* what is under way to the feeder
Answered == net["client"]  \* and to the client

\* How far the client may be behind; while it waits the answer it waits for counts.
Behind == IF waiting THEN faults + 1 ELSE faults

NetTypes ==
  /\ net = [h \in Net!Hosts |-> net[h]] /\ bound \in [Net!Hosts -> BOOLEAN]
  /\ Orderly \in Seq(Orders) /\ Answered \in Seq(Readings)
  /\ fresh \in BOOLEAN /\ waiting \in BOOLEAN /\ harmed \in BOOLEAN
  /\ asked \in 0..MaxRequests /\ sample \in 0..asked /\ lag \in 0..MaxRequests
  /\ answers \in Nat /\ faults \in 0..MaxFaults

\* Requests and answers under way are as many as the faults, and the one waited for.
Few == Asks(Orderly) + Len(Answered) <= Behind

\* The feeder's data would not be too old if it went behind the answers under way, and
\* those are not when their turn comes.
Recent == fresh => asked - sample + Len(Answered) <= Behind
Young  == \A i \in 1..Len(Answered) :
            Answered[i].sampled <= asked /\ asked - Answered[i].sampled + (i - 1) <= Behind

NetInv == NetTypes /\ Few /\ Recent /\ Young /\ LagIsBounded

LEMMA ReadingIs == \A d \in Readings : d.sampled \in Nat /\ d = Net!Data(d.sampled)
BY DEF Readings, Net!Data

LEMMA NetFacts == MaxRequests \in Nat /\ MaxFaults \in Nat
BY NetAssumption DEF Net!MelNetAssumption

LEMMA NetInit == Net!Init => NetInv
<1> SUFFICES ASSUME Net!Init PROVE NetInv
  OBVIOUS
<1>1. Orderly = <<>> /\ Answered = <<>> /\ net = [h \in Net!Hosts |-> net[h]]
  BY DEF Net!Init, Net!Hosts, Orderly, Answered
<1>2. <<>> \in Seq(Orders) /\ <<>> \in Seq(Readings) /\ Len(<<>>) = 0
  OBVIOUS
<1>3. Asks(<<>>) = 0
  <2>1. Asking(<<>>) = {}
    BY <1>2 DEF Asking
  <2> QED
    BY <2>1, FS_EmptySet DEF Asks
<1>4. NetTypes
  <2>1. 0 \in 0..MaxRequests /\ 0 \in 0..0 /\ 0 \in 0..MaxFaults
    BY NetFacts
  <2>2. Orderly \in Seq(Orders) /\ Answered \in Seq(Readings)
    BY <1>1, <1>2
  <2> QED
    BY <1>1, <2>1, <2>2 DEF Net!Init, NetTypes
<1>5. Len(Answered) = 0 /\ Asks(Orderly) = 0 /\ Behind = 0
  BY <1>1, <1>2, <1>3 DEF Net!Init, Behind
<1>6. Few /\ Recent /\ Young /\ LagIsBounded
  BY <1>5 DEF Net!Init, Few, Recent, Young, LagIsBounded, Net!LagIsBounded
<1> QED
  BY <1>4, <1>6 DEF NetInv

\* What is under way after a step that sends or receives.
LEMMA SentIs ==
  ASSUME NetTypes, NEW d
  PROVE  /\ LET n == Net!Sent(net, "client", d)
            IN  /\ n["client"] = Answered /\ n = [h \in Net!Hosts |-> n[h]]
                /\ n["feeder"] \in {Orderly, Append(Orderly, d)}
         /\ LET n == Net!Sent(net, "feeder", d)
            IN  /\ n["feeder"] = Orderly /\ n = [h \in Net!Hosts |-> n[h]]
                /\ n["client"] \in {Answered, Append(Answered, d)}
BY DEF NetTypes, Net!Sent, Net!Peer, Net!Hosts, Orderly, Answered

Numbers ==
  /\ Asks(Orderly) \in Nat /\ Len(Answered) \in Nat /\ Behind \in Nat
  /\ \A i \in 1..Len(Answered) : Answered[i].sampled \in Nat
  /\ asked \in Nat /\ sample \in Nat /\ lag \in Nat /\ faults \in Nat

LEMMA NetNumbers == NetTypes => Numbers
<1> SUFFICES ASSUME NetTypes PROVE Numbers
  OBVIOUS
<1>1. Asks(Orderly) \in Nat /\ Len(Answered) \in Nat
  BY AskingFinite, LenProperties DEF NetTypes
<1>2. Behind \in Nat
  BY NetFacts DEF NetTypes, Behind
<1>3. \A i \in 1..Len(Answered) : Answered[i].sampled \in Nat
  BY ElementOfSeq, ReadingIs DEF NetTypes
<1>4. asked \in Nat /\ sample \in Nat /\ lag \in Nat /\ faults \in Nat
  BY NetFacts DEF NetTypes
<1> QED
  BY <1>1, <1>2, <1>3, <1>4 DEF Numbers

LEMMA EvaluateStep == NetInv /\ Net!Evaluate => NetInv'
<1> SUFFICES ASSUME NetInv, Net!Evaluate PROVE NetInv'
  OBVIOUS
<1>1. /\ fresh' /\ sample' = asked
      /\ UNCHANGED <<net, bound, answers, asked, waiting, lag, faults, harmed, Orderly, Answered, Behind>>
  BY DEF Net!Evaluate, Net!client, Orderly, Answered, Behind
<1>2. NetTypes'
  BY <1>1, NetFacts DEF NetInv, NetTypes
<1>3. Few' /\ Recent' /\ Young'
  BY <1>1, <1>2, NetNumbers DEF NetInv, Numbers, Few, Recent, Young
<1> QED
  BY <1>1, <1>2, <1>3 DEF NetInv, LagIsBounded, Net!LagIsBounded

LEMMA AskStep == NetInv /\ Net!Ask => NetInv'
<1> SUFFICES ASSUME NetInv, Net!Ask PROVE NetInv'
  OBVIOUS
<1>1. /\ Answered' = Answered /\ net' = [h \in Net!Hosts |-> net'[h]]
      /\ Orderly' \in {Orderly, Append(Orderly, Net!Request)}
  BY SentIs DEF Net!Ask, NetInv, Orderly, Answered
<1>2. /\ Append(Orderly, Net!Request) \in Seq(Orders)
      /\ Asks(Append(Orderly, Net!Request)) = Asks(Orderly) + 1
  BY AsksOne DEF NetInv, NetTypes, Orders
<1>3. /\ ~waiting /\ waiting' /\ asked' = asked + 1 /\ asked < MaxRequests
      /\ harmed' \in BOOLEAN /\ UNCHANGED <<bound, sample, fresh, answers, lag, faults>>
  BY DEF Net!Ask, Net!feeder, NetInv, NetTypes
<1>4. /\ Asks(Orderly) \in Nat /\ Len(Answered) \in Nat /\ Behind \in Nat
      /\ \A i \in 1..Len(Answered) : Answered[i].sampled \in Nat
  BY NetNumbers DEF NetInv, Numbers
<1>5. Orderly' \in Seq(Orders) /\ Asks(Orderly') <= Asks(Orderly) + 1 /\ Asks(Orderly') \in Nat
  <2>1. Orderly \in Seq(Orders)
    BY DEF NetInv, NetTypes
  <2>2. CASE Orderly' = Orderly
    BY <1>4, <2>1, <2>2
  <2>3. CASE Orderly' = Append(Orderly, Net!Request)
    BY <1>2, <1>4, <2>3
  <2> QED
    BY <1>1, <2>2, <2>3
<1>6. Behind' = Behind + 1
  BY <1>3, NetFacts DEF Behind, NetInv, NetTypes
<1>7. NetTypes'
  BY <1>1, <1>3, <1>5, NetFacts DEF NetInv, NetTypes
<1>8. Few' /\ Recent'
  BY <1>1, <1>3, <1>4, <1>5, <1>6 DEF NetInv, NetTypes, Few, Recent
<1>9. ASSUME NEW i \in 1..Len(Answered)
      PROVE  Answered[i].sampled <= asked' /\ asked' - Answered[i].sampled + (i - 1) <= Behind'
  <2>1. Answered[i].sampled <= asked /\ asked - Answered[i].sampled + (i - 1) <= Behind
    BY DEF NetInv, Young
  <2>2. Answered[i].sampled \in Nat /\ i \in Nat /\ asked \in Nat
    BY <1>4, NetFacts DEF NetInv, NetTypes
  <2> QED
    BY <1>3, <1>4, <1>6, <2>1, <2>2
<1>10. Young'
  BY <1>1, <1>9 DEF Young
<1> QED
  BY <1>3, <1>7, <1>8, <1>10, NetFacts DEF NetInv, LagIsBounded, Net!LagIsBounded

\* A step that adds at most e to what is under way, and puts an answer back by at most
\* e places, is paid for if Behind grows by e.
LEMMA Paid ==
  ASSUME NetInv, NetTypes', NEW e \in Nat, Behind' >= Behind + e, faults' >= faults,
         fresh' => fresh /\ sample' = sample, asked' = asked, lag' = lag,
         Asks(Orderly') + Len(Answered') <= Asks(Orderly) + Len(Answered) + e,
         Len(Answered') <= Len(Answered) + e,
         \A j \in 1..Len(Answered') : \E i \in 1..Len(Answered) : Answered'[j] = Answered[i] /\ j <= i + e
  PROVE  NetInv'
<1>0. (NetTypes => Numbers)'
  BY NetNumbers, PTL
<1>1. Numbers /\ Numbers'
  BY <1>0, NetNumbers DEF NetInv
<1>7. Behind \in Nat /\ Behind' \in Nat /\ faults \in Nat /\ faults' \in Nat /\ lag \in Nat /\ asked \in Nat
  BY <1>1 DEF Numbers
<1>2. Few'
  BY <1>1 DEF NetInv, Few, Numbers
<1>3. Recent'
  BY <1>1 DEF NetInv, Recent, Numbers
<1>4. ASSUME NEW j \in 1..Len(Answered')
      PROVE  Answered'[j].sampled <= asked /\ asked - Answered'[j].sampled + (j - 1) <= Behind'
  <2>1. PICK i \in 1..Len(Answered) : Answered'[j] = Answered[i] /\ j <= i + e
    OBVIOUS
  <2>2. Answered[i].sampled <= asked /\ asked - Answered[i].sampled + (i - 1) <= Behind
    BY DEF NetInv, Young
  <2>3. Answered[i].sampled \in Nat /\ i \in Nat /\ j \in Nat
    BY <1>1, <2>1 DEF Numbers
  <2> QED
    BY <1>7, <2>1, <2>2, <2>3
<1>5. Young'
  BY <1>4 DEF Young
<1>6. LagIsBounded'
  <2>1. lag <= faults + 1
    BY DEF NetInv, LagIsBounded, Net!LagIsBounded
  <2>2. lag' = lag /\ faults' >= faults
    OBVIOUS
  <2>3. lag' <= faults' + 1
    <3>1. \A a, b, c \in Nat : a <= b + 1 /\ c >= b => a <= c + 1
      OBVIOUS
    <3> QED
      BY <1>7, <2>1, <2>2, <3>1
  <2> QED
    BY <2>3 DEF LagIsBounded, Net!LagIsBounded
<1> QED
  BY <1>2, <1>3, <1>5, <1>6 DEF NetInv

\* An answer stays where it was.
Stay == \A j \in 1..Len(Answered) : \E i \in 1..Len(Answered) : Answered[j] = Answered[i] /\ j <= i

LEMMA StayThere == NetTypes => Stay
<1> SUFFICES ASSUME NetTypes, NEW j \in 1..Len(Answered)
             PROVE  \E i \in 1..Len(Answered) : Answered[j] = Answered[i] /\ j <= i
  BY DEF Stay
<1>1. Len(Answered) \in Nat
  BY NetNumbers DEF Numbers
<1>2. Answered[j] = Answered[j] /\ j <= j
  BY <1>1
<1> QED
  BY <1>2

LEMMA OrderStep == NetInv /\ Net!Order => NetInv'
<1> SUFFICES ASSUME NetInv, Net!Order PROVE NetInv'
  OBVIOUS
<1>1. /\ Answered' = Answered /\ net' = [h \in Net!Hosts |-> net'[h]]
      /\ Orderly' \in {Orderly, Append(Orderly, Net!Command)}
  BY SentIs DEF Net!Order, NetInv, Orderly, Answered
<1>2. Append(Orderly, Net!Command) \in Seq(Orders) /\ Asks(Append(Orderly, Net!Command)) = Asks(Orderly)
  BY AsksOne DEF NetInv, NetTypes, Orders, Net!Command, Net!Request
<1>3. UNCHANGED <<bound, sample, fresh, answers, asked, waiting, lag, faults, harmed, Behind>>
  BY DEF Net!Order, Net!feeder, Net!client, Behind
<1>4. Orderly' \in Seq(Orders) /\ Asks(Orderly') = Asks(Orderly)
  BY <1>1, <1>2 DEF NetInv, NetTypes
<1>5. NetTypes'
  BY <1>1, <1>3, <1>4 DEF NetInv, NetTypes
<1>6. Numbers /\ Stay
  BY NetNumbers, StayThere DEF NetInv
<1>7. /\ Behind' >= Behind + 0 /\ Len(Answered') <= Len(Answered) + 0 /\ faults' >= faults
      /\ Asks(Orderly') + Len(Answered') <= Asks(Orderly) + Len(Answered) + 0
  BY <1>1, <1>3, <1>4, <1>6 DEF Numbers
<1>8. \A j \in 1..Len(Answered') : \E i \in 1..Len(Answered) : Answered'[j] = Answered[i] /\ j <= i + 0
  BY <1>1, <1>6 DEF Stay
<1> QED
  BY <1>3, <1>5, <1>7, <1>8, Paid

LEMMA ReceiveFailsStep == NetInv /\ Net!ReceiveFails => NetInv'
<1> SUFFICES ASSUME NetInv, Net!ReceiveFails PROVE NetInv'
  OBVIOUS
<1>1. /\ waiting /\ waiting' = FALSE /\ faults < MaxFaults /\ faults' = faults + 1
      /\ UNCHANGED <<net, bound, sample, fresh, answers, asked, lag, harmed, Orderly, Answered>>
  BY DEF Net!ReceiveFails, Net!Fault, Net!feeder, Orderly, Answered
<1>2. Numbers /\ Stay
  BY NetNumbers, StayThere DEF NetInv
<1>3. NetTypes'
  <2>1. faults + 1 \in 0..MaxFaults
    BY <1>1, NetFacts DEF NetInv, NetTypes
  <2> QED
    BY <1>1, <2>1 DEF NetInv, NetTypes
<1>4. Behind' = Behind
  BY <1>1 DEF Behind
<1>5. /\ Behind' >= Behind + 0 /\ Len(Answered') <= Len(Answered) + 0 /\ faults' >= faults
      /\ Asks(Orderly') + Len(Answered') <= Asks(Orderly) + Len(Answered) + 0
  BY <1>1, <1>2, <1>4 DEF Numbers
<1>6. \A j \in 1..Len(Answered') : \E i \in 1..Len(Answered) : Answered'[j] = Answered[i] /\ j <= i + 0
  BY <1>1, <1>2 DEF Stay
<1> QED
  BY <1>1, <1>3, <1>5, <1>6, Paid

\* A fault that adds something pays for it.
LEMMA FaultPays ==
  ASSUME NetInv, Net!Fault, waiting' = waiting
  PROVE  Behind' = Behind + 1 /\ faults' = faults + 1 /\ faults' \in 0..MaxFaults /\ faults' >= faults
BY NetFacts DEF Net!Fault, Behind, NetInv, NetTypes

\* At host h, f is what was under way to it.
Only(h, f) == net' = [net EXCEPT ![h] = f]

LEMMA OnlyAt ==
  ASSUME NetTypes, NEW h \in Net!Hosts, NEW f, Only(h, f)
  PROVE  /\ net' = [k \in Net!Hosts |-> net'[k]]
         /\ h = "feeder" => Orderly' = f /\ Answered' = Answered
         /\ h = "client" => Orderly' = Orderly /\ Answered' = f
         /\ h \in {"feeder", "client"}
BY DEF NetTypes, Only, Net!Hosts, Orderly, Answered

LEMMA LoseStep ==
  ASSUME NetInv, NEW h \in Net!Hosts, NEW i, Net!Lose(h, i)
  PROVE  NetInv'
<1>1. /\ i \in DOMAIN net[h] /\ harmed' = TRUE /\ Only(h, RemoveAt(net[h], i))
      /\ UNCHANGED <<bound, sample, fresh, answers, asked, waiting, lag, faults, Behind>>
  <2>1. i \in DOMAIN net[h] /\ harmed' = TRUE /\ Only(h, RemoveAt(net[h], i))
    BY DEF Net!Lose, Only, Net!RemoveAt, RemoveAt
  <2>2. UNCHANGED <<bound, sample, fresh, answers, asked, waiting, lag, faults>>
    BY DEF Net!Lose, Net!feeder, Net!client
  <2> QED
    BY <2>1, <2>2 DEF Behind
<1>2. Numbers /\ Stay
  BY NetNumbers, StayThere DEF NetInv
<1>3. CASE h = "feeder"
  <2>1. Orderly' = RemoveAt(Orderly, i) /\ Answered' = Answered /\ i \in 1..Len(Orderly)
    BY <1>1, <1>3, OnlyAt DEF Orderly, NetInv, NetTypes
  <2>2. Orderly' \in Seq(Orders) /\ Asks(Orderly') <= Asks(Orderly)
    BY <2>1, RemoveAtIs, AsksLost DEF NetInv, NetTypes
  <2>3. NetTypes'
    BY <1>1, <2>1, <2>2, OnlyAt DEF NetInv, NetTypes
  <2>4. Numbers'
    <3>1. (NetTypes => Numbers)'
      BY NetNumbers, PTL
    <3> QED
      BY <2>3, <3>1
  <2>5. /\ Behind' >= Behind + 0 /\ Len(Answered') <= Len(Answered) + 0 /\ faults' >= faults
        /\ Asks(Orderly') + Len(Answered') <= Asks(Orderly) + Len(Answered) + 0
    BY <1>1, <1>2, <2>1, <2>2, <2>4 DEF Numbers
  <2>6. \A j \in 1..Len(Answered') : \E k \in 1..Len(Answered) : Answered'[j] = Answered[k] /\ j <= k + 0
    BY <1>2, <2>1 DEF Stay
  <2> QED
    BY <1>1, <2>3, <2>5, <2>6, Paid
<1>4. CASE h = "client"
  <2>1. Orderly' = Orderly /\ Answered' = RemoveAt(Answered, i) /\ i \in 1..Len(Answered)
    BY <1>1, <1>4, OnlyAt DEF Answered, NetInv, NetTypes
  <2>2. /\ Answered' \in Seq(Readings) /\ Len(Answered') = Len(Answered) - 1
        /\ \A j \in 1..(Len(Answered) - 1) : Answered'[j] = IF j < i THEN Answered[j] ELSE Answered[j + 1]
    BY <2>1, RemoveAtIs DEF NetInv, NetTypes
  <2>3. NetTypes'
    BY <1>1, <2>1, <2>2, OnlyAt DEF NetInv, NetTypes
  <2>4. /\ Behind' >= Behind + 0 /\ Len(Answered') <= Len(Answered) + 0 /\ faults' >= faults
        /\ Asks(Orderly') + Len(Answered') <= Asks(Orderly) + Len(Answered) + 0
    BY <1>1, <1>2, <2>1, <2>2 DEF Numbers
  <2>5. ASSUME NEW j \in 1..Len(Answered')
        PROVE  \E k \in 1..Len(Answered) : Answered'[j] = Answered[k] /\ j <= k + 0
    <3>1. Len(Answered) \in Nat
      BY <1>2 DEF Numbers
    <3>2. j \in 1..(Len(Answered) - 1)
      BY <2>2
    <3> QED
      BY <2>2, <3>1, <3>2
  <2> QED
    BY <1>1, <2>3, <2>4, <2>5, Paid
<1> QED
  BY <1>3, <1>4 DEF Net!Hosts

LEMMA DuplicateStep ==
  ASSUME NetInv, NEW h \in Net!Hosts, NEW i, Net!Duplicate(h, i)
  PROVE  NetInv'
<1>1. /\ i \in DOMAIN net[h] /\ Only(h, InsertAt(net[h], i, net[h][i])) /\ Net!Fault
      /\ UNCHANGED <<bound, sample, fresh, answers, asked, waiting, lag, harmed>>
  <2>1. i \in DOMAIN net[h] /\ Net!Fault
    BY DEF Net!Duplicate
  <2>2. Only(h, InsertAt(net[h], i, net[h][i]))
    BY DEF Net!Duplicate, Only, Net!InsertAt, InsertAt
  <2>3. UNCHANGED <<bound, sample, fresh, answers, asked, waiting, lag, harmed>>
    BY DEF Net!Duplicate, Net!feeder, Net!client
  <2> QED
    BY <2>1, <2>2, <2>3
<1>2. Numbers /\ Stay
  BY NetNumbers, StayThere DEF NetInv
<1>3. Behind' = Behind + 1 /\ faults' = faults + 1 /\ faults' \in 0..MaxFaults /\ faults' >= faults
  BY <1>1, FaultPays
<1>4. CASE h = "feeder"
  <2>1. Orderly' = InsertAt(Orderly, i, Orderly[i]) /\ Answered' = Answered /\ i \in 1..Len(Orderly)
    BY <1>1, <1>4, OnlyAt DEF Orderly, NetInv, NetTypes
  <2>2. Orderly \in Seq(Orders) /\ Orderly[i] \in Orders
    BY <2>1, ElementOfSeq DEF NetInv, NetTypes
  <2>3. Orderly' \in Seq(Orders) /\ Asks(Orderly') <= Asks(Orderly) + 1
    BY <2>1, <2>2, InsertAtIs, AsksTwice
  <2>4. NetTypes'
    BY <1>1, <1>3, <2>1, <2>3, OnlyAt DEF NetInv, NetTypes
  <2>5. Numbers'
    <3>1. (NetTypes => Numbers)'
      BY NetNumbers, PTL
    <3> QED
      BY <2>4, <3>1
  <2>6. /\ Behind' >= Behind + 1 /\ Len(Answered') <= Len(Answered) + 1
        /\ Asks(Orderly') + Len(Answered') <= Asks(Orderly) + Len(Answered) + 1
    BY <1>3, <1>2, <2>1, <2>3, <2>5 DEF Numbers
  <2>7. \A j \in 1..Len(Answered') : \E k \in 1..Len(Answered) : Answered'[j] = Answered[k] /\ j <= k + 1
    BY <1>2, <2>1 DEF Stay, Numbers
  <2> QED
    BY <1>1, <1>3, <2>4, <2>6, <2>7, Paid
<1>5. CASE h = "client"
  <2>1. Orderly' = Orderly /\ Answered' = InsertAt(Answered, i, Answered[i]) /\ i \in 1..Len(Answered)
    BY <1>1, <1>5, OnlyAt DEF Answered, NetInv, NetTypes
  <2>2. Answered \in Seq(Readings) /\ Answered[i] \in Readings
    BY <2>1, ElementOfSeq DEF NetInv, NetTypes
  <2>3. /\ Answered' \in Seq(Readings) /\ Len(Answered') = Len(Answered) + 1
        /\ \A j \in 1..(Len(Answered) + 1) :
             Answered'[j] = IF j < i THEN Answered[j] ELSE IF j = i THEN Answered[i] ELSE Answered[j - 1]
    <3> DEFINE e == Answered[i]
    <3>1. Answered \in Seq(Readings) /\ e \in Readings /\ i \in 1..Len(Answered)
      BY <2>1, <2>2
    <3> HIDE DEF e
    <3>2. /\ InsertAt(Answered, i, e) \in Seq(Readings) /\ Len(InsertAt(Answered, i, e)) = Len(Answered) + 1
          /\ \A j \in 1..(Len(Answered) + 1) : InsertAt(Answered, i, e)[j] =
                IF j < i THEN Answered[j] ELSE IF j = i THEN e ELSE Answered[j - 1]
      BY <3>1, InsertAtIs
    <3> QED
      BY <2>1, <3>2 DEF e
  <2>4. NetTypes'
    BY <1>1, <1>3, <2>1, <2>3, OnlyAt DEF NetInv, NetTypes
  <2>5. /\ Behind' >= Behind + 1 /\ Len(Answered') <= Len(Answered) + 1
        /\ Asks(Orderly') + Len(Answered') <= Asks(Orderly) + Len(Answered) + 1
    BY <1>2, <1>3, <2>1, <2>3 DEF Numbers
  <2>6. ASSUME NEW j \in 1..Len(Answered')
        PROVE  \E k \in 1..Len(Answered) : Answered'[j] = Answered[k] /\ j <= k + 1
    <3>1. Len(Answered) \in Nat
      BY <1>2 DEF Numbers
    <3>2. j \in 1..(Len(Answered) + 1)
      BY <2>3
    <3> QED
      BY <2>1, <2>3, <3>1, <3>2
  <2> QED
    BY <1>1, <1>3, <2>4, <2>5, <2>6, Paid
<1> QED
  BY <1>4, <1>5 DEF Net!Hosts

LEMMA OvertakeStep ==
  ASSUME NetInv, NEW h \in Net!Hosts, NEW i, Net!Overtake(h, i)
  PROVE  NetInv'
<1>1. /\ i \in DOMAIN net[h] \ {1} /\ Only(h, Swapped(net[h], i)) /\ Net!Fault
      /\ UNCHANGED <<bound, sample, fresh, answers, asked, waiting, lag, harmed>>
  BY DEF Net!Overtake, Net!feeder, Net!client, Only, Swapped
<1>2. Numbers /\ Stay
  BY NetNumbers, StayThere DEF NetInv
<1>3. Behind' = Behind + 1 /\ faults' = faults + 1 /\ faults' \in 0..MaxFaults /\ faults' >= faults
  BY <1>1, FaultPays
<1>4. CASE h = "feeder"
  <2>1. Orderly' = Swapped(Orderly, i) /\ Answered' = Answered /\ i \in 2..Len(Orderly)
    BY <1>1, <1>4, OnlyAt DEF Orderly, NetInv, NetTypes
  <2>2. Orderly' \in Seq(Orders) /\ Asks(Orderly') <= Asks(Orderly)
    BY <2>1, SwappedIs, AsksOvertaken DEF NetInv, NetTypes
  <2>3. NetTypes'
    BY <1>1, <1>3, <2>1, <2>2, OnlyAt DEF NetInv, NetTypes
  <2>4. Numbers'
    <3>1. (NetTypes => Numbers)'
      BY NetNumbers, PTL
    <3> QED
      BY <2>3, <3>1
  <2>5. /\ Behind' >= Behind + 1 /\ Len(Answered') <= Len(Answered) + 1
        /\ Asks(Orderly') + Len(Answered') <= Asks(Orderly) + Len(Answered) + 1
    BY <1>3, <1>2, <2>1, <2>2, <2>4 DEF Numbers
  <2>6. \A j \in 1..Len(Answered') : \E k \in 1..Len(Answered) : Answered'[j] = Answered[k] /\ j <= k + 1
    BY <1>2, <2>1 DEF Stay, Numbers
  <2> QED
    BY <1>1, <1>3, <2>3, <2>5, <2>6, Paid
<1>5. CASE h = "client"
  <2>1. Orderly' = Orderly /\ Answered' = Swapped(Answered, i) /\ i \in 2..Len(Answered)
    BY <1>1, <1>5, OnlyAt DEF Answered, NetInv, NetTypes
  <2>2. /\ Answered' \in Seq(Readings) /\ Len(Answered') = Len(Answered)
        /\ \A j \in 1..Len(Answered) : Answered'[j] =
             IF j = i THEN Answered[i - 1] ELSE IF j = i - 1 THEN Answered[i] ELSE Answered[j]
    BY <2>1, SwappedIs DEF NetInv, NetTypes
  <2>3. NetTypes'
    BY <1>1, <1>3, <2>1, <2>2, OnlyAt DEF NetInv, NetTypes
  <2>4. /\ Behind' >= Behind + 1 /\ Len(Answered') <= Len(Answered) + 1
        /\ Asks(Orderly') + Len(Answered') <= Asks(Orderly) + Len(Answered) + 1
    BY <1>2, <1>3, <2>1, <2>2 DEF Numbers
  <2>5. ASSUME NEW j \in 1..Len(Answered')
        PROVE  \E k \in 1..Len(Answered) : Answered'[j] = Answered[k] /\ j <= k + 1
    <3>1. Len(Answered) \in Nat
      BY <1>2 DEF Numbers
    <3>2. j \in 1..Len(Answered)
      BY <2>2
    <3> QED
      BY <2>1, <2>2, <3>1, <3>2
  <2> QED
    BY <1>1, <1>3, <2>3, <2>4, <2>5, Paid
<1> QED
  BY <1>4, <1>5 DEF Net!Hosts

LEMMA RestartStep ==
  ASSUME NetInv, NEW h \in Net!Hosts, NEW ok \in BOOLEAN, Net!Restart(h, ok)
  PROVE  NetInv'
<1>0. Numbers /\ Orderly \in Seq(Orders) /\ Answered \in Seq(Readings)
  BY NetNumbers DEF NetInv, NetTypes
<1>1. /\ Net!Fault /\ bound' = [bound EXCEPT ![h] = ok]
      /\ fresh' = (fresh /\ h # "feeder") /\ waiting' = (waiting /\ h # "client") /\ harmed' = TRUE
      /\ UNCHANGED <<sample, answers, asked, lag>>
  BY DEF Net!Restart
<1>2. PICK k \in 0..Len(net[h]) : Only(h, SubSeq(net[h], k + 1, Len(net[h])))
  <2>1. PICK l \in 0..Len(net[h]) :
          Only(h, IF ok THEN SubSeq(net[h], l + 1, Len(net[h])) ELSE <<>>)
    BY DEF Net!Restart, Only
  <2>2. Len(net[h]) \in Nat
    BY <1>0, LenProperties DEF Net!Hosts, Orderly, Answered
  <2>3. SubSeq(net[h], Len(net[h]) + 1, Len(net[h])) = <<>>
    BY <2>2, SubSeqEmpty
  <2>4. CASE ok
    BY <2>1, <2>4
  <2>5. CASE ~ok
    <3>1. Only(h, <<>>)
      BY <2>1, <2>5
    <3>2. Only(h, SubSeq(net[h], Len(net[h]) + 1, Len(net[h])))
      BY <2>3, <3>1
    <3> QED
      BY <2>2, <3>2
  <2> QED
    BY <2>4, <2>5
<1>3. faults' = faults + 1 /\ faults' \in 0..MaxFaults /\ faults' >= faults /\ Behind' >= Behind + 0
  <2>1. faults' = faults + 1 /\ faults < MaxFaults /\ faults \in Nat
    BY <1>0, <1>1 DEF Net!Fault, Numbers
  <2>2. faults + 1 \in 0..MaxFaults /\ faults + 1 >= faults /\ faults + 2 >= faults /\ faults + 2 >= faults + 1
    BY <2>1, NetFacts
  <2>3. Behind' \in {faults + 1, faults + 2} /\ Behind \in {faults, faults + 1} /\ (Behind' = faults + 1 => Behind <= faults + 1)
    BY <1>1, <2>1 DEF Behind
  <2> QED
    BY <2>1, <2>2, <2>3
<1>4. fresh' \in BOOLEAN /\ waiting' \in BOOLEAN /\ bound' \in [Net!Hosts -> BOOLEAN]
  BY <1>1 DEF NetInv, NetTypes
<1>5. CASE h = "feeder"
  <2>1. /\ Orderly' = SubSeq(Orderly, k + 1, Len(Orderly)) /\ Answered' = Answered /\ k \in 0..Len(Orderly)
        /\ net' = [l \in Net!Hosts |-> net'[l]]
    BY <1>2, <1>5, OnlyAt DEF Orderly, NetInv
  <2>2. Orderly' \in Seq(Orders) /\ Asks(Orderly') <= Asks(Orderly)
    BY <1>0, <2>1, AsksDropped
  <2>3. NetTypes'
    BY <1>0, <1>1, <1>3, <1>4, <2>1, <2>2 DEF NetInv, NetTypes
  <2>4. Numbers'
    <3>1. (NetTypes => Numbers)'
      BY NetNumbers, PTL
    <3> QED
      BY <2>3, <3>1
  <2>5. /\ Len(Answered') <= Len(Answered) + 0
        /\ Asks(Orderly') + Len(Answered') <= Asks(Orderly) + Len(Answered) + 0
    BY <1>0, <2>1, <2>2, <2>4 DEF Numbers
  <2>6. \A j \in 1..Len(Answered') : \E i \in 1..Len(Answered) : Answered'[j] = Answered[i] /\ j <= i + 0
    BY <2>1, StayThere DEF Stay, NetInv
  <2> QED
    BY <1>1, <1>3, <2>3, <2>5, <2>6, Paid
<1>6. CASE h = "client"
  <2>1. /\ Answered' = SubSeq(Answered, k + 1, Len(Answered)) /\ Orderly' = Orderly /\ k \in 0..Len(Answered)
        /\ net' = [l \in Net!Hosts |-> net'[l]]
    BY <1>2, <1>6, OnlyAt DEF Answered, NetInv
  <2>2. /\ Answered' \in Seq(Readings) /\ Len(Answered') = Len(Answered) - k
        /\ \A j \in 1..(Len(Answered) - k) : Answered'[j] = Answered[j + k]
    <3>1. Len(Answered) \in Nat /\ \A j \in (k + 1)..Len(Answered) : Answered[j] \in Readings
      BY <1>0, ElementOfSeq DEF Numbers
    <3> QED
      BY <2>1, <3>1, SubSeqProperties
  <2>3. NetTypes'
    BY <1>0, <1>1, <1>3, <1>4, <2>1, <2>2 DEF NetInv, NetTypes
  <2>4. /\ Len(Answered') <= Len(Answered) + 0
        /\ Asks(Orderly') + Len(Answered') <= Asks(Orderly) + Len(Answered) + 0
    BY <1>0, <2>1, <2>2 DEF Numbers
  <2>5. ASSUME NEW j \in 1..Len(Answered')
        PROVE  \E i \in 1..Len(Answered) : Answered'[j] = Answered[i] /\ j <= i + 0
    <3>1. Len(Answered) \in Nat
      BY <1>0 DEF Numbers
    <3>2. j \in 1..(Len(Answered) - k) /\ j + k \in 1..Len(Answered) /\ j <= j + k + 0
      BY <2>1, <2>2, <3>1
    <3> QED
      BY <2>2, <3>2
  <2> QED
    BY <1>1, <1>3, <2>3, <2>4, <2>5, Paid
<1> QED
  BY <1>5, <1>6 DEF Net!Hosts

LEMMA ReceiveDataStep == NetInv /\ Net!ReceiveData => NetInv'
<1> SUFFICES ASSUME NetInv, Net!ReceiveData PROVE NetInv'
  OBVIOUS
<1>0. Numbers /\ Answered \in Seq(Readings)
  BY NetNumbers DEF NetInv, NetTypes
<1>1. /\ waiting /\ waiting' = FALSE /\ Answered # <<>> /\ lag' = asked - Head(Answered).sampled
      /\ Only("client", Tail(Answered))
      /\ UNCHANGED <<bound, sample, fresh, answers, asked, faults, harmed>>
  BY DEF Net!ReceiveData, Net!Arrived, Net!Received, Net!feeder, Answered, Only
<1>2. /\ Orderly' = Orderly /\ Answered' = Tail(Answered) /\ net' = [h \in Net!Hosts |-> net'[h]]
  BY <1>1, OnlyAt DEF NetInv, Net!Hosts
<1>3. /\ Answered' \in Seq(Readings) /\ Len(Answered) \in Nat \ {0} /\ Len(Answered') = Len(Answered) - 1
      /\ Head(Answered) = Answered[1] /\ \A j \in 1..(Len(Answered) - 1) : Answered'[j] = Answered[j + 1]
  BY <1>0, <1>1, <1>2, HeadTailProperties, EmptySeq, LenProperties
<1>4. /\ lag' \in 0..asked /\ lag' <= faults + 1
  <2>1. Answered[1].sampled <= asked /\ asked - Answered[1].sampled + (1 - 1) <= Behind /\ Answered[1].sampled \in Nat
    BY <1>0, <1>3 DEF NetInv, Young, Numbers
  <2> QED
    BY <1>0, <1>1, <1>3, <2>1 DEF Behind, Numbers
<1>5. NetTypes'
  <2>1. lag' \in 0..MaxRequests
    BY <1>0, <1>4, NetFacts DEF NetInv, NetTypes
  <2> QED
    BY <1>1, <1>2, <1>3, <2>1 DEF NetInv, NetTypes
<1>6. Behind = faults + 1 /\ Behind' = faults /\ faults \in Nat
  BY <1>0, <1>1 DEF Behind, Numbers
<1>7. Few' /\ Recent'
  BY <1>0, <1>1, <1>2, <1>3, <1>6 DEF NetInv, Few, Recent, Numbers
<1>8. ASSUME NEW j \in 1..Len(Answered')
      PROVE  Answered'[j].sampled <= asked /\ asked - Answered'[j].sampled + (j - 1) <= Behind'
  <2>1. j \in 1..(Len(Answered) - 1) /\ j + 1 \in 1..Len(Answered)
    BY <1>3
  <2>2. /\ Answered[j + 1].sampled <= asked /\ Answered[j + 1].sampled \in Nat
        /\ asked - Answered[j + 1].sampled + ((j + 1) - 1) <= Behind
    BY <1>0, <2>1 DEF NetInv, Young, Numbers
  <2>3. asked \in Nat /\ j \in Nat
    BY <1>0 DEF Numbers
  <2> QED
    BY <1>3, <1>6, <2>1, <2>2, <2>3
<1>9. Young'
  BY <1>1, <1>8 DEF Young
<1> QED
  BY <1>1, <1>4, <1>5, <1>7, <1>9 DEF NetInv, LagIsBounded, Net!LagIsBounded

LEMMA CheckRequestStep == NetInv /\ Net!CheckRequest => NetInv'
<1> SUFFICES ASSUME NetInv, Net!CheckRequest PROVE NetInv'
  OBVIOUS
<1>0. Numbers /\ Orderly \in Seq(Orders) /\ Answered \in Seq(Readings)
  BY NetNumbers DEF NetInv, NetTypes
<1>1. /\ fresh /\ fresh' = FALSE /\ UNCHANGED <<bound, sample, asked, waiting, lag, faults, harmed, Behind>>
      /\ answers' \in {answers, answers + 1} /\ answers' \in Nat
  BY DEF Net!CheckRequest, Net!client, Behind, NetInv, NetTypes
<1>2. /\ Behind' >= Behind + 0 /\ faults' >= faults
  BY <1>0, <1>1 DEF Numbers
<1>3. CASE net' = net
  <2>1. UNCHANGED <<net, Orderly, Answered>>
    BY <1>3 DEF Orderly, Answered
  <2>2. NetTypes'
    BY <1>1, <2>1 DEF NetInv, NetTypes
  <2>3. /\ Len(Answered') <= Len(Answered) + 0
        /\ Asks(Orderly') + Len(Answered') <= Asks(Orderly) + Len(Answered) + 0
    BY <1>0, <2>1 DEF Numbers
  <2>4. \A j \in 1..Len(Answered') : \E i \in 1..Len(Answered) : Answered'[j] = Answered[i] /\ j <= i + 0
    BY <2>1, StayThere DEF Stay, NetInv
  <2> QED
    BY <1>1, <1>2, <2>2, <2>3, <2>4, Paid
<1>4. ASSUME Net!Arrived("feeder") PROVE Orderly # <<>> /\ Tail(Orderly) \in Seq(Orders)
  BY <1>0, <1>4, HeadTailProperties DEF Net!Arrived, Orderly
<1>5. CASE Net!Arrived("feeder") /\ net' = Net!Received(net, "feeder")
  <2>1. Orderly' = Tail(Orderly) /\ Answered' = Answered /\ net' = [h \in Net!Hosts |-> net'[h]]
    BY <1>5 DEF Net!Received, Orderly, Answered, NetInv, NetTypes, Net!Hosts
  <2>2. NetTypes'
    BY <1>0, <1>1, <1>4, <1>5, <2>1 DEF NetInv, NetTypes
  <2>3. Numbers'
    <3>1. (NetTypes => Numbers)'
      BY NetNumbers, PTL
    <3> QED
      BY <2>2, <3>1
  <2>4. Asks(Orderly') <= IF Head(Orderly) = Net!Request THEN Asks(Orderly) - 1 ELSE Asks(Orderly)
    BY <1>0, <1>4, <1>5, <2>1, AsksHead
  <2>5. /\ Len(Answered') <= Len(Answered) + 0
        /\ Asks(Orderly') + Len(Answered') <= Asks(Orderly) + Len(Answered) + 0
    BY <1>0, <2>1, <2>3, <2>4 DEF Numbers
  <2>6. \A j \in 1..Len(Answered') : \E i \in 1..Len(Answered) : Answered'[j] = Answered[i] /\ j <= i + 0
    BY <2>1, StayThere DEF Stay, NetInv
  <2> QED
    BY <1>1, <1>2, <2>2, <2>5, <2>6, Paid
<1>6. CASE /\ Net!Arrived("feeder") /\ Net!IsRequest(Head(net["feeder"]))
           /\ net' = Net!Sent(Net!Received(net, "feeder"), "feeder", Net!Data(sample))
  <2> DEFINE d == Net!Data(sample)
  <2>1. Head(Orderly) = Net!Request
    BY <1>6 DEF Net!IsRequest, Orderly
  <2>2. /\ Orderly' = Tail(Orderly) /\ Answered' \in {Answered, Append(Answered, d)}
        /\ net' = [h \in Net!Hosts |-> net'[h]]
    BY <1>6 DEF Net!Received, Net!Sent, Net!Peer, Orderly, Answered, NetInv, NetTypes, Net!Hosts
  <2>3. d \in Readings /\ d.sampled = sample /\ sample \in Nat
    BY <1>0 DEF Readings, Net!Data, Numbers
  <2> HIDE DEF d
  <2>4. CASE Answered' = Append(Answered, d)
    <3>1. /\ Answered' \in Seq(Readings) /\ Len(Answered') = Len(Answered) + 1
          /\ Answered'[Len(Answered) + 1] = d /\ \A j \in 1..Len(Answered) : Answered'[j] = Answered[j]
      BY <1>0, <2>3, <2>4, AppendProperties
    <3>2. NetTypes'
      BY <1>0, <1>1, <1>4, <1>6, <2>2, <3>1 DEF NetInv, NetTypes
    <3>3. Numbers'
      <4>1. (NetTypes => Numbers)'
        BY NetNumbers, PTL
      <4> QED
        BY <3>2, <4>1
    <3>4. Asks(Orderly') <= Asks(Orderly) - 1
      BY <1>0, <1>4, <1>6, <2>1, <2>2, AsksHead
    <3>5. Few' /\ Recent'
      BY <1>0, <1>1, <3>1, <3>3, <3>4 DEF NetInv, Few, Recent, Numbers
    <3>6. ASSUME NEW j \in 1..Len(Answered')
          PROVE  Answered'[j].sampled <= asked /\ asked - Answered'[j].sampled + (j - 1) <= Behind
      <4>1. CASE j \in 1..Len(Answered)
        BY <3>1, <4>1 DEF NetInv, Young
      <4>2. CASE j = Len(Answered) + 1
        <5>1. asked - sample + Len(Answered) <= Behind /\ sample <= asked
          BY <1>1 DEF NetInv, Recent, NetTypes
        <5>2. asked - sample + ((Len(Answered) + 1) - 1) <= Behind
          BY <1>0, <5>1 DEF Numbers
        <5> QED
          BY <2>3, <3>1, <4>2, <5>1, <5>2
      <4>3. j \in 1..Len(Answered) \/ j = Len(Answered) + 1
        BY <1>0, <3>1 DEF Numbers
      <4> QED
        BY <4>1, <4>2, <4>3
    <3>7. Young'
      BY <1>1, <3>6 DEF Young
    <3> QED
      BY <1>1, <3>2, <3>5, <3>7 DEF NetInv, LagIsBounded, Net!LagIsBounded
  <2>5. CASE Answered' = Answered
    <3>1. NetTypes'
      BY <1>0, <1>1, <1>4, <1>6, <2>2, <2>5 DEF NetInv, NetTypes
    <3>2. Numbers'
      <4>1. (NetTypes => Numbers)'
        BY NetNumbers, PTL
      <4> QED
        BY <3>1, <4>1
    <3>3. Asks(Orderly') <= Asks(Orderly) - 1
      BY <1>0, <1>4, <1>6, <2>1, <2>2, AsksHead
    <3>4. /\ Len(Answered') <= Len(Answered) + 0
          /\ Asks(Orderly') + Len(Answered') <= Asks(Orderly) + Len(Answered) + 0
      BY <1>0, <2>5, <3>2, <3>3 DEF Numbers
    <3>5. \A j \in 1..Len(Answered') : \E i \in 1..Len(Answered) : Answered'[j] = Answered[i] /\ j <= i + 0
      BY <2>5, StayThere DEF Stay, NetInv
    <3> QED
      BY <1>1, <1>2, <3>1, <3>4, <3>5, Paid
  <2> QED
    BY <2>2, <2>4, <2>5
<1> QED
  BY <1>3, <1>5, <1>6 DEF Net!CheckRequest

LEMMA NetStep == NetInv /\ [Net!Next]_(Net!vars) => NetInv'
<1> SUFFICES ASSUME NetInv, [Net!Next]_(Net!vars) PROVE NetInv'
  OBVIOUS
<1>1. CASE UNCHANGED Net!vars
  BY <1>1 DEF Net!vars, Net!feeder, Net!client, NetInv, NetTypes, Orderly, Answered, Few, Recent, Young, Behind,
     LagIsBounded, Net!LagIsBounded
<1>2. CASE Net!Next
  BY <1>2, EvaluateStep, CheckRequestStep, AskStep, OrderStep, ReceiveDataStep, ReceiveFailsStep, LoseStep, DuplicateStep,
     OvertakeStep, RestartStep DEF Net!Next, Net!Faulty
<1> QED
  BY <1>1, <1>2

\* However many requests and faults there are, the data a client receives is as many
\* requests old as there were faults, and one; losses alone do not make it older.
THEOREM DataIsRecent == Net!Spec => []LagIsBounded
<1>1. NetInv => LagIsBounded
  BY DEF NetInv
<1> QED
  BY <1>1, NetInit, NetStep, PTL DEF Net!Spec

-----------------------------------------------------------------------------
(* The composite. *)

\* What a run of Packets explores are behaviours of the two components.
THEOREM Parts == PacketsSpec => Spec /\ Net!Init /\ [][Net!Next]_(Net!vars)
<1>1. PacketsInit => Init /\ Net!Init
  BY DEF PacketsInit
<1>2. [PacketsNext]_<<subject, vars, netVars>> => [Next]_vars /\ [Net!Next]_(Net!vars)
  BY DEF PacketsNext, netVars, Net!vars, Net!feeder, Net!client
<1> QED BY <1>1, <1>2, PTL DEF PacketsSpec, Spec
=============================================================================
