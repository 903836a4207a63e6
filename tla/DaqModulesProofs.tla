-------------------------- MODULE DaqModulesProofs --------------------------
(***************************************************************************)
(* Proofs about the modules of a DAQ.  Of Channels, for every set of       *)
(* channel numbers and every order of calls: types, Consistent, and that   *)
(* vectors and map implement a table (ImplementsTable).  Of MyRio, whose   *)
(* modules are the pins of connectors, for every set of connectors, pins   *)
(* and bits: FpgaAgrees, OwnedPinsKeepDirection and OnlyApartDrives.       *)
(***************************************************************************)
EXTENDS DaqModules, FiniteSetTheorems, SequenceTheorems, TLAPS

-----------------------------------------------------------------------------
(* Induction over the naturals, and the lists a loop pushes together. *)

Below == {p \in Nat \X Nat : p[1] < p[2]}

\* Induction, as a fact about sets: a set of numbers with 0 and every successor is Nat.
LEMMA SetInduction == ASSUME NEW T \in SUBSET Nat, 0 \in T, \A n \in T : n + 1 \in T
  PROVE T = Nat
<1> SUFFICES ASSUME Nat \ T # {} PROVE FALSE
  OBVIOUS
<1>1. IsWellFoundedOn(Below, Nat)
  BY NatLessThanWellFounded DEF OpToRel, Below
<1>2. PICK n \in Nat \ T : \A m \in Nat \ T : <<m, n>> \notin Below
  BY <1>1, WFMin
<1>3. n \in Nat /\ n \notin T /\ n # 0
  OBVIOUS
<1>4. n - 1 \in Nat /\ (n - 1) + 1 = n
  BY <1>3
<1>5. n - 1 \notin T
  BY <1>3, <1>4
<1>6. <<n - 1, n>> \in Below
  BY <1>3, <1>4 DEF Below
<1> QED BY <1>2, <1>4, <1>5, <1>6

\* f is the function that Sublist defines, up to n.
Pushes(f, list, chosen, n) ==
  /\ f = [i \in 0..n |-> f[i]]
  /\ \A i \in 0..n : f[i] = IF i = 0 THEN <<>>
                            ELSE IF i \in chosen THEN Append(f[i - 1], list[i]) ELSE f[i - 1]

LEMMA PushesLonger ==
  ASSUME NEW list, NEW chosen, NEW n \in Nat, NEW f, Pushes(f, list, chosen, n)
  PROVE  \E g : Pushes(g, list, chosen, n + 1)
<1>1. PICK g : g = [i \in 0..(n + 1) |->
                     IF i <= n THEN f[i]
                     ELSE IF i \in chosen THEN Append(f[n], list[i]) ELSE f[n]]
  OBVIOUS
<1>2. g = [i \in 0..(n + 1) |-> g[i]] /\ \A i \in 0..n : g[i] = f[i]
  BY <1>1
<1>3. ASSUME NEW i \in 0..(n + 1)
      PROVE  g[i] = IF i = 0 THEN <<>>
                    ELSE IF i \in chosen THEN Append(g[i - 1], list[i]) ELSE g[i - 1]
  <2>1. CASE i <= n
    <3>1. i \in 0..n /\ (i # 0 => i - 1 \in 0..n)
      BY <2>1
    <3>2. g[i] = f[i] /\ (i # 0 => g[i - 1] = f[i - 1])
      BY <1>2, <3>1
    <3> QED BY <3>1, <3>2 DEF Pushes
  <2>2. CASE i = n + 1
    <3>1. g[i - 1] = f[n] /\ i # 0
      BY <1>2, <2>2
    <3>2. g[i] = IF i \in chosen THEN Append(f[n], list[i]) ELSE f[n]
      BY <1>1, <2>2
    <3> QED BY <3>1, <3>2
  <2> QED BY <2>1, <2>2
<1> QED BY <1>2, <1>3 DEF Pushes

LEMMA SublistIs ==
  ASSUME NEW list, NEW chosen, Len(list) \in Nat
  PROVE  \E f : Pushes(f, list, chosen, Len(list)) /\ Sublist(list, chosen) = f[Len(list)]
<1> DEFINE T == {n \in Nat : \E f : Pushes(f, list, chosen, n)}
<1>1. 0 \in T
  <2>1. PICK f : f = [i \in 0..0 |-> <<>>]
    OBVIOUS
  <2>2. Pushes(f, list, chosen, 0)
    BY <2>1 DEF Pushes
  <2> QED BY <2>2
<1>2. \A n \in T : n + 1 \in T
  BY PushesLonger
<1>3. T \in SUBSET Nat /\ \A n \in T : \E f : Pushes(f, list, chosen, n)
  OBVIOUS
<1> HIDE DEF T
<1>4. \E f : Pushes(f, list, chosen, Len(list))
  BY <1>1, <1>2, <1>3, SetInduction
<1>5. \A f : Pushes(f, list, chosen, Len(list)) <=>
             f = [n \in 0..Len(list) |->
                    IF n = 0 THEN <<>>
                    ELSE IF n \in chosen THEN Append(f[n - 1], list[n]) ELSE f[n - 1]]
  BY DEF Pushes
<1> QED BY <1>4, <1>5 DEF Sublist

\* The chosen entries of a list without doubles, each once.
LEMMA SublistProperties ==
  ASSUME NEW S, NEW list \in Seq(S), IsInjective(list), NEW chosen \in SUBSET DOMAIN list
  PROVE  /\ Sublist(list, chosen) \in Seq(S)
         /\ IsInjective(Sublist(list, chosen))
         /\ ToSet(Sublist(list, chosen)) = {list[i] : i \in chosen}
<1>0. Len(list) \in Nat /\ DOMAIN list = 1..Len(list) /\ \A i \in 1..Len(list) : list[i] \in S
  BY LenProperties
<1>1. PICK f : Pushes(f, list, chosen, Len(list)) /\ Sublist(list, chosen) = f[Len(list)]
  BY <1>0, SublistIs
<1> DEFINE Part(n) == {list[i] : i \in {j \in chosen : j <= n}}
           Good(s, n) == s \in Seq(S) /\ IsInjective(s) /\ ToSet(s) = Part(n)
           T == {n \in Nat : n <= Len(list) => Good(f[n], n)}
<1>2. 0 \in T
  <2>1. f[0] = <<>>
    BY <1>0, <1>1 DEF Pushes
  <2>2. Part(0) = {}
    BY <1>0
  <2>3. Good(<<>>, 0)
    BY <2>2, EmptySeq DEF IsInjective, ToSet
  <2> QED BY <2>1, <2>3
<1>3. ASSUME NEW n \in T PROVE n + 1 \in T
  <2> SUFFICES ASSUME n + 1 <= Len(list) PROVE Good(f[n + 1], n + 1)
    OBVIOUS
  <2>0. n \in Nat /\ n <= Len(list) /\ n + 1 \in 1..Len(list)
    BY <1>0
  <2>1. PICK s : s = f[n]
    OBVIOUS
  <2>2. Good(s, n)
    BY <2>0, <2>1
  <2>3. f[n + 1] = IF n + 1 \in chosen THEN Append(s, list[n + 1]) ELSE s
    <3>1. n + 1 \in 0..Len(list) /\ n + 1 # 0 /\ (n + 1) - 1 = n
      BY <2>0
    <3> QED BY <1>1, <2>1, <3>1 DEF Pushes
  <2>4. CASE n + 1 \notin chosen
    <3>1. Part(n + 1) = Part(n)
      BY <1>0, <2>0, <2>4
    <3> QED BY <2>2, <2>3, <2>4, <3>1
  <2>5. CASE n + 1 \in chosen
    <3>1. Part(n + 1) = Part(n) \cup {list[n + 1]}
      BY <1>0, <2>0, <2>5
    <3>2. list[n + 1] \notin Part(n) /\ list[n + 1] \in S
      BY <1>0, <2>0 DEF IsInjective
    <3>3. PICK x, t : x = list[n + 1] /\ t = Append(s, x) /\ x \in S
      BY <3>2
    <3>4. /\ s \in Seq(S) /\ t \in Seq(S) /\ Len(s) \in Nat /\ Len(t) = Len(s) + 1
          /\ DOMAIN s = 1..Len(s) /\ DOMAIN t = 1..Len(t)
          /\ \A i \in 1..Len(s) : t[i] = s[i]
          /\ t[Len(s) + 1] = x
      BY <2>2, <3>3, AppendProperties, LenProperties
    <3>5. \A i \in 1..Len(s) : s[i] # x
      BY <2>2, <3>2, <3>3, <3>4 DEF ToSet
    <3>6. IsInjective(t)
      BY <2>2, <3>4, <3>5 DEF IsInjective
    <3>7. ToSet(t) = ToSet(s) \cup {x}
      BY <3>4 DEF ToSet
    <3> QED BY <2>2, <2>3, <2>5, <3>1, <3>3, <3>4, <3>6, <3>7
  <2> QED BY <2>4, <2>5
<1>4. T \in SUBSET Nat /\ (Len(list) \in T => Good(f[Len(list)], Len(list)))
  BY <1>0
<1>5. Part(Len(list)) = {list[i] : i \in chosen}
  BY <1>0
<1>6. T = Nat => Len(list) \in T
  BY <1>0
<1> HIDE DEF T
<1>7. Good(f[Len(list)], Len(list))
  BY <1>2, <1>3, <1>4, <1>6, SetInduction
<1> QED BY <1>1, <1>5, <1>7

-----------------------------------------------------------------------------
(* Maps and registries. *)

\* A list of channels without doubles.
Lists == {list \in Seq(Channels) : IsInjective(list)}

LEMMA MapOf ==
  ASSUME NEW list \in Lists
  PROVE  /\ Len(list) \in Nat /\ DOMAIN list = 1..Len(list)
         /\ DOMAIN ChannelMap(list) = ToSet(list)
         /\ \A i \in 1..Len(list) : list[i] \in ToSet(list) /\ ChannelMap(list)[list[i]] = i
         /\ \A c \in ToSet(list) : /\ ChannelMap(list)[c] \in 1..Len(list)
                                   /\ list[ChannelMap(list)[c]] = c
         /\ ToSet(list) \subseteq Channels
         /\ Cardinality(ToSet(list)) = Len(list)
<1>1. /\ Len(list) \in Nat /\ DOMAIN list = 1..Len(list) /\ IsInjective(list)
      /\ \A i \in 1..Len(list) : list[i] \in Channels
  BY LenProperties DEF Lists
<1>2. /\ DOMAIN ChannelMap(list) = ToSet(list) /\ ToSet(list) \subseteq Channels
      /\ \A i \in 1..Len(list) : list[i] \in ToSet(list)
  BY <1>1 DEF ChannelMap, ToSet
<1>3. ASSUME NEW i \in 1..Len(list) PROVE ChannelMap(list)[list[i]] = i
  <2>1. \A j \in DOMAIN list : list[j] = list[i] <=> j = i
    BY <1>1 DEF IsInjective
  <2>2. ChannelMap(list)[list[i]] =
          CHOOSE j \in DOMAIN list : list[j] = list[i] /\ \A k \in DOMAIN list : list[k] = list[i] => k <= j
    BY <1>2 DEF ChannelMap
  <2>3. \A j \in DOMAIN list :
          (list[j] = list[i] /\ \A k \in DOMAIN list : list[k] = list[i] => k <= j) <=> j = i
    BY <1>1, <2>1
  <2> QED BY <1>1, <2>2, <2>3
<1>4. ASSUME NEW c \in ToSet(list)
      PROVE  ChannelMap(list)[c] \in 1..Len(list) /\ list[ChannelMap(list)[c]] = c
  BY <1>1, <1>3 DEF ToSet
<1>5. Cardinality(ToSet(list)) = Len(list)
  <2>1. list \in Surjection(1..Len(list), ToSet(list)) /\ list \in Injection(1..Len(list), ToSet(list))
    <3>1. list \in [1..Len(list) -> ToSet(list)]
      BY <1>1, <1>2, LenProperties DEF Lists
    <3> QED BY <1>1, <3>1 DEF Surjection, Injection, IsInjective, ToSet
  <2>2. IsFiniteSet(1..Len(list)) /\ Cardinality(1..Len(list)) = Len(list)
    BY <1>1, FS_Interval
  <2> QED BY <2>1, <2>2, FS_Surjection
<1> QED BY <1>1, <1>2, <1>3, <1>4, <1>5

\* A rebuilt registry holds what the old one held of the channels that stay.
LEMMA RebuiltIs ==
  ASSUME NEW list \in Lists, NEW old, NEW vector, NEW default
  PROVE  Rebuilt(old, ChannelMap(list), vector, default) =
           [i \in 1..Len(list) |-> IF list[i] \in DOMAIN old THEN vector[old[list[i]]] ELSE default]
<1> DEFINE new == ChannelMap(list)
           kept == DOMAIN old \cap DOMAIN new
<1>1. DOMAIN new = ToSet(list) /\ Cardinality(DOMAIN new) = Len(list)
  BY MapOf
<1>2. \A i \in 1..Len(list) : list[i] \in ToSet(list) /\ \A c \in ToSet(list) : new[c] = i <=> c = list[i]
  BY MapOf
<1> HIDE DEF new
<1>3. ASSUME NEW i \in 1..Len(list)
      PROVE  (IF \E c \in kept : new[c] = i THEN vector[old[CHOOSE c \in kept : new[c] = i]] ELSE default)
             = IF list[i] \in DOMAIN old THEN vector[old[list[i]]] ELSE default
  <2>1. CASE list[i] \in DOMAIN old
    <3>1. \A c \in kept : new[c] = i <=> c = list[i]
      BY <1>1, <1>2
    <3>2. list[i] \in kept
      BY <1>1, <1>2, <2>1
    <3>3. (CHOOSE c \in kept : new[c] = i) = list[i]
      BY <3>1, <3>2
    <3> QED BY <2>1, <3>1, <3>2, <3>3
  <2>2. CASE list[i] \notin DOMAIN old
    BY <1>1, <1>2, <2>2
  <2> QED BY <2>1, <2>2
<1>4. Rebuilt(old, new, vector, default) =
        [i \in 1..Len(list) |-> IF \E c \in kept : new[c] = i
                                THEN vector[old[CHOOSE c \in kept : new[c] = i]] ELSE default]
  BY <1>1 DEF Rebuilt
<1> QED BY <1>3, <1>4 DEF new

\* The numbers picked for a direction are the channels that have it.
LEMMA PickedIs ==
  ASSUME NEW list \in Lists, NEW directions, NEW d
  PROVE  /\ Picked(list, directions, d) \in Lists
         /\ ToSet(Picked(list, directions, d)) =
              {c \in ToSet(list) : directions[ChannelMap(list)[c]] = d}
<1>1. PICK chosen \in SUBSET DOMAIN list : chosen = {i \in DOMAIN list : directions[i] = d}
  OBVIOUS
<1>2. /\ Sublist(list, chosen) \in Lists
      /\ ToSet(Sublist(list, chosen)) = {list[i] : i \in chosen}
  BY SublistProperties DEF Lists
<1>3. {list[i] : i \in chosen} = {c \in ToSet(list) : directions[ChannelMap(list)[c]] = d}
  BY <1>1, MapOf
<1> QED BY <1>1, <1>2, <1>3 DEF Picked

-----------------------------------------------------------------------------
(* The invariant. *)

\* Every registry is a vector with an entry for each channel.
Fits(k, n, rs) ==
  /\ rs = [r \in Stored(k) |-> rs[r]]
  /\ \A r \in Stored(k) : rs[r] \in [1..n -> Entries[r]]

Conversion == {Zero} \cup (Units \X Factors)

Shape ==
  /\ kind \in {"io", "encoder"}
  /\ numbers \in Lists
  /\ map = ChannelMap(numbers)
  /\ Fits(kind, Len(numbers), regs)
  /\ conversions \in IF kind = "encoder" THEN [1..Len(numbers) -> Conversion] ELSE {<<>>}
  /\ inputs \in Lists /\ outputs \in Lists
  /\ enabled \in BOOLEAN
  /\ computed \subseteq ToSet(numbers)
  /\ kind = "io" => computed = {}

Inv == Shape /\ ListsFollowDirections /\ ConversionsCurrent

LEMMA Registers ==
  /\ \A k \in {"io", "encoder"} : "values" \in Stored(k) /\ Stored(k) \subseteq Registries
  /\ "directions" \in Stored("io") /\ {"units", "factors"} \subseteq Stored("encoder")
  /\ "units" \notin Stored("io") /\ "factors" \notin Stored("io")
  /\ "directions" \notin Stored("encoder")
  /\ \A k \in {"io", "encoder"} : "enable" \in Stored(k) <=> k = "io"
  /\ \A k \in {"io", "encoder"} : "disable" \in Stored(k) <=> k = "io"
  BY DEF Stored, Registries

LEMMA EntriesAre ==
  /\ \A r \in {"values", "enable", "disable"} : Entries[r] = {0, 1} /\ Default[r] = 0
  /\ Entries["directions"] = {"In", "Out"} /\ Default["directions"] = "In"
  /\ Entries["units"] = Units /\ Default["units"] = 1
  /\ Entries["factors"] = Factors /\ Default["factors"] = 4
  /\ \A r \in Registries : Default[r] \in Entries[r]
  /\ Default = [r \in Registries |-> Default[r]]
<1>1. \A r \in {"values", "enable", "disable", "directions", "units", "factors"} : r \in Registries
  BY DEF Registries, Stored
<1>2. /\ \A r \in {"values", "enable", "disable"} : Entries[r] = {0, 1} /\ Default[r] = 0
      /\ Entries["directions"] = {"In", "Out"} /\ Default["directions"] = "In"
      /\ Entries["units"] = Units /\ Default["units"] = 1
      /\ Entries["factors"] = Factors /\ Default["factors"] = 4
  BY <1>1 DEF Entries, Default
<1>3. \A r \in Registries : r \in {"values", "enable", "disable", "directions", "units", "factors"}
  BY DEF Registries, Stored
<1>4. \A r \in Registries : Default[r] \in Entries[r]
  BY <1>2, <1>3, ChannelsAssumption DEF ChannelsAssumption
<1>5. Default = [r \in Registries |-> Default[r]]
  BY DEF Default
<1> QED BY <1>2, <1>4, <1>5

\* What the properties are in an invariant state.
LEMMA InvGives == ASSUME Inv PROVE TypeOK /\ Consistent
<1> USE DEF Inv, Shape
<1>1. /\ Len(numbers) \in Nat /\ DOMAIN numbers = 1..Len(numbers)
      /\ DOMAIN map = ToSet(numbers)
      /\ \A i \in 1..Len(numbers) : map[numbers[i]] = i
      /\ \A c \in ToSet(numbers) : map[c] \in 1..Len(numbers)
  BY MapOf
<1>2. map \in [ToSet(numbers) -> 1..Len(numbers)]
  <2>1. map = [c \in ToSet(numbers) |-> map[c]]
    BY DEF ChannelMap
  <2> QED BY <1>1, <2>1
<1>3. ASSUME NEW r \in Stored(kind)
      PROVE  regs[r] \in Seq(Entries[r]) /\ Len(regs[r]) = Len(numbers)
  <2>1. regs[r] \in [1..Len(numbers) -> Entries[r]]
    BY <1>3 DEF Fits
  <2> QED BY <1>1, <2>1
<1>4. DOMAIN regs = Stored(kind)
  BY DEF Fits
<1>5. /\ conversions \in Seq({Zero} \cup (Units \X Factors))
      /\ kind = "encoder" => Len(conversions) = Len(numbers)
  <2>1. CASE kind = "encoder"
    <3>1. conversions \in [1..Len(numbers) -> Conversion]
      BY <2>1
    <3>2. conversions \in Seq(Conversion) /\ Len(conversions) = Len(numbers)
      BY <1>1, <3>1
    <3> QED BY <3>2 DEF Conversion
  <2>2. CASE kind = "io"
    BY <2>2
  <2> QED BY <2>1, <2>2
<1>6. TypeOK
  BY <1>2, <1>3, <1>4, <1>5 DEF TypeOK, Lists
<1>7. Aligned
  BY <1>1, <1>3, <1>5 DEF Aligned
<1> QED BY <1>6, <1>7 DEF Consistent

-----------------------------------------------------------------------------
(* Writes of one registry. *)

\* The table that a map and registries make.
TableOf(m, rs) ==
  [c \in DOMAIN m |-> [r \in Registries |-> IF r \in DOMAIN rs THEN rs[r][m[c]] ELSE Default[r]]]

\* The registries new are rs with the vector w for r, and what that makes true.
Written(k, n, rs, r, w, new) ==
  /\ k \in {"io", "encoder"} /\ Fits(k, n, rs)
  /\ r \in Stored(k) /\ w \in [1..n -> Entries[r]]
  /\ new = [rs EXCEPT ![r] = w]

OneColumn(m, rs, r, new) ==
  \A c \in DOMAIN m : \E v \in Entries[r] :
    TableOf(m, new)[c] = [TableOf(m, rs)[c] EXCEPT ![r] = v]

LEMMA WriteIs ==
  ASSUME NEW k, NEW list \in Lists, NEW rs, NEW r, NEW w, NEW new,
         Written(k, Len(list), rs, r, w, new)
  PROVE  /\ Fits(k, Len(list), new) /\ new[r] = w
         /\ \A q \in Stored(k) : q # r => new[q] = rs[q]
         /\ OneColumn(ChannelMap(list), rs, r, new)
<1>0. /\ k \in {"io", "encoder"} /\ Fits(k, Len(list), rs)
      /\ r \in Stored(k) /\ w \in [1..Len(list) -> Entries[r]]
      /\ new = [rs EXCEPT ![r] = w]
  BY DEF Written
<1>1. rs = [q \in Stored(k) |-> rs[q]] /\ \A q \in Stored(k) : rs[q] \in [1..Len(list) -> Entries[q]]
  BY <1>0 DEF Fits
<1>2. /\ new = [q \in Stored(k) |-> IF q = r THEN w ELSE rs[q]]
  BY <1>0, <1>1
<1>3. /\ DOMAIN new = Stored(k) /\ DOMAIN rs = Stored(k) /\ new[r] = w
      /\ \A q \in Stored(k) : q # r => new[q] = rs[q]
  BY <1>0, <1>1, <1>2
<1>4. Fits(k, Len(list), new)
  <2>1. new = [q \in Stored(k) |-> new[q]]
    BY <1>2
  <2>2. \A q \in Stored(k) : new[q] \in [1..Len(list) -> Entries[q]]
    BY <1>0, <1>1, <1>3
  <2> QED BY <2>1, <2>2 DEF Fits
<1>5. ASSUME NEW c \in DOMAIN ChannelMap(list)
      PROVE  \E v \in Entries[r] :
               TableOf(ChannelMap(list), new)[c] = [TableOf(ChannelMap(list), rs)[c] EXCEPT ![r] = v]
  <2>0. c \in ToSet(list)
    BY MapOf
  <2>1. PICK i \in 1..Len(list) : i = ChannelMap(list)[c]
    BY <2>0, MapOf
  <2>2. c \in DOMAIN ChannelMap(list) /\ r \in Registries
    BY <1>0, MapOf, Registers
  <2>3. PICK v \in Entries[r] : v = w[i]
    BY <1>0
  <2>4. /\ TableOf(ChannelMap(list), new)[c] =
             [q \in Registries |-> IF q \in Stored(k) THEN new[q][i] ELSE Default[q]]
        /\ TableOf(ChannelMap(list), rs)[c] =
             [q \in Registries |-> IF q \in Stored(k) THEN rs[q][i] ELSE Default[q]]
    BY <1>3, <2>1, <2>2 DEF TableOf
  <2>5. [q \in Registries |-> IF q \in Stored(k) THEN new[q][i] ELSE Default[q]] =
        [[q \in Registries |-> IF q \in Stored(k) THEN rs[q][i] ELSE Default[q]] EXCEPT ![r] = v]
    BY <1>0, <1>3, <2>2, <2>3
  <2> QED BY <2>3, <2>4, <2>5
<1> QED BY <1>3, <1>4, <1>5 DEF OneColumn

LEMMA WriteOf ==
  ASSUME NEW r, map' = map, OneColumn(map, regs, r, regs')
  PROVE  Table!Write(r)
  BY DEF Table!Write, Row, TableOf, OneColumn

\* A registry that is no scale and no direction is written.
LEMMA ValuesStep ==
  ASSUME ChannelsAssumption, Inv, NEW r \in {"values", "enable", "disable"} \cap Stored(kind),
         NEW w \in [1..Len(numbers) -> {0, 1}], regs' = [regs EXCEPT ![r] = w],
         enabled' \in BOOLEAN,
         UNCHANGED <<kind, numbers, map, conversions, inputs, outputs, computed>>
  PROVE  Inv' /\ Table!Write(r)
<1>1. Shape /\ ListsFollowDirections /\ ConversionsCurrent
  BY DEF Inv
<1>2. w \in [1..Len(numbers) -> Entries[r]]
  BY EntriesAre
<1>3. kind \in {"io", "encoder"} /\ numbers \in Lists /\ Fits(kind, Len(numbers), regs) /\ map = ChannelMap(numbers)
  BY <1>1 DEF Shape
<1>4. /\ Fits(kind, Len(numbers), regs')
      /\ \A q \in Stored(kind) : q # r => regs'[q] = regs[q]
      /\ OneColumn(map, regs, r, regs')
  <2>1. Written(kind, Len(numbers), regs, r, w, regs')
    BY <1>2, <1>3 DEF Written
  <2> QED BY <1>3, <2>1, WriteIs
<1>5. Shape'
  BY <1>1, <1>4 DEF Shape
<1>6. ListsFollowDirections'
  <2>1. kind = "io" => regs'.directions = regs.directions
    BY <1>4, Registers
  <2> QED BY <1>1, <2>1 DEF ListsFollowDirections
<1>7. ConversionsCurrent'
  <2>1. kind = "encoder" => regs'.units = regs.units /\ regs'.factors = regs.factors
    BY <1>4, Registers
  <2>2. kind = "io" => computed = {}
    BY <1>1 DEF Shape
  <2> QED BY <1>1, <1>3, <2>1, <2>2 DEF ConversionsCurrent
<1>8. Table!Write(r)
  BY <1>4, WriteOf
<1> QED BY <1>5, <1>6, <1>7, <1>8 DEF Inv

\* The directions are written and the channels sorted again.
LEMMA DirectionsStep ==
  ASSUME ChannelsAssumption, Inv, NEW w \in [1..Len(numbers) -> {"In", "Out"}], SetDirections(w)
  PROVE  Inv' /\ Table!Write("directions")
<1>1. Shape /\ ListsFollowDirections /\ ConversionsCurrent /\ kind = "io"
  BY DEF Inv, SetDirections
<1>2. /\ regs' = [regs EXCEPT !["directions"] = w]
      /\ inputs'  = Picked(numbers, regs'.directions, "In")
      /\ outputs' = Picked(numbers, regs'.directions, "Out")
      /\ UNCHANGED <<kind, numbers, map, conversions, enabled, computed>>
  BY <1>1 DEF SetDirections, SortInputOutput
<1>3. numbers \in Lists /\ Fits(kind, Len(numbers), regs) /\ map = ChannelMap(numbers)
  BY <1>1 DEF Shape
<1>4. Fits(kind, Len(numbers), regs') /\ OneColumn(map, regs, "directions", regs')
  <2>1. Written(kind, Len(numbers), regs, "directions", w, regs')
    BY <1>1, <1>2, <1>3, Registers, EntriesAre DEF Written
  <2> QED BY <1>3, <2>1, WriteIs
<1>5. /\ inputs' \in Lists /\ outputs' \in Lists
      /\ ToSet(inputs')  = {c \in DOMAIN map : regs'.directions[map[c]] = "In"}
      /\ ToSet(outputs') = {c \in DOMAIN map : regs'.directions[map[c]] = "Out"}
  <2>1. DOMAIN map = ToSet(numbers)
    BY <1>3, MapOf
  <2> QED BY <1>2, <1>3, <2>1, PickedIs
<1>6. Shape'
  BY <1>1, <1>2, <1>4, <1>5 DEF Shape
<1>7. ListsFollowDirections'
  BY <1>2, <1>5 DEF ListsFollowDirections, Lists
<1>8. ConversionsCurrent'
  <2>1. computed' = {}
    BY <1>1, <1>2 DEF Shape
  <2> QED BY <2>1 DEF ConversionsCurrent
<1>9. Table!Write("directions")
  BY <1>2, <1>4, WriteOf
<1> QED BY <1>6, <1>7, <1>8, <1>9 DEF Inv

\* The conversions computed from registries that fit are those of each channel.
LEMMA ComputedIs ==
  ASSUME NEW list \in Lists, NEW rs, Fits("encoder", Len(list), rs)
  PROVE  /\ Computed(list, ChannelMap(list), rs) \in [1..Len(list) -> Conversion]
         /\ \A c \in ToSet(list) : Computed(list, ChannelMap(list), rs)[ChannelMap(list)[c]]
                = <<rs.units[ChannelMap(list)[c]], rs.factors[ChannelMap(list)[c]]>>
<1>1. /\ rs.units \in [1..Len(list) -> Units] /\ rs.factors \in [1..Len(list) -> Factors]
  BY Registers, EntriesAre DEF Fits
<1>2. Computed(list, ChannelMap(list), rs) = [i \in 1..Len(list) |-> <<rs.units[i], rs.factors[i]>>]
  BY MapOf DEF Computed
<1>3. \A c \in ToSet(list) : ChannelMap(list)[c] \in 1..Len(list)
  BY MapOf
<1> QED BY <1>1, <1>2, <1>3 DEF Conversion

\* What a computation of all conversions leaves.
LEMMA Recomputed ==
  ASSUME Shape, kind = "encoder", Fits(kind, Len(numbers), regs'), ComputeConversions(regs'),
         enabled' \in BOOLEAN, UNCHANGED <<kind, numbers, map, inputs, outputs>>
  PROVE  Inv'
<1>1. numbers \in Lists /\ map = ChannelMap(numbers)
  BY DEF Shape
<1>2. /\ conversions' \in [1..Len(numbers) -> Conversion] /\ computed' = ToSet(numbers)
      /\ \A c \in ToSet(numbers) : conversions'[map[c]] = <<regs'.units[map[c]], regs'.factors[map[c]]>>
  BY <1>1, ComputedIs DEF ComputeConversions
<1>3. Shape'
  BY <1>2 DEF Shape
<1>4. ConversionsCurrent'
  BY <1>2 DEF ConversionsCurrent
<1> QED BY <1>3, <1>4 DEF Inv, ListsFollowDirections

LEMMA ScaleStep ==
  ASSUME ChannelsAssumption, Inv, NEW r \in {"units", "factors"},
         NEW w \in [1..Len(numbers) -> Entries[r]], SetScale(r, w)
  PROVE  Inv' /\ Table!Write(r)
<1>1. Shape /\ kind = "encoder" /\ kind' = "encoder"
  BY DEF Inv, SetScale
<1>2. /\ regs' = [regs EXCEPT ![r] = w] /\ ComputeConversions(regs')
      /\ UNCHANGED <<kind, numbers, map, enabled, inputs, outputs>>
  BY DEF SetScale
<1>3. numbers \in Lists /\ Fits(kind, Len(numbers), regs) /\ map = ChannelMap(numbers)
      /\ enabled \in BOOLEAN
  BY <1>1 DEF Shape
<1>4. Fits(kind, Len(numbers), regs') /\ OneColumn(map, regs, r, regs')
  <2>1. Written(kind, Len(numbers), regs, r, w, regs')
    BY <1>1, <1>2, <1>3, Registers DEF Written
  <2> QED BY <1>3, <2>1, WriteIs
<1>5. Inv'
  BY <1>1, <1>2, <1>3, <1>4, Recomputed
<1>6. Table!Write(r)
  BY <1>2, <1>4, WriteOf
<1> QED BY <1>5, <1>6

-----------------------------------------------------------------------------
(* Changes of the list. *)

\* The registries of the channels in the new list, and the table they make.
LEMMA ChangeIs ==
  ASSUME ChannelsAssumption,
         NEW k \in {"io", "encoder"}, NEW old \in Lists, NEW list \in Lists,
         NEW rs, Fits(k, Len(old), rs),
         NEW new, new = [r \in DOMAIN rs |-> Rebuilt(ChannelMap(old), ChannelMap(list), rs[r], Default[r])]
  PROVE  /\ Fits(k, Len(list), new)
         /\ \A r \in Stored(k) : \A c \in ToSet(list) :
              new[r][ChannelMap(list)[c]] = IF c \in ToSet(old) THEN rs[r][ChannelMap(old)[c]]
                                                               ELSE Default[r]
         /\ TableOf(ChannelMap(list), new) =
              [c \in ToSet(list) |-> IF c \in ToSet(old) THEN TableOf(ChannelMap(old), rs)[c]
                                                         ELSE Default]
<1>1. rs = [r \in Stored(k) |-> rs[r]] /\ \A r \in Stored(k) : rs[r] \in [1..Len(old) -> Entries[r]]
  BY DEF Fits
<1>2. PICK vector : vector = [r \in Stored(k) |-> [i \in 1..Len(list) |->
              IF list[i] \in ToSet(old) THEN rs[r][ChannelMap(old)[list[i]]] ELSE Default[r]]]
  OBVIOUS
<1>3. new = vector
  <2>1. ASSUME NEW r \in Stored(k)
        PROVE  Rebuilt(ChannelMap(old), ChannelMap(list), rs[r], Default[r]) = vector[r]
    <3>1. DOMAIN ChannelMap(old) = ToSet(old)
      BY MapOf
    <3> QED BY <1>2, <3>1, RebuiltIs
  <2>2. DOMAIN rs = Stored(k) /\ vector = [r \in Stored(k) |-> vector[r]]
    BY <1>1, <1>2
  <2> QED BY <2>1, <2>2
<1>4. /\ \A i \in 1..Len(list) : list[i] \in ToSet(list)
      /\ \A c \in ToSet(list) : ChannelMap(list)[c] \in 1..Len(list) /\ list[ChannelMap(list)[c]] = c
      /\ \A c \in ToSet(old) : ChannelMap(old)[c] \in 1..Len(old)
      /\ DOMAIN ChannelMap(list) = ToSet(list) /\ DOMAIN ChannelMap(old) = ToSet(old)
  BY MapOf
<1>5. \A r \in Stored(k) : r \in Registries /\ Default[r] \in Entries[r]
  BY Registers, EntriesAre
<1>6. Fits(k, Len(list), new)
  <2>1. ASSUME NEW r \in Stored(k) PROVE new[r] \in [1..Len(list) -> Entries[r]]
    BY <1>1, <1>2, <1>3, <1>4, <1>5
  <2>2. new = [r \in Stored(k) |-> new[r]]
    BY <1>2, <1>3
  <2> QED BY <2>1, <2>2 DEF Fits
<1>7. ASSUME NEW r \in Stored(k), NEW c \in ToSet(list)
      PROVE  new[r][ChannelMap(list)[c]] = IF c \in ToSet(old) THEN rs[r][ChannelMap(old)[c]]
                                                              ELSE Default[r]
  BY <1>2, <1>3, <1>4
<1>8. DOMAIN new = Stored(k) /\ DOMAIN rs = Stored(k)
  BY <1>1, <1>2, <1>3
<1>9. ASSUME NEW c \in ToSet(list)
      PROVE  [r \in Registries |-> IF r \in DOMAIN new THEN new[r][ChannelMap(list)[c]] ELSE Default[r]]
             = IF c \in ToSet(old) THEN TableOf(ChannelMap(old), rs)[c] ELSE Default
  <2>1. CASE c \in ToSet(old)
    <3>1. TableOf(ChannelMap(old), rs)[c] =
            [r \in Registries |-> IF r \in Stored(k) THEN rs[r][ChannelMap(old)[c]] ELSE Default[r]]
      BY <1>4, <1>8, <2>1 DEF TableOf
    <3> QED BY <1>7, <1>8, <2>1, <3>1
  <2>2. CASE c \notin ToSet(old)
    <3>1. [r \in Registries |-> IF r \in DOMAIN new THEN new[r][ChannelMap(list)[c]] ELSE Default[r]]
          = [r \in Registries |-> Default[r]]
      BY <1>7, <1>8, <2>2
    <3> QED BY <2>2, <3>1, EntriesAre
  <2> QED BY <2>1, <2>2
<1> QED BY <1>4, <1>6, <1>7, <1>9 DEF TableOf

\* Whatever the new list is, every channel that stays keeps its row.
LEMMA UpdateMapStep ==
  ASSUME ChannelsAssumption, Inv, NEW list \in Lists, UpdateMap(list)
  PROVE  Inv' /\ Table!Change(ToSet(list))
<1>0. Shape /\ ListsFollowDirections /\ ConversionsCurrent
  BY DEF Inv
<1>1. /\ numbers' = list /\ map' = ChannelMap(list)
      /\ regs' = [r \in DOMAIN regs |-> Rebuilt(map, ChannelMap(list), regs[r], Default[r])]
      /\ conversions' = IF kind = "encoder" THEN Rebuilt(map, ChannelMap(list), conversions, Zero)
                                            ELSE conversions
      /\ SortInputOutput(list, regs')
      /\ computed' = computed \cap ToSet(list)
      /\ UNCHANGED <<kind, enabled>>
  BY DEF UpdateMap
<1>2. /\ kind \in {"io", "encoder"} /\ numbers \in Lists /\ map = ChannelMap(numbers)
      /\ Fits(kind, Len(numbers), regs)
  BY <1>0 DEF Shape
<1>3. /\ Fits(kind, Len(list), regs')
      /\ \A r \in Stored(kind) : \A c \in ToSet(list) :
           regs'[r][map'[c]] = IF c \in ToSet(numbers) THEN regs[r][map[c]] ELSE Default[r]
      /\ TableOf(map', regs') =
           [c \in ToSet(list) |-> IF c \in ToSet(numbers) THEN TableOf(map, regs)[c] ELSE Default]
  BY <1>1, <1>2, ChangeIs
<1>4. kind = "encoder" =>
        /\ conversions' \in [1..Len(list) -> Conversion]
        /\ \A c \in ToSet(list) \cap ToSet(numbers) : conversions'[map'[c]] = conversions[map[c]]
  <2> SUFFICES ASSUME kind = "encoder"
               PROVE  /\ conversions' \in [1..Len(list) -> Conversion]
                      /\ \A c \in ToSet(list) \cap ToSet(numbers) :
                           conversions'[map'[c]] = conversions[map[c]]
    OBVIOUS
  <2>1. conversions \in [1..Len(numbers) -> Conversion]
    BY <1>0 DEF Shape
  <2>2. conversions' = [i \in 1..Len(list) |->
           IF list[i] \in ToSet(numbers) THEN conversions[map[list[i]]] ELSE Zero]
    <3>1. DOMAIN map = ToSet(numbers)
      BY <1>2, MapOf
    <3> QED BY <1>1, <1>2, <3>1, RebuiltIs
  <2>3. /\ \A c \in ToSet(list) : map'[c] \in 1..Len(list) /\ list[map'[c]] = c
        /\ \A c \in ToSet(numbers) : map[c] \in 1..Len(numbers)
    BY <1>1, <1>2, MapOf
  <2>4. Zero \in Conversion
    BY DEF Conversion
  <2> QED BY <2>1, <2>2, <2>3, <2>4
<1>5. kind = "io" => /\ inputs' \in Lists /\ outputs' \in Lists
                     /\ ToSet(inputs') = {c \in ToSet(list) : regs'.directions[map'[c]] = "In"}
                     /\ ToSet(outputs') = {c \in ToSet(list) : regs'.directions[map'[c]] = "Out"}
  BY <1>1, PickedIs DEF SortInputOutput
<1>6. inputs' \in Lists /\ outputs' \in Lists
  <2>1. kind # "io" => UNCHANGED <<inputs, outputs>>
    BY <1>1 DEF SortInputOutput
  <2> QED BY <1>0, <1>5, <2>1 DEF Shape
<1>7. Shape'
  <2>1. /\ enabled' \in BOOLEAN /\ computed' \subseteq ToSet(list)
        /\ kind = "io" => computed' = {} /\ conversions' = <<>>
    BY <1>0, <1>1 DEF Shape
  <2> QED BY <1>1, <1>2, <1>3, <1>4, <1>6, <2>1 DEF Shape
<1>8. ListsFollowDirections'
  <2>1. DOMAIN map' = ToSet(list)
    BY <1>1, MapOf
  <2> QED BY <1>1, <1>5, <2>1 DEF ListsFollowDirections, Lists
<1>9. ConversionsCurrent'
  <2> SUFFICES ASSUME NEW c \in computed'
               PROVE  conversions'[map'[c]] = <<regs'.units[map'[c]], regs'.factors[map'[c]]>>
    BY DEF ConversionsCurrent
  <2>1. c \in computed /\ c \in ToSet(list) /\ c \in ToSet(numbers) /\ kind = "encoder"
    BY <1>0, <1>1 DEF Shape
  <2>2. /\ conversions'[map'[c]] = conversions[map[c]]
        /\ conversions[map[c]] = <<regs.units[map[c]], regs.factors[map[c]]>>
    BY <1>0, <1>4, <2>1 DEF ConversionsCurrent
  <2>3. regs'.units[map'[c]] = regs.units[map[c]] /\ regs'.factors[map'[c]] = regs.factors[map[c]]
    BY <1>3, <2>1, Registers
  <2> QED BY <2>2, <2>3
<1>10. Table!Change(ToSet(list))
  <2>1. DOMAIN map = ToSet(numbers) /\ DOMAIN map' = ToSet(list)
    BY <1>1, <1>2, MapOf
  <2>2. /\ [c \in DOMAIN map |-> Row(c)] = TableOf(map, regs)
        /\ ([c \in DOMAIN map |-> Row(c)])' = TableOf(map', regs')
    BY DEF Row, TableOf
  <2>3. /\ DOMAIN TableOf(map', regs') = ToSet(list)
        /\ DOMAIN TableOf(map, regs) = ToSet(numbers)
    BY <2>1 DEF TableOf
  <2> QED BY <1>3, <2>2, <2>3 DEF Table!Change
<1> QED BY <1>7, <1>8, <1>9, <1>10 DEF Inv

LEMMA AscendingIsList ==
  ASSUME ChannelsAssumption, NEW S \in SUBSET Channels,
         NEW list \in Vectors(S, Cardinality(S)), Ascending(list)
  PROVE  list \in Lists
<1>1. IsFiniteSet(S) /\ Cardinality(S) \in Nat
  BY FS_Subset, FS_CardinalityType DEF ChannelsAssumption
<1>2. list \in [1..Cardinality(S) -> Channels] /\ DOMAIN list = 1..Cardinality(S)
  BY DEF Vectors
<1>3. \A i \in 1..Cardinality(S) : list[i] \in Nat
  BY <1>2 DEF ChannelsAssumption
<1>4. IsInjective(list)
  <2> SUFFICES ASSUME NEW i \in DOMAIN list, NEW j \in DOMAIN list, list[i] = list[j]
               PROVE  i = j
    BY DEF IsInjective
  <2>1. i \in Int /\ j \in Int /\ list[i] \in Nat /\ list[j] \in Nat
    BY <1>1, <1>2, <1>3
  <2>2. ~ (i < j) /\ ~ (j < i)
    BY <2>1 DEF Ascending
  <2> QED BY <2>1, <2>2
<1>5. list \in Seq(Channels)
  BY <1>1, <1>2
<1> QED BY <1>4, <1>5 DEF Lists

LEMMA AddedIsList ==
  ASSUME NEW list \in Lists, NEW c \in Channels, c \notin ToSet(list)
  PROVE  Added(list, c) \in Lists
<1>1. PICK t : t = Append(list, c)
  OBVIOUS
<1>2. /\ list \in Seq(Channels) /\ IsInjective(list) /\ Len(list) \in Nat /\ DOMAIN list = 1..Len(list)
  BY LenProperties DEF Lists
<1>3. /\ t \in Seq(Channels) /\ Len(t) = Len(list) + 1 /\ DOMAIN t = 1..(Len(list) + 1)
      /\ \A i \in 1..Len(list) : t[i] = list[i]
      /\ t[Len(list) + 1] = c
  BY <1>1, <1>2, AppendProperties, LenProperties
<1>4. \A i \in 1..Len(list) : list[i] # c
  BY <1>2 DEF ToSet
<1>5. IsInjective(t)
  BY <1>2, <1>3, <1>4 DEF IsInjective
<1> QED BY <1>1, <1>3, <1>5 DEF Added, Lists

LEMMA RemovedIsList ==
  ASSUME NEW list \in Lists, NEW c
  PROVE  Removed(list, c) \in Lists
<1>1. PICK chosen \in SUBSET DOMAIN list : chosen = {i \in DOMAIN list : list[i] # c}
  OBVIOUS
<1> QED BY <1>1, SublistProperties DEF Removed, Lists

-----------------------------------------------------------------------------
(* The theorems. *)

LEMMA InitInv == ASSUME ChannelsAssumption, Init PROVE Inv /\ Table!Init
<1>1. /\ numbers \in Lists /\ map = ChannelMap(numbers) /\ kind \in {"io", "encoder"}
      /\ regs = Fresh(kind, numbers) /\ enabled = FALSE
  BY DEF Init, ChannelsAssumption, Lists
<1>2. /\ Len(numbers) \in Nat /\ DOMAIN numbers = 1..Len(numbers)
      /\ DOMAIN map = ToSet(numbers) /\ ToSet(numbers) \subseteq Channels
      /\ \A c \in ToSet(numbers) : map[c] \in 1..Len(numbers)
  BY <1>1, MapOf
<1>3. regs = [r \in Stored(kind) |-> [i \in 1..Len(numbers) |-> Default[r]]]
  BY <1>1, <1>2 DEF Fresh
<1>4. Fits(kind, Len(numbers), regs)
  BY <1>1, <1>3, Registers, EntriesAre DEF Fits
<1>5. <<>> \in Lists /\ ToSet(<<>>) = {}
  BY EmptySeq DEF Lists, IsInjective, ToSet
<1>6. Inv
  <2>1. CASE kind = "io"
    <3>1. inputs = numbers /\ outputs = <<>> /\ conversions = <<>> /\ computed = {}
      BY <2>1 DEF Init
    <3>2. Shape
      BY <1>1, <1>4, <1>5, <2>1, <3>1 DEF Shape
    <3>3. \A c \in DOMAIN map : regs.directions[map[c]] = "In"
      BY <1>2, <1>3, <2>1, Registers, EntriesAre
    <3>4. ListsFollowDirections
      BY <1>1, <1>2, <1>5, <3>1, <3>3 DEF ListsFollowDirections, Lists
    <3> QED BY <3>1, <3>2, <3>4 DEF Inv, ConversionsCurrent
  <2>2. CASE kind = "encoder"
    <3>1. /\ inputs = <<>> /\ outputs = <<>> /\ computed = ToSet(numbers)
          /\ conversions = Computed(numbers, map, regs)
      BY <2>2 DEF Init
    <3>2. Shape
      BY <1>1, <1>4, <1>5, <2>2, <3>1, ComputedIs DEF Shape
    <3>3. ConversionsCurrent
      BY <1>1, <1>4, <2>2, <3>1, ComputedIs DEF ConversionsCurrent
    <3> QED BY <2>2, <3>2, <3>3 DEF Inv, ListsFollowDirections
  <2> QED BY <1>1, <2>1, <2>2
<1>7. Table!Init
  <2>1. ASSUME NEW c \in DOMAIN map PROVE Row(c) = Default
    <3>1. Row(c) = [r \in Registries |-> Default[r]]
      BY <1>2, <1>3, <2>1 DEF Row
    <3> QED BY <3>1, EntriesAre
  <2> QED BY <1>2, <2>1 DEF Table!Init
<1> QED BY <1>6, <1>7

\* A step that reads some channels into the values, from any vector of theirs.
LEMMA ReadingsAre ==
  ASSUME Shape, NEW vector, DOMAIN vector = 1..Len(numbers), NEW read, NEW v \in Readings(vector, read)
  PROVE  v \in [1..Len(numbers) -> {0, 1}]
  BY EntriesAre DEF Readings

LEMMA VectorsFit ==
  ASSUME Inv
  PROVE  /\ \A r \in Stored(kind) : /\ DOMAIN regs[r] = 1..Len(numbers)
                                    /\ regs[r] \in [1..Len(numbers) -> Entries[r]]
         /\ \A c \in DOMAIN map : map[c] \in 1..Len(numbers)
         /\ DOMAIN map = ToSet(numbers) /\ kind \in {"io", "encoder"} /\ numbers \in Lists
  BY MapOf DEF Inv, Shape, Fits

LEMMA HookStep ==
  ASSUME ChannelsAssumption, Inv, kind = "io", NEW r \in {"enable", "disable"},
         OutputHook(r), enabled' \in BOOLEAN, UNCHANGED <<kind, numbers, map, inputs, outputs>>
  PROVE  Inv' /\ Table!Write("values")
<1>1. PICK v \in Readings(regs[r], ToSet(inputs)) : regs' = [regs EXCEPT !["values"] = v]
  BY DEF OutputHook
<1>2. r \in Stored(kind) /\ "values" \in Stored(kind)
  BY Registers
<1>3. v \in [1..Len(numbers) -> {0, 1}]
  BY <1>2, ReadingsAre, VectorsFit DEF Inv
<1> QED BY <1>1, <1>2, <1>3, ValuesStep DEF OutputHook

LEMMA UpdateStep ==
  ASSUME ChannelsAssumption, Inv, Update
  PROVE  Inv' /\ Table!Write("values")
<1>1. PICK read : \E v \in Readings(regs.values, read) : regs' = [regs EXCEPT !["values"] = v]
  BY DEF Update
<1>2. PICK v \in Readings(regs["values"], read) : regs' = [regs EXCEPT !["values"] = v]
  BY <1>1
<1>3. "values" \in Stored(kind)
  BY Registers, VectorsFit
<1>4. v \in [1..Len(numbers) -> {0, 1}]
  BY <1>3, ReadingsAre, VectorsFit DEF Inv
<1>5. enabled' \in BOOLEAN
  BY DEF Update, Inv, Shape
<1> QED BY <1>2, <1>3, <1>4, <1>5, ValuesStep DEF Update

LEMMA EntryStep ==
  ASSUME ChannelsAssumption, Inv, NEW r, NEW c, NEW v \in {0, 1}, SetEntry(r, c, v)
  PROVE  Inv' /\ Table!Write(r)
<1>1. r \in {"values", "enable", "disable"} \cap Stored(kind) /\ c \in DOMAIN map
  BY DEF SetEntry
<1>2. PICK w : w = [regs[r] EXCEPT ![map[c]] = v]
  OBVIOUS
<1>3. regs' = [regs EXCEPT ![r] = w]
  BY <1>2 DEF SetEntry
<1>4. w \in [1..Len(numbers) -> {0, 1}]
  BY <1>1, <1>2, VectorsFit, EntriesAre
<1>5. enabled' \in BOOLEAN
  BY DEF SetEntry, Inv, Shape
<1> QED BY <1>1, <1>3, <1>4, <1>5, ValuesStep DEF SetEntry

LEMMA VectorStep ==
  ASSUME ChannelsAssumption, Inv, NEW r, NEW w \in Vectors({0, 1}, Len(numbers)), SetVector(r, w)
  PROVE  Inv' /\ Table!Write(r)
<1>1. enabled' \in BOOLEAN
  BY DEF SetVector, Inv, Shape
<1> QED BY <1>1, ValuesStep DEF SetVector, Vectors

LEMMA DirectionStep ==
  ASSUME ChannelsAssumption, Inv, NEW c, NEW d \in {"In", "Out"}, SetDirection(c, d)
  PROVE  Inv' /\ Table!Write("directions")
<1>1. PICK w : w = [regs["directions"] EXCEPT ![map[c]] = d]
  OBVIOUS
<1>2. c \in DOMAIN map /\ SetDirections(w) /\ kind = "io"
  BY <1>1 DEF SetDirection, SetDirections
<1>3. w \in [1..Len(numbers) -> {"In", "Out"}]
  BY <1>1, <1>2, VectorsFit, EntriesAre, Registers
<1> QED BY <1>2, <1>3, DirectionsStep

LEMMA ScaleOfStep ==
  ASSUME ChannelsAssumption, Inv, NEW r \in {"units", "factors"}, NEW c, NEW v \in Entries[r],
         SetScaleOf(r, c, v)
  PROVE  Inv' /\ Table!Write(r)
<1>1. PICK w : w = [regs[r] EXCEPT ![map[c]] = v]
  OBVIOUS
<1>2. c \in DOMAIN map /\ SetScale(r, w) /\ kind = "encoder"
  BY <1>1 DEF SetScaleOf
<1>3. w \in [1..Len(numbers) -> Entries[r]]
  BY <1>1, <1>2, VectorsFit, Registers
<1> QED BY <1>2, <1>3, ScaleStep

\* Turning an encoder on or off leaves the table alone.
LEMMA TurnStep ==
  ASSUME ChannelsAssumption, Inv, Enable \/ Disable
  PROVE  Inv' /\ (Table!Write("values") \/ UNCHANGED <<map, regs>>)
<1>0. kind \in {"io", "encoder"} /\ UNCHANGED <<kind, numbers, map, inputs, outputs>>
  BY DEF Inv, Shape, Enable, Disable
<1>1. CASE kind = "io"
  <2>1. PICK r \in {"enable", "disable"} : OutputHook(r)
    BY <1>1 DEF Enable, Disable
  <2>2. enabled' \in BOOLEAN
    BY <1>1 DEF Enable, Disable
  <2> QED BY <1>0, <1>1, <2>1, <2>2, HookStep
<1>2. CASE kind = "encoder" /\ Enable
  <2>1. ComputeConversions(regs) /\ enabled' = TRUE /\ regs' = regs
    BY <1>2 DEF Enable
  <2>2. ComputeConversions(regs') /\ Fits(kind, Len(numbers), regs') /\ Shape
    BY <2>1 DEF ComputeConversions, Inv, Shape
  <2> QED BY <1>0, <1>2, <2>1, <2>2, Recomputed
<1>3. CASE kind = "encoder" /\ Disable
  <2>1. enabled' = FALSE /\ UNCHANGED <<regs, conversions, computed>>
    BY <1>3 DEF Disable
  <2>2. Shape'
    BY <1>0, <2>1 DEF Inv, Shape
  <2>3. ListsFollowDirections' /\ ConversionsCurrent'
    BY <1>0, <2>1 DEF Inv, ListsFollowDirections, ConversionsCurrent
  <2> QED BY <1>0, <2>1, <2>2, <2>3 DEF Inv
<1> QED BY <1>0, <1>1, <1>2, <1>3

LEMMA NextStep ==
  ASSUME ChannelsAssumption, Inv, Next
  PROVE  /\ Inv'
         /\ \/ \E S \in SUBSET Channels : Table!Change(S)
            \/ \E r \in Registries : Table!Write(r)
            \/ UNCHANGED <<map, regs>>
<1>0. \A r \in {"values", "enable", "disable", "directions", "units", "factors"} : r \in Registries
  BY DEF Registries, Stored
<1>1. ASSUME NEW list \in Lists, UpdateMap(list)
      PROVE  Inv' /\ \E S \in SUBSET Channels : Table!Change(S)
  <2>1. ToSet(list) \in SUBSET Channels
    BY MapOf
  <2> QED BY <1>1, <2>1, UpdateMapStep
<1>2. ASSUME NEW S \in SUBSET Channels, NEW list \in Vectors(S, Cardinality(S)), Ascending(list),
             SetChannelNumbers(list)
      PROVE  Inv' /\ \E T \in SUBSET Channels : Table!Change(T)
  BY <1>1, <1>2, AscendingIsList DEF SetChannelNumbers
<1>3. ASSUME NEW c \in Channels, AddChannelNumber(c)
      PROVE  Inv' /\ \E T \in SUBSET Channels : Table!Change(T)
  <2>1. Added(numbers, c) \in Lists
    BY <1>3, AddedIsList, VectorsFit DEF AddChannelNumber
  <2> QED BY <1>1, <1>3, <2>1 DEF AddChannelNumber
<1>4. ASSUME NEW c \in Channels, RemoveChannelNumber(c)
      PROVE  Inv' /\ \E T \in SUBSET Channels : Table!Change(T)
  <2>1. Removed(numbers, c) \in Lists
    BY RemovedIsList, VectorsFit
  <2> QED BY <1>1, <1>4, <2>1 DEF RemoveChannelNumber
<1>5. ASSUME NEW r \in {"values", "enable", "disable"}, NEW c \in Channels, NEW v \in {0, 1},
             SetEntry(r, c, v)
      PROVE  Inv' /\ \E q \in Registries : Table!Write(q)
  BY <1>0, <1>5, EntryStep
<1>6. ASSUME NEW r \in {"values", "enable", "disable"},
             NEW w \in Vectors({0, 1}, Len(numbers)), SetVector(r, w)
      PROVE  Inv' /\ \E q \in Registries : Table!Write(q)
  BY <1>0, <1>6, VectorStep
<1>7. ASSUME NEW w \in Vectors({"In", "Out"}, Len(numbers)), SetDirections(w)
      PROVE  Inv' /\ \E q \in Registries : Table!Write(q)
  BY <1>0, <1>7, DirectionsStep DEF Vectors
<1>8. ASSUME NEW c \in Channels, NEW d \in {"In", "Out"}, SetDirection(c, d)
      PROVE  Inv' /\ \E q \in Registries : Table!Write(q)
  BY <1>0, <1>8, DirectionStep
<1>9. ASSUME NEW r \in {"units", "factors"},
             NEW w \in Vectors(Entries[r], Len(numbers)), SetScale(r, w)
      PROVE  Inv' /\ \E q \in Registries : Table!Write(q)
  BY <1>0, <1>9, ScaleStep DEF Vectors
<1>10. ASSUME NEW r \in {"units", "factors"}, NEW c \in Channels, NEW v \in Entries[r],
              SetScaleOf(r, c, v)
       PROVE  Inv' /\ \E q \in Registries : Table!Write(q)
  BY <1>0, <1>10, ScaleOfStep
<1>11. Update => Inv' /\ \E q \in Registries : Table!Write(q)
  BY <1>0, UpdateStep
<1>12. Enable \/ Disable =>
         Inv' /\ ((\E q \in Registries : Table!Write(q)) \/ UNCHANGED <<map, regs>>)
  BY <1>0, TurnStep
<1> QED BY <1>2, <1>3, <1>4, <1>5, <1>6, <1>7, <1>8, <1>9, <1>10, <1>11, <1>12 DEF Next

\* A step that changes nothing.
LEMMA Stutter == ASSUME Inv, UNCHANGED vars PROVE Inv'
<1>1. Shape'
  BY DEF Inv, Shape, vars
<1>2. ListsFollowDirections' /\ ConversionsCurrent'
  BY DEF Inv, vars, ListsFollowDirections, ConversionsCurrent
<1> QED BY <1>1, <1>2 DEF Inv

LEMMA Invariance == Spec => []Inv
<1>1. Init => Inv
  BY ChannelsAssumption, InitInv
<1>2. Inv /\ [Next]_vars => Inv'
  BY ChannelsAssumption, NextStep, Stutter
<1> QED BY <1>1, <1>2, PTL DEF Spec

\* Whatever channels are added, removed or replaced and whatever is written in between,
\* every vector has an entry for each channel where the map finds it, the lists of inputs
\* and outputs are those of the directions, and a channel that stays keeps its conversion.
THEOREM RegistriesFollow == Spec => [](TypeOK /\ Consistent)
<1>1. Inv => TypeOK /\ Consistent
  BY InvGives
<1> QED BY <1>1, Invariance, PTL

\* The vectors and the map implement a table with a row per channel: a change of the list
\* keeps the rows of the channels that stay, any other call writes one column.
THEOREM Implements == Spec => ImplementsTable
<1>1. Init => Table!Init
  BY ChannelsAssumption, InitInv
<1>2. Inv /\ [Next]_vars => [Table!Next]_([c \in DOMAIN map |-> Row(c)])
  <2>1. UNCHANGED <<map, regs>> => UNCHANGED [c \in DOMAIN map |-> Row(c)]
    BY DEF Row
  <2>2. UNCHANGED vars => UNCHANGED <<map, regs>>
    BY DEF vars
  <2> QED BY <2>1, <2>2, ChannelsAssumption, NextStep DEF Table!Next
<1> QED BY <1>1, <1>2, Invariance, PTL DEF Spec, ImplementsTable, Table!Spec

-----------------------------------------------------------------------------
(* The pins of a myRIO.                                                    *)

\* Types, as far as the rest needs them; the connectors are open when the myRIO is.
Flags ==
  /\ sysselect = [c \in Connectors |-> sysselect[c]] /\ dirs = [c \in Connectors |-> dirs[c]]
  /\ encoder = [c \in Connectors |-> encoder[c]] /\ i2c \in [Board!Mxps -> BOOLEAN]
  /\ outs = [c \in Connectors |-> outs[c]]
  /\ \A c \in Connectors : dio[c] \subseteq Pins
  /\ session \in BOOLEAN
  /\ running \in [Board!Daqs -> BOOLEAN]
  /\ \A c \in Connectors : open[c] = open[Board!Rio]

\* An output that is enabled and not left apart is covered by its connector's
\* flag and by the myRIO's, so that a disable() of the myRIO reaches it.
Silent ==
  /\ modEnabled \in [Connectors -> SUBSET Board!Modules]
  /\ \A c \in Connectors : \A m \in modEnabled[c] :
       <<c, m>> \notin apart => running[c] /\ running[Board!Rio]

RioInv == Flags /\ Silent /\ Board!FpgaAgrees

\* What FpgaAgrees says of one connector.
Agrees(c) ==
  /\ open[c]
  /\ c \in Board!Mxps => (i2c[c] <=> Board!I2CBit \in sysselect[c])
  /\ encoder[c] = {ch \in Board!Allowed(c) : Board!EncoderBit(c)[ch] \in sysselect[c]}
  /\ dio[c] = Board!Available(c, sysselect[c])
  /\ c \notin vectored => outs[c] = dirs[c] \cap dio[c]

LEMMA AllAgree == Board!FpgaAgrees <=> (open[Board!Rio] /\ ~failed => session /\ \A c \in Connectors : Agrees(c))
BY DEF Board!FpgaAgrees, Agrees

LEMMA Names ==
  Board!Rio \notin Connectors /\ \A c \in Connectors : c # Board!Rio /\ c \in Board!Daqs
BY BoardAssumption DEF Board!MyRioAssumption, Board!Rio, Board!Daqs

LEMMA AvailablePins == \A c, bits : Board!Available(c, bits) \subseteq Pins
BY DEF Board!Available, Board!PinsOf

\* No two channels have a bit in common, and I2C has its own.
LEMMA BitsDiffer ==
  \A c : \A ch \in Board!Allowed(c) :
    /\ Board!EncoderBit(c)[ch] # Board!I2CBit
    /\ \A other \in Board!Allowed(c) : Board!EncoderBit(c)[other] = Board!EncoderBit(c)[ch] => other = ch
BY DEF Board!Allowed, Board!EncoderBit, Board!I2CBit

LEMMA SyncTypes ==
  ASSUME NEW C \in SUBSET Connectors, NEW select, NEW direct, Board!SyncDIO(C, select, direct), Flags
  PROVE  /\ outs' = [c \in Connectors |-> outs'[c]]
         /\ \A c \in Connectors : dio'[c] \subseteq Pins
BY AvailablePins DEF Board!SyncDIO, Flags

\* With a session the pins are read back as they are.
LEMMA SyncGives ==
  ASSUME NEW C \in SUBSET Connectors, NEW select, NEW direct, Board!SyncDIO(C, select, direct), session'
  PROVE  \A c \in C : dio'[c] = Board!Available(c, select[c]) /\ outs'[c] = direct[c] \cap dio'[c]
BY DEF Board!SyncDIO

LEMMA RioInit ==
  Board!Init => RioInv
<1> SUFFICES ASSUME Board!Init PROVE RioInv
  OBVIOUS
<1>1. Flags
  BY Names, AvailablePins DEF Board!Init, Flags, Board!Off, Board!NoneOn, Board!AllPins,
     Board!Daqs, Board!PinsOf
<1>2. Silent
  BY Names DEF Board!Init, Silent, Board!NoneOn
<1>3. Board!FpgaAgrees
  BY DEF Board!Init, Board!FpgaAgrees, Board!Off, Board!Daqs
<1> QED BY <1>1, <1>2, <1>3 DEF RioInv

-----------------------------------------------------------------------------
(* One connector at a time. *)

\* A call that touches connector c only, and leaves the devices as they were.
LEMMA OneConnector ==
  ASSUME RioInv, NEW c \in Connectors, UNCHANGED <<session, Board!device, failed, apart>>,
         Flags',
         \A d \in Connectors \ {c} :
           /\ UNCHANGED <<sysselect[d], dirs[d], encoder[d], dio[d], outs[d]>>
           /\ d \in Board!Mxps => i2c'[d] = i2c[d]
           /\ d \notin vectored' => d \notin vectored,
         open[Board!Rio] /\ ~failed /\ session /\ Agrees(c) => Agrees(c)'
  PROVE  RioInv'
<1>1. Silent'
  BY DEF RioInv, Silent, Board!device
<1>2. Board!FpgaAgrees'
  <2> SUFFICES ASSUME open[Board!Rio], ~failed PROVE session /\ \A d \in Connectors : Agrees(d)'
    BY AllAgree DEF Board!FpgaAgrees, Agrees, Board!device
  <2>1. session /\ \A d \in Connectors : Agrees(d)
    BY AllAgree DEF RioInv
  <2>2. ASSUME NEW d \in Connectors, d # c PROVE Agrees(d)'
    BY <2>1, <2>2 DEF Agrees, Board!device
  <2> QED BY <2>1, <2>2
<1> QED BY <1>1, <1>2 DEF RioInv

LEMMA SelectStep ==
  ASSUME NEW c \in Connectors, NEW b, NEW on \in BOOLEAN, Flags,
         sysselect' = IF session THEN [sysselect EXCEPT ![c] = IF on THEN @ \cup {b} ELSE @ \ {b}]
                                 ELSE sysselect
  PROVE  /\ sysselect' = [d \in Connectors |-> sysselect'[d]]
         /\ \A d \in Connectors \ {c} : sysselect'[d] = sysselect[d]
         /\ session => sysselect'[c] = IF on THEN sysselect[c] \cup {b} ELSE sysselect[c] \ {b}
<1>1. CASE session
  BY <1>1 DEF Flags
<1>2. CASE ~session
  BY <1>2 DEF Flags
<1> QED BY <1>1, <1>2

\* A bit that is set or cleared together with what it selects, then sync.
LEMMA EncoderStep ==
  ASSUME RioInv, NEW c \in Connectors, NEW ch, NEW on \in BOOLEAN,
         IF on THEN Board!EnableChannel(c, ch) ELSE Board!DisableChannel(c, ch)
  PROVE  RioInv'
<1>1. /\ ch \in Board!Allowed(c)
      /\ encoder' = [encoder EXCEPT ![c] = IF on THEN @ \cup {ch} ELSE @ \ {ch}]
      /\ Board!Select(c, Board!EncoderBit(c)[ch], on)
      /\ UNCHANGED <<session, dirs, Board!device, i2c, failed, apart>>
      /\ Board!SyncDIO({c}, sysselect', dirs)
  <2>1. CASE on
    BY <2>1 DEF Board!EnableChannel
  <2>2. CASE ~on
    BY <2>2 DEF Board!DisableChannel
  <2> QED BY <2>1, <2>2
<1>2. Flags
  BY DEF RioInv
<1>b. PICK b : b = Board!EncoderBit(c)[ch]
  OBVIOUS
<1>s. sysselect' = IF session THEN [sysselect EXCEPT ![c] = IF on THEN @ \cup {b} ELSE @ \ {b}]
                              ELSE sysselect
  BY <1>1, <1>b DEF Board!Select
<1>3. /\ sysselect' = [d \in Connectors |-> sysselect'[d]]
      /\ \A d \in Connectors \ {c} : sysselect'[d] = sysselect[d]
      /\ session => sysselect'[c] = IF on THEN sysselect[c] \cup {b} ELSE sysselect[c] \ {b}
  BY <1>2, <1>s, SelectStep
<1>4. encoder'[c] = IF on THEN encoder[c] \cup {ch} ELSE encoder[c] \ {ch}
  BY <1>1, <1>2 DEF Flags
<1>5. /\ \A d \in Connectors \ {c} : dio'[d] = dio[d] /\ outs'[d] = outs[d]
      /\ vectored' = vectored \ {c}
  BY <1>1 DEF Board!SyncDIO
<1>6. Flags'
  <2>1. outs' = [d \in Connectors |-> outs'[d]] /\ \A d \in Connectors : dio'[d] \subseteq Pins
    BY <1>1, <1>2, SyncTypes
  <2> QED BY <1>1, <1>2, <1>3, <2>1 DEF Flags, Board!device
<1>7. ASSUME open[Board!Rio], ~failed, session, Agrees(c) PROVE Agrees(c)'
  <2>0. session' /\ {c} \in SUBSET Connectors /\ Board!SyncDIO({c}, sysselect', dirs)
    BY <1>1, <1>7
  <2>1. dio'[c] = Board!Available(c, sysselect'[c]) /\ outs'[c] = dirs[c] \cap dio'[c]
    BY <2>0, SyncGives
  <2>2. encoder'[c] = {x \in Board!Allowed(c) : Board!EncoderBit(c)[x] \in sysselect'[c]}
    BY <1>1, <1>b, <1>3, <1>4, <1>7, BitsDiffer DEF Agrees
  <2>3. Board!I2CBit \in sysselect'[c] <=> Board!I2CBit \in sysselect[c]
    BY <1>1, <1>b, <1>3, <1>7, BitsDiffer
  <2> QED BY <1>1, <1>7, <2>1, <2>2, <2>3 DEF Agrees, Board!device
<1>8. \A d \in Connectors \ {c} : encoder'[d] = encoder[d]
  BY <1>1, <1>2 DEF Flags
<1> QED
  BY <1>1, <1>3, <1>5, <1>6, <1>7, <1>8, OneConnector

LEMMA I2CStep ==
  ASSUME RioInv, NEW c \in Connectors, NEW on \in BOOLEAN, Board!SetI2C(c, on) PROVE RioInv'
<1>1. /\ c \in Board!Mxps
      /\ i2c' = [i2c EXCEPT ![c] = on]
      /\ Board!Select(c, Board!I2CBit, on)
      /\ UNCHANGED <<session, dirs, Board!device, encoder, failed, apart>>
      /\ Board!SyncDIO({c}, sysselect', dirs)
  BY DEF Board!SetI2C
<1>2. Flags
  BY DEF RioInv
<1>3. /\ sysselect' = [d \in Connectors |-> sysselect'[d]]
      /\ \A d \in Connectors \ {c} : sysselect'[d] = sysselect[d]
      /\ session => sysselect'[c] = IF on THEN sysselect[c] \cup {Board!I2CBit}
                                          ELSE sysselect[c] \ {Board!I2CBit}
  <2>1. sysselect' = IF session
                       THEN [sysselect EXCEPT ![c] = IF on THEN @ \cup {Board!I2CBit} ELSE @ \ {Board!I2CBit}]
                       ELSE sysselect
    BY <1>1 DEF Board!Select
  <2> QED BY <1>2, <2>1, SelectStep
<1>4. i2c' \in [Board!Mxps -> BOOLEAN] /\ i2c'[c] = on /\ \A d \in Board!Mxps \ {c} : i2c'[d] = i2c[d]
  BY <1>1, <1>2 DEF Flags
<1>5. /\ \A d \in Connectors \ {c} : dio'[d] = dio[d] /\ outs'[d] = outs[d]
      /\ vectored' = vectored \ {c}
  BY <1>1 DEF Board!SyncDIO
<1>6. Flags'
  <2>1. outs' = [d \in Connectors |-> outs'[d]] /\ \A d \in Connectors : dio'[d] \subseteq Pins
    BY <1>1, <1>2, SyncTypes
  <2> QED BY <1>1, <1>2, <1>3, <1>4, <2>1 DEF Flags, Board!device
<1>7. ASSUME open[Board!Rio], ~failed, session, Agrees(c) PROVE Agrees(c)'
  <2>0. session' /\ {c} \in SUBSET Connectors /\ Board!SyncDIO({c}, sysselect', dirs)
    BY <1>1, <1>7
  <2>1. dio'[c] = Board!Available(c, sysselect'[c]) /\ outs'[c] = dirs[c] \cap dio'[c]
    BY <2>0, SyncGives
  <2>2. encoder'[c] = {x \in Board!Allowed(c) : Board!EncoderBit(c)[x] \in sysselect'[c]}
    BY <1>1, <1>3, <1>7, BitsDiffer DEF Agrees
  <2> QED BY <1>1, <1>3, <1>4, <1>7, <2>1, <2>2 DEF Agrees, Board!device
<1> QED
  BY <1>1, <1>3, <1>4, <1>5, <1>6, <1>7, OneConnector

LEMMA PinStep ==
  ASSUME RioInv, NEW c \in Connectors, NEW p, NEW out \in BOOLEAN, Board!SetDirection(c, p, out)
  PROVE  RioInv'
<1>1. /\ p \in dio[c]
      /\ outs' = [outs EXCEPT ![c] = IF out THEN @ \cup {p} ELSE @ \ {p}]
      /\ dirs' = IF session THEN [dirs EXCEPT ![c] = IF out THEN @ \cup {p} ELSE @ \ {p}] ELSE dirs
      /\ UNCHANGED <<session, sysselect, Board!device, i2c, encoder, dio, vectored, failed, apart>>
  BY DEF Board!SetDirection
<1>2. Flags
  BY DEF RioInv
<1>3. /\ outs' = [d \in Connectors |-> outs'[d]]
      /\ outs'[c] = (IF out THEN outs[c] \cup {p} ELSE outs[c] \ {p})
      /\ \A d \in Connectors \ {c} : outs'[d] = outs[d]
  BY <1>1, <1>2 DEF Flags
<1>4. /\ dirs' = [d \in Connectors |-> dirs'[d]]
      /\ session => dirs'[c] = (IF out THEN dirs[c] \cup {p} ELSE dirs[c] \ {p})
      /\ \A d \in Connectors \ {c} : dirs'[d] = dirs[d]
  <2>1. CASE session
    BY <1>1, <1>2, <2>1 DEF Flags
  <2>2. CASE ~session
    BY <1>1, <1>2, <2>2 DEF Flags
  <2> QED BY <2>1, <2>2
<1>5. Flags'
  BY <1>1, <1>2, <1>3, <1>4 DEF Flags, Board!device
<1>6. ASSUME session, Agrees(c) PROVE Agrees(c)'
  BY <1>1, <1>3, <1>4, <1>6 DEF Agrees, Board!device
<1> QED
  BY <1>1, <1>3, <1>4, <1>5, <1>6, OneConnector

LEMMA PinsStep ==
  ASSUME RioInv, NEW c \in Connectors, NEW P, Board!SetDirections(c, P) PROVE RioInv'
<1>1. /\ outs' = [outs EXCEPT ![c] = P] /\ vectored' = vectored \cup {d \in {c} : outs'[d] # outs[d]}
      /\ UNCHANGED <<session, sysselect, dirs, Board!device, i2c, encoder, dio, failed, apart>>
  BY DEF Board!SetDirections, Board!fpga
<1>2. Flags'
  BY <1>1 DEF RioInv, Flags, Board!device
<1>3. \A d \in Connectors \ {c} : outs'[d] = outs[d]
  BY <1>1 DEF RioInv, Flags
<1>4. Agrees(c) => Agrees(c)'
  BY <1>1 DEF Agrees, Board!device
<1> QED
  BY <1>1, <1>2, <1>3, <1>4, OneConnector

LEMMA ResetConnectorStep ==
  ASSUME RioInv, NEW c \in Connectors, Board!ResetConnector(c) PROVE RioInv'
<1> DEFINE dropped == {Board!EncoderBit(c)[ch] : ch \in encoder[c]}
                        \cup {b \in {Board!I2CBit} : c \in Board!Mxps /\ i2c[c]}
<1>1. /\ encoder' = [encoder EXCEPT ![c] = {}]
      /\ i2c' = [d \in Board!Mxps |-> d # c /\ i2c[d]]
      /\ sysselect' = IF session THEN [sysselect EXCEPT ![c] = @ \ dropped] ELSE sysselect
      /\ UNCHANGED <<session, dirs, Board!device, failed, apart>>
      /\ Board!SyncDIO({c}, sysselect', dirs)
  BY DEF Board!ResetConnector
<1>d. dropped = {Board!EncoderBit(c)[ch] : ch \in encoder[c]} \cup {b \in {Board!I2CBit} : c \in Board!Mxps /\ i2c[c]}
  OBVIOUS
<1> HIDE DEF dropped
<1>2. Flags
  BY DEF RioInv
<1>3. /\ sysselect' = [d \in Connectors |-> sysselect'[d]]
      /\ \A d \in Connectors \ {c} : sysselect'[d] = sysselect[d]
      /\ session => sysselect'[c] = sysselect[c] \ dropped
  <2>1. CASE session
    BY <1>1, <1>2, <2>1 DEF Flags
  <2>2. CASE ~session
    BY <1>1, <1>2, <2>2 DEF Flags
  <2> QED BY <2>1, <2>2
<1>4. /\ \A d \in Connectors \ {c} : dio'[d] = dio[d] /\ outs'[d] = outs[d]
      /\ vectored' = vectored \ {c}
  BY <1>1 DEF Board!SyncDIO
<1>5. /\ encoder' = [d \in Connectors |-> encoder'[d]] /\ encoder'[c] = {}
      /\ \A d \in Connectors \ {c} : encoder'[d] = encoder[d]
  BY <1>1, <1>2 DEF Flags
<1>6. i2c' \in [Board!Mxps -> BOOLEAN] /\ (c \in Board!Mxps => i2c'[c] = FALSE)
      /\ \A d \in Board!Mxps \ {c} : i2c'[d] = i2c[d]
  BY <1>1, <1>2 DEF Flags
<1>7. Flags'
  <2>1. outs' = [d \in Connectors |-> outs'[d]] /\ \A d \in Connectors : dio'[d] \subseteq Pins
    BY <1>1, <1>2, SyncTypes
  <2> QED BY <1>1, <1>2, <1>3, <1>5, <1>6, <2>1 DEF Flags, Board!device
<1>8. ASSUME open[Board!Rio], ~failed, session, Agrees(c) PROVE Agrees(c)'
  <2>0. session' /\ {c} \in SUBSET Connectors /\ Board!SyncDIO({c}, sysselect', dirs)
    BY <1>1, <1>8
  <2>1. dio'[c] = Board!Available(c, sysselect'[c]) /\ outs'[c] = dirs[c] \cap dio'[c]
    BY <2>0, SyncGives
  <2>2. {x \in Board!Allowed(c) : Board!EncoderBit(c)[x] \in sysselect'[c]} = {}
    BY <1>3, <1>8, <1>d DEF Agrees
  <2>3. c \in Board!Mxps => Board!I2CBit \notin sysselect'[c]
    BY <1>3, <1>8, <1>d DEF Agrees
  <2> QED BY <1>1, <1>5, <1>6, <1>8, <2>1, <2>2, <2>3 DEF Agrees, Board!device
<1> QED
  BY <1>1, <1>3, <1>4, <1>5, <1>6, <1>7, <1>8, OneConnector

-----------------------------------------------------------------------------
(* The session. *)

LEMMA OpenStep == ASSUME RioInv, Board!Open PROVE RioInv'
<1>1. Flags /\ UNCHANGED <<sysselect, dirs, running, modEnabled, apart>> /\ ~open[Board!Rio]
  BY DEF Board!Open, RioInv, Board!fpga
<1>2. Silent'
  BY <1>1 DEF RioInv, Silent
<1>3. CASE /\ session' = TRUE /\ open' = [d \in Board!Daqs |-> TRUE] /\ failed' = FALSE
           /\ Board!Sync({c \in Connectors : ~open[c]}, sysselect, dirs)
  <2>1. {c \in Connectors : ~open[c]} = Connectors
    BY <1>1 DEF Flags
  <2>2. Board!SyncDIO(Connectors, sysselect, dirs)
    BY <1>3, <2>1 DEF Board!Sync
  <2>3. /\ i2c' = [c \in Board!Mxps |-> Board!I2CBit \in sysselect[c]]
        /\ encoder' = [c \in Connectors |-> {ch \in Board!Allowed(c) : Board!EncoderBit(c)[ch] \in sysselect[c]}]
    BY <1>3, <2>1 DEF Board!Sync, Board!Mxps
  <2>4. \A c \in Connectors : dio'[c] = Board!Available(c, sysselect[c]) /\ outs'[c] = dirs[c] \cap dio'[c]
    BY <1>1, <1>3, <2>2 DEF Board!SyncDIO, Flags
  <2>5. outs' = [c \in Connectors |-> outs'[c]] /\ \A c \in Connectors : dio'[c] \subseteq Pins
    BY <1>1, <2>2, SyncTypes
  <2>6. Flags'
    BY <1>1, <1>3, <2>3, <2>5, Names DEF Flags, Board!Daqs
  <2>7. Board!FpgaAgrees'
    BY <1>1, <1>3, <2>3, <2>4, Names DEF Board!FpgaAgrees
  <2> QED BY <1>2, <2>6, <2>7 DEF RioInv
<1>4. CASE session' \in {session, TRUE} /\ UNCHANGED <<open, Board!pinout, failed>>
  BY <1>1, <1>2, <1>4 DEF RioInv, Flags, Board!FpgaAgrees, Board!pinout
<1> QED BY <1>3, <1>4 DEF Board!Open

LEMMA CloseStep == ASSUME RioInv, Board!Close PROVE RioInv'
<1>1. UNCHANGED <<sysselect, dirs, running, modEnabled, apart, i2c, encoder, dio, outs, vectored>>
  BY DEF Board!Close, Board!fpga, Board!pinout
<1>2. session' \in BOOLEAN
  BY DEF Board!Close, Board!CloseFails, Board!CloseSucceeds, RioInv, Flags
<1>3. open' = [d \in Board!Daqs |-> FALSE] \/ (failed' = TRUE /\ open' = open)
  BY DEF Board!Close
<1>4. Flags'
  <2>1. \A c \in Connectors : open'[c] = open'[Board!Rio]
    <3>1. CASE open' = [d \in Board!Daqs |-> FALSE]
      BY <3>1 DEF Board!Daqs
    <3>2. CASE open' = open
      BY <3>2 DEF RioInv, Flags
    <3> QED BY <1>3, <3>1, <3>2
  <2> QED BY <1>1, <1>2, <2>1 DEF RioInv, Flags
<1>5. Silent'
  BY <1>1 DEF RioInv, Silent
<1>6. Board!FpgaAgrees'
  BY <1>3 DEF Board!FpgaAgrees, Board!Daqs
<1> QED BY <1>4, <1>5, <1>6 DEF RioInv

LEMMA ResetStep == ASSUME RioInv, Board!ResetSucceeds \/ Board!ResetFails PROVE RioInv'
<1>1. Flags /\ UNCHANGED <<open, running, modEnabled, apart>>
  BY DEF Board!ResetSucceeds, Board!ResetFails, Board!device, RioInv
<1>2. Silent'
  BY <1>1 DEF RioInv, Silent
<1>3. CASE Board!ResetSucceeds
  <2>1. /\ session' = TRUE /\ sysselect' = Board!NoneOn /\ dirs' = Board!NoneOn
        /\ i2c' = [c \in Board!Mxps |-> FALSE] /\ encoder' = Board!NoneOn
        /\ Board!SyncDIO(Connectors, sysselect', dirs') /\ open[Board!Rio] /\ failed' = FALSE
    BY <1>3 DEF Board!ResetSucceeds, Board!Defaults
  <2>2. \A c \in Connectors : dio'[c] = Board!Available(c, sysselect'[c]) /\ outs'[c] = dirs'[c] \cap dio'[c]
    BY <1>1, <2>1 DEF Board!SyncDIO, Flags
  <2>3. outs' = [c \in Connectors |-> outs'[c]] /\ \A c \in Connectors : dio'[c] \subseteq Pins
    BY <1>1, <2>1, SyncTypes
  <2>4. Flags'
    BY <1>1, <2>1, <2>3 DEF Flags, Board!NoneOn
  <2>5. Board!FpgaAgrees'
    BY <1>1, <2>1, <2>2 DEF Board!FpgaAgrees, Flags, Board!NoneOn, Board!Mxps
  <2> QED BY <1>2, <2>4, <2>5 DEF RioInv
<1>4. CASE Board!ResetFails
  <2>1. failed' = TRUE /\ UNCHANGED <<i2c, encoder, dio, outs, vectored>> /\ session' \in BOOLEAN
    BY <1>1, <1>4 DEF Board!ResetFails, Board!pinout, Board!CloseFails, Flags
  <2>2. \/ sysselect' = sysselect /\ dirs' = dirs
        \/ sysselect' = Board!NoneOn /\ dirs' = Board!NoneOn
    BY <1>4 DEF Board!ResetFails, Board!fpga, Board!Defaults
  <2>3. Flags'
    BY <1>1, <2>1, <2>2 DEF Flags, Board!NoneOn
  <2>4. Board!FpgaAgrees'
    BY <2>1 DEF Board!FpgaAgrees
  <2> QED BY <1>2, <2>3, <2>4 DEF RioInv
<1> QED BY <1>3, <1>4

LEMMA RestartStep == ASSUME RioInv, Board!Restart PROVE RioInv'
BY Names, AvailablePins
   DEF Board!Restart, RioInv, Flags, Silent, Board!FpgaAgrees, Board!Off, Board!NoneOn, Board!AllPins, Board!Daqs, Board!Rio, Board!PinsOf, Board!fpga

-----------------------------------------------------------------------------
(* Enabling and disabling. *)

\* Of a call after which what is enabled anew is apart, and that leaves no
\* output enabled of a connector whose flag or whose myRIO's it takes down.
LEMMA ApartStep ==
  ASSUME Silent, Board!Apart, modEnabled' \in [Connectors -> SUBSET Board!Modules],
         \A c \in Connectors : \A m \in modEnabled'[c] :
           running[c] /\ running[Board!Rio] => running'[c] /\ running'[Board!Rio]
  PROVE  Silent'
<1> SUFFICES ASSUME NEW c \in Connectors, NEW m \in modEnabled'[c], <<c, m>> \notin apart'
             PROVE  running'[c] /\ running'[Board!Rio]
  BY DEF Silent
<1>1. m \in Board!Modules
  OBVIOUS
<1>2. <<c, m>> \in Connectors \X Board!Modules
  BY <1>1
<1>3. <<c, m>> \in Board!Outputs'
  BY <1>2 DEF Board!Outputs
<1>4. <<c, m>> \in Board!Outputs /\ <<c, m>> \notin apart
  BY <1>3 DEF Board!Apart
<1>5. m \in modEnabled[c]
  BY <1>4 DEF Board!Outputs
<1> QED BY <1>4, <1>5 DEF Silent

\* Of a call that switches the connectors of C and then flags.
LEMMA SwitchStep ==
  ASSUME RioInv, NEW C \in SUBSET Connectors, NEW flags \in SUBSET Board!Daqs, NEW on \in BOOLEAN,
         flags \cap Connectors = C, Board!Rio \in flags => C = Connectors,
         Board!Switch(C, flags, on)
  PROVE  RioInv'
<1> DEFINE todo == {c \in C : running[c] # on}
           full == IF on THEN Board!Modules ELSE {}
           Through(D) == modEnabled' = [c \in Connectors |-> IF c \in D THEN full ELSE modEnabled[c]]
<1>0. UNCHANGED <<session, sysselect, dirs, open, i2c, encoder, dio, outs, vectored, failed>>
  BY DEF Board!Switch, Board!fpga, Board!pinout
<1>1. Flags /\ Silent /\ Board!FpgaAgrees
  BY DEF RioInv
<1>2. Board!FpgaAgrees'
  BY <1>0, <1>1 DEF Board!FpgaAgrees
<1>3. running' \in [Board!Daqs -> BOOLEAN] => Flags'
  BY <1>0, <1>1 DEF Flags
<1>4. ASSUME NEW D \in SUBSET todo, Through(D)
      PROVE  modEnabled' \in [Connectors -> SUBSET Board!Modules]
  BY <1>1, <1>4 DEF Silent
<1>5. CASE /\ Through(todo)
           /\ running' = [d \in Board!Daqs |-> IF d \in flags THEN on ELSE running[d]]
           /\ IF on /\ Board!Rio \in flags THEN apart' = {} ELSE Board!Apart
  <2>1. running' \in [Board!Daqs -> BOOLEAN]
    BY <1>1, <1>5 DEF Flags
  <2>2. modEnabled' \in [Connectors -> SUBSET Board!Modules]
    BY <1>4, <1>5
  <2>3. Board!Rio \in Board!Daqs /\ (running[Board!Rio] => running'[Board!Rio] \/ (~on /\ Board!Rio \in flags))
    BY <1>5 DEF Board!Daqs
  <2>4. CASE on /\ Board!Rio \in flags
    <3>1. running'[Board!Rio] /\ \A c \in Connectors : running'[c]
      BY <1>5, <2>4, Names
    <3> QED BY <1>2, <1>3, <2>1, <2>2, <3>1 DEF RioInv, Silent
  <2>5. CASE ~(on /\ Board!Rio \in flags)
    <3>1. ASSUME NEW c \in Connectors, NEW m \in modEnabled'[c], running[c], running[Board!Rio]
          PROVE  running'[c] /\ running'[Board!Rio]
      <4>1. c \in todo => on
        BY <1>5, <3>1
      <4>2. c \in C => on
        BY <3>1, <4>1
      <4>3. running'[c]
        BY <1>5, <3>1, <4>2, Names
      <4>4. ~on => Board!Rio \notin flags
        BY <4>2
      <4> QED BY <2>3, <3>1, <4>3, <4>4
    <3>2. Silent'
      BY <1>1, <1>5, <2>2, <2>5, <3>1, ApartStep
    <3> QED BY <1>2, <1>3, <2>1, <3>2 DEF RioInv
  <2> QED BY <2>4, <2>5
<1>6. ASSUME NEW c \in todo, Through(todo \cap Board!Before(c)), Board!Apart,
             running' = [d \in Board!Daqs |-> IF d \in Board!Switched(todo, c) THEN on ELSE running[d]]
      PROVE  RioInv'
  <2>1. todo \cap Board!Before(c) \in SUBSET todo /\ Board!Switched(todo, c) = todo \cap Board!Before(c)
    BY DEF Board!Switched
  <2>2. modEnabled' \in [Connectors -> SUBSET Board!Modules]
    BY <1>4, <1>6, <2>1
  <2>3. running' \in [Board!Daqs -> BOOLEAN] /\ running'[Board!Rio] = running[Board!Rio]
    BY <1>1, <1>6, <2>1, Names DEF Flags, Board!Daqs
  <2>4. ASSUME NEW d \in Connectors, NEW m \in modEnabled'[d], running[d]
        PROVE  running'[d]
    <3>1. d \in todo \cap Board!Before(c) => on
      BY <1>6, <2>4
    <3> QED BY <1>6, <2>1, <2>4, <3>1, Names
  <2>5. Silent'
    BY <1>1, <1>6, <2>2, <2>3, <2>4, ApartStep
  <2> QED BY <1>2, <1>3, <2>3, <2>5 DEF RioInv
<1> QED BY <1>5, <1>6 DEF Board!Switch

LEMMA DisableStep == ASSUME RioInv, Board!Disable PROVE RioInv'
BY SwitchStep DEF Board!Disable, Board!Daqs

LEMMA EnableStep == ASSUME RioInv, Board!Enable PROVE RioInv'
BY SwitchStep DEF Board!Enable, Board!Daqs

LEMMA SwitchConnectorStep ==
  ASSUME RioInv, NEW c \in Connectors, NEW on \in BOOLEAN, Board!SwitchConnector(c, on)
  PROVE  RioInv'
<1>1. {c} \in SUBSET Connectors /\ {c} \in SUBSET Board!Daqs /\ {c} \cap Connectors = {c}
      /\ Board!Rio \notin {c}
  BY Names
<1> QED BY <1>1, SwitchStep DEF Board!SwitchConnector

LEMMA SwitchModuleStep ==
  ASSUME RioInv, NEW c \in Connectors, NEW m \in Board!Modules, NEW on \in BOOLEAN,
         Board!SwitchModule(c, m, on)
  PROVE  RioInv'
<1>1. /\ UNCHANGED <<session, sysselect, dirs, open, running, i2c, encoder, dio, outs, vectored, failed>>
      /\ modEnabled' = [modEnabled EXCEPT ![c] = IF on THEN @ \cup {m} ELSE @ \ {m}]
      /\ Board!Apart
  BY DEF Board!SwitchModule, Board!fpga, Board!pinout
<1>2. modEnabled' \in [Connectors -> SUBSET Board!Modules]
  BY <1>1 DEF RioInv, Silent
<1>3. Silent'
  BY <1>1, <1>2, ApartStep DEF RioInv
<1>4. Flags' /\ Board!FpgaAgrees'
  BY <1>1 DEF RioInv, Flags, Board!FpgaAgrees
<1> QED BY <1>3, <1>4 DEF RioInv

-----------------------------------------------------------------------------
LEMMA RioStep ==
  RioInv /\ [Board!Next]_(Board!vars) => RioInv'
<1> SUFFICES ASSUME RioInv, [Board!Next]_(Board!vars) PROVE RioInv'
  OBVIOUS
<1>1. CASE UNCHANGED Board!vars
  BY <1>1 DEF Board!vars, Board!fpga, Board!device, Board!pinout, RioInv, Flags, Silent,
     Board!FpgaAgrees
<1>2. ASSUME NEW c \in Connectors, NEW ch \in Board!Allowed(c), Board!EnableChannel(c, ch) \/ Board!DisableChannel(c, ch)
      PROVE RioInv'
  <2>1. (IF TRUE THEN Board!EnableChannel(c, ch) ELSE Board!DisableChannel(c, ch))
        \/ (IF FALSE THEN Board!EnableChannel(c, ch) ELSE Board!DisableChannel(c, ch))
    BY <1>2
  <2> QED BY <2>1, EncoderStep
<1>3. ASSUME NEW c \in Loose, NEW m \in Board!Modules, NEW on \in BOOLEAN, Board!SwitchModule(c, m, on)
      PROVE RioInv'
  <2>1. c \in Connectors
    BY BoardAssumption DEF Board!MyRioAssumption
  <2> QED BY <1>3, <2>1, SwitchModuleStep
<1> QED
  BY <1>1, <1>2, OpenStep, CloseStep, ResetStep, RestartStep, EnableStep, DisableStep, I2CStep,
     SwitchConnectorStep, <1>3, PinStep, PinsStep, ResetConnectorStep DEF Board!Next, Board!Calls

\* While the myRIO is open and no close() or reset() failed, what the modules of every
\* connector say of channels and directions is what the FPGA's registers hold.
THEOREM RegistersAgree ==
  Board!Spec => []FpgaAgrees
<1>1. RioInv => FpgaAgrees
  BY DEF RioInv, FpgaAgrees
<1> QED
  BY <1>1, RioInit, RioStep, PTL DEF Board!Spec

\* No pin the board lists as shared is offered while its function is selected.
LEMMA SharedIsTaken ==
  ASSUME NEW c \in Connectors, NEW bits
  PROVE  Board!Available(c, bits) \cap Board!Shared(c, bits) = {}
<1> SUFFICES ASSUME NEW b \in bits, NEW p \in Board!Available(c, bits),
                    p \in IF c = "mspC" THEN IF b = 0 THEN {0, 2} ELSE IF b = 2 THEN {4, 6} ELSE {}
                          ELSE IF b = 5 THEN {11, 12} ELSE IF b = 7 THEN {14, 15} ELSE {}
             PROVE  FALSE
  BY DEF Board!Shared
<1>1. CASE c = "mspC"
  BY <1>1 DEF Board!Available, Board!Unless
<1>2. CASE c # "mspC"
  BY <1>2 DEF Board!Available, Board!Unless
<1> QED BY <1>1, <1>2

LEMMA OwnedStep ==
  ASSUME RioInv, Board!Next, Board!Synced, NEW c \in Connectors,
         NEW p \in Pins \cap Board!Shared(c, sysselect[c]) \cap Board!Shared(c, sysselect'[c])
  PROVE  p \in dirs'[c] <=> p \in dirs[c]
<1>1. CASE Board!ResetSucceeds \/ Board!ResetFails
  <2>1. dirs' = dirs \/ sysselect' = Board!NoneOn
    BY <1>1 DEF Board!ResetSucceeds, Board!ResetFails, Board!Defaults, Board!fpga
  <2>2. sysselect' = Board!NoneOn => Board!Shared(c, sysselect'[c]) = {}
    BY DEF Board!Shared, Board!NoneOn
  <2> QED BY <2>1, <2>2
<1>2. ASSUME NEW d \in Connectors, NEW q \in Board!PinsOf(d), NEW out \in BOOLEAN, Board!SetDirection(d, q, out)
      PROVE  p \in dirs'[c] <=> p \in dirs[c]
  <2>1. /\ q \in dio[d]
        /\ dirs' = IF session THEN [dirs EXCEPT ![d] = IF out THEN @ \cup {q} ELSE @ \ {q}] ELSE dirs
    BY <1>2 DEF Board!SetDirection
  <2>2. dio[d] = Board!Available(d, sysselect[d])
    BY DEF RioInv, Board!FpgaAgrees, Board!Synced
  <2>3. q \notin Board!Shared(d, sysselect[d])
    BY <2>1, <2>2, SharedIsTaken
  <2>4. CASE d = c
    <3>1. p # q
      BY <2>3, <2>4
    <3>2. dirs = [e \in Connectors |-> dirs[e]]
      BY DEF RioInv, Flags
    <3> QED BY <2>1, <2>4, <3>1, <3>2
  <2>5. CASE d # c
    BY <2>1, <2>5
  <2> QED BY <2>4, <2>5
<1>3. ASSUME UNCHANGED dirs PROVE p \in dirs'[c] <=> p \in dirs[c]
  BY <1>3
<1>4. \/ UNCHANGED dirs
      \/ Board!ResetSucceeds \/ Board!ResetFails
      \/ \E d \in Connectors : \E q \in Board!PinsOf(d), out \in BOOLEAN : Board!SetDirection(d, q, out)
  <2>1. ASSUME NEW d \in Connectors, NEW on \in BOOLEAN, Board!SetI2C(d, on) \/ Board!SwitchConnector(d, on)
        PROVE  UNCHANGED dirs
    BY <2>1 DEF Board!SetI2C, Board!SwitchConnector, Board!Switch, Board!fpga
  <2>2. ASSUME NEW d \in Connectors, NEW ch, Board!EnableChannel(d, ch) \/ Board!DisableChannel(d, ch)
        PROVE  UNCHANGED dirs
    BY <2>2 DEF Board!EnableChannel, Board!DisableChannel
  <2>3. ASSUME NEW d \in Connectors, NEW P, Board!SetDirections(d, P) \/ Board!ResetConnector(d)
        PROVE  UNCHANGED dirs
    BY <2>3 DEF Board!SetDirections, Board!ResetConnector, Board!fpga
  <2>4. ASSUME NEW d, NEW m, NEW on, Board!SwitchModule(d, m, on) PROVE UNCHANGED dirs
    BY <2>4 DEF Board!SwitchModule, Board!fpga
  <2>5. Board!Open \/ Board!Close \/ Board!Enable \/ Board!Disable \/ Board!Restart => UNCHANGED dirs
    BY DEF Board!Open, Board!Close, Board!Enable, Board!Disable, Board!Switch, Board!Restart,
       Board!fpga
  <2> QED BY <2>1, <2>2, <2>3, <2>4, <2>5 DEF Board!Next, Board!Calls
<1> QED BY <1>1, <1>2, <1>3, <1>4

\* No call turns a pin around while the encoder or the I2C that SYSSELECT selects drives it.
THEOREM OwnedPinsStay ==
  Board!Spec => OwnedPinsKeepDirection
<1>1. RioInv /\ [Board!Next]_(Board!vars) =>
        [Board!Synced => \A c \in Connectors :
           \A p \in Pins \cap Board!Shared(c, sysselect[c]) \cap Board!Shared(c, sysselect'[c]) :
             p \in dirs'[c] <=> p \in dirs[c]]_(Board!vars)
  BY OwnedStep
<1> QED
  BY <1>1, RioInit, RioStep, PTL DEF Board!Spec, OwnedPinsKeepDirection, Board!OwnedPinsKeepDirection

\* While the myRIO says it is disabled, every output that is enabled was enabled apart from
\* it: by a call of its module or its connector, or by an enable() that failed half way.
THEOREM DisabledLeavesOnlyApart ==
  Board!Spec => []OnlyApartDrives
<1>1. RioInv => OnlyApartDrives
  <2> SUFFICES ASSUME RioInv, ~running[Board!Rio], NEW output \in Board!Outputs
               PROVE  output \in apart
    BY DEF OnlyApartDrives, Board!OnlyApartDrives
  <2>1. PICK c \in Connectors, m \in Board!Modules : output = <<c, m>> /\ m \in modEnabled[c]
    BY DEF Board!Outputs
  <2> QED BY <2>1 DEF RioInv, Silent
<1> QED
  BY <1>1, RioInit, RioStep, PTL DEF Board!Spec

-----------------------------------------------------------------------------
(* The composite. *)

\* What a run of DaqModules explores are behaviours of the two components.
THEOREM Parts == ModulesSpec => Spec /\ Board!Spec
<1>1. ModulesInit => Init /\ Board!Init
  BY DEF ModulesInit
<1>2. [ModulesNext]_<<subject, vars, rioVars>> => [Next]_vars /\ [Board!Next]_(Board!vars)
  BY DEF ModulesNext, rioVars, Board!vars, Board!fpga, Board!device, Board!pinout
<1> QED BY <1>1, <1>2, PTL DEF ModulesSpec, Spec, Board!Spec
=============================================================================
