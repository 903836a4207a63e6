------------------------------ MODULE Channels ------------------------------
(***************************************************************************)
(* A DAQ module and its registries (ModuleBase, Module, Output,            *)
(* InputOutput, Encoder): a list of channel numbers, the map from channel  *)
(* to index, and one vector per registry that must follow the channels     *)
(* through any change of the list.                                         *)
(*                                                                         *)
(* kind is "io", a DigitalInputOutput, or "encoder".  Indices start at 1.  *)
(* A list given to set_channel_numbers appears as the ascending list that  *)
(* sort_and_reduce_channels makes of it.  A call with an invalid channel   *)
(* changes nothing (it returns false or throws), so it is a guard here.    *)
(* What update_channel does to the board is the card's; its readings are   *)
(* any value.                                                              *)
(***************************************************************************)
EXTENDS Integers, Sequences, SequencesExt

CONSTANTS Channels,  \* the channel numbers that occur
          Declared,  \* the lists cards construct their modules with
          Units,     \* units per count
          Factors    \* quadrature factors

ASSUME ChannelsAssumption ==
  /\ Channels \subseteq Nat /\ IsFiniteSet(Channels)
  /\ \A list \in Declared : list \in Seq(Channels) /\ IsInjective(list)
  /\ 1 \in Units /\ 4 \in Factors

\* The registries a class stores, what a new entry starts as (T(), or the
\* default given to the registry) and what it may hold.
Stored(k) == IF k = "io" THEN {"values", "enable", "disable", "directions"}
                         ELSE {"values", "units", "factors"}
Registries == Stored("io") \cup Stored("encoder")
Default == [r \in Registries |-> CASE r = "directions" -> "In"
                                   [] r = "factors"    -> 4
                                   [] r = "units"      -> 1
                                   [] OTHER            -> 0]
Entries == [r \in Registries |-> CASE r = "directions" -> {"In", "Out"}
                                   [] r = "factors"    -> Factors
                                   [] r = "units"      -> Units
                                   [] OTHER            -> {0, 1}]

\* conversions_ is a registry of doubles that starts as zero; an entry that
\* compute_conversions made of a unit and a factor is that pair.
Zero == <<0, 0>>

VARIABLES
  kind,         \* the class of the module, fixed for a behaviour
  numbers,      \* channel_numbers_
  map,          \* channel_map_
  regs,         \* values_ of each stored registry
  conversions,  \* Encoder::conversions_
  inputs,       \* input_channel_numbers_
  outputs,      \* output_channel_numbers_
  enabled,      \* Device::enabled_
  computed      \* history: channels there since conversions were computed

vars == <<kind, numbers, map, regs, conversions, inputs, outputs, enabled, computed>>

\* Every registry is a vector of its own entries, and an encoder has no
\* directions, a DigitalInputOutput no conversions.
TypeOK ==
  /\ kind \in {"io", "encoder"}
  /\ numbers \in Seq(Channels)
  /\ map \in [ToSet(numbers) -> 1..Len(numbers)]
  /\ DOMAIN regs = Stored(kind)
  /\ \A r \in Stored(kind) : regs[r] \in Seq(Entries[r])
  /\ conversions \in Seq({Zero} \cup (Units \X Factors))
  /\ inputs \in Seq(Channels) /\ outputs \in Seq(Channels)
  /\ enabled \in BOOLEAN
  /\ computed \subseteq ToSet(numbers)

-----------------------------------------------------------------------------
(* Lists, maps and vectors. *)

\* make_channel_map: the last index of each number in the list.
ChannelMap(list) ==
  [c \in ToSet(list) |->
     CHOOSE i \in DOMAIN list : list[i] = c /\ \A j \in DOMAIN list : list[j] = c => j <= i]

\* Registry::change_channel_numbers: a vector of defaults, into which the
\* values of the channels in both maps are copied at their new index.
RebuiltMutant(old, new, vector, default) ==  \* copied at their old index
  [i \in 1..Cardinality(DOMAIN new) |-> IF i \in DOMAIN vector THEN vector[i] ELSE default]

Rebuilt(old, new, vector, default) ==
  LET kept == DOMAIN old \cap DOMAIN new
  IN  [i \in 1..Cardinality(DOMAIN new) |->
         IF \E c \in kept : new[c] = i
           THEN vector[old[CHOOSE c \in kept : new[c] = i]]
           ELSE default]

\* The entries of the list at the positions in chosen, pushed back one by one.
Sublist(list, chosen) ==
  LET pushed[n \in 0..Len(list)] ==
        IF n = 0 THEN <<>>
        ELSE IF n \in chosen THEN Append(pushed[n - 1], list[n]) ELSE pushed[n - 1]
  IN  pushed[Len(list)]

\* The numbers of the list whose entry at the same position is d.
Picked(list, directions, d) == Sublist(list, {i \in DOMAIN list : directions[i] = d})

SortInputOutputMutant(list, r) == UNCHANGED <<inputs, outputs>>  \* not sorted again

\* sort_input_output_channel_numbers, of the registries r.
SortInputOutput(list, r) ==
  IF kind = "io"
    THEN /\ inputs'  = Picked(list, r.directions, "In")
         /\ outputs' = Picked(list, r.directions, "Out")
    ELSE UNCHANGED <<inputs, outputs>>

\* compute_conversions.
Computed(list, m, r) ==
  [i \in DOMAIN list |-> <<r.units[m[list[i]]], r.factors[m[list[i]]]>>]

-----------------------------------------------------------------------------
(* Construction. *)

\* The registries of a module constructed with list.
Fresh(k, list) == [r \in Stored(k) |-> [i \in DOMAIN list |-> Default[r]]]

Init ==
  /\ kind \in {"io", "encoder"}
  /\ numbers \in Declared
  /\ map = ChannelMap(numbers)
  /\ regs = Fresh(kind, numbers)
  /\ enabled = FALSE
  /\ \/ /\ kind = "io"
        /\ inputs = numbers /\ outputs = <<>>
        /\ conversions = <<>> /\ computed = {}
     \/ /\ kind = "encoder"
        /\ inputs = <<>> /\ outputs = <<>>
        /\ conversions = Computed(numbers, map, regs)
        /\ computed = ToSet(numbers)

-----------------------------------------------------------------------------
(* Changes of the channel numbers. *)

\* update_map: the new map, every registry rebuilt from the old and the new
\* one, and InputOutput's override that sorts its channels again.
UpdateMap(list) ==
  LET new     == ChannelMap(list)
      rebuilt == [r \in DOMAIN regs |-> Rebuilt(map, new, regs[r], Default[r])]
  IN  /\ numbers' = list
      /\ map' = new
      /\ regs' = rebuilt
      /\ conversions' = IF kind = "encoder" THEN Rebuilt(map, new, conversions, Zero)
                                            ELSE conversions
      /\ SortInputOutput(list, rebuilt)
      /\ computed' = computed \cap ToSet(list)
      /\ UNCHANGED <<kind, enabled>>

Ascending(list) == \A i, j \in DOMAIN list : i < j => list[i] < list[j]

\* set_channel_numbers: nothing happens when the list is the same.
SetChannelNumbers(list) ==
  /\ list # numbers
  /\ UpdateMap(list)

\* add_channel_number: to the end; the sorted copy is thrown away.
Added(list, c) == Append(list, c)

AddChannelNumber(c) ==
  /\ c \notin DOMAIN map
  /\ UpdateMap(Added(numbers, c))

Removed(list, c) == Sublist(list, {i \in DOMAIN list : list[i] # c})

RemoveChannelNumber(c) ==
  /\ c \in DOMAIN map
  /\ UpdateMap(Removed(numbers, c))

-----------------------------------------------------------------------------
(* Writes and readings. *)

\* One entry of a registry the caller may set: set_value, set_enable_value ...
SetEntry(r, c, v) ==
  /\ r \in Stored(kind) \cap {"values", "enable", "disable"}
  /\ c \in DOMAIN map
  /\ regs' = [regs EXCEPT ![r][map[c]] = v]
  /\ UNCHANGED <<kind, numbers, map, conversions, inputs, outputs, enabled, computed>>

\* A whole vector: Registry::set takes it only if it has the right size.
SetVector(r, vector) ==
  /\ r \in Stored(kind) \cap {"values", "enable", "disable"}
  /\ Len(vector) = Len(regs[r])
  /\ regs' = [regs EXCEPT ![r] = vector]
  /\ UNCHANGED <<kind, numbers, map, conversions, inputs, outputs, enabled, computed>>

\* InputOutput::set_direction and set_directions.
SetDirections(vector) ==
  /\ kind = "io"
  /\ Len(vector) = Len(regs.directions)
  /\ regs' = [regs EXCEPT !.directions = vector]
  /\ SortInputOutput(numbers, regs')
  /\ UNCHANGED <<kind, numbers, map, conversions, enabled, computed>>

SetDirection(c, d) ==
  /\ c \in DOMAIN map
  /\ SetDirections([regs.directions EXCEPT ![map[c]] = d])

\* Encoder::set_units_per_count and set_quadrature_factor, of one channel or,
\* with a vector, of all: both compute the conversions of every channel.

ComputeConversions(r) ==
  /\ conversions' = Computed(numbers, map, r)
  /\ computed' = ToSet(numbers)

SetScale(r, vector) ==
  /\ kind = "encoder"
  /\ r \in {"units", "factors"}
  /\ Len(vector) = Len(regs[r])
  /\ regs' = [regs EXCEPT ![r] = vector]
  /\ ComputeConversions(regs')
  /\ UNCHANGED <<kind, numbers, map, inputs, outputs, enabled>>

SetScaleOf(r, c, v) ==
  /\ kind = "encoder"
  /\ r \in {"units", "factors"}
  /\ c \in DOMAIN map
  /\ SetScale(r, [regs[r] EXCEPT ![map[c]] = v])

\* The vectors values may become when the channels in `read` are read.
Readings(vector, read) ==
  {v \in [DOMAIN vector -> Entries["values"]] :
     \A c \in DOMAIN map : c \notin read => v[map[c]] = vector[map[c]]}

\* update, update_input and update_channel read the inputs, or the counts.
Update ==
  /\ \E v \in Readings(regs.values, IF kind = "io" THEN ToSet(inputs) ELSE ToSet(numbers)) :
       regs' = [regs EXCEPT !.values = v]
  /\ UNCHANGED <<kind, numbers, map, conversions, inputs, outputs, enabled, computed>>

-----------------------------------------------------------------------------
(* Device::enable and disable. *)

\* Output::on_enable and on_disable: the stored values, and an update that
\* writes the outputs and reads the inputs, and may fail.
OutputHook(r) ==
  /\ \E v \in Readings(regs[r], ToSet(inputs)) : regs' = [regs EXCEPT !.values = v]
  /\ UNCHANGED <<conversions, computed>>

Enable ==
  /\ ~enabled
  /\ \/ kind = "io" /\ OutputHook("enable") /\ enabled' \in BOOLEAN
     \/ /\ kind = "encoder"
        /\ ComputeConversions(regs)
        /\ enabled' = TRUE
        /\ UNCHANGED regs
  /\ UNCHANGED <<kind, numbers, map, inputs, outputs>>

Disable ==
  /\ enabled
  /\ \/ kind = "io" /\ OutputHook("disable") /\ enabled' \in BOOLEAN
     \/ kind = "encoder" /\ enabled' = FALSE /\ UNCHANGED <<regs, conversions, computed>>
  /\ UNCHANGED <<kind, numbers, map, inputs, outputs>>

-----------------------------------------------------------------------------
Vectors(S, n) == [1..n -> S]

Next ==
  \/ \E S \in SUBSET Channels :
       \E list \in {l \in Vectors(S, Cardinality(S)) : Ascending(l)} :
         SetChannelNumbers(list)
  \/ \E c \in Channels : AddChannelNumber(c) \/ RemoveChannelNumber(c)
  \/ \E r \in {"values", "enable", "disable"}, c \in Channels, v \in {0, 1} : SetEntry(r, c, v)
  \/ \E r \in {"values", "enable", "disable"} :
       \E vector \in Vectors({0, 1}, Len(numbers)) : SetVector(r, vector)
  \/ \E vector \in Vectors({"In", "Out"}, Len(numbers)) : SetDirections(vector)
  \/ \E c \in Channels, d \in {"In", "Out"} : SetDirection(c, d)
  \/ \E r \in {"units", "factors"} :
       \/ \E vector \in Vectors(Entries[r], Len(numbers)) : SetScale(r, vector)
       \/ \E c \in Channels, v \in Entries[r] : SetScaleOf(r, c, v)
  \/ Update \/ Enable \/ Disable

Spec == Init /\ [][Next]_vars

-----------------------------------------------------------------------------
(* Properties. *)

\* The i-th value of every registry belongs to the i-th channel number, which
\* is what the cards rely on when they hand both vectors to the board, and the
\* map finds it there, whatever order channels were added in (Module.cpp:66).
Aligned ==
  /\ DOMAIN map = ToSet(numbers)
  /\ \A i \in DOMAIN numbers : map[numbers[i]] = i
  /\ \A r \in Stored(kind) : Len(regs[r]) = Len(numbers)
  /\ kind = "encoder" => Len(conversions) = Len(numbers)

\* A DigitalInputOutput's channels are each in the list of their direction and
\* in no other, so an update reads and writes every channel the way its
\* direction says (InputOutput.inl:40-56).
ListsFollowDirections ==
  kind = "io" =>
    /\ IsInjective(inputs) /\ IsInjective(outputs)
    /\ ToSet(inputs)  = {c \in DOMAIN map : regs.directions[map[c]] = "In"}
    /\ ToSet(outputs) = {c \in DOMAIN map : regs.directions[map[c]] = "Out"}

\* A channel that has not left an encoder since conversions were computed has
\* the conversion of its own unit and factor, whatever came and went around it
\* (Encoder.cpp:131-136 runs only on some of the calls that change channels).
ConversionsCurrent ==
  \A c \in computed :
    conversions[map[c]] = <<regs.units[map[c]], regs.factors[map[c]]>>

\* The three together.
Consistent == Aligned /\ ListsFollowDirections /\ ConversionsCurrent

\* Stored values follow their channel (Module.cpp:80): the vectors and the map
\* implement a table with a row per channel.
Row(c) == [r \in Registries |-> IF r \in DOMAIN regs THEN regs[r][map[c]] ELSE Default[r]]
Table == INSTANCE ChannelTable WITH table <- [c \in DOMAIN map |-> Row(c)]
ImplementsTable == Table!Spec

\* Encoder::get_position converts with factors_ and units_per_count_, as its
\* comment says, on every channel of an enabled encoder (Encoder.hpp:59).
EnabledConverts ==
  kind = "encoder" /\ enabled =>
    \A c \in DOMAIN map :
      conversions[map[c]] = <<regs.units[map[c]], regs.factors[map[c]]>>
=============================================================================
