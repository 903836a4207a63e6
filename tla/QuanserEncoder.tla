--------------------------- MODULE QuanserEncoder ---------------------------
(***************************************************************************)
(* The encoder module of the Quanser cards, on Encoder: counters on the    *)
(* board, the values last read of them, and quadrature factors that the    *)
(* board and the conversion to positions have to agree on.  The board is   *)
(* external: each of its calls works or fails.                             *)
(*                                                                         *)
(* reset_counts() sleeps after every channel, and shafts turn meanwhile.   *)
(* A position is left as counts and factor; an unsupported factor cannot   *)
(* be expressed; counts move as soon as a shaft does.                      *)
(***************************************************************************)
EXTENDS Integers

CONSTANTS
  Count,         \* number of channels, which are 1..Count
  Factors,       \* quadrature factors
  HasVelocity,   \* has_velocity_
  Failing,       \* the board's calls that may fail
  Presets,       \* the counts that resets ask for
  MaxTurn,       \* bound: how far the shafts turn
  MaxCount       \* bound: of the counters, in which counts of several modes mix

QuanserEncoderAssumption ==
  /\ Count \in Nat \ {0} /\ Factors \subseteq Nat \ {0} /\ 4 \in Factors
  /\ Presets \subseteq Int /\ 0 \in Presets /\ MaxTurn \in Nat /\ MaxCount \in Nat
  /\ HasVelocity \in BOOLEAN
  /\ Failing \subseteq {"read", "other", "reset", "mode"}

Channels == 1..Count
Stray    == 3         \* what lies behind a list that is too short
Unknown  == <<>>

VARIABLES
  values, factors,   \* values_, factors_
  counter, mode,     \* the board's counters and quadrature modes
  shaft,             \* where the shafts are
  next, preset,      \* the channel reset_counts() is at, or 0; its counts
  origin,            \* history: <<shaft, count>> when a reset succeeded, or Unknown
  seen               \* history: <<shaft>> that the value is of, or Unknown

software == <<values, factors>>
board    == <<counter, mode>>
resets   == <<next, preset>>
history  == <<origin, seen>>
vars == <<software, board, shaft, resets, history>>

Init ==
  /\ values = [c \in Channels |-> 0] /\ factors = [c \in Channels |-> 4]
  /\ counter = [c \in Channels |-> 0] /\ mode = [c \in Channels |-> 4]
  /\ shaft = [c \in Channels |-> 0]
  /\ next = 0 /\ preset = 0
  /\ origin = [c \in Channels |-> <<0, 0>>]
  /\ seen = [c \in Channels |-> <<0>>]

Results(call) == IF call \in Failing THEN BOOLEAN ELSE {TRUE}
Idle == next = 0

Turn(c, d) ==
  /\ shaft[c] + d \in 0..MaxTurn
  /\ counter[c] + d * mode[c] \in -MaxCount..MaxCount
  /\ shaft' = [shaft EXCEPT ![c] = @ + d]
  /\ counter' = [counter EXCEPT ![c] = @ + d * mode[c]]
  /\ UNCHANGED <<software, mode, resets, history>>
-----------------------------------------------------------------------------
\* The result of hil_read_other takes the place of the one of hil_read_encoder.
Result(read, other) == IF HasVelocity THEN other ELSE read

Update(channels) ==
  /\ Idle
  /\ \E read \in Results("read"), other \in Results("other") :
       /\ values' = [c \in Channels |-> IF read /\ c \in channels THEN counter[c] ELSE values[c]]
       /\ seen' = [c \in Channels |-> IF c \notin channels THEN seen[c]
                                      ELSE IF Result(read, other) THEN <<shaft[c]>> ELSE Unknown]
  /\ UNCHANGED <<factors, board, shaft, resets, origin>>

\* Counts reach the board, for the channels that the history then knows.
Preset(channels, count, ok) ==
  /\ counter' = [c \in Channels |-> IF ok /\ c \in channels THEN count ELSE counter[c]]
  /\ origin' = [c \in Channels |-> IF ok /\ c \in channels
                                   THEN <<shaft[c], count>> ELSE origin[c]]
  /\ seen' = [c \in Channels |-> IF c \notin channels THEN seen[c]
                                 ELSE IF ok THEN <<shaft[c]>> ELSE Unknown]

\* Encoder::reset_count
AssignMutant(c, count) == values  \* the board's counter only
Assign(c, count) == [values EXCEPT ![c] = count]

ResetCount(c, count) ==
  /\ Idle
  /\ values' = Assign(c, count)
  /\ \E ok \in Results("reset") : Preset({c}, count, ok)
  /\ UNCHANGED <<factors, mode, shaft, resets>>

\* reset_counts(): Encoder::reset_counts calls reset_count for every channel and
\* looks at no result; then all counters are set again.
StartResetCounts(count) ==
  /\ Idle
  /\ next' = 1 /\ preset' = count
  /\ UNCHANGED <<software, board, shaft, history>>

ResetNext ==
  /\ next \in Channels
  /\ values' = Assign(next, preset)
  /\ \E ok \in Results("reset") : Preset({next}, preset, ok)
  /\ next' = next + 1
  /\ UNCHANGED <<factors, mode, shaft, preset>>

ResetAll ==
  /\ next = Count + 1
  /\ \E ok \in Results("reset") : Preset(Channels, preset, ok)
  /\ next' = 0
  /\ UNCHANGED <<software, mode, shaft, preset>>

\* A list with a count too few is noticed and logged; the board gets it, with
\* what follows it in memory, and nobody knows the positions.
ResetShort(count) ==
  /\ Idle
  /\ counter' = [c \in Channels |-> IF c = Count THEN Stray ELSE count]
  /\ origin' = [c \in Channels |-> Unknown]
  /\ seen' = [c \in Channels |-> Unknown]
  /\ UNCHANGED <<software, mode, shaft, resets>>

\* How the driver counts in the mode that a factor is converted to.
Converted(f) == f

\* set_quadrature_factor and, for all channels, set_quadrature_factors: the
\* conversion changes before the board is asked.  Counts of another mode are in
\* the counter until it is reset.
SetFactor(channels, f) ==
  /\ Idle
  /\ factors' = [c \in Channels |-> IF c \in channels THEN f ELSE factors[c]]
  /\ \E ok \in Results("mode") :
       /\ mode' = [c \in Channels |-> IF ok /\ c \in channels THEN Converted(f) ELSE mode[c]]
       /\ origin' = [c \in Channels |-> IF ok /\ c \in channels THEN Unknown ELSE origin[c]]
  /\ UNCHANGED <<values, counter, shaft, resets, seen>>

Next ==
  \/ \E c \in Channels, d \in {-1, 1} : Turn(c, d)
  \/ \E channels \in {Channels} \cup {{c} : c \in Channels} :
       Update(channels) \/ (\E f \in Factors : SetFactor(channels, f))
  \/ \E c \in Channels, count \in Presets : ResetCount(c, count)
  \/ \E count \in Presets : StartResetCounts(count) \/ ResetShort(count)
  \/ ResetNext \/ ResetAll

Spec == Init /\ [][Next]_vars
-----------------------------------------------------------------------------
(* Properties *)

\* reset_counts() goes over the channels and no further.
TypeOK ==
  /\ values \in [Channels -> Int] /\ counter \in [Channels -> Int]
  /\ factors \in [Channels -> Factors] /\ mode \in [Channels -> Factors]
  /\ shaft \in [Channels -> 0..MaxTurn]
  /\ next \in 0..Count + 1 /\ preset \in Presets
  /\ \A c \in Channels : origin[c] = Unknown \/ origin[c] \in (0..MaxTurn) \X Presets
  /\ \A c \in Channels : seen[c] = Unknown \/ seen[c][1] \in 0..MaxTurn

\* "Performs conversion to position using #factors_" (Encoder.hpp:59): after
\* calls that returned TRUE, the value divided by the factor is where the shaft
\* was at the last of them, counted from the last reset, even if shafts turn
\* during resets, resets of single channels fail, or factors changed before
PositionsTrue ==
  \A c \in Channels :
    Idle /\ origin[c] # Unknown /\ seen[c] # Unknown =>
      values[c] - origin[c][2] = factors[c] * (seen[c][1] - origin[c][1])
=============================================================================
