----------------------------- MODULE S826Counter -----------------------------
(***************************************************************************)
(* One channel of S826Encoder: the count and the board's time in           *)
(* microseconds, and the velocity computed from two successive snapshots,  *)
(* while the shaft turns and the program resets the count.  The board's    *)
(* time is a register of 32 bits, here of Stamps values.                   *)
(*                                                                         *)
(* A behaviour is that of one process.  Counter and clock are the board's, *)
(* which has been on for any time before, with any programs; what the      *)
(* object holds begins at zero.                                            *)
(***************************************************************************)
EXTENDS Integers

CONSTANTS Stamps,    \* values of the board's timestamp
          MaxTime,   \* bound on the board's time
          MaxTravel  \* bound on the counts, either way

CounterAssumption == {Stamps, MaxTime, MaxTravel} \subseteq Nat /\ Stamps > 0

VARIABLES
  time,       \* the board's time since it was switched on
  turned,     \* the shaft may have turned since the last tick
  count,      \* the counter's register
  values, timestamps,  \* values_ and timestamps_ of the channel
  rate,       \* values_per_sec_: counts by time
  motion,     \* history: how far the shaft turned since the last update
  since,      \* history: when that was, or when the process began
  before,     \* history: the process has updated the channel before
  reset       \* history: the count was reset since the last update

history == <<motion, since, before, reset>>
vars    == <<time, turned, count, values, timestamps, rate, history>>

Counts == -MaxTravel..MaxTravel
NoRate == [counts |-> 0, time |-> 1]

\* Velocities are quotients of what two snapshots can differ by.
TypeOK ==
  /\ time \in 0..MaxTime /\ {turned, before, reset} \subseteq BOOLEAN
  /\ count \in Counts /\ values \in Counts
  /\ timestamps \in 0..Stamps - 1
  /\ rate \in [counts : -(2 * MaxTravel)..2 * MaxTravel, time : -Stamps..Stamps]
  /\ motion \in Int /\ since \in 0..time

\* The registries are zero, the board is anywhere; on_open() starts the counter, and
\* writes neither it nor the clock
Init ==
  /\ time \in 0..MaxTime /\ turned \in BOOLEAN /\ count \in Counts
  /\ values = 0 /\ timestamps = 0 /\ rate = NoRate
  /\ motion = 0 /\ since = time /\ before = FALSE /\ reset = FALSE
-----------------------------------------------------------------------------
Tick ==
  /\ time < MaxTime
  /\ time' = time + 1 /\ turned' = FALSE
  /\ UNCHANGED <<count, values, timestamps, rate, history>>

\* The shaft turns at most one count by the board's tick
Turn(d) ==
  /\ ~turned /\ count + d \in Counts
  /\ turned' = TRUE
  /\ count' = count + d /\ motion' = motion + d
  /\ UNCHANGED <<time, values, timestamps, rate, since, before, reset>>

Timestamp == time % Stamps

\* update_channel(), never twice in one tick
UpdateChannel ==
  /\ before => Timestamp # timestamps
  /\ values' = count /\ timestamps' = Timestamp
  /\ rate' = [counts |-> count - values, time |-> Timestamp - timestamps]
  /\ motion' = 0 /\ since' = time /\ before' = TRUE /\ reset' = FALSE
  /\ UNCHANGED <<time, turned, count>>

KeptMutant(c) == values  \* values_ as it was
Kept(c) == c             \* values_[channel_number] = count

\* reset_count(): the counter and the last value, not its timestamp
ResetCount(c) ==
  /\ count' = c /\ values' = Kept(c)
  /\ reset' = TRUE
  /\ UNCHANGED <<time, turned, timestamps, rate, motion, since, before>>

Next ==
  \/ Tick \/ UpdateChannel
  \/ \E d \in {-1, 1} : Turn(d)
  \/ \E c \in {0, MaxTravel} : ResetCount(c)

Spec == Init /\ [][Next]_vars
-----------------------------------------------------------------------------
(* Properties *)

\* What the shaft can turn in a time: a count by tick, and one more of the tick in which
\* the time began
Within(counts, t) == -(t + 1) <= counts /\ counts <= t + 1

\* "Returns valus per second for a single channel" (S826Encoder.hpp:39): from its second
\* update on, a process has the velocity with which the shaft turned since the last one.
\* If the count was reset in between the way since the reset is divided by the whole time,
\* but no velocity is one the shaft cannot have
RateIsMotion ==
  [][UpdateChannel /\ before =>
       /\ rate'.time = time - since
       /\ ~reset => rate'.counts = motion
       /\ Within(rate'.counts, rate'.time)]_vars

\* The same without its exceptions: at the first update of a process the last values are
\* zeroes, which neither the counter nor the clock of the board was at, and at the first
\* after a reset the way before it is missing
EveryRateIsMotion ==
  [][UpdateChannel => rate'.counts = motion /\ rate'.time = time - since]_vars
=============================================================================
