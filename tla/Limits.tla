------------------------------- MODULE Limits -------------------------------
(***************************************************************************)
(* The way of a torque from a Joint to the command channel of an           *)
(* Amplifier, through the limit of the joint and two Limiters: the motor's *)
(* and the amplifier's.  In its Accumulate mode a Limiter integrates the   *)
(* square of what it let through, over the time between its calls (i^2*t). *)
(*                                                                         *)
(* Torques are currents here (kt and the transmission are 1), time goes in *)
(* ticks that fall between calls, and the channel is written as soon as    *)
(* it is set.  Enabling and disabling always work (Actuation has their     *)
(* failures).                                                              *)
(***************************************************************************)
EXTENDS Integers

CONSTANTS
  MotorLimiter, AmplifierLimiter,  \* [mode, continuous, peak, time]
  TorqueLimit, Saturated,          \* torque_limit_ and saturate_ of the joint
  Patient,                         \* a hot amplifier is left off until it is cool
  MaxTorque,                       \* bound: of the torques asked for
  MaxGap,                          \* bound: ticks between two calls while current flows
  MaxRest                          \* bound: ticks between two calls otherwise

ASSUME LimitsAssumption ==
  /\ \A l \in {MotorLimiter, AmplifierLimiter} :
       /\ l.mode \in {"None", "Saturate", "Accumulate"}
       /\ l.continuous \in Nat /\ l.peak \in Nat /\ l.time \in Nat
       /\ l.continuous <= l.peak
  /\ TorqueLimit \in Nat /\ MaxTorque \in Nat /\ Saturated \in BOOLEAN /\ Patient \in BOOLEAN
  /\ MaxGap \in Nat /\ MaxRest \in Nat /\ MaxGap <= MaxRest

Limiters == [motor |-> MotorLimiter, amplifier |-> AmplifierLimiter]

VARIABLES
  accumulator, value, since,  \* of each Limiter: accumulator_, limited_value_, its clock
  torque,                     \* torque_ of the joint
  current,                    \* what the command channel holds
  enabled,                    \* the amplifier
  quiet,                      \* ticks since a torque was set
  heat                        \* history: what flowed, by each Limiter's measure

limiters == <<accumulator, value, since>>
vars == <<limiters, torque, current, enabled, quiet, heat>>

Init ==
  /\ accumulator = [l \in DOMAIN Limiters |-> 0]
  /\ value = [l \in DOMAIN Limiters |-> 0]
  /\ since = [l \in DOMAIN Limiters |-> 0]
  /\ torque = 0 /\ current = 0 /\ enabled = FALSE /\ quiet = 0
  /\ heat = [l \in DOMAIN Limiters |-> 0]

Larger(a, b)       == IF a > b THEN a ELSE b
Saturate(x, limit) == IF x > limit THEN limit ELSE IF x < -limit THEN -limit ELSE x
Excess(l, x)       == x * x - Limiters[l].continuous * Limiters[l].continuous
Setpoint(l)        == Excess(l, Limiters[l].peak) * Limiters[l].time

Flow == IF enabled THEN current ELSE 0

Tick ==
  /\ quiet < (IF Flow # 0 THEN MaxGap ELSE MaxRest)
  /\ quiet' = quiet + 1
  /\ since' = [l \in DOMAIN since |->
                 IF Limiters[l].mode = "Accumulate" THEN since[l] + 1 ELSE 0]
  /\ heat' = [l \in DOMAIN heat |-> IF Limiters[l].mode = "Accumulate"
                                    THEN Larger(0, heat[l] + Excess(l, Flow)) ELSE 0]
  /\ UNCHANGED <<accumulator, value, torque, current, enabled>>
-----------------------------------------------------------------------------
\* Time is counted with the new value instead of the one that flowed
CountedMutant(l) == Larger(0, accumulator[l] + Excess(l, Limiters[l].continuous) * since[l])
\* What the accumulator is at a call: the last value has flowed since.
Counted(l) == Larger(0, accumulator[l] + Excess(l, value[l]) * since[l])

AllowedMutant(l, x) ==  \* below the setpoint only after a margin
  Saturate(x, IF Limiters[l].mode = "Accumulate" /\ Counted(l) > Setpoint(l) + 3
              THEN Limiters[l].continuous ELSE Limiters[l].peak)
\* Limiter::limit
Allowed(l, x) ==
  CASE Limiters[l].mode = "None" -> x
    [] Limiters[l].mode = "Saturate" -> Saturate(x, Limiters[l].peak)
    [] OTHER -> Saturate(x, IF Counted(l) > Setpoint(l)
                            THEN Limiters[l].continuous ELSE Limiters[l].peak)

\* Joint::set_torque, Motor::set_torque, Amplifier::set_current
Command(t) ==
  LET commanded == IF t \notin -TorqueLimit..TorqueLimit /\ Saturated
                   THEN Saturate(t, TorqueLimit) ELSE t
      motor     == Allowed("motor", commanded)
      amplifier == Allowed("amplifier", motor)
  IN /\ torque' = commanded
     /\ accumulator' = [l \in DOMAIN Limiters |->
                          IF Limiters[l].mode = "Accumulate" THEN Counted(l) ELSE 0]
     /\ since' = [l \in DOMAIN Limiters |-> 0]
     /\ value' = [motor |-> motor, amplifier |-> amplifier]
     /\ current' = amplifier
     /\ quiet' = 0
     /\ UNCHANGED <<enabled, heat>>

SetTorque(t) == Command(t)

AddTorque(d) ==
  /\ torque + d \in -MaxTorque..MaxTorque
  /\ Command(torque + d)

\* The motor's enable() only enables its amplifier, which resets its own Limiter.
Reset(l) == l = "amplifier" /\ Limiters[l].mode = "Accumulate"

Enable ==
  /\ ~enabled
  /\ Patient => heat["amplifier"] = 0
  /\ enabled' = TRUE
  /\ accumulator' = [l \in DOMAIN Limiters |-> IF Reset(l) THEN 0 ELSE accumulator[l]]
  /\ since' = [l \in DOMAIN Limiters |-> IF Reset(l) THEN 0 ELSE since[l]]
  /\ current' = 0
  /\ UNCHANGED <<value, torque, quiet, heat>>

Disable ==
  /\ enabled
  /\ enabled' = FALSE
  /\ current' = 0
  /\ UNCHANGED <<limiters, torque, quiet, heat>>

Next ==
  \/ Tick \/ Enable \/ Disable
  \/ \E t \in -MaxTorque..MaxTorque : SetTorque(t)
  \/ \E d \in {-1, 1} : AddTorque(d)

Spec == Init /\ [][Next]_vars
-----------------------------------------------------------------------------
(* Properties *)

Accumulating == {l \in DOMAIN Limiters : Limiters[l].mode = "Accumulate"}

\* Accumulators are bounded, however long the calls go on and the drive is off.
TypeOK ==
  /\ enabled \in BOOLEAN
  /\ torque \in -MaxTorque..MaxTorque /\ current \in -MaxTorque..MaxTorque
  /\ \A l \in Accumulating :
       /\ value[l] \in -Limiters[l].peak..Limiters[l].peak
       /\ accumulator[l] \in 0..Setpoint(l) + MaxRest * Excess(l, Limiters[l].peak)

\* No Limiter takes its drive for cooler than what flowed has made it, whatever
\* it limited before, what the other Limiter took away afterwards, and when the
\* drive was off.
NeverTooCool == \A l \in Accumulating : heat[l] <= Counted(l)

\* "maximum continuous value allowed in Accumulate mode" (Limiter.hpp:75): more
\* than that flows until the setpoint, which peak and time limit give, is
\* reached and for no longer than the program takes to its next call
Budget ==
  \A l \in Accumulating :
    heat[l] <= Setpoint(l) + MaxGap * Excess(l, Limiters[l].peak)
=============================================================================
