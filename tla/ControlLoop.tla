---------------------------- MODULE ControlLoop -----------------------------
(***************************************************************************)
(* What a control loop relies on between its clock, a drive and its board: *)
(* the period it waits for (Timer), the limits of its commands (Limits),   *)
(* the counts of a Quanser card (QuanserEncoder), the life cycle of        *)
(* Sensoray boards (S826) and the velocities of a counter (S826Counter).   *)
(* They share no state; a behaviour is one of them, and one run explores   *)
(* all.                                                                    *)
(***************************************************************************)
EXTENDS Limits

CONSTANTS
  Modes, Period, MaxWork, MaxDelay, MaxLate, MaxTicks, Restarts,            \* of the timer
  Count, Factors, HasVelocity, Failing, Presets, MaxTurn, MaxCount,         \* of the card
  Boards, BoardFailing, QuadratureFactors,                                  \* of the boards
  Stamps, MaxTime, MaxTravel                                                \* of a counter

VARIABLES
  subject,  \* which of the five moves
  \* of the timer
  waitMode, start, prev, ticks, misses, waited, remaining, pc, now, restarts,
  \* of the card's encoder
  values, factors, counter, quadrature, shaft, next, preset, origin, seen,
  \* of the Sensoray boards
  process, systemOpen, open, updating, adc, ranged, counting, modes, dac, config, timer,
  safeMode, told,
  \* of a counter of theirs
  time, turned, count, snapshot, timestamps, rate, motion, updated, before, reset

clockVars   == <<waitMode, start, prev, ticks, misses, waited, remaining, pc, now, restarts>>
encoderVars == <<values, factors, counter, quadrature, shaft, next, preset, origin, seen>>
boardVars   == <<process, systemOpen, open, updating, adc, ranged, counting, modes, dac,
                 config, timer, safeMode, told>>
counterVars == <<time, turned, count, snapshot, timestamps, rate, motion, updated, before, reset>>

Clock   == INSTANCE Timer WITH mode <- waitMode
Encoder == INSTANCE QuanserEncoder WITH mode <- quadrature
Counter == INSTANCE S826Counter WITH values <- snapshot, since <- updated
Board   == INSTANCE S826 WITH Failing <- BoardFailing, mode <- modes

ASSUME ClockAssumption   == Clock!TimerAssumption
ASSUME EncoderAssumption == Encoder!QuanserEncoderAssumption
ASSUME CounterAssumption == Counter!CounterAssumption
ASSUME BoardAssumption   == Board!S826Assumption

LoopInit ==
  /\ subject \in {"clock", "limits", "encoder", "board", "counter"}
  /\ Init /\ Clock!Init /\ Encoder!Init /\ Board!Init /\ Counter!Init
  /\ subject # "clock" => waitMode = "Busy" /\ prev = 0
  /\ subject # "counter" => time = 0 /\ count = 0 /\ turned = FALSE

LoopNext ==
  \/ subject = "clock"   /\ Clock!Next
       /\ UNCHANGED <<subject, vars, encoderVars, boardVars, counterVars>>
  \/ subject = "limits"  /\ Next
       /\ UNCHANGED <<subject, clockVars, encoderVars, boardVars, counterVars>>
  \/ subject = "encoder" /\ Encoder!Next
       /\ UNCHANGED <<subject, vars, clockVars, boardVars, counterVars>>
  \/ subject = "board"   /\ Board!Next
       /\ UNCHANGED <<subject, vars, clockVars, encoderVars, counterVars>>
  \/ subject = "counter" /\ Counter!Next
       /\ UNCHANGED <<subject, vars, clockVars, encoderVars, boardVars>>

\* The boards' own part goes on, as in S826's specification.
LoopSpec ==
  /\ LoopInit /\ [][LoopNext]_<<subject, vars, clockVars, encoderVars, boardVars, counterVars>>
  /\ \A b \in Boards : /\ WF_boardVars(subject = "board" /\ Board!Updated(b))
                       /\ WF_boardVars(subject = "board" /\ Board!Expire(b))
-----------------------------------------------------------------------------
(* Properties, of the modules they are stated in. *)

\* No tick of the clock is earlier than its period (Timer).
NeverEarly == Clock!NeverEarly

\* Positions of a Quanser card are where its shafts were when it was last read
\* (QuanserEncoder).
PositionsTrue == Encoder!PositionsTrue

\* A process that was told it had started the watchdog of board 0, the only one that
\* start() configures, and dies, leaves its outputs safe before long (S826).
DeadMeansSafe == Board!DeadMeansSafe

\* Between two updates of a process, velocities of a Sensoray counter are those of the
\* shaft, and a reset in between makes no spike (S826Counter).
RateIsMotion == Counter!RateIsMotion
=============================================================================
