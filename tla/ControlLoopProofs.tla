-------------------------- MODULE ControlLoopProofs --------------------------
(***************************************************************************)
(* Proofs about what a control loop relies on, for every drive, period and *)
(* card: that the Limiters of Limits keep their budget (NeverTooCool,      *)
(* Budget), that Timer never ticks early, counts what it waited and misses *)
(* nothing a loop has time for (NeverEarly, WaitedWithin, NoMisses,        *)
(* NotAhead), that the positions of QuanserEncoder are those of the shafts *)
(* (PositionsTrue), and that the velocities of S826Counter are how they    *)
(* turned from the second update of a process on (RateIsMotion).           *)
(***************************************************************************)
EXTENDS ControlLoop, TLAPS

-----------------------------------------------------------------------------
(* The Limiters.                                                           *)
Names == {"motor", "amplifier"}
Mag(x) == IF x < 0 THEN -x ELSE x

-----------------------------------------------------------------------------
(* Arithmetic. *)

LEMMA SquareGrows ==
  ASSUME NEW a \in Int, NEW b \in Int, Mag(a) <= Mag(b)
  PROVE  a * a <= b * b
<1>1. \A m, n \in Nat : m <= n => m * m <= n * n
  BY SMT
<1>2. Mag(a) \in Nat /\ Mag(b) \in Nat
  BY DEF Mag
<1>3. Mag(a) * Mag(a) = a * a /\ Mag(b) * Mag(b) = b * b
  BY SMT DEF Mag
<1> QED BY <1>1, <1>2, <1>3

LEMMA Products ==
  /\ \A m, n \in Nat : m * n \in Nat
  /\ \A e \in Int, n \in Nat : e * n \in Int /\ e * (n + 1) = e * n + e
  /\ \A e \in Int, n \in Nat : (e >= 0 => e * n >= 0) /\ (e <= 0 => e * n <= 0)
  /\ \A k, m, e \in Nat : k <= m => k * e <= m * e
BY SMT

LEMMA Saturation ==
  ASSUME NEW x \in Int, NEW limit \in Nat
  PROVE  /\ Saturate(x, limit) \in Int
         /\ Mag(Saturate(x, limit)) <= Mag(x) /\ Mag(Saturate(x, limit)) <= limit
BY DEF Saturate, Mag

-----------------------------------------------------------------------------
(* The Limiters. *)

LEMMA Parameters ==
  /\ DOMAIN Limiters = Names
  /\ \A l \in Names :
       /\ Limiters[l].continuous \in Nat /\ Limiters[l].peak \in Nat
       /\ Limiters[l].time \in Nat /\ Limiters[l].continuous <= Limiters[l].peak
       /\ Limiters[l].mode \in {"None", "Saturate", "Accumulate"}
  /\ TorqueLimit \in Nat /\ MaxGap \in Nat /\ MaxRest \in Nat
BY LimitsAssumption DEF Limiters, Names

\* A value below another in magnitude has no more excess; one below the continuous
\* limit has none.
LEMMA Excesses ==
  ASSUME NEW l \in Names, NEW x \in Int
  PROVE  /\ Excess(l, x) \in Int
         /\ \A y \in Int : Mag(x) <= Mag(y) => Excess(l, x) <= Excess(l, y)
         /\ Mag(x) <= Limiters[l].continuous => Excess(l, x) <= 0
         /\ Mag(x) <= Limiters[l].peak => Excess(l, x) <= Excess(l, Limiters[l].peak)
         /\ Excess(l, Limiters[l].peak) \in Nat /\ Setpoint(l) \in Nat
<1> DEFINE c == Limiters[l].continuous  p == Limiters[l].peak
<1>1. c \in Nat /\ p \in Nat /\ c <= p /\ Limiters[l].time \in Nat /\ Mag(c) = c /\ Mag(p) = p
  BY Parameters DEF Mag
<1>2. x * x \in Int /\ c * c \in Int /\ p * p \in Int
  BY <1>1, SMT
<1>3. Excess(l, x) = x * x - c * c /\ Excess(l, p) = p * p - c * c
  BY DEF Excess
<1>4. c * c <= p * p
  BY <1>1, SquareGrows
<1>5. \A y \in Int : Mag(x) <= Mag(y) => Excess(l, x) <= Excess(l, y)
  <2> SUFFICES ASSUME NEW y \in Int, Mag(x) <= Mag(y) PROVE Excess(l, x) <= Excess(l, y)
    OBVIOUS
  <2>1. y * y \in Int /\ x * x <= y * y
    BY SquareGrows, SMT
  <2>2. Excess(l, y) = y * y - c * c
    BY DEF Excess
  <2> HIDE DEF c
  <2> QED BY <1>2, <1>3, <2>1, <2>2
<1>6. Mag(x) <= c => Excess(l, x) <= 0
  <2> SUFFICES ASSUME Mag(x) <= c PROVE Excess(l, x) <= 0
    OBVIOUS
  <2>1. x * x <= c * c
    BY <1>1, SquareGrows
  <2> QED BY <1>2, <1>3, <2>1
<1>7. Excess(l, p) \in Nat
  BY <1>2, <1>3, <1>4
<1>8. Setpoint(l) \in Nat
  BY <1>1, <1>7, Products DEF Setpoint
<1>9. Mag(x) <= p => Excess(l, x) <= Excess(l, p)
  BY <1>1, <1>5
<1> QED BY <1>2, <1>3, <1>5, <1>6, <1>7, <1>8, <1>9

Types ==
  /\ accumulator \in [Names -> Nat] /\ value \in [Names -> Int] /\ since \in [Names -> Nat]
  /\ torque \in Int /\ current \in Int /\ enabled \in BOOLEAN /\ quiet \in Nat
  /\ heat \in [Names -> Nat]

LEMMA Counts ==
  ASSUME Types, NEW l \in Names
  PROVE  /\ Counted(l) \in Nat
         /\ Counted(l) >= accumulator[l] + Excess(l, value[l]) * since[l]
         /\ accumulator[l] + Excess(l, value[l]) * since[l] \in Int
<1>1. Excess(l, value[l]) \in Int
  BY Excesses DEF Types
<1>2. Excess(l, value[l]) * since[l] \in Int
  BY <1>1, Products DEF Types
<1> QED BY <1>2 DEF Counted, Larger, Types

\* limit() never makes a value larger, and holds an accumulating Limiter to its peak,
\* or to its continuous limit above the setpoint.
LEMMA Allows ==
  ASSUME Types, NEW l \in Names, NEW x \in Int
  PROVE  /\ Allowed(l, x) \in Int /\ Mag(Allowed(l, x)) <= Mag(x)
         /\ l \in Accumulating =>
              /\ Mag(Allowed(l, x)) <= Limiters[l].peak
              /\ Counted(l) > Setpoint(l) => Mag(Allowed(l, x)) <= Limiters[l].continuous
<1>1. Limiters[l].continuous \in Nat /\ Limiters[l].peak \in Nat /\ Limiters[l].continuous <= Limiters[l].peak
  BY Parameters
<1>2. CASE Limiters[l].mode = "None"
  BY <1>2 DEF Allowed, Mag, Accumulating
<1>3. CASE Limiters[l].mode = "Saturate"
  BY <1>1, <1>3, Saturation DEF Allowed, Accumulating
<1>4. CASE Limiters[l].mode = "Accumulate"
  <2>1. Allowed(l, x) = Saturate(x, IF Counted(l) > Setpoint(l)
                                    THEN Limiters[l].continuous ELSE Limiters[l].peak)
    BY <1>4 DEF Allowed
  <2>2. CASE Counted(l) > Setpoint(l)
    <3>1. Allowed(l, x) = Saturate(x, Limiters[l].continuous)
      BY <2>1, <2>2
    <3>2. /\ Allowed(l, x) \in Int /\ Mag(Allowed(l, x)) <= Mag(x)
          /\ Mag(Allowed(l, x)) <= Limiters[l].continuous
      BY <1>1, <3>1, Saturation
    <3> QED BY <1>1, <3>2 DEF Mag
  <2>3. CASE ~(Counted(l) > Setpoint(l))
    <3>1. Allowed(l, x) = Saturate(x, Limiters[l].peak)
      BY <2>1, <2>3
    <3> QED BY <1>1, <2>3, <3>1, Saturation
  <2> QED BY <2>2, <2>3
<1> QED BY <1>2, <1>3, <1>4, Parameters
-----------------------------------------------------------------------------
(* What a step leaves of the Limiters.                                      *)

Heats ==
  /\ \A l \in Names : Mag(current) <= Mag(value[l])
  /\ NeverTooCool

LEMMA InitHeats == Init => Types /\ Heats
<1> SUFFICES ASSUME Init PROVE Types /\ Heats
  OBVIOUS
<1>1. Types
  <2>1. DOMAIN Limiters = Names
    BY Parameters
  <2>2. accumulator \in [Names -> Nat] /\ since \in [Names -> Nat] /\ heat \in [Names -> Nat]
    BY <2>1 DEF Init
  <2>3. value \in [Names -> Int]
    BY <2>1 DEF Init
  <2>4. torque \in Int /\ current \in Int /\ quiet \in Nat
    BY DEF Init
  <2>5. enabled \in BOOLEAN
    BY DEF Init
  <2> QED BY <2>2, <2>3, <2>4, <2>5 DEF Types
<1>2. \A l \in Names : Counted(l) \in Nat
  BY <1>1, Counts
<1>3. \A l \in Accumulating : heat[l] = 0 /\ l \in Names
  BY Parameters DEF Init, Accumulating
<1>4. \A l \in Names : Mag(current) <= Mag(value[l])
  BY Parameters DEF Init, Mag
<1>5. NeverTooCool
  BY <1>2, <1>3 DEF NeverTooCool
<1> QED BY <1>1, <1>4, <1>5 DEF Heats

\* What a command leaves: the motor's Limiter sees what the joint let through, the
\* amplifier's what the motor's let through.
LEMMA Commands ==
  ASSUME Types, NEW t \in Int, Command(t)
  PROVE  /\ Types'
         /\ \A l \in Names : /\ Mag(current') <= Mag(value'[l]) /\ since'[l] = 0
                             /\ \E x \in Int : value'[l] = Allowed(l, x)
                             /\ l \in Accumulating => accumulator'[l] = Counted(l)
         /\ quiet' = 0 /\ UNCHANGED <<enabled, heat>>
<1> DEFINE commanded == IF t \notin -TorqueLimit..TorqueLimit /\ Saturated
                        THEN Saturate(t, TorqueLimit) ELSE t
           motor == Allowed("motor", commanded)
           amplifier == Allowed("amplifier", motor)
<1>1. commanded \in Int
  BY Parameters, Saturation
<1>2. "motor" \in Names /\ "amplifier" \in Names
  BY DEF Names
<1>3. motor \in Int /\ Mag(motor) <= Mag(commanded)
  BY <1>1, <1>2, Allows
<1>4. amplifier \in Int /\ Mag(amplifier) <= Mag(motor)
  BY <1>2, <1>3, Allows
<1>5. /\ torque' = commanded /\ current' = amplifier /\ quiet' = 0
      /\ value' = [motor |-> motor, amplifier |-> amplifier]
      /\ since' = [l \in Names |-> 0]
      /\ accumulator' = [l \in Names |-> IF Limiters[l].mode = "Accumulate" THEN Counted(l) ELSE 0]
      /\ UNCHANGED <<enabled, heat>>
  BY Parameters DEF Command
<1> HIDE DEF commanded, motor, amplifier
<1>6. value' \in [Names -> Int] /\ value'["motor"] = motor /\ value'["amplifier"] = amplifier
  BY <1>3, <1>4, <1>5 DEF Names
<1>7. \A l \in Names : Counted(l) \in Nat
  BY Counts
<1>8. Types'
  BY <1>1, <1>4, <1>5, <1>6, <1>7 DEF Types
<1>9. \A l \in Names : Mag(current') <= Mag(value'[l])
  BY <1>4, <1>5, <1>6 DEF Names, Mag
<1>10. \A l \in Names : \E x \in Int : value'[l] = Allowed(l, x)
  <2>1. value'["motor"] = Allowed("motor", commanded)
    BY <1>6 DEF motor
  <2>2. value'["amplifier"] = Allowed("amplifier", motor)
    BY <1>6 DEF amplifier
  <2> QED BY <1>1, <1>3, <2>1, <2>2 DEF Names
<1>11. \A l \in Names : l \in Accumulating => accumulator'[l] = Counted(l)
  BY <1>5 DEF Accumulating
<1> QED BY <1>5, <1>8, <1>9, <1>10, <1>11

\* A tick heats by no more than what flows.
LEMMA Ticks ==
  ASSUME Types, Tick, NEW l \in Names
  PROVE  /\ UNCHANGED <<accumulator, value, torque, current, enabled>>
         /\ l \in Accumulating => /\ since'[l] = since[l] + 1
                                  /\ heat'[l] = Larger(0, heat[l] + Excess(l, Flow))
         /\ quiet' = quiet + 1 /\ quiet < (IF Flow # 0 THEN MaxGap ELSE MaxRest)
         /\ Flow \in Int /\ Mag(Flow) <= Mag(current)
BY Parameters DEF Types, Tick, Accumulating, Flow, Mag

LEMMA TickTypes == Types /\ Tick => Types'
<1> SUFFICES ASSUME Types, Tick PROVE Types'
  OBVIOUS
<1>1. Flow \in Int
  BY DEF Flow, Types
<1>2. \A l \in Names : heat[l] + Excess(l, Flow) \in Int
  BY <1>1, Excesses DEF Types
<1>3. heat' \in [Names -> Nat]
  <2>1. heat' = [l \in Names |-> IF Limiters[l].mode = "Accumulate"
                                 THEN Larger(0, heat[l] + Excess(l, Flow)) ELSE 0]
    BY DEF Tick, Types
  <2> QED BY <1>2, <2>1 DEF Larger
<1>4. since' \in [Names -> Nat]
  BY DEF Tick, Types
<1> QED BY <1>3, <1>4 DEF Tick, Types

\* Enabling and disabling set the command to zero and, of an accumulating Limiter,
\* reset at most the amplifier's.
LEMMA Switches ==
  ASSUME Types, Enable \/ Disable
  PROVE  /\ Types' /\ current' = 0 /\ UNCHANGED <<value, torque, quiet, heat>>
         /\ accumulator["motor"] = accumulator'["motor"] /\ since["motor"] = since'["motor"]
         /\ \/ UNCHANGED <<accumulator, since>>
            \/ /\ Enable /\ AmplifierLimiter.mode = "Accumulate"
               /\ accumulator'["amplifier"] = 0 /\ since'["amplifier"] = 0
<1>1. CASE Disable
  <2>1. enabled' = FALSE /\ current' = 0 /\ UNCHANGED <<accumulator, value, since, torque, quiet, heat>>
    BY <1>1 DEF Disable, limiters
  <2>2. /\ accumulator' \in [Names -> Nat] /\ value' \in [Names -> Int] /\ since' \in [Names -> Nat]
        /\ torque' \in Int /\ current' \in Int /\ quiet' \in Nat /\ heat' \in [Names -> Nat]
    BY <2>1 DEF Types
  <2>3. enabled' \in BOOLEAN
    BY <2>1
  <2>4. Types'
    BY <2>2, <2>3 DEF Types
  <2> QED BY <2>1, <2>4
<1>2. CASE Enable
  <2>1. /\ enabled' = TRUE /\ current' = 0 /\ UNCHANGED <<value, torque, quiet, heat>>
        /\ accumulator' = [l \in Names |-> IF Reset(l) THEN 0 ELSE accumulator[l]]
        /\ since' = [l \in Names |-> IF Reset(l) THEN 0 ELSE since[l]]
    BY <1>2, Parameters DEF Enable
  <2>2. ~Reset("motor")
    BY DEF Reset
  <2>3. Reset("amplifier") => AmplifierLimiter.mode = "Accumulate"
    BY DEF Reset, Limiters
  <2>4. Types'
    BY <2>1 DEF Types
  <2>5. ~Reset("amplifier") => UNCHANGED <<accumulator, since>>
    BY <2>1, <2>2 DEF Types, Names
  <2> QED BY <1>2, <2>1, <2>2, <2>3, <2>4, <2>5 DEF Names
<1> QED BY <1>1, <1>2
-----------------------------------------------------------------------------
(* The heat of a drive and the accumulator of its Limiter.                  *)

LEMMA TickHeats ==
  ASSUME Types, Heats, Tick
  PROVE  Heats'
<1>1. \A l \in Names : Mag(current') <= Mag(value'[l])
  BY Ticks DEF Heats
<1>2. ASSUME NEW l \in Accumulating PROVE (heat[l] <= Counted(l))'
  <2>1. l \in Names
    BY Parameters DEF Accumulating
  <2> DEFINE e == Excess(l, value[l])  f == Excess(l, Flow)  sum == accumulator[l] + e * since[l]
  <2>2. /\ accumulator'[l] = accumulator[l] /\ value'[l] = value[l] /\ since'[l] = since[l] + 1
        /\ heat'[l] = Larger(0, heat[l] + f)
        /\ Flow \in Int /\ Mag(Flow) <= Mag(current) /\ current \in Int
    BY <1>2, <2>1, Ticks DEF Types
  <2>3. e \in Int /\ f \in Int /\ f <= e
    <3>1. value[l] \in Int /\ Mag(Flow) <= Mag(value[l])
      BY <2>1, <2>2 DEF Types, Heats, Mag
    <3> QED BY <2>1, <2>2, <3>1, Excesses
  <2>4. sum \in Int /\ e * since[l] \in Int /\ (e >= 0 => sum >= 0)
    <3>1. accumulator[l] \in Nat /\ since[l] \in Nat
      BY <2>1 DEF Types
    <3> HIDE DEF e
    <3>2. e * since[l] \in Int /\ (e >= 0 => e * since[l] >= 0)
      BY <2>3, <3>1, Products
    <3> QED BY <3>1, <3>2
  <2>5. e * (since[l] + 1) = e * since[l] + e
    BY <2>1, <2>3, Products DEF Types
  <2>6. Counted(l) = Larger(0, sum)
    BY DEF Counted
  <2>7. Counted(l)' = Larger(0, sum + e)
    <3>1. Counted(l)' = Larger(0, accumulator'[l] + Excess(l, value'[l]) * since'[l])
      BY DEF Counted, Excess, Limiters
    <3>2. accumulator'[l] + Excess(l, value'[l]) * since'[l] = accumulator[l] + e * (since[l] + 1)
      BY <2>2
    <3>3. accumulator[l] + e * (since[l] + 1) = sum + e
      <4>1. accumulator[l] \in Int
        BY <2>1 DEF Types
      <4>2. \A a, p, d \in Int : a + (p + d) = (a + p) + d
        OBVIOUS
      <4>3. (accumulator[l] + e * since[l]) + e = sum + e
        OBVIOUS
      <4> HIDE DEF e, sum
      <4> QED BY <2>3, <2>4, <2>5, <4>1, <4>2, <4>3
    <3> QED BY <3>1, <3>2, <3>3
  <2>8. heat[l] \in Nat /\ heat[l] <= Larger(0, sum)
    BY <1>2, <2>1, <2>6 DEF Types, Heats, NeverTooCool
  <2> HIDE DEF e, f, sum
  <2>9. Larger(0, heat[l] + f) <= Larger(0, sum + e)
    BY <2>3, <2>4, <2>8 DEF Larger
  <2> QED BY <2>2, <2>7, <2>9
<1>3. NeverTooCool'
  BY <1>2 DEF NeverTooCool, Accumulating
<1> QED BY <1>1, <1>3 DEF Heats

LEMMA CommandHeats ==
  ASSUME Types, Heats, NEW t \in Int, Command(t)
  PROVE  Heats'
<1>1. \A l \in Names : Mag(current') <= Mag(value'[l])
  BY Commands
<1>2. ASSUME NEW l \in Accumulating PROVE (heat[l] <= Counted(l))'
  <2>1. l \in Names
    BY Parameters DEF Accumulating
  <2>2. /\ accumulator'[l] = Counted(l) /\ since'[l] = 0 /\ heat'[l] = heat[l] /\ value'[l] \in Int
    BY <1>2, <2>1, Commands DEF Types
  <2>3. Counted(l) \in Nat /\ heat[l] <= Counted(l)
    BY <1>2, <2>1, Counts DEF Heats, NeverTooCool
  <2>4. Counted(l)' = Larger(0, accumulator'[l] + Excess(l, value'[l]) * since'[l])
    BY DEF Counted, Excess, Limiters
  <2>5. Excess(l, value'[l]) * since'[l] = 0
    <3>1. Excess(l, value'[l]) \in Int
      BY <2>1, <2>2, Excesses
    <3> QED BY <2>2, <3>1
  <2>6. Counted(l)' = Counted(l)
    BY <2>2, <2>3, <2>4, <2>5 DEF Larger
  <2> QED BY <2>2, <2>3, <2>6
<1>3. NeverTooCool'
  BY <1>2 DEF NeverTooCool, Accumulating
<1> QED BY <1>1, <1>3 DEF Heats

\* An amplifier with a Limiter is only enabled when cool, or has none.
Careful == Patient \/ AmplifierLimiter.mode # "Accumulate"

LEMMA SwitchHeats ==
  ASSUME Careful, Types, Heats, Enable \/ Disable
  PROVE  Heats'
<1>1. \A l \in Names : value[l] \in Int /\ value'[l] \in Int /\ value'[l] = value[l]
  BY Switches DEF Types
<1>2. \A l \in Names : Mag(current') <= Mag(value'[l])
  BY <1>1, Switches DEF Mag
<1>3. ASSUME NEW l \in Accumulating PROVE (heat[l] <= Counted(l))'
  <2>1. l \in Names
    BY Parameters DEF Accumulating
  <2>2. heat'[l] = heat[l] /\ heat[l] \in Nat /\ heat[l] <= Counted(l)
    BY <1>3, <2>1, Switches DEF Types, Heats, NeverTooCool
  <2>3. Counted(l)' = Larger(0, accumulator'[l] + Excess(l, value'[l]) * since'[l])
    BY DEF Counted, Excess, Limiters
  <2>4. CASE accumulator'[l] = accumulator[l] /\ since'[l] = since[l]
    <3>1. Counted(l)' = Counted(l)
      BY <1>1, <2>1, <2>3, <2>4 DEF Counted
    <3> QED BY <2>2, <3>1
  <2>5. CASE ~(accumulator'[l] = accumulator[l] /\ since'[l] = since[l])
    <3>1. l = "amplifier" /\ Enable /\ AmplifierLimiter.mode = "Accumulate"
      BY <2>1, <2>5, Switches DEF Names
    <3>2. heat[l] = 0
      BY <3>1 DEF Careful, Enable
    <3>3. accumulator'[l] = 0 /\ since'[l] = 0
      BY <2>5, <3>1, Switches
    <3>4. Excess(l, value'[l]) \in Int
      BY <1>1, <2>1, Excesses
    <3>5. Counted(l)' = 0
      <4>1. accumulator'[l] + Excess(l, value'[l]) * since'[l] = 0
        BY <3>3, <3>4
      <4> QED BY <2>3, <4>1 DEF Larger
    <3> QED BY <2>2, <3>2, <3>5
  <2> QED BY <2>4, <2>5
<1>4. NeverTooCool'
  BY <1>3 DEF NeverTooCool, Accumulating
<1> QED BY <1>2, <1>4 DEF Heats

\* A Limiter counts at least what has flowed: what the other Limiter takes away, rests
\* and disabled times never make it take a drive for cooler than it is.
THEOREM NeverCooler ==
  ASSUME Careful
  PROVE  Spec => []NeverTooCool
<1>1. Types /\ Heats /\ [Next]_vars => Types' /\ Heats'
  <2> SUFFICES ASSUME Types, Heats, [Next]_vars PROVE Types' /\ Heats'
    OBVIOUS
  <2>1. CASE Tick
    BY <2>1, TickTypes, TickHeats
  <2>2. CASE Enable \/ Disable
    BY <2>2, Switches, SwitchHeats
  <2>3. ASSUME NEW t \in -MaxTorque..MaxTorque, SetTorque(t) PROVE Types' /\ Heats'
    <3>1. t \in Int /\ Command(t)
      BY <2>3 DEF SetTorque
    <3> QED BY <3>1, Commands, CommandHeats
  <2>4. ASSUME NEW d \in {-1, 1}, AddTorque(d) PROVE Types' /\ Heats'
    <3>1. torque + d \in Int /\ Command(torque + d)
      BY <2>4 DEF AddTorque, Types
    <3> QED BY <3>1, Commands, CommandHeats
  <2>5. CASE UNCHANGED vars
    BY <2>5 DEF vars, limiters, Types, Heats, NeverTooCool, Counted
  <2> QED BY <2>1, <2>2, <2>3, <2>4, <2>5 DEF Next
<1>2. Heats => NeverTooCool
  BY DEF Heats
<1> QED BY <1>1, <1>2, InitHeats, PTL DEF Spec

-----------------------------------------------------------------------------
(* The budget: more than the continuous limit flows only while the last     *)
(* call found the Limiter below its setpoint, and no longer than MaxGap.    *)

Most(l) == Excess(l, Limiters[l].peak)

Within(l) ==
  /\ Mag(value[l]) <= Limiters[l].peak
  /\ heat[l] <= Setpoint(l) + MaxGap * Most(l)
  /\ Mag(Flow) > Limiters[l].continuous =>
       quiet <= MaxGap /\ heat[l] <= Setpoint(l) + quiet * Most(l)

BudgetInv == \A l \in Accumulating : Within(l)

LEMMA MostFacts ==
  ASSUME NEW l \in Names
  PROVE  /\ Most(l) \in Nat /\ Setpoint(l) \in Nat /\ MaxGap \in Nat
         /\ Limiters[l].continuous \in Nat /\ Limiters[l].peak \in Nat
         /\ \A n \in Nat : n * Most(l) \in Nat /\ (n + 1) * Most(l) = n * Most(l) + Most(l)
         /\ \A n \in Nat : n <= MaxGap => n * Most(l) <= MaxGap * Most(l)
<1>1. Most(l) \in Nat /\ Setpoint(l) \in Nat
  <2>1. 0 \in Int
    OBVIOUS
  <2> QED BY <2>1, Excesses DEF Most
<1>2. \A n, e \in Nat : n * e \in Nat /\ (n + 1) * e = n * e + e
  BY SMT
<1> QED BY <1>1, <1>2, Parameters, Products

LEMMA Unchanging ==
  ASSUME NEW l \in Names
  PROVE  /\ (Setpoint(l))' = Setpoint(l) /\ (Most(l))' = Most(l)
         /\ (Limiters[l].peak)' = Limiters[l].peak
         /\ (Limiters[l].continuous)' = Limiters[l].continuous
BY DEF Setpoint, Most, Excess, Limiters

LEMMA TickBudget ==
  ASSUME Types, Heats, BudgetInv, Tick, NEW l \in Accumulating
  PROVE  Within(l)'
<1>1. l \in Names
  BY Parameters DEF Accumulating
<1> DEFINE f == Excess(l, Flow)  limit == Setpoint(l) + MaxGap * Most(l)
<1>2. /\ UNCHANGED <<value, current, enabled>> /\ heat'[l] = Larger(0, heat[l] + f)
      /\ quiet' = quiet + 1 /\ quiet < (IF Flow # 0 THEN MaxGap ELSE MaxRest)
      /\ Flow \in Int /\ Mag(Flow) <= Mag(current)
  BY <1>1, Ticks
<1>3. Mag(Flow) <= Limiters[l].peak
  <2>1. /\ Mag(Flow) \in Int /\ Mag(current) \in Int /\ Mag(value[l]) \in Int
        /\ Limiters[l].peak \in Int
    BY <1>1, <1>2, Parameters DEF Types, Mag
  <2>2. Mag(current) <= Mag(value[l])
    BY <1>1 DEF Heats
  <2>3. Mag(value[l]) <= Limiters[l].peak
    BY DEF BudgetInv, Within
  <2> QED BY <1>2, <2>1, <2>2, <2>3
<1>4. /\ f \in Int /\ f <= Most(l)
      /\ Mag(Flow) <= Limiters[l].continuous => f <= 0
  <2>1. Flow \in Int
    BY <1>2
  <2> QED BY <1>1, <1>3, <2>1, Excesses DEF Most
<1>5. /\ heat[l] \in Nat /\ quiet \in Nat /\ heat[l] <= limit
      /\ Mag(Flow) > Limiters[l].continuous => heat[l] <= Setpoint(l) + quiet * Most(l)
  BY <1>1 DEF Types, BudgetInv, Within
<1>6. /\ Most(l) \in Nat /\ Setpoint(l) \in Nat /\ quiet * Most(l) \in Nat /\ limit \in Nat
      /\ (quiet + 1) * Most(l) = quiet * Most(l) + Most(l)
      /\ MaxGap * Most(l) \in Nat /\ Limiters[l].continuous \in Nat
  <2>1. /\ Most(l) \in Nat /\ Setpoint(l) \in Nat /\ MaxGap \in Nat
        /\ Limiters[l].continuous \in Nat
        /\ \A n \in Nat : n * Most(l) \in Nat /\ (n + 1) * Most(l) = n * Most(l) + Most(l)
    BY <1>1, MostFacts
  <2>2. MaxGap * Most(l) \in Nat /\ quiet * Most(l) \in Nat
        /\ (quiet + 1) * Most(l) = quiet * Most(l) + Most(l)
    BY <1>5, <2>1
  <2>3. \A a, b \in Nat : a + b \in Nat
    OBVIOUS
  <2>4. limit \in Nat
    BY <2>1, <2>2, <2>3, Zenon
  <2> QED BY <2>1, <2>2, <2>4
<1>7. Flow' = Flow
  BY <1>2 DEF Flow
<1>8. Mag(Flow) > Limiters[l].continuous => quiet + 1 <= MaxGap
  <2> SUFFICES ASSUME Mag(Flow) > Limiters[l].continuous PROVE quiet + 1 <= MaxGap
    OBVIOUS
  <2>1. Flow # 0
    BY <1>6 DEF Mag
  <2>2. quiet < MaxGap
    BY <1>2, <2>1
  <2> QED BY <1>5, <2>2, Parameters
<1>9. Mag(Flow) > Limiters[l].continuous =>
        /\ heat'[l] <= Setpoint(l) + (quiet + 1) * Most(l)
        /\ heat'[l] <= limit
  <2> SUFFICES ASSUME Mag(Flow) > Limiters[l].continuous
               PROVE  /\ heat'[l] <= Setpoint(l) + (quiet + 1) * Most(l)
                      /\ heat'[l] <= limit
    OBVIOUS
  <2> HIDE DEF f
  <2>1. heat'[l] <= Setpoint(l) + (quiet * Most(l) + Most(l))
    BY <1>2, <1>4, <1>5, <1>6 DEF Larger
  <2>2. (quiet + 1) * Most(l) <= MaxGap * Most(l)
    <3>1. \A n \in Nat : n <= MaxGap => n * Most(l) <= MaxGap * Most(l)
      BY <1>1, MostFacts
    <3>2. quiet + 1 <= MaxGap
      BY <1>8
    <3>3. quiet + 1 \in Nat
      BY <1>5
    <3> QED BY <3>1, <3>2, <3>3, Zenon
  <2>3. heat'[l] \in Int
    BY <1>2, <1>4, <1>5 DEF Larger
  <2> QED BY <1>6, <2>1, <2>2, <2>3
<1>10. ~(Mag(Flow) > Limiters[l].continuous) => heat'[l] <= limit
  <2> SUFFICES ASSUME ~(Mag(Flow) > Limiters[l].continuous) PROVE heat'[l] <= limit
    OBVIOUS
  <2>1. f <= 0
    BY <1>2, <1>4, <1>6 DEF Mag
  <2> HIDE DEF f, limit
  <2> QED BY <1>2, <1>4, <1>5, <1>6, <2>1 DEF Larger
<1>11. heat'[l] <= limit
  BY <1>9, <1>10
<1>12. Mag(value'[l]) <= Limiters[l].peak
  BY <1>2 DEF BudgetInv, Within
<1> QED BY <1>1, <1>2, <1>7, <1>8, <1>9, <1>11, <1>12, Unchanging DEF Within, Mag

\* A Limiter lets through more than the continuous limit only below its setpoint,
\* and what has flowed is no more than it counts.
LEMMA CommandBudget ==
  ASSUME Types, Heats, BudgetInv, NEW t \in Int, Command(t), NEW l \in Accumulating
  PROVE  Within(l)'
<1>1. l \in Names
  BY Parameters DEF Accumulating
<1>2. /\ Types' /\ quiet' = 0 /\ UNCHANGED <<enabled, heat>>
      /\ Mag(current') <= Mag(value'[l])
  BY <1>1, Commands
<1>3. PICK x \in Int : value'[l] = Allowed(l, x)
  BY <1>1, Commands
<1>4. /\ Mag(value'[l]) <= Limiters[l].peak
      /\ Counted(l) > Setpoint(l) => Mag(value'[l]) <= Limiters[l].continuous
  BY <1>1, <1>3, Allows
<1>5. /\ current' \in Int /\ Flow' \in Int /\ Mag(Flow') <= Mag(current')
      /\ value'[l] \in Int
  <2>1. current' \in Int /\ value' \in [Names -> Int]
    BY <1>2 DEF Types
  <2>2. Flow' = current' \/ Flow' = 0
    BY DEF Flow
  <2>3. Flow' \in Int /\ Mag(Flow') <= Mag(current')
    BY <2>1, <2>2 DEF Mag
  <2> QED BY <1>1, <2>1, <2>3
<1>6. Mag(Flow') > Limiters[l].continuous => heat[l] <= Setpoint(l)
  <2> SUFFICES ASSUME Mag(Flow') > Limiters[l].continuous PROVE heat[l] <= Setpoint(l)
    OBVIOUS
  <2>1. /\ Mag(Flow') \in Int /\ Mag(current') \in Int /\ Mag(value'[l]) \in Int
        /\ Limiters[l].continuous \in Int
    BY <1>1, <1>5, Parameters DEF Mag
  <2>2. ~(Counted(l) > Setpoint(l))
    BY <1>2, <1>4, <1>5, <2>1
  <2>3. Counted(l) \in Nat /\ Setpoint(l) \in Nat /\ heat[l] \in Nat
    BY <1>1, Counts, MostFacts DEF Types
  <2>4. heat[l] <= Counted(l)
    BY DEF Heats, NeverTooCool
  <2> QED BY <2>2, <2>3, <2>4
<1>7. 0 * Most(l) = 0 /\ Setpoint(l) \in Nat /\ MaxGap \in Nat
  BY <1>1, MostFacts
<1>8. heat'[l] <= Setpoint(l) + MaxGap * Most(l)
  BY <1>2 DEF BudgetInv, Within
<1>9. Mag(Flow') > Limiters[l].continuous =>
        quiet' <= MaxGap /\ heat'[l] <= Setpoint(l) + quiet' * Most(l)
  BY <1>2, <1>6, <1>7
<1> QED BY <1>1, <1>4, <1>8, <1>9, Unchanging DEF Within, Mag

LEMMA SwitchBudget ==
  ASSUME Types, BudgetInv, Enable \/ Disable, NEW l \in Accumulating
  PROVE  Within(l)'
<1>1. l \in Names
  BY Parameters DEF Accumulating
<1>2. current' = 0 /\ UNCHANGED <<value, heat>>
  BY Switches
<1>3. ~(Mag(Flow') > Limiters[l].continuous)
  <2>1. Flow' = 0
    BY <1>2 DEF Flow
  <2> QED BY <1>1, <2>1, Parameters DEF Mag
<1>4. Mag(value'[l]) <= Limiters[l].peak /\ heat'[l] <= Setpoint(l) + MaxGap * Most(l)
  BY <1>2 DEF BudgetInv, Within
<1> QED BY <1>1, <1>3, <1>4, Unchanging DEF Within, Mag

LEMMA InitBudget == Init => BudgetInv
<1> SUFFICES ASSUME Init, NEW l \in Accumulating PROVE Within(l)
  BY DEF BudgetInv
<1>1. l \in Names
  BY Parameters DEF Accumulating
<1>2. value[l] = 0 /\ heat[l] = 0 /\ Flow = 0
  BY <1>1, Parameters DEF Init, Flow
<1>3. Limiters[l].peak \in Nat /\ Limiters[l].continuous \in Nat /\ Setpoint(l) \in Nat
      /\ MaxGap * Most(l) \in Nat
  BY <1>1, MostFacts
<1>4. 0 <= Setpoint(l) + MaxGap * Most(l)
  BY <1>3
<1> QED BY <1>2, <1>3, <1>4 DEF Within, Mag

\* What flows beyond the continuous limit of an accumulating Limiter stays within the
\* setpoint and the one gap between calls in which it is passed.
THEOREM BudgetKept ==
  ASSUME Careful
  PROVE  Spec => []Budget
<1>1. Types /\ Heats /\ BudgetInv /\ [Next]_vars => Types' /\ Heats' /\ BudgetInv'
  <2> SUFFICES ASSUME Types, Heats, BudgetInv, [Next]_vars PROVE Types' /\ Heats' /\ BudgetInv'
    OBVIOUS
  <2>1. CASE Tick
    BY <2>1, TickTypes, TickHeats, TickBudget DEF BudgetInv, Accumulating
  <2>2. CASE Enable \/ Disable
    BY <2>2, Switches, SwitchHeats, SwitchBudget DEF BudgetInv, Accumulating
  <2>3. ASSUME NEW t \in -MaxTorque..MaxTorque, SetTorque(t)
        PROVE  Types' /\ Heats' /\ BudgetInv'
    <3>1. t \in Int /\ Command(t)
      BY <2>3 DEF SetTorque
    <3> QED BY <3>1, Commands, CommandHeats, CommandBudget DEF BudgetInv, Accumulating
  <2>4. ASSUME NEW d \in {-1, 1}, AddTorque(d) PROVE Types' /\ Heats' /\ BudgetInv'
    <3>1. torque + d \in Int /\ Command(torque + d)
      BY <2>4 DEF AddTorque, Types
    <3> QED BY <3>1, Commands, CommandHeats, CommandBudget DEF BudgetInv, Accumulating
  <2>5. CASE UNCHANGED vars
    BY <2>5 DEF vars, limiters, Types, Heats, NeverTooCool, Counted, BudgetInv, Within, Flow
  <2> QED BY <2>1, <2>2, <2>3, <2>4, <2>5 DEF Next
<1>2. BudgetInv => Budget
  BY DEF BudgetInv, Within, Budget, Most
<1> QED BY <1>1, <1>2, InitHeats, InitBudget, PTL DEF Spec

-----------------------------------------------------------------------------
(* The timer.                                                              *)

LEMMA ClockBounds ==
  /\ Period \in Nat /\ Period > 0 /\ MaxWork \in Nat /\ MaxDelay \in Nat
  /\ MaxLate \in Nat /\ MaxTicks \in Nat /\ Restarts \in Nat
BY ClockAssumption DEF Clock!TimerAssumption

\* A delay takes time on, and no more than the bound of it.
LEMMA Delayed ==
  ASSUME NEW t \in Nat, NEW bound \in Nat, NEW u \in {t + d : d \in 0..bound}
  PROVE  u \in Nat /\ t <= u /\ u <= t + bound
OBVIOUS

-----------------------------------------------------------------------------
(* What a wait in progress still has to wait reaches the end of the period. *)

Times ==
  /\ waitMode \in Modes /\ remaining \in Int /\ restarts \in 0..Restarts
  /\ pc \in {"work", "wait", "busy", "sleep", "rest", "save", "restart"}
  /\ start \in Nat /\ prev \in Nat /\ now \in Nat /\ start <= now /\ prev <= now
  /\ misses \in Nat /\ waited \in Nat /\ ticks \in 0..MaxTicks
  /\ (pc \notin {"work", "restart"} => ticks < MaxTicks)

Reaches ==
  /\ pc = "save" => prev + Period <= now
  /\ pc = "busy" => prev + Period <= now + remaining
  /\ pc = "sleep" /\ waitMode # "Hybrid" => prev + Period <= now + remaining
  /\ pc = "sleep" => remaining > 0

ClockInv == Times /\ Reaches

LEMMA Later ==
  \A end, t, u, r \in Int : end <= t + r /\ t <= u => end <= u + r
BY SMT

\* Nine tenths of a time are a natural number.
LEMMA NineTenths == \A r \in Nat : (r * 9) \div 10 \in Nat
  BY SMT

LEMMA ClockInit ==
  Clock!Init => ClockInv
  BY ClockBounds DEF Clock!Init, Clock!Delays, ClockInv, Times, Reaches

LEMMA ClockStep ==
  ClockInv /\ [Clock!Next]_(Clock!vars) => ClockInv'
<1> SUFFICES ASSUME ClockInv, [Clock!Next]_(Clock!vars) PROVE ClockInv'
  OBVIOUS
<1> USE ClockBounds DEF ClockInv, Times, Reaches
<1>1. CASE Clock!Work
  BY <1>1 DEF Clock!Work, Clock!counts
<1>2. CASE Clock!Wait
  <2>1. now' \in Nat /\ now <= now'
    BY <1>2, Delayed DEF Clock!Wait, Clock!Delays
  <2>2. Clock!Left \in Int /\ prev + Period <= now + Clock!Left
    BY DEF Clock!Left
  <2>3. /\ pc = "wait" /\ remaining' = Clock!Left /\ misses' \in Nat /\ waited' \in Nat
        /\ pc' = IF Clock!Left <= 0 THEN "save" ELSE IF waitMode = "Busy" THEN "busy" ELSE "sleep"
        /\ UNCHANGED <<waitMode, start, prev, ticks, restarts>>
    BY <1>2, <2>2 DEF Clock!Wait, Clock!Waited
  <2> HIDE DEF Clock!Left
  <2>4. Times'
    BY <2>1, <2>2, <2>3
  <2>5. CASE Clock!Left <= 0
    BY <2>1, <2>2, <2>3, <2>4, <2>5
  <2>6. CASE Clock!Left > 0
    <3>1. prev + Period <= now' + Clock!Left
      <4>1. prev + Period \in Int /\ now \in Int /\ now' \in Int
        BY <2>1
      <4> QED BY <2>1, <2>2, <4>1, Later
    <3>2. prev' + Period <= now' + remaining' /\ remaining' > 0
      BY <2>3, <2>6, <3>1
    <3>3. pc' \in {"busy", "sleep"}
      BY <2>2, <2>3, <2>6
    <3>4. Reaches'
      BY <3>2, <3>3
    <3> QED BY <2>4, <3>4
  <2> QED BY <2>2, <2>5, <2>6
<1>3. CASE Clock!WaitBusy
  <2>1. now' \in Nat /\ now <= now' /\ now + remaining <= now'
    <3>1. CASE remaining > 0
      <4>1. now' \in {(now + remaining) + d : d \in 0..MaxDelay} /\ now + remaining \in Nat
        BY <1>3, <3>1 DEF Clock!WaitBusy, Clock!Delays
      <4> QED BY <3>1, <4>1, Delayed
    <3>2. CASE ~(remaining > 0)
      <4>1. now' \in {now + d : d \in 0..MaxDelay}
        BY <1>3, <3>2 DEF Clock!WaitBusy, Clock!Delays
      <4> QED BY <3>2, <4>1, Delayed
    <3> QED BY <3>1, <3>2
  <2>2. pc = "busy" /\ pc' = "save" /\ UNCHANGED <<waitMode, start, prev, ticks, misses, waited, remaining, restarts>>
    BY <1>3 DEF Clock!WaitBusy, Clock!counts
  <2>3. Times'
    BY <2>1, <2>2
  <2>4. Reaches'
    BY <2>1, <2>2
  <2> QED BY <2>3, <2>4
<1>4. CASE Clock!WaitSleep
  <2>1. Clock!Asleep \in Nat /\ (waitMode # "Hybrid" => Clock!Asleep = remaining)
    BY <1>4, NineTenths DEF Clock!WaitSleep, Clock!Asleep
  <2>2. now' \in {(now + Clock!Asleep) + late : late \in 0..MaxLate} /\ now + Clock!Asleep \in Nat
    BY <1>4, <2>1 DEF Clock!WaitSleep
  <2>3. now' \in Nat /\ now + Clock!Asleep <= now'
    BY <2>2, Delayed
  <2>4. /\ pc = "sleep" /\ pc' = IF waitMode = "Hybrid" THEN "rest" ELSE "save"
        /\ UNCHANGED <<waitMode, start, prev, ticks, misses, waited, remaining, restarts>>
    BY <1>4 DEF Clock!WaitSleep, Clock!counts
  <2> HIDE DEF Clock!Asleep
  <2> QED BY <2>1, <2>3, <2>4
<1>5. CASE Clock!Rest
  <2>1. now' \in Nat /\ now <= now'
    BY <1>5, Delayed DEF Clock!Rest, Clock!Delays
  <2>2. /\ pc = "rest" /\ pc' = "busy" /\ UNCHANGED <<waitMode, start, prev, ticks, misses, waited, restarts>>
    BY <1>5 DEF Clock!Rest, Clock!counts
  <2>3. remaining' \in Int /\ prev + Period <= now + remaining'
    BY <1>5 DEF Clock!Rest, Clock!Left
  <2>4. prev + Period <= now' + remaining'
    <3>1. prev + Period \in Int /\ now \in Int /\ now' \in Int
      BY <2>1
    <3> QED BY <2>1, <2>3, <3>1, Later
  <2>5. Times'
    BY <2>1, <2>2, <2>3
  <2>6. pc' = "busy" /\ prev' + Period <= now' + remaining'
    BY <2>2, <2>4
  <2>7. Reaches'
    BY <2>6
  <2> QED BY <2>5, <2>7
<1>6. CASE Clock!Save
  <2>1. now' \in Nat /\ now <= now'
    BY <1>6, Delayed DEF Clock!Save, Clock!Delays
  <2>2. /\ pc = "save" /\ pc' = "work" /\ prev' = now /\ ticks' = ticks + 1
        /\ UNCHANGED <<waitMode, start, misses, waited, remaining, restarts>>
    BY <1>6 DEF Clock!Save, Clock!Saved
  <2> QED BY <2>1, <2>2
<1>7. CASE Clock!Restart
  <2>1. now' \in Nat /\ now <= now'
    BY <1>7, Delayed DEF Clock!Restart, Clock!Delays
  <2>2. /\ pc' = "restart" /\ prev' = now /\ ticks' = 0 /\ misses' = 0 /\ waited' = 0
        /\ restarts < Restarts /\ restarts' = restarts + 1
        /\ UNCHANGED <<waitMode, start, remaining>>
    BY <1>7 DEF Clock!Restart, Clock!Kept
  <2> QED BY <2>1, <2>2
<1>8. CASE Clock!RestartClock
  BY <1>8 DEF Clock!RestartClock, Clock!counts
<1>9. CASE UNCHANGED Clock!vars
  BY <1>9 DEF Clock!vars, Clock!counts
<1> QED BY <1>1, <1>2, <1>3, <1>4, <1>5, <1>6, <1>7, <1>8, <1>9 DEF Clock!Next

LEMMA ClockInvariant ==
  Clock!Spec => []ClockInv
<1> QED BY ClockInit, ClockStep, PTL DEF Clock!Spec

\* Times are natural numbers, and ticks are counted to their bound.
THEOREM ClockTypes ==
  Clock!Spec => []Clock!TypeOK
<1>1. ClockInv => Clock!TypeOK
  BY DEF ClockInv, Times, Clock!TypeOK
<1> QED BY <1>1, ClockInvariant, PTL

\* In every mode, a tick is at least a period after the last one.
THEOREM Punctual ==
  Clock!Spec => NeverEarly
<1>1. ClockInv /\ [Clock!Next]_(Clock!vars) => [ticks' > ticks => now - prev >= Period]_(Clock!vars)
  <2> SUFFICES ASSUME ClockInv, Clock!Next, ticks' > ticks PROVE now - prev >= Period
    BY DEF ClockInv, Times, Clock!vars, Clock!counts
  <2>1. CASE Clock!Save
    <3>1. prev + Period <= now
      BY <2>1 DEF Clock!Save, ClockInv, Reaches
    <3> QED BY <3>1, ClockBounds DEF ClockInv, Times
  <2>2. CASE Clock!Restart
    BY <2>2 DEF Clock!Restart, ClockInv, Times
  <2>3. CASE Clock!Work \/ Clock!Wait \/ Clock!WaitBusy \/ Clock!WaitSleep \/ Clock!Rest \/ Clock!RestartClock
    BY <2>3 DEF Clock!Work, Clock!Wait, Clock!WaitBusy, Clock!WaitSleep, Clock!Rest,
       Clock!RestartClock, Clock!counts, ClockInv, Times
  <2> QED BY <2>1, <2>2, <2>3 DEF Clock!Next
<1> QED BY <1>1, ClockInvariant, PTL DEF Clock!Spec, NeverEarly, Clock!NeverEarly
-----------------------------------------------------------------------------
(* What was waited is part of what elapsed: a wait in progress has counted  *)
(* what it will wait until the end of its period, and a first wait after    *)
(* restart() starts counting after the clock did.                           *)

WaitsCounted ==
  /\ pc = "restart" => waited = 0
  /\ pc \in {"work", "wait"} => waited = 0 \/ start + waited <= prev
  /\ pc \in {"busy", "sleep", "rest"} => start + waited <= prev + Period
  /\ pc = "save" => start + waited <= now

LEMMA WaitsStep ==
  ClockInv /\ WaitsCounted /\ [Clock!Next]_(Clock!vars) => WaitsCounted'
<1> SUFFICES ASSUME ClockInv, WaitsCounted, [Clock!Next]_(Clock!vars) PROVE WaitsCounted'
  OBVIOUS
<1> USE ClockBounds DEF ClockInv, Times, WaitsCounted
<1>1. CASE Clock!Work
  BY <1>1 DEF Clock!Work, Clock!counts
<1>2. CASE Clock!Wait
  <2>1. Clock!Left \in Int /\ prev + Period <= now + Clock!Left /\ now + Clock!Left <= prev + Period
    BY DEF Clock!Left
  <2>2. /\ pc = "wait" /\ UNCHANGED <<start, prev>>
        /\ waited' = IF Clock!Left > 0 THEN waited + Clock!Left ELSE waited
        /\ pc' = IF Clock!Left <= 0 THEN "save" ELSE IF waitMode = "Busy" THEN "busy" ELSE "sleep"
    BY <1>2 DEF Clock!Wait, Clock!Waited
  <2>3. now' \in Nat /\ now <= now'
    BY <1>2, Delayed DEF Clock!Wait, Clock!Delays
  <2> HIDE DEF Clock!Left
  <2>4. CASE Clock!Left <= 0
    <3>1. pc' = "save" /\ waited' = waited
      BY <2>1, <2>2, <2>4
    <3>2. start + waited <= now'
      BY <2>2, <2>3
    <3> QED BY <2>2, <3>1, <3>2
  <2>5. CASE Clock!Left > 0
    <3>1. pc' \in {"busy", "sleep"} /\ waited' = waited + Clock!Left
      BY <2>1, <2>2, <2>5
    <3>2. start + waited + Clock!Left <= prev + Period
      <4>1. CASE waited = 0
        BY <2>1, <4>1
      <4>2. CASE start + waited <= prev
        BY <2>1, <4>2
      <4> QED BY <2>2, <4>1, <4>2
    <3>3. start' + waited' <= prev' + Period
      BY <2>1, <2>2, <3>1, <3>2
    <3> QED BY <3>1, <3>3
  <2> QED BY <2>1, <2>4, <2>5
<1>3. CASE Clock!WaitBusy
  <2>1. pc = "busy" /\ pc' = "save" /\ UNCHANGED <<start, prev, waited>>
    BY <1>3 DEF Clock!WaitBusy, Clock!counts
  <2>2. prev' + Period <= now' /\ now' \in Nat
    <3>1. ClockInv'
      BY ClockStep
    <3> QED BY <2>1, <3>1 DEF Reaches
  <2> QED BY <2>1, <2>2
<1>4. CASE Clock!WaitSleep
  <2>1. pc = "sleep" /\ pc' \in {"rest", "save"} /\ UNCHANGED <<start, prev, waited>>
    BY <1>4 DEF Clock!WaitSleep, Clock!counts
  <2>2. now' \in Nat /\ (pc' = "save" => prev' + Period <= now')
    <3>1. ClockInv'
      BY ClockStep
    <3> QED BY <2>1, <3>1 DEF Reaches
  <2> QED BY <2>1, <2>2
<1>5. CASE Clock!Rest
  BY <1>5 DEF Clock!Rest, Clock!counts
<1>6. CASE Clock!Save
  BY <1>6 DEF Clock!Save, Clock!Saved
<1>7. CASE Clock!Restart
  BY <1>7 DEF Clock!Restart, Clock!Kept
<1>8. CASE Clock!RestartClock
  BY <1>8 DEF Clock!RestartClock, Clock!counts
<1>9. CASE UNCHANGED Clock!vars
  BY <1>9 DEF Clock!vars, Clock!counts
<1> QED BY <1>1, <1>2, <1>3, <1>4, <1>5, <1>6, <1>7, <1>8, <1>9 DEF Clock!Next

\* The time waited never exceeds the time elapsed, for every restart.
THEOREM WaitedCorrect ==
  Clock!Spec => []Clock!WaitedWithin
<1>1. Clock!Init => WaitsCounted
  BY ClockBounds DEF Clock!Init, Clock!Delays, WaitsCounted
<1>2. ClockInv /\ WaitsCounted => Clock!WaitedWithin
  BY ClockBounds DEF ClockInv, Times, WaitsCounted, Clock!WaitedWithin
<1> QED BY <1>1, <1>2, WaitsStep, ClockInvariant, PTL DEF Clock!Spec

-----------------------------------------------------------------------------
(* Work that fits in a period: prev_time_ is always recent.                 *)

Recent ==
  /\ misses = 0
  /\ pc \in {"work", "restart"} => now <= prev + MaxDelay
  /\ pc = "wait" => now <= prev + MaxDelay + MaxWork

\* Whatever sleeps do, a loop that fits in its period misses nothing.
THEOREM FittingMissesNothing ==
  ASSUME MaxWork + MaxDelay <= Period
  PROVE  Clock!Spec => []Clock!NoMisses
<1>1. Clock!Init => Recent
  <2> SUFFICES ASSUME Clock!Init PROVE misses = 0 /\ now <= prev + MaxDelay /\ pc = "work"
    BY DEF Recent
  <2> QED BY ClockBounds DEF Clock!Init, Clock!Delays
<1>2. ClockInv /\ Recent /\ [Clock!Next]_(Clock!vars) => Recent'
  <2> SUFFICES ASSUME ClockInv, Recent, [Clock!Next]_(Clock!vars) PROVE Recent'
    OBVIOUS
  <2> USE ClockBounds DEF ClockInv, Times, Recent
  <2>1. CASE Clock!Work
    BY <2>1 DEF Clock!Work, Clock!counts
  <2>2. CASE Clock!Wait
    BY <2>2 DEF Clock!Wait, Clock!Left
  <2>3. CASE Clock!WaitBusy \/ Clock!WaitSleep \/ Clock!Rest
    BY <2>3 DEF Clock!WaitBusy, Clock!WaitSleep, Clock!Rest, Clock!counts
  <2>4. CASE Clock!Save
    <3>1. now' \in Nat /\ now' <= now + MaxDelay
      BY <2>4, Delayed DEF Clock!Save, Clock!Delays
    <3> QED BY <2>4, <3>1 DEF Clock!Save, Clock!Saved
  <2>5. CASE Clock!Restart
    <3>1. now' \in Nat /\ now' <= now + MaxDelay
      BY <2>5, Delayed DEF Clock!Restart, Clock!Delays
    <3> QED BY <2>5, <3>1 DEF Clock!Restart
  <2>6. CASE Clock!RestartClock
    BY <2>6 DEF Clock!RestartClock, Clock!counts
  <2>7. CASE UNCHANGED Clock!vars
    BY <2>7 DEF Clock!vars, Clock!counts
  <2> QED BY <2>1, <2>2, <2>3, <2>4, <2>5, <2>6, <2>7 DEF Clock!Next
<1>3. Recent => Clock!NoMisses
  BY DEF Recent, Clock!NoMisses
<1> QED BY <1>1, <1>2, <1>3, ClockInvariant, PTL DEF Clock!Spec

-----------------------------------------------------------------------------
(* A timer that is not restarted.                                           *)

Scheduled == pc # "restart" /\ start <= prev /\ start + ticks * Period <= prev

LEMMA OneMore == \A k, p \in Nat : k * p \in Nat /\ (k + 1) * p = k * p + p
  BY SMT

\* A timer that is not restarted is never ahead of its ticks.
THEOREM TicksTakeTheirTime ==
  ASSUME Restarts = 0
  PROVE  Clock!Spec => []Clock!NotAhead
<1>1. Clock!Init => Scheduled
  BY ClockBounds DEF Clock!Init, Clock!Delays, Scheduled
<1>2. ClockInv /\ Scheduled /\ [Clock!Next]_(Clock!vars) => Scheduled'
  <2> SUFFICES ASSUME ClockInv, Scheduled, [Clock!Next]_(Clock!vars) PROVE Scheduled'
    OBVIOUS
  <2>1. ticks * Period \in Nat /\ (ticks + 1) * Period = ticks * Period + Period
    BY ClockBounds, OneMore DEF ClockInv, Times
  <2> USE ClockBounds DEF ClockInv, Times
  <2>2. CASE Clock!Work \/ Clock!Wait \/ Clock!WaitBusy \/ Clock!WaitSleep \/ Clock!Rest
    <3>1. UNCHANGED <<start, prev, ticks>> /\ pc' # "restart"
      BY <2>2 DEF Clock!Work, Clock!Wait, Clock!WaitBusy, Clock!WaitSleep, Clock!Rest,
         Clock!counts
    <3> QED BY <3>1 DEF Scheduled
  <2>3. CASE Clock!Save
    <3>1. prev + Period <= now
      BY <2>3 DEF Clock!Save, Reaches
    <3>2. start' = start /\ prev' = now /\ ticks' = ticks + 1 /\ pc' = "work"
      BY <2>3 DEF Clock!Save, Clock!Saved
    <3>3. ticks' * Period = ticks * Period + Period
      BY <2>1, <3>2
    <3>4. start + (ticks * Period + Period) <= now /\ start <= now
      BY <2>1, <3>1 DEF Scheduled
    <3> QED BY <3>2, <3>3, <3>4 DEF Scheduled
  <2>4. CASE Clock!Restart \/ Clock!RestartClock
    BY <2>4 DEF Clock!Restart, Clock!RestartClock, Scheduled
  <2>5. CASE UNCHANGED Clock!vars
    BY <2>5 DEF Clock!vars, Clock!counts, Scheduled
  <2> QED BY <2>2, <2>3, <2>4, <2>5 DEF Clock!Next
<1>3. ClockInv /\ Scheduled => Clock!NotAhead
  <2> SUFFICES ASSUME ClockInv, Scheduled PROVE ticks * Period <= now - start
    BY DEF Clock!NotAhead
  <2>1. ticks * Period \in Nat
    BY ClockBounds, OneMore DEF ClockInv, Times
  <2> QED BY <2>1 DEF ClockInv, Times, Scheduled
<1> QED BY <1>1, <1>2, <1>3, ClockInvariant, PTL DEF Clock!Spec

-----------------------------------------------------------------------------
(* The encoder.                                                            *)

\* Failures that no result shows, for which PositionsTrue is false: a failed read
\* beside a successful one of velocities, and a mode the board refuses.
Told == (HasVelocity => "read" \notin Failing) /\ "mode" \notin Failing

\* Types, and that reset_counts() has set the values it went over.
Shafts ==
  /\ values \in [Encoder!Channels -> Int] /\ counter \in [Encoder!Channels -> Int]
  /\ factors \in [Encoder!Channels -> Factors] /\ quadrature = factors
  /\ shaft \in [Encoder!Channels -> 0..MaxTurn]
  /\ next \in 0..(Count + 1) /\ preset \in Presets
  /\ origin = [c \in Encoder!Channels |-> origin[c]] /\ seen = [c \in Encoder!Channels |-> seen[c]]
  /\ \A c \in Encoder!Channels : origin[c] = Encoder!Unknown \/ origin[c] \in (0..MaxTurn) \X Presets
  /\ \A c \in Encoder!Channels : seen[c] = Encoder!Unknown \/ (\E s \in 0..MaxTurn : seen[c] = <<s>>)
  /\ \A c \in Encoder!Channels : c < next => values[c] = preset

\* What is on the board, and what was last read of it, follow the shaft from the
\* last reset on, also during a reset_counts().
Follows(reading, place, c) ==
  origin[c] # Encoder!Unknown => reading = origin[c][2] + factors[c] * (place - origin[c][1])

Counters == \A c \in Encoder!Channels : Follows(counter[c], shaft[c], c)
Readings == \A c \in Encoder!Channels : seen[c] # Encoder!Unknown => Follows(values[c], seen[c][1], c)

EncoderInv == Shafts /\ Counters /\ Readings

LEMMA OneTurn ==
  ASSUME NEW k \in Int, NEW f \in Int, NEW s \in Int, NEW o \in Int, NEW d \in Int
  PROVE  (k + f * (s - o)) + d * f = k + f * ((s + d) - o)
<1>1. f * ((s + d) - o) = f * (s - o) + f * d
  BY SMT
<1>2. f * d = d * f /\ f * d \in Int /\ f * (s - o) \in Int
  BY SMT
<1> QED BY <1>1, <1>2

LEMMA EncoderInit ==
  Encoder!Init => EncoderInv
BY EncoderAssumption DEF Encoder!QuanserEncoderAssumption, Encoder!Init, EncoderInv, Shafts, Counters, Readings,
   Follows, Encoder!Channels, Encoder!Unknown

LEMMA Known == ASSUME NEW a, NEW b PROVE <<a>> # Encoder!Unknown /\ <<a, b>> # Encoder!Unknown
BY DEF Encoder!Unknown

LEMMA EncoderStep ==
  ASSUME Told
  PROVE  EncoderInv /\ [Encoder!Next]_(Encoder!vars) => EncoderInv'
<1> SUFFICES ASSUME EncoderInv, [Encoder!Next]_(Encoder!vars) PROVE EncoderInv'
  OBVIOUS
<1> USE DEF Shafts, Encoder!Idle
<1>0. /\ Count \in Nat \ {0} /\ Factors \subseteq Nat \ {0} /\ MaxTurn \in Nat
      /\ Presets \subseteq Int
  BY EncoderAssumption DEF Encoder!QuanserEncoderAssumption
<1>t. Shafts /\ Counters /\ Readings
  BY DEF EncoderInv
<1>1. ASSUME NEW c \in Encoder!Channels, NEW d \in {-1, 1}, Encoder!Turn(c, d) PROVE EncoderInv'
  <2>1. /\ shaft[c] + d \in 0..MaxTurn
        /\ shaft' = [shaft EXCEPT ![c] = shaft[c] + d]
        /\ counter' = [counter EXCEPT ![c] = counter[c] + d * quadrature[c]]
        /\ UNCHANGED <<values, factors, quadrature, next, preset, origin, seen>>
    BY <1>1 DEF Encoder!Turn, Encoder!software, Encoder!resets, Encoder!history
  <2>2. d * quadrature[c] \in Int
    BY <1>0, <1>t
  <2>3. Shafts'
    BY <1>t, <2>1, <2>2
  <2>4. Readings'
    BY <1>t, <2>1 DEF Readings, Follows
  <2>5. ASSUME NEW e \in Encoder!Channels, origin[e] # Encoder!Unknown
        PROVE  counter'[e] = origin[e][2] + factors[e] * (shaft'[e] - origin[e][1])
    <3>1. counter[e] = origin[e][2] + factors[e] * (shaft[e] - origin[e][1])
      BY <1>t, <2>5 DEF Counters, Follows
    <3>2. CASE e = c
      <4>1. /\ origin[e][2] \in Int /\ factors[e] \in Int /\ shaft[e] \in Int
            /\ origin[e][1] \in Int /\ d \in Int
        BY <1>0, <1>t, <2>5
      <4>2. counter'[e] = counter[e] + d * factors[e] /\ shaft'[e] = shaft[e] + d
        BY <1>t, <2>1, <3>2
      <4>3. PICK k \in Int, f \in Int, s \in Int, o \in Int :
              k = origin[e][2] /\ f = factors[e] /\ s = shaft[e] /\ o = origin[e][1]
        BY <4>1
      <4>4. (k + f * (s - o)) + d * f = k + f * ((s + d) - o)
        BY <4>1, OneTurn
      <4>5. /\ counter[e] = k + f * (s - o) /\ counter'[e] = counter[e] + d * f
            /\ shaft'[e] = s + d
        BY <3>1, <4>2, <4>3
      <4>6. counter'[e] = k + f * ((s + d) - o)
        BY <4>4, <4>5
      <4> QED BY <4>3, <4>5, <4>6
    <3>3. CASE e # c
      BY <1>t, <2>1, <3>1, <3>3
    <3> QED BY <3>2, <3>3
  <2> QED BY <2>1, <2>3, <2>4, <2>5 DEF EncoderInv, Counters, Follows
<1>2. ASSUME NEW channels \in SUBSET Encoder!Channels, Encoder!Update(channels)
      PROVE  EncoderInv'
  <2>1. PICK read \in Encoder!Results("read"), other \in Encoder!Results("other") :
          /\ values' = [c \in Encoder!Channels |-> IF read /\ c \in channels THEN counter[c] ELSE values[c]]
          /\ seen' = [c \in Encoder!Channels |-> IF c \notin channels THEN seen[c]
                                         ELSE IF Encoder!Result(read, other) THEN <<shaft[c]>> ELSE Encoder!Unknown]
    BY <1>2 DEF Encoder!Update
  <2>2. next = 0 /\ UNCHANGED <<factors, counter, quadrature, shaft, next, preset, origin>>
    BY <1>2 DEF Encoder!Update, Encoder!board, Encoder!resets
  <2>3. Encoder!Result(read, other) => read
    BY DEF Encoder!Result, Encoder!Results, Told
  <2>4. Shafts'
    BY <1>t, <2>1, <2>2, <1>0 DEF Encoder!Channels
  <2>5. Counters'
    BY <1>t, <2>2 DEF Counters, Follows
  <2>6. Readings'
    BY <1>t, <2>1, <2>2, <2>3, Known DEF Counters, Readings, Follows
  <2> QED BY <2>4, <2>5, <2>6 DEF EncoderInv
<1>3. ASSUME NEW channels \in SUBSET Encoder!Channels, NEW f \in Factors, Encoder!SetFactor(channels, f)
      PROVE  EncoderInv'
  <2>1. /\ factors' = [c \in Encoder!Channels |-> IF c \in channels THEN f ELSE factors[c]]
        /\ quadrature' = [c \in Encoder!Channels |-> IF c \in channels THEN f ELSE quadrature[c]]
        /\ origin' = [c \in Encoder!Channels |-> IF c \in channels THEN Encoder!Unknown ELSE origin[c]]
        /\ UNCHANGED <<values, counter, shaft, next, preset, seen>>
    BY <1>3 DEF Encoder!SetFactor, Encoder!Results, Told, Encoder!Converted, Encoder!resets
  <2>2. Shafts'
    BY <1>t, <2>1
  <2>3. Counters' /\ Readings'
    BY <1>t, <2>1 DEF Counters, Readings, Follows
  <2> QED BY <2>2, <2>3 DEF EncoderInv
<1>4. ASSUME NEW channels \in SUBSET Encoder!Channels, NEW reading \in Presets, NEW ok \in BOOLEAN,
             Encoder!Preset(channels, reading, ok), UNCHANGED <<factors, quadrature, shaft>>,
             values' \in [Encoder!Channels -> Int], next' \in 0..(Count + 1), preset' \in Presets,
             \A c \in Encoder!Channels : c < next' => values'[c] = preset',
             \A c \in Encoder!Channels : values'[c] = IF c \in channels THEN reading ELSE values[c]
      PROVE  EncoderInv'
  <2>1. /\ counter' = [c \in Encoder!Channels |-> IF ok /\ c \in channels THEN reading ELSE counter[c]]
        /\ origin' = [c \in Encoder!Channels |-> IF ok /\ c \in channels
                                         THEN <<shaft[c], reading>> ELSE origin[c]]
        /\ seen' = [c \in Encoder!Channels |-> IF c \notin channels THEN seen[c]
                                       ELSE IF ok THEN <<shaft[c]>> ELSE Encoder!Unknown]
    BY <1>4 DEF Encoder!Preset
  <2>2. Shafts'
    BY <1>0, <1>t, <1>4, <2>1
  <2>3. ASSUME NEW c \in Encoder!Channels
        PROVE  factors[c] * (shaft[c] - shaft[c]) = 0 /\ reading + 0 = reading
    BY <1>0, <1>t
  <2>4. Counters'
    BY <1>t, <1>4, <2>1, <2>3 DEF Counters, Follows
  <2>5. Readings'
    BY <1>t, <1>4, <2>1, <2>3, Known DEF Readings, Follows
  <2> QED BY <2>2, <2>4, <2>5 DEF EncoderInv
<1>5. ASSUME NEW c \in Encoder!Channels, NEW reading \in Presets, Encoder!ResetCount(c, reading)
      PROVE  EncoderInv'
  <2>1. /\ next = 0 /\ values' = [values EXCEPT ![c] = reading]
        /\ UNCHANGED <<factors, quadrature, shaft, next, preset>>
    BY <1>5 DEF Encoder!ResetCount, Encoder!Assign, Encoder!resets
  <2>2. PICK ok \in BOOLEAN : Encoder!Preset({c}, reading, ok)
    BY <1>5 DEF Encoder!ResetCount, Encoder!Results
  <2>3. \A e \in Encoder!Channels : values'[e] = IF e \in {c} THEN reading ELSE values[e]
    BY <1>t, <2>1
  <2>4. /\ values' \in [Encoder!Channels -> Int] /\ next' \in 0..(Count + 1) /\ preset' \in Presets
        /\ \A e \in Encoder!Channels : e < next' => values'[e] = preset'
    BY <1>0, <1>t, <2>1 DEF Encoder!Channels
  <2> QED BY <1>4, <2>1, <2>2, <2>3, <2>4
<1>6. ASSUME NEW reading \in Presets, Encoder!StartResetCounts(reading) PROVE EncoderInv'
  <2>1. next' = 1 /\ preset' = reading /\ UNCHANGED <<values, factors, counter, quadrature, shaft, origin, seen>>
    BY <1>6 DEF Encoder!StartResetCounts, Encoder!software, Encoder!board, Encoder!history
  <2>2. Shafts'
    BY <1>0, <1>t, <2>1 DEF Encoder!Channels
  <2> QED BY <1>t, <2>1, <2>2 DEF EncoderInv, Counters, Readings, Follows
<1>7. ASSUME NEW reading \in Presets, Encoder!ResetShort(reading) PROVE EncoderInv'
  <2>1. /\ counter' = [c \in Encoder!Channels |-> IF c = Count THEN Encoder!Stray ELSE reading]
        /\ origin' = [c \in Encoder!Channels |-> Encoder!Unknown] /\ seen' = [c \in Encoder!Channels |-> Encoder!Unknown]
        /\ UNCHANGED <<values, factors, quadrature, shaft, next, preset>>
    BY <1>7 DEF Encoder!ResetShort, Encoder!software, Encoder!resets
  <2>2. Shafts'
    BY <1>0, <1>t, <2>1 DEF Encoder!Stray
  <2> QED BY <1>t, <2>1, <2>2 DEF EncoderInv, Counters, Readings, Follows
<1>8. ASSUME Encoder!ResetNext PROVE EncoderInv'
  <2>1. /\ next \in Encoder!Channels /\ values' = [values EXCEPT ![next] = preset] /\ next' = next + 1
        /\ UNCHANGED <<factors, quadrature, shaft, preset>>
    BY <1>8 DEF Encoder!ResetNext, Encoder!Assign
  <2>2. PICK ok \in BOOLEAN : Encoder!Preset({next}, preset, ok)
    BY <1>8 DEF Encoder!ResetNext, Encoder!Results
  <2>3. next' \in 0..(Count + 1) /\ values' \in [Encoder!Channels -> Int]
    BY <1>0, <1>t, <2>1 DEF Encoder!Channels
  <2>4. \A c \in Encoder!Channels : c < next' => values'[c] = preset'
    BY <1>0, <1>t, <2>1 DEF Encoder!Channels
  <2> QED BY <1>0, <1>t, <1>4, <2>1, <2>2, <2>3, <2>4
<1>9. ASSUME Encoder!ResetAll PROVE EncoderInv'
  <2>1. next = Count + 1 /\ next' = 0 /\ UNCHANGED <<values, factors, quadrature, shaft, preset>>
    BY <1>9 DEF Encoder!ResetAll, Encoder!software
  <2>2. PICK ok \in BOOLEAN : Encoder!Preset(Encoder!Channels, preset, ok)
    BY <1>9 DEF Encoder!ResetAll, Encoder!Results
  <2>3. \A c \in Encoder!Channels : values[c] = preset
    BY <1>0, <1>t, <2>1 DEF Encoder!Channels
  <2>4. \A c \in Encoder!Channels : ~(c < 0)
    BY <1>0 DEF Encoder!Channels
  <2> QED BY <1>0, <1>t, <1>4, <2>1, <2>2, <2>3, <2>4
<1>10. CASE UNCHANGED Encoder!vars
  BY <1>t, <1>10 DEF Encoder!vars, Encoder!software, Encoder!board, Encoder!resets,
     Encoder!history, EncoderInv, Counters, Readings, Follows
<1>11. \A channels \in {Encoder!Channels} \cup {{c} : c \in Encoder!Channels} : channels \in SUBSET Encoder!Channels
  OBVIOUS
<1> QED
  BY <1>1, <1>2, <1>3, <1>5, <1>6, <1>7, <1>8, <1>9, <1>10, <1>11 DEF Encoder!Next

\* A position is where its shaft was when the card was read, from the last successful reset
\* on, through every change of factors, whatever reset_counts() is in the middle of and
\* however far the shafts turn, unless a failure is one that no result shows (Told).
THEOREM PositionsCorrect ==
  ASSUME Told
  PROVE  Encoder!Spec => []PositionsTrue
<1>1. EncoderInv => PositionsTrue
  <2> SUFFICES ASSUME EncoderInv, NEW c \in Encoder!Channels, origin[c] # Encoder!Unknown, seen[c] # Encoder!Unknown
               PROVE  values[c] - origin[c][2] = factors[c] * (seen[c][1] - origin[c][1])
    BY DEF PositionsTrue, Encoder!PositionsTrue
  <2>1. values[c] = origin[c][2] + factors[c] * (seen[c][1] - origin[c][1])
    BY DEF EncoderInv, Readings, Follows
  <2>2. /\ values[c] \in Int /\ origin[c][2] \in Int /\ factors[c] \in Int
        /\ seen[c][1] \in Int /\ origin[c][1] \in Int
    BY EncoderAssumption DEF EncoderInv, Shafts, Encoder!QuanserEncoderAssumption
  <2>3. factors[c] * (seen[c][1] - origin[c][1]) \in Int
    BY <2>2
  <2> QED BY <2>1, <2>2, <2>3
<1> QED
  BY <1>1, EncoderInit, EncoderStep, PTL DEF Encoder!Spec
-----------------------------------------------------------------------------
(* The Sensoray counter. *)

\* The way from what values_ says to what the counter says is one the shaft can turn in
\* the time since the last update, and its way since then unless the count was reset.
Ahead == IF turned THEN 1 ELSE 0

Ways ==
  /\ timestamps = updated % Stamps
  /\ ~reset => motion = count - snapshot
  /\ -((time - updated) + Ahead) <= count - snapshot
  /\ count - snapshot <= (time - updated) + Ahead

CounterInv == Counter!TypeOK /\ (before => Ways)

LEMMA CounterFacts ==
  /\ Stamps \in Nat \ {0} /\ MaxTime \in Nat /\ MaxTravel \in Nat
  /\ \A t \in 0..MaxTime : t % Stamps \in 0..Stamps - 1
  /\ 0 % Stamps = 0
BY CounterAssumption DEF Counter!CounterAssumption

\* Within one turn of the board's clock, timestamps are as far apart as times.
LEMMA StampsDiffer ==
  ASSUME NEW t \in Nat, NEW u \in Nat, t \div Stamps = u \div Stamps
  PROVE  (t % Stamps) - (u % Stamps) = t - u
<1>1. /\ t = Stamps * (t \div Stamps) + (t % Stamps) /\ t % Stamps \in Int /\ t \div Stamps \in Int
      /\ u = Stamps * (u \div Stamps) + (u % Stamps) /\ u % Stamps \in Int
  BY CounterFacts
<1> DEFINE q == Stamps * (t \div Stamps)
           a == t % Stamps
           b == u % Stamps
<1>2. q \in Int /\ a \in Int /\ b \in Int /\ t = q + a /\ u = q + b
  BY <1>1, CounterFacts
<1> HIDE DEF q, a, b
<1>3. a - b = t - u
  BY <1>2
<1> QED
  BY <1>3 DEF a, b

LEMMA CounterInit == Counter!Init => CounterInv
<1> SUFFICES ASSUME Counter!Init PROVE CounterInv
  OBVIOUS
<1>1. 0 \in -MaxTravel..MaxTravel /\ 0 \in 0..Stamps - 1
  BY CounterFacts
<1>2. 0 \in -(2 * MaxTravel)..2 * MaxTravel /\ 1 \in -Stamps..Stamps
  BY CounterFacts
<1>3. rate \in [counts : -(2 * MaxTravel)..2 * MaxTravel, time : -Stamps..Stamps]
  BY <1>2 DEF Counter!Init, Counter!NoRate
<1>4. /\ updated \in 0..time /\ time \in 0..MaxTime /\ count \in -MaxTravel..MaxTravel
      /\ snapshot = 0 /\ timestamps = 0 /\ motion = 0
  BY CounterFacts DEF Counter!Init, Counter!Counts
<1>5. turned \in BOOLEAN /\ before = FALSE /\ reset = FALSE
  BY DEF Counter!Init
<1>6. {turned, before, reset} \subseteq BOOLEAN
  BY <1>5
<1>7. Counter!TypeOK
  BY <1>1, <1>3, <1>4, <1>6 DEF Counter!Counts, Counter!TypeOK
<1> QED
  BY <1>5, <1>7 DEF CounterInv

LEMMA CounterStep == CounterInv /\ [Counter!Next]_(Counter!vars) => CounterInv'
<1> SUFFICES ASSUME CounterInv, [Counter!Next]_(Counter!vars) PROVE CounterInv'
  OBVIOUS
<1>0. /\ time \in 0..MaxTime /\ time \in Nat /\ turned \in BOOLEAN /\ before \in BOOLEAN /\ reset \in BOOLEAN
      /\ count \in -MaxTravel..MaxTravel /\ snapshot \in -MaxTravel..MaxTravel
      /\ count \in Int /\ snapshot \in Int
      /\ timestamps \in 0..Stamps - 1 /\ motion \in Int /\ updated \in 0..time /\ updated \in Nat
      /\ rate \in [counts : -(2 * MaxTravel)..2 * MaxTravel, time : -Stamps..Stamps]
  BY CounterFacts DEF CounterInv, Counter!TypeOK, Counter!Counts
<1>1. CASE Counter!Tick
  <2>1. /\ time < MaxTime /\ time' = time + 1 /\ turned' = FALSE
        /\ UNCHANGED <<count, snapshot, timestamps, rate, motion, updated, before, reset>>
    BY <1>1 DEF Counter!Tick, Counter!history
  <2>2. Counter!TypeOK'
    <3>1. time + 1 \in 0..MaxTime /\ updated \in 0..time + 1
      BY <1>0, <2>1, CounterFacts
    <3> QED
      BY <1>0, <2>1, <3>1 DEF Counter!TypeOK, Counter!Counts
  <2>3. ASSUME before' PROVE Ways'
    <3>1. Ways
      BY <2>1, <2>3 DEF CounterInv
    <3>2. (time + 1) - updated + 0 >= (time - updated) + Ahead /\ Ahead \in {0, 1} /\ Ahead' = 0
      BY <1>0, <2>1 DEF Ahead
    <3>3. /\ -(((time + 1) - updated) + 0) <= count - snapshot
          /\ count - snapshot <= ((time + 1) - updated) + 0
      BY <1>0, <3>1, <3>2 DEF Ways
    <3> QED
      BY <2>1, <3>1, <3>2, <3>3 DEF Ways
  <2> QED
    BY <2>2, <2>3 DEF CounterInv
<1>2. CASE Counter!UpdateChannel
  <2>1. /\ snapshot' = count /\ timestamps' = time % Stamps
        /\ rate' = [counts |-> count - snapshot, time |-> (time % Stamps) - timestamps]
        /\ motion' = 0 /\ updated' = time /\ before' = TRUE /\ reset' = FALSE
        /\ UNCHANGED <<time, turned, count>>
    BY <1>2 DEF Counter!UpdateChannel, Counter!Timestamp
  <2>2. Counter!TypeOK'
    <3>1. /\ count - snapshot \in -(2 * MaxTravel)..2 * MaxTravel
          /\ (time % Stamps) \in 0..Stamps - 1 /\ time \in 0..time
      BY <1>0, CounterFacts
    <3>2. (time % Stamps) - timestamps \in -Stamps..Stamps
      BY <1>0, <3>1, CounterFacts
    <3>3. rate' \in [counts : -(2 * MaxTravel)..2 * MaxTravel, time : -Stamps..Stamps]
      BY <2>1, <3>1, <3>2
    <3>4. {turned', before', reset'} \subseteq BOOLEAN
      BY <1>0, <2>1
    <3>5. count' \in -MaxTravel..MaxTravel /\ snapshot' \in -MaxTravel..MaxTravel
      BY <1>0, <2>1
    <3>6. time' \in 0..MaxTime /\ timestamps' \in 0..Stamps - 1 /\ motion' \in Int /\ updated' \in 0..time'
      BY <1>0, <2>1, <3>1
    <3> QED
      BY <3>3, <3>4, <3>5, <3>6 DEF Counter!TypeOK, Counter!Counts
  <2>3. Ways'
    <3>1. Ahead' \in {0, 1} /\ time - time = 0 /\ count - count = 0
      BY <1>0, <2>1 DEF Ahead
    <3>2. -((time - time) + Ahead') <= count - count /\ count - count <= (time - time) + Ahead'
      BY <3>1
    <3> QED
      BY <2>1, <3>1, <3>2 DEF Ways
  <2> QED
    BY <2>2, <2>3 DEF CounterInv
<1>3. ASSUME NEW d \in {-1, 1}, Counter!Turn(d) PROVE CounterInv'
  <2>1. /\ turned = FALSE /\ turned' = TRUE /\ count' = count + d /\ motion' = motion + d
        /\ count + d \in -MaxTravel..MaxTravel /\ d \in Int /\ -1 <= d /\ d <= 1
        /\ UNCHANGED <<time, snapshot, timestamps, rate, updated, before, reset>>
    BY <1>0, <1>3 DEF Counter!Turn, Counter!Counts
  <2>2. Counter!TypeOK'
    BY <1>0, <2>1 DEF Counter!TypeOK, Counter!Counts
  <2>3. ASSUME before' PROVE Ways'
    <3>1. Ways
      BY <2>1, <2>3 DEF CounterInv
    <3>2. Ahead = 0 /\ Ahead' = 1
      BY <2>1 DEF Ahead
    <3>3. /\ -((time - updated) + 1) <= (count + d) - snapshot
          /\ (count + d) - snapshot <= (time - updated) + 1
      BY <1>0, <2>1, <3>1, <3>2 DEF Ways
    <3>4. ~reset => motion + d = (count + d) - snapshot
      BY <1>0, <2>1, <3>1 DEF Ways
    <3> QED
      BY <2>1, <3>1, <3>2, <3>3, <3>4 DEF Ways
  <2> QED
    BY <2>2, <2>3 DEF CounterInv
<1>4. ASSUME NEW c \in {0, MaxTravel}, Counter!ResetCount(c) PROVE CounterInv'
  <2>1. /\ count' = c /\ snapshot' = c /\ reset' = TRUE
        /\ UNCHANGED <<time, turned, timestamps, rate, motion, updated, before>>
        /\ c \in -MaxTravel..MaxTravel
    BY <1>4, CounterFacts DEF Counter!ResetCount, Counter!Kept
  <2>2. Counter!TypeOK'
    BY <1>0, <2>1 DEF Counter!TypeOK, Counter!Counts
  <2>3. ASSUME before' PROVE Ways'
    <3>1. Ways
      BY <2>1, <2>3 DEF CounterInv
    <3>2. Ahead \in {0, 1} /\ Ahead' = Ahead /\ c - c = 0
      BY <1>0, <2>1 DEF Ahead
    <3>3. -((time - updated) + Ahead) <= c - c /\ c - c <= (time - updated) + Ahead
      BY <1>0, <3>2
    <3> QED
      BY <2>1, <3>1, <3>2, <3>3 DEF Ways
  <2> QED
    BY <2>2, <2>3 DEF CounterInv
<1>5. CASE UNCHANGED Counter!vars
  BY <1>5 DEF Counter!vars, Counter!history, CounterInv, Ways, Ahead, Counter!TypeOK
<1> QED
  BY <1>1, <1>2, <1>3, <1>4, <1>5 DEF Counter!Next

\* From its second update on, a process has the way the shaft has turned since the last
\* one, unless the count was reset in between; a way the shaft can have turned, reset or
\* not; and the time since the last one, unless the board's clock wrapped in between.
RatesTrue ==
  [][Counter!UpdateChannel /\ before =>
       /\ ~reset => rate'.counts = motion
       /\ Counter!Within(rate'.counts, time - updated)
       /\ time \div Stamps = updated \div Stamps => rate'.time = time - updated]_(Counter!vars)

LEMMA RateStep ==
  ASSUME CounterInv, Counter!UpdateChannel, before
  PROVE  /\ ~reset => rate'.counts = motion
         /\ Counter!Within(rate'.counts, time - updated)
         /\ time \div Stamps = updated \div Stamps => rate'.time = time - updated
<1>1. rate'.counts = count - snapshot /\ rate'.time = (time % Stamps) - (updated % Stamps)
  <2>1. rate' = [counts |-> count - snapshot, time |-> Counter!Timestamp - timestamps]
    BY DEF Counter!UpdateChannel
  <2>2. rate'.counts = count - snapshot /\ rate'.time = Counter!Timestamp - timestamps
    BY <2>1
  <2> QED
    BY <2>2 DEF Counter!Timestamp, CounterInv, Ways
<1>2. /\ time \in Nat /\ updated \in Nat /\ turned \in BOOLEAN /\ time - updated \in Int
      /\ count - snapshot \in Int
  BY CounterFacts DEF CounterInv, Counter!TypeOK, Counter!Counts
<1>3. Counter!Within(rate'.counts, time - updated)
  <2>1. Ahead \in {0, 1}
    BY DEF Ahead
  <2>2. /\ -((time - updated) + 1) <= count - snapshot /\ count - snapshot <= (time - updated) + 1
    BY <1>2, <2>1 DEF CounterInv, Ways
  <2> QED
    BY <1>1, <2>2 DEF Counter!Within
<1>4. time \div Stamps = updated \div Stamps => rate'.time = time - updated
  BY <1>1, <1>2, StampsDiffer
<1> QED
  BY <1>1, <1>3, <1>4 DEF CounterInv, Ways

THEOREM RatesCorrect == Counter!Spec => RatesTrue
BY CounterInit, CounterStep, RateStep, PTL DEF Counter!Spec, RatesTrue

\* In the time in which the board's clock does not wrap, every velocity from the second
\* update of a process on is that of the shaft, or, if the count was reset since the last
\* update, one that the shaft can have.
THEOREM RatesAreMotion == ASSUME MaxTime < Stamps PROVE Counter!Spec => RateIsMotion
<1>1. ASSUME CounterInv, Counter!UpdateChannel, before
      PROVE  /\ rate'.time = time - updated
             /\ ~reset => rate'.counts = motion
             /\ Counter!Within(rate'.counts, rate'.time)
  <2>1. time \in 0..MaxTime /\ updated \in 0..MaxTime
    BY <1>1, CounterFacts DEF CounterInv, Counter!TypeOK
  <2>2. \A t \in 0..MaxTime : t \div Stamps = 0
    BY CounterFacts
  <2>3. rate'.time = time - updated
    BY <1>1, <2>1, <2>2, RateStep
  <2> QED
    BY <1>1, <2>3, RateStep
<1> QED
  BY <1>1, CounterInit, CounterStep, PTL DEF Counter!Spec, RateIsMotion, Counter!RateIsMotion

-----------------------------------------------------------------------------
(* The composite. *)

\* What a run of ControlLoop explores are behaviours of the five components.
THEOREM Parts == LoopSpec =>
  /\ Spec /\ Clock!Spec /\ Encoder!Spec /\ Counter!Spec
  /\ Board!Init /\ [][Board!Next]_(Board!vars)
<1>1. LoopInit => Init /\ Clock!Init /\ Encoder!Init /\ Counter!Init /\ Board!Init
  BY DEF LoopInit
<1>2. [LoopNext]_<<subject, vars, clockVars, encoderVars, boardVars, counterVars>> =>
        [Next]_vars /\ [Clock!Next]_(Clock!vars)
  BY DEF LoopNext, clockVars, Clock!vars, Clock!counts
<1>3. [LoopNext]_<<subject, vars, clockVars, encoderVars, boardVars, counterVars>> =>
        [Encoder!Next]_(Encoder!vars) /\ [Counter!Next]_(Counter!vars)
  BY DEF LoopNext, encoderVars, counterVars, Encoder!vars, Encoder!software, Encoder!board,
         Encoder!resets, Encoder!history, Counter!vars, Counter!history
<1>4. [LoopNext]_<<subject, vars, clockVars, encoderVars, boardVars, counterVars>> =>
        [Board!Next]_(Board!vars)
  BY DEF LoopNext, boardVars, Board!vars, Board!object, Board!inputs, Board!output, Board!guard
<1> QED BY <1>1, <1>2, <1>3, <1>4, PTL DEF LoopSpec, Spec, Clock!Spec, Encoder!Spec, Counter!Spec
=============================================================================
