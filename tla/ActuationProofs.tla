-------------------------- MODULE ActuationProofs --------------------------
(***************************************************************************)
(* The safety of Actuation for any set of joints and any devices the       *)
(* program calls by itself.                                                *)
(***************************************************************************)
EXTENDS Actuation, TLAPS

-----------------------------------------------------------------------------
(* What a call on a device visits. *)

LEMMA VisitedDevices ==
  ASSUME NEW j \in Joints, NEW d \in Devices, NEW flag
  PROVE  Visited(j, d, flag) \subseteq Devices
BY DEF Visited, Chain, Devices

\* The amplifier of a chain that is fully on is reached from the joint.
LEMMA FullChainReached ==
  ASSUME NEW j \in Joints, on[j] = Devices
  PROVE  Visited(j, "joint", FALSE) = Devices
BY DEF Visited, Chain, Devices

LEMMA FlagsType ==
  ASSUME TypeOK, NEW j \in Joints, NEW d \in Devices, NEW flag \in BOOLEAN,
         NEW ok \in BOOLEAN
  PROVE  Flags(j, d, flag, ok) \subseteq Devices
BY VisitedDevices DEF Flags, TypeOK

\* What DeviceCalls does to the amplifier of one joint: nothing, when its
\* hook does not run; else the enable level is staged, and follows on the pin
\* and in the flag together unless the board refuses it.
LEMMA AmplifierAfter ==
  ASSUME TypeOK, NEW J \in SUBSET Joints, NEW d \in Devices,
         NEW flag \in BOOLEAN, NEW no, DeviceCalls(J, d, flag, no),
         NEW j \in Joints
  PROVE  \/ /\ enabling'[j] = enabling[j] /\ enablePin'[j] = enablePin[j]
            /\ j \in refused' <=> j \in refused
            /\ "amplifier" \in on[j] => "amplifier" \in on'[j]
         \/ /\ enabling'[j] = flag /\ enablePin'[j] = flag
            /\ flag => "amplifier" \in on'[j]
         \/ /\ ~flag /\ enabling'[j] = FALSE
            /\ enablePin'[j] = enablePin[j]
            /\ j \in refused' <=> j \in refused
            /\ on'[j] = on[j]
         \/ flag /\ j \in refused'
<1> DEFINE Runs == j \in J /\ "amplifier" \in Visited(j, d, flag)
<1>1. /\ on'[j] = IF j \in J THEN Flags(j, d, flag, j \notin no) ELSE on[j]
      /\ enabling'[j] = IF Runs THEN flag ELSE enabling[j]
      /\ enablePin'[j] = IF Runs /\ j \notin no THEN flag ELSE enablePin[j]
      /\ flag /\ Runs => (j \in refused' <=> j \in no)
      /\ ~(flag /\ Runs) => (j \in refused' <=> j \in refused)
  BY DEF DeviceCalls, Everywhere
<1>2. CASE ~Runs
  <2>1. /\ enabling'[j] = enabling[j] /\ enablePin'[j] = enablePin[j]
        /\ j \in refused' <=> j \in refused
    BY <1>1, <1>2
  <2>2. "amplifier" \in on[j] => "amplifier" \in on'[j]
    BY <1>1, <1>2 DEF Flags
  <2> QED
    BY <2>1, <2>2
<1>3. CASE Runs /\ j \notin no
  BY <1>1, <1>3 DEF Flags
<1>4. CASE Runs /\ j \in no
  BY <1>1, <1>4 DEF Flags
<1> QED
  BY <1>2, <1>3, <1>4
-----------------------------------------------------------------------------
(* Types *)

LEMMA ReturnType ==
  ASSUME NEW flag \in BOOLEAN, NEW d \in Devices \cup {"robot"},
         NEW ok \in BOOLEAN, Returns(flag, d, ok)
  PROVE  result' \in Results
<1>1. (IF flag THEN "enable" ELSE "disable") \in {"enable", "disable", "other"}
  OBVIOUS
<1> QED
  BY <1>1 DEF Returns, Results

LEMMA OtherType == Other \in Results
BY DEF Other, Results, Devices

LEMMA DeviceCallsType ==
  ASSUME TypeOK, NEW J \in SUBSET Joints, NEW d \in Devices,
         NEW flag \in BOOLEAN, NEW no, DeviceCalls(J, d, flag, no)
  PROVE  /\ on' \in [Joints -> SUBSET Devices]
         /\ command' \in [Joints -> Values] /\ commandPin' \in [Joints -> Values]
         /\ enabling' \in [Joints -> BOOLEAN] /\ enablePin' \in [Joints -> BOOLEAN]
         /\ refused' \subseteq Joints
<1>1. \A j \in Joints : Flags(j, d, flag, j \notin no) \subseteq Devices
  BY FlagsType
<1>2. on' \in [Joints -> SUBSET Devices]
  BY <1>1 DEF DeviceCalls, TypeOK
<1>3. command' \in [Joints -> Values] /\ commandPin' \in [Joints -> Values]
  BY DEF DeviceCalls, TypeOK, Values, StagedCommand
<1>4. enabling' \in [Joints -> BOOLEAN] /\ enablePin' \in [Joints -> BOOLEAN]
  BY DEF DeviceCalls, TypeOK, Everywhere
<1>5. refused' \subseteq Joints
  BY DEF DeviceCalls, TypeOK
<1> QED
  BY <1>2, <1>3, <1>4, <1>5

\* Every call leaves flags, registries and terminals in their types.
THEOREM TypeCorrect == Spec => []TypeOK
<1>1. Init => TypeOK
  BY OtherType DEF Init, TypeOK, Everywhere, Values
<1>2. TypeOK /\ [Next]_vars => TypeOK'
  <2> SUFFICES ASSUME TypeOK, [Next]_vars PROVE TypeOK'
    OBVIOUS
  <2>1. ASSUME NEW flag \in BOOLEAN, RobotCall(flag) PROVE TypeOK'
    <3>1. CASE robotOn = flag
      <4>1. result' \in Results
        BY <2>1, <3>1, ReturnType DEF RobotCall
      <4> QED
        BY <2>1, <3>1, <4>1 DEF RobotCall, TypeOK, registry, pins
    <3>2. CASE robotOn # flag
      <4>1. PICK no : /\ DeviceCalls(Joints, "joint", flag, no)
                      /\ robotOn' = IF AllSucceed(no) THEN flag ELSE robotOn
                      /\ Returns(flag, "robot", AllSucceed(no))
        BY <2>1, <3>2 DEF RobotCall
      <4>2. robotOn' \in BOOLEAN
        BY <4>1 DEF TypeOK
      <4>3. result' \in Results
        BY <4>1, ReturnType DEF AllSucceed
      <4> QED
        BY <4>1, <4>2, <4>3, DeviceCallsType DEF TypeOK, Devices
    <3> QED
      BY <3>1, <3>2
  <2>2. ASSUME NEW flag \in BOOLEAN, NEW j \in Joints, NEW d \in Devices,
               DeviceCall(j, d, flag)
        PROVE  TypeOK'
    <3>1. PICK no : /\ DeviceCalls({j}, d, flag, no)
                    /\ Returns(flag, d, no = {})
      BY <2>2 DEF DeviceCall
    <3>2. robotOn' \in BOOLEAN /\ result' \in Results
      BY <2>2, <3>1, ReturnType DEF DeviceCall, TypeOK
    <3>3. {j} \in SUBSET Joints
      OBVIOUS
    <3>4. /\ on' \in [Joints -> SUBSET Devices]
          /\ command' \in [Joints -> Values]
          /\ commandPin' \in [Joints -> Values]
          /\ enabling' \in [Joints -> BOOLEAN]
          /\ enablePin' \in [Joints -> BOOLEAN]
          /\ refused' \subseteq Joints
      BY <3>1, <3>3, DeviceCallsType
    <3> QED
      BY <3>2, <3>4 DEF TypeOK
  <2>3. ASSUME NEW j \in Joints, NEW v \in Values, SetTorque(j, v)
        PROVE  TypeOK'
    BY <2>3, OtherType DEF SetTorque, TypeOK, pins
  <2>4. ASSUME NEW AO \in BOOLEAN, NEW DO \in BOOLEAN, UpdateOutput(AO, DO)
        PROVE  TypeOK'
    BY <2>4, OtherType DEF UpdateOutput, TypeOK, registry
  <2>5. ASSUME NEW AO, NEW DO, DaqCall(AO, DO)
        PROVE  TypeOK'
    BY <2>5, OtherType DEF DaqCall, TypeOK, Everywhere, Values
  <2>6. CASE WatchdogExpires
    BY <2>6, OtherType DEF WatchdogExpires, TypeOK, Everywhere, Values, registry
  <2>7. CASE UNCHANGED vars
    BY <2>7 DEF vars, registry, pins, TypeOK
  <2> QED
    BY <2>1, <2>2, <2>3, <2>4, <2>5, <2>6, <2>7 DEF Next
<1> QED
  BY <1>1, <1>2, PTL DEF Spec
-----------------------------------------------------------------------------
(* Power *)

LEMMA DeviceCallsPower ==
  ASSUME TypeOK, PoweredOnlyIfEnabled, NEW J \in SUBSET Joints,
         NEW d \in Devices, NEW flag \in BOOLEAN, NEW no,
         DeviceCalls(J, d, flag, no)
  PROVE  PoweredOnlyIfEnabled'
<1> SUFFICES ASSUME NEW j \in Joints, enablePin'[j] \/ enabling'[j]
             PROVE  "amplifier" \in on'[j] \/ j \in refused'
  BY DEF PoweredOnlyIfEnabled
<1>1. enablePin[j] \/ enabling[j] => "amplifier" \in on[j] \/ j \in refused
  BY DEF PoweredOnlyIfEnabled
<1> QED
  BY <1>1, AmplifierAfter

\* An amplifier is powered, or about to be by the next update_output(), only
\* when it is enabled or its last enable was refused: the staged enable level
\* has to be part of the invariant, since update_output() copies it to the pin.
THEOREM PowerFollowsFlags == Spec => []PoweredOnlyIfEnabled
<1>1. Init => PoweredOnlyIfEnabled
  BY DEF Init, PoweredOnlyIfEnabled, Everywhere
<1>2. TypeOK /\ PoweredOnlyIfEnabled /\ [Next]_vars => PoweredOnlyIfEnabled'
  <2> SUFFICES ASSUME TypeOK, PoweredOnlyIfEnabled, [Next]_vars
               PROVE  PoweredOnlyIfEnabled'
    OBVIOUS
  <2>1. ASSUME NEW flag \in BOOLEAN, RobotCall(flag)
        PROVE  PoweredOnlyIfEnabled'
    <3>1. CASE robotOn = flag
      BY <2>1, <3>1 DEF RobotCall, PoweredOnlyIfEnabled, registry, pins
    <3>2. CASE robotOn # flag
      <4>1. PICK no : DeviceCalls(Joints, "joint", flag, no)
        BY <2>1, <3>2 DEF RobotCall
      <4> QED
        BY <4>1, DeviceCallsPower DEF Devices
    <3> QED
      BY <3>1, <3>2
  <2>2. ASSUME NEW flag \in BOOLEAN, NEW j \in Joints, NEW d \in Devices,
               DeviceCall(j, d, flag)
        PROVE  PoweredOnlyIfEnabled'
    <3>1. {j} \in SUBSET Joints
      OBVIOUS
    <3>2. PICK no : DeviceCalls({j}, d, flag, no)
      BY <2>2 DEF DeviceCall
    <3> QED
      BY <3>1, <3>2, DeviceCallsPower
  <2>3. ASSUME NEW j \in Joints, NEW v \in Values, SetTorque(j, v)
        PROVE  PoweredOnlyIfEnabled'
    BY <2>3 DEF SetTorque, PoweredOnlyIfEnabled, pins
  <2>4. ASSUME NEW AO \in BOOLEAN, NEW DO \in BOOLEAN, UpdateOutput(AO, DO)
        PROVE  PoweredOnlyIfEnabled'
    BY <2>4 DEF UpdateOutput, PoweredOnlyIfEnabled, registry
  <2>5. ASSUME NEW AO, NEW DO \in {"skipped", "refused", "written"},
               DaqCall(AO, DO)
        PROVE  PoweredOnlyIfEnabled'
    BY <2>5 DEF DaqCall, PoweredOnlyIfEnabled, Everywhere
  <2>6. CASE WatchdogExpires
    BY <2>6 DEF WatchdogExpires, PoweredOnlyIfEnabled, Everywhere, registry
  <2>7. CASE UNCHANGED vars
    BY <2>7 DEF vars, registry, pins, PoweredOnlyIfEnabled
  <2> QED
    BY <2>1, <2>2, <2>3, <2>4, <2>5, <2>6, <2>7 DEF Next
<1> QED
  BY <1>1, <1>2, TypeCorrect, PTL DEF Spec

\* Robot::disable() that has run and returned TRUE leaves no motor powered
\* whose devices were all enabled: only a call of every joint that succeeded
\* clears the robot's flag, and such a chain is walked down to the amplifier.
THEOREM RobotDisables == Spec => RobotDisableUnpowers
<1>1. ASSUME TypeOK, [Next]_vars, robotOn, ~robotOn',
             NEW j \in Joints, on[j] = Devices
      PROVE  ~enablePin'[j] /\ command'[j] = "zero"
  <2>1. RobotCall(FALSE)
    <3>1. CASE RobotCall(TRUE)
      BY <1>1, <3>1 DEF RobotCall
    <3>2. ASSUME NEW flag \in BOOLEAN, NEW k \in Joints, NEW d \in Devices,
                 DeviceCall(k, d, flag)
          PROVE  FALSE
      BY <1>1, <3>2 DEF DeviceCall
    <3>3. ASSUME NEW k \in Joints, NEW v \in Values, SetTorque(k, v)
          PROVE  FALSE
      BY <1>1, <3>3 DEF SetTorque
    <3>4. ASSUME NEW AO, NEW DO, UpdateOutput(AO, DO) \/ DaqCall(AO, DO)
          PROVE  FALSE
      BY <1>1, <3>4 DEF UpdateOutput, DaqCall
    <3>5. ~WatchdogExpires /\ ~UNCHANGED vars
      BY <1>1 DEF WatchdogExpires, vars
    <3> QED
      BY <1>1, <3>1, <3>2, <3>3, <3>4, <3>5 DEF Next
  <2>2. PICK no : /\ DeviceCalls(Joints, "joint", FALSE, no)
                  /\ robotOn' = IF AllSucceed(no) THEN FALSE ELSE robotOn
    BY <1>1, <2>1 DEF RobotCall
  <2>3. no = {}
    BY <1>1, <2>2 DEF AllSucceed
  <2>4. "amplifier" \in Visited(j, "joint", FALSE)
    BY <1>1, FullChainReached DEF Devices
  <2> QED
    BY <2>2, <2>3, <2>4 DEF DeviceCalls, StagedCommand
<1>2. TypeOK /\ [Next]_vars =>
        [robotOn /\ ~robotOn' =>
           \A j \in Joints : on[j] = Devices /\ j \notin refused =>
             ~enablePin'[j] /\ command'[j] = "zero"]_vars
  BY <1>1
<1> QED
  BY <1>2, TypeCorrect, PTL DEF Spec, RobotDisableUnpowers
=============================================================================
