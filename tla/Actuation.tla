----------------------------- MODULE Actuation -----------------------------
(***************************************************************************)
(* From Robot::enable() to the enable pin of each motor's amplifier, and   *)
(* from set_torque() to its command pin.                                   *)
(*                                                                         *)
(* A joint is a chain of three Devices: Joint, Motor, Amplifier.  Each has *)
(* its own enabled_ flag, and the program may enable or disable the robot  *)
(* or any device of a chain.  Only the amplifier's hooks reach the DAQ:    *)
(* they stage values in its registries and write the enable channel, which *)
(* the board may refuse.  The DAQ writes everything staged when the        *)
(* program calls update_output(), whoever staged it.                       *)
(*                                                                         *)
(* Torques, currents and voltages are abstracted to "zero" and "command";  *)
(* the logic level that powers an amplifier (enable_level_) to TRUE.       *)
(***************************************************************************)
CONSTANTS Joints,
          Direct   \* the devices the program enables or disables by itself

Devices == {"joint", "motor", "amplifier"}

ASSUME Assumptions == Direct \subseteq Devices

VARIABLES
  robotOn,     \* Device::enabled_ of the robot
  on,          \* per joint, the devices of its chain that are enabled
  command,     \* registry of the command (AO) channels
  enabling,    \* registry of the enable (DO) channels
  commandPin,  \* terminal of the command channels
  enablePin,   \* terminal of the enable channels: the amplifier is powered
  refused,     \* history: joints whose amplifier's last enable was refused,
               \* and whose enable channel the DAQ has not written off since
  result       \* the last call on a device, and what it returned

registry == <<command, enabling>>
pins     == <<commandPin, enablePin>>
vars     == <<robotOn, on, registry, pins, refused, result>>

Values  == {"zero", "command"}
Results == [call: {"enable", "disable", "other"},
            device: Devices \cup {"robot"}, ok: BOOLEAN]
Other   == [call |-> "other", device |-> "robot", ok |-> TRUE]

\* Flags name devices of the chain; registries and pins hold staged values.
TypeOK ==
  /\ robotOn \in BOOLEAN
  /\ on \in [Joints -> SUBSET Devices]
  /\ command \in [Joints -> Values] /\ commandPin \in [Joints -> Values]
  /\ enabling \in [Joints -> BOOLEAN] /\ enablePin \in [Joints -> BOOLEAN]
  /\ refused \subseteq Joints
  /\ result \in Results

Everywhere(v) == [j \in Joints |-> v]

Init ==
  /\ robotOn = FALSE /\ on = Everywhere({})
  /\ command = Everywhere("zero") /\ commandPin = Everywhere("zero")
  /\ enabling = Everywhere(FALSE) /\ enablePin = Everywhere(FALSE)
  /\ refused = {} /\ result = Other
-----------------------------------------------------------------------------
(* Device::enable() and disable() *)

\* A device and those its hook goes on to call
Chain(d) == CASE d = "joint" -> Devices
              [] d = "motor" -> {"motor", "amplifier"}
              [] d = "amplifier" -> {"amplifier"}

\* The devices of j a call on d visits: a device whose flag already says so
\* returns TRUE at once, and its hook and those below do not run
Visited(j, d, flag) ==
  {e \in Chain(d) : \A f \in Chain(d) :
                      e \in Chain(f) => (f \in on[j]) # flag}

\* Amplifier::on_enable and on_disable stage a zero command and write the
\* enable channel only
StagedCommand(flag, j) == "zero"

\* The flag follows what the hook returned
FlagsMutant(j, d, flag, ok) ==   \* enabled_ cleared whatever the hook did
  IF flag THEN IF ok THEN on[j] \cup Visited(j, d, flag) ELSE on[j]
          ELSE on[j] \ Visited(j, d, flag)
Flags(j, d, flag, ok) ==
  CASE ~ok  -> on[j]
    [] flag -> on[j] \cup Visited(j, d, flag)
    [] OTHER -> on[j] \ Visited(j, d, flag)

\* Calls on device d of every joint in J; the board refuses the amplifiers of
\* `no`.  Joint and Motor return what the device below returned.
DeviceCalls(J, d, flag, no) ==
  LET reached == {j \in J : "amplifier" \in Visited(j, d, flag)}
      Of(new, old) == [j \in Joints |-> IF j \in reached THEN new[j] ELSE old[j]]
  IN /\ no \subseteq reached
     /\ on' = [j \in Joints |-> IF j \in J THEN Flags(j, d, flag, j \notin no)
                                          ELSE on[j]]
     /\ command' = Of([j \in Joints |-> StagedCommand(flag, j)], command)
     /\ enabling' = Of(Everywhere(flag), enabling)
     /\ enablePin' = [j \in Joints |-> IF j \in reached \ no THEN flag
                                       ELSE enablePin[j]]
     /\ refused' = IF flag THEN (refused \ reached) \cup no ELSE refused
     /\ UNCHANGED commandPin

Returns(flag, d, ok) ==
  result' = [call |-> IF flag THEN "enable" ELSE "disable",
             device |-> d, ok |-> ok]

\* Robot::on_enable and on_disable call every joint, and succeed when all did
AllSucceedMutant(no) == \E j \in Joints : j \notin no   \* the last result wins
AllSucceed(no) == no = {}

RobotCall(flag) ==
  IF robotOn = flag
    THEN /\ Returns(flag, "robot", TRUE)
         /\ UNCHANGED <<robotOn, on, registry, pins, refused>>
    ELSE \E no \in SUBSET Joints :
           /\ DeviceCalls(Joints, "joint", flag, no)
           /\ robotOn' = IF AllSucceed(no) THEN flag ELSE robotOn
           /\ Returns(flag, "robot", AllSucceed(no))

DeviceCall(j, d, flag) ==
  /\ d \in Direct
  /\ \E no \in SUBSET {j} : /\ DeviceCalls({j}, d, flag, no)
                            /\ Returns(flag, d, no = {})
  /\ UNCHANGED robotOn
-----------------------------------------------------------------------------
(* Torques, and the DAQ's writes *)

\* Joint, Motor and Amplifier ask no flag before a command is staged
SetTorque(j, v) ==
  /\ command' = [command EXCEPT ![j] = v]
  /\ result' = Other
  /\ UNCHANGED <<robotOn, on, enabling, pins, refused>>

\* update_output(): all of what is staged, or what the board took of it
UpdateOutput(AO, DO) ==
  /\ commandPin' = IF AO THEN command ELSE commandPin
  /\ enablePin' = IF DO THEN enabling ELSE enablePin
  /\ result' = Other
  /\ UNCHANGED <<robotOn, on, registry, refused>>

\* enable() and disable() of the DAQ: the hook of an output module stages its
\* enable or disable values, zero and off, and writes them, or the module's
\* flag already says so and the hook is skipped; the robot is not told
DaqCall(AO, DO) ==
  /\ command' = IF AO = "skipped" THEN command ELSE Everywhere("zero")
  /\ enabling' = IF DO = "skipped" THEN enabling ELSE Everywhere(FALSE)
  /\ commandPin' = IF AO = "written" THEN Everywhere("zero") ELSE commandPin
  /\ enablePin' = IF DO = "written" THEN Everywhere(FALSE) ELSE enablePin
  /\ refused' = IF DO = "written" THEN {} ELSE refused
  /\ result' = Other
  /\ UNCHANGED <<robotOn, on>>

\* External: the DAQ's watchdog drives the expiration states, zero and off
WatchdogExpires ==
  /\ commandPin' = Everywhere("zero") /\ enablePin' = Everywhere(FALSE)
  /\ result' = Other
  /\ UNCHANGED <<robotOn, on, registry, refused>>

Next ==
  \/ \E flag \in BOOLEAN :
       \/ RobotCall(flag)
       \/ \E j \in Joints : \E d \in Devices : DeviceCall(j, d, flag)
  \/ \E j \in Joints : \E v \in Values : SetTorque(j, v)
  \/ \E AO, DO \in BOOLEAN : UpdateOutput(AO, DO)
  \/ \E AO, DO \in {"skipped", "refused", "written"} : DaqCall(AO, DO)
  \/ WatchdogExpires

Spec == Init /\ [][Next]_vars
-----------------------------------------------------------------------------
(* Properties *)

\* A powered amplifier is enabled, whatever update_output() writes after
\* failed disables, expired watchdogs and DAQ restarts; except one whose
\* enable was refused: its enable level stays staged for the next
\* update_output(), which powers it while is_enabled() says FALSE
PoweredOnlyIfEnabled ==
  \A j \in Joints :
    enablePin[j] \/ enabling[j] => "amplifier" \in on[j] \/ j \in refused

\* When Robot::disable() has run and returned TRUE, no motor whose devices
\* were all enabled is powered and none has a torque staged, however many
\* disables failed before
RobotDisableUnpowers ==
  [][robotOn /\ ~robotOn' =>
       \A j \in Joints : on[j] = Devices /\ j \notin refused =>
         ~enablePin'[j] /\ command'[j] = "zero"]_vars

\* "Disables the Device and returns TRUE if successful" (Device.hpp:54), "to
\* disable all robot joints" (Robot.hpp:82): after a robot.disable() that
\* returned TRUE no joint is enabled
DisabledRobotIsOff ==
  result = [call |-> "disable", device |-> "robot", ok |-> TRUE] =>
    \A j \in Joints : "joint" \notin on[j]

\* Motor::on_disable "writes zero to the associated analog output channel"
\* (Motor.hpp:65-66): a motor ends disabled with zero on its command pin
DisableWritesZero ==
  [][\A j \in Joints : "motor" \in on[j] /\ "motor" \notin on'[j] =>
       commandPin'[j] = "zero"]_vars
=============================================================================
