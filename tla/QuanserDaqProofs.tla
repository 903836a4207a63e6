-------------------------- MODULE QuanserDaqProofs --------------------------
(***************************************************************************)
(* The safety of QuanserDaq for every set of cards and of input modules:   *)
(* TypeOK first, then an inductive invariant in two halves, one on the     *)
(* handle and one on the modules, then the action properties it carries.   *)
(***************************************************************************)
EXTENDS QuanserDaq, TLAPS

-----------------------------------------------------------------------------
(* Types. *)

LEMMA ReturnType ==
  ASSUME NEW call \in {"none", "open", "close", "enable", "disable"},
         NEW ok \in BOOLEAN
  PROVE  [call |-> call, ok |-> ok] \in Results
BY DEF Results

LEMMA NewObjectType ==
  /\ NoResult \in Results
  /\ NoFlags \in [Modules -> BOOLEAN]
  /\ NoValues \in [Outputs -> Sources]
BY ReturnType DEF NoResult, NoFlags, NoValues, Sources

LEMMA StopClearType ==
  ASSUME NEW w \in {"stopped", "running", "expired"}, NEW s, NEW c
  PROVE  StopClear(w, s, c) \in {"stopped", "running", "expired"}
BY DEF StopClear

LEMMA RunHooksType ==
  ASSUME TypeOK, NEW M, NEW flag \in BOOLEAN, NEW source \in Sources, NEW refused,
         RunHooks(M, flag, source, refused)
  PROVE  /\ values' \in [Outputs -> Sources]
         /\ terminal' \in [Outputs -> Sources \cup {"expire"}]
         /\ modEnabled' \in [Modules -> BOOLEAN]
BY DEF TypeOK, RunHooks, HookWrites

LEMMA OpenStepType == TypeOK /\ OpenStep => TypeOK'
<1> SUFFICES ASSUME TypeOK, OpenStep PROVE TypeOK'
  OBVIOUS
<1> USE ReturnType, StopClearType DEF TypeOK, OpenStep, OpenReturns, Returns
<1>1. CASE HilOpenFails
  BY <1>1 DEF HilOpenFails
<1>2. CASE OptionsRefused
  BY <1>2 DEF OptionsRefused, Reopens, Recloses
<1>3. CASE SanityFails
  BY <1>3 DEF SanityFails, Reopens, Recloses
<1>4. CASE SetsExpireValues
  <2>1. PICK set \in {{}, {"AO"}, Outputs}, pwm \in SUBSET {"PWM"} :
          expireSet' = set \cup pwm /\ OpenReturns(ExpireValuesTaken(set))
    BY <1>4 DEF SetsExpireValues
  <2>2. ExpireValuesTaken(set) \in BOOLEAN
    BY DEF ExpireValuesTaken
  <2>3. result' \in Results /\ open' \in BOOLEAN /\ expireSet' \subseteq Outputs \cup {"PWM"}
    BY <2>1, <2>2 DEF Outputs
  <2> QED
    BY <1>4, <2>1, <2>3 DEF SetsExpireValues, Reopens
<1> QED
  BY <1>1, <1>2, <1>3, <1>4

\* Every call leaves every variable of the object and the board in its type.
THEOREM TypeCorrect == Spec => []TypeOK
<1>1. Init => TypeOK
  BY NewObjectType DEF Init, TypeOK, Sources
<1>2. TypeOK /\ [Next]_vars => TypeOK'
  <2> SUFFICES ASSUME TypeOK, [Next]_vars PROVE TypeOK'
    OBVIOUS
  <2> USE ReturnType, NewObjectType, StopClearType
      DEF TypeOK, Returns, OtherCall, object, board
  <2>1. CASE Construct
    BY <2>1 DEF Construct
  <2>2. CASE Destroy
    <3>1. /\ terminal' \in [Outputs -> Sources \cup {"expire"}]
          /\ wd' \in {"stopped", "running", "expired"}
          /\ leaked' \in BOOLEAN
      <4>1. CASE open
        <5>1. PICK s1, c1, s2, c2, h \in BOOLEAN :
                /\ wd' = IF card = "q2_usb" /\ enabled
                         THEN StopClear(StopClear(wd, s1, c1), s2, c2)
                         ELSE StopClear(wd, s2, c2)
                /\ leaked' = (leaked \/ ~h)
          BY <2>2, <4>1 DEF Destroy
        <5>2. PICK refused \in Refusals(Unlike(FALSE)) :
                terminal' = [m \in Outputs |->
                               IF enabled /\ m \in Unlike(FALSE) \ refused
                               THEN "disable" ELSE terminal[m]]
          BY <2>2, <4>1 DEF Destroy
        <5>3. terminal' \in [Outputs -> Sources \cup {"expire"}]
          BY <5>2 DEF Sources
        <5> QED
          BY <5>1, <5>3
      <4>2. CASE ~open
        BY <2>2, <4>2 DEF Destroy
      <4> QED
        BY <4>1, <4>2
    <3> QED
      BY <2>2, <3>1 DEF Destroy, NoObject
  <2>3. CASE Crash
    BY <2>3 DEF Crash, NoObject
  <2>4. CASE Open
    BY <2>4 DEF Open
  <2>5. CASE OpenStep
    BY <2>5, OpenStepType
  <2>6. CASE Close
    BY <2>6 DEF Close
  <2>7. CASE Enable
    BY <2>7, RunHooksType DEF Enable, HooksSucceed, Sources
  <2>8. CASE Disable
    <3>1. ASSUME NEW s \in BOOLEAN, NEW c \in BOOLEAN, DisableWatchdog(s, c)
          PROVE  /\ wd' \in {"stopped", "running", "expired"}
                 /\ watching' \in BOOLEAN
      BY <3>1 DEF DisableWatchdog
    <3> QED
      BY <2>8, <3>1, RunHooksType DEF Disable, HooksSucceed, Sources
  <2>9. CASE OutputCall
    <3>1. ASSUME NEW m \in Outputs, SetValues(m) \/ SetExpireValues(m)
          PROVE  TypeOK'
      BY <3>1 DEF SetValues, SetExpireValues, Sources
    <3>2. ASSUME NEW m \in Outputs, UpdateModule(m) PROVE TypeOK'
      BY <3>2 DEF UpdateModule, Writes
    <3>3. CASE UpdateOutput
      BY <3>3 DEF UpdateOutput, Writes
    <3>4. CASE Identify
      BY <3>4 DEF Identify, Sources
    <3> QED
      BY <2>9, <3>1, <3>2, <3>3, <3>4 DEF OutputCall
  <2>10. CASE WatchdogCall
    BY <2>10 DEF WatchdogCall, WatchdogStart, WatchdogFoundExpired,
      WatchdogStop, WatchdogClear
  <2>11. CASE WatchdogExpires
    BY <2>11 DEF WatchdogExpires
  <2>12. CASE UNCHANGED vars
    BY <2>12 DEF vars
  <2>13. ASSUME NEW m \in Modules, NEW flag \in BOOLEAN, ModuleCall(m, flag)
         PROVE  TypeOK'
    <3>1. PICK refused \in Refusals(Unlike(flag) \cap {m}) :
            /\ RunHooks({m}, flag, IF flag THEN "enable" ELSE "disable", refused)
            /\ hook' = IF m \in refused THEN hook ELSE "apart"
      BY <2>13 DEF ModuleCall
    <3>2. (IF flag THEN "enable" ELSE "disable") \in Sources
      BY DEF Sources
    <3>3. /\ values' \in [Outputs -> Sources]
          /\ terminal' \in [Outputs -> Sources \cup {"expire"}]
          /\ modEnabled' \in [Modules -> BOOLEAN]
      BY <3>1, <3>2, RunHooksType
    <3>4. hook' \in {"none", "ok", "failed", "apart"}
      BY <3>1
    <3> QED
      BY <2>13, <3>3, <3>4 DEF ModuleCall
  <2> QED
    BY <2>1, <2>2, <2>3, <2>4, <2>5, <2>6, <2>7, <2>8, <2>9, <2>10, <2>11,
      <2>12, <2>13 DEF Next, LifeCycleCall
<1> QED
  BY <1>1, <1>2, PTL DEF Spec

-----------------------------------------------------------------------------
(* The invariant. Its conjuncts over the handle and open_ change only in     *)
(* open() and close(), those over the modules only in enable(), disable() and *)
(* where terminals change.                                                    *)

\* on_open runs only while the DAQ is not open: the hil_close after a failed
\* sanity check cannot take the handle of an open DAQ.
OpeningNotOpen == pc = "opening" => ~open

HandleInv == OpeningNotOpen /\ OpenHoldsHandle /\ OpenIsGuarded
ModuleInv == HooksAgree /\ EnabledAloneIsSafe

LEMMA HandleFrame ==
  HandleInv /\ UNCHANGED <<pc, open, held, expireSet>> => HandleInv'
BY DEF HandleInv, OpeningNotOpen, OpenHoldsHandle, OpenIsGuarded

LEMMA OpenStepHandle == HandleInv /\ OpenStep => HandleInv'
<1> SUFFICES ASSUME HandleInv, OpenStep PROVE HandleInv'
  OBVIOUS
<1> USE DEF HandleInv, OpeningNotOpen, OpenHoldsHandle, OpenIsGuarded
<1>1. CASE HilOpenFails \/ OptionsRefused
  BY <1>1 DEF HilOpenFails, OptionsRefused, OpenReturns
<1>2. CASE SanityFails
  BY <1>2 DEF OpenStep, SanityFails
<1>3. CASE SetsExpireValues
  BY <1>3 DEF SetsExpireValues, OpenReturns, ExpireValuesTaken
<1> QED
  BY <1>1, <1>2, <1>3 DEF OpenStep

LEMMA HandleStep == TypeOK /\ HandleInv /\ [Next]_vars => HandleInv'
<1> SUFFICES ASSUME TypeOK, HandleInv, [Next]_vars PROVE HandleInv'
  OBVIOUS
<1>1. CASE Construct \/ Destroy \/ Crash
  <2>1. UNCHANGED <<pc, open, held, expireSet>> \/ (pc' = "idle" /\ open' = FALSE)
    BY <1>1 DEF Construct, Destroy, Crash, NoObject, object, board
  <2> QED
    BY <2>1 DEF HandleInv, OpeningNotOpen, OpenHoldsHandle, OpenIsGuarded
<1>2. CASE OpenStep
  BY <1>2, OpenStepHandle
<1>3. CASE Open
  <2>1. /\ UNCHANGED <<open, held, expireSet>>
        /\ pc' = pc \/ ~open
    BY <1>3 DEF Open, object, board
  <2> QED
    BY <2>1 DEF HandleInv, OpeningNotOpen, OpenHoldsHandle, OpenIsGuarded
<1>4. CASE Close
  <2>1. CASE ~open
    <3>1. UNCHANGED <<pc, open, held, expireSet>>
      BY <1>4, <2>1 DEF Close
    <3> QED
      BY <3>1, HandleFrame
  <2>2. CASE open
    <3>1. (open' => held') /\ UNCHANGED <<pc, expireSet>>
      BY <1>4, <2>2 DEF Close
    <3> QED
      BY <2>2, <3>1
      DEF HandleInv, OpeningNotOpen, OpenHoldsHandle, OpenIsGuarded
  <2> QED
    BY <2>1, <2>2
<1>5. CASE Enable \/ Disable
  <2>1. UNCHANGED <<pc, open, held, expireSet>>
    BY <1>5 DEF Enable, Disable, object
  <2> QED
    BY <2>1, HandleFrame
<1>6. CASE OutputCall
  <2>1. /\ UNCHANGED <<pc, open, held>>
        /\ expireSet \subseteq expireSet'
    BY <1>6 DEF OutputCall, SetValues, UpdateModule, SetExpireValues,
      UpdateOutput, Identify, OtherCall, object, board
  <2> QED
    BY <2>1 DEF HandleInv, OpeningNotOpen, OpenHoldsHandle, OpenIsGuarded
<1>7. CASE WatchdogCall
  <2>1. UNCHANGED <<pc, open, held, expireSet>>
    BY <1>7 DEF WatchdogCall, WatchdogStart, WatchdogFoundExpired,
      WatchdogStop, WatchdogClear, object, board
  <2> QED
    BY <2>1, HandleFrame
<1>8. CASE WatchdogExpires \/ UNCHANGED vars
  <2>1. UNCHANGED <<pc, open, held, expireSet>>
    BY <1>8 DEF WatchdogExpires, vars, object, board
  <2> QED
    BY <2>1, HandleFrame
<1>9. CASE \E m \in Modules, flag \in BOOLEAN : ModuleCall(m, flag)
  <2>1. UNCHANGED <<pc, open, held, expireSet>>
    BY <1>9 DEF ModuleCall
  <2> QED
    BY <2>1, HandleFrame
<1> QED
  BY <1>1, <1>2, <1>3, <1>4, <1>5, <1>6, <1>7, <1>8, <1>9 DEF Next, LifeCycleCall

\* What a hook that ran on the modules leaves, in terms of the refusals.
LEMMA HooksRan ==
  ASSUME TypeOK, NEW flag \in BOOLEAN, NEW source \in Sources,
         NEW refused \in SUBSET Unlike(flag), RunHooks(Modules, flag, source, refused)
  PROVE  /\ \A m \in Modules : modEnabled'[m] = flag <=> m \notin refused
         /\ \A m \in Outputs :
              terminal'[m] = IF m \in Unlike(flag) \ refused
                             THEN source ELSE terminal[m]
BY DEF TypeOK, RunHooks, HookWrites, Unlike, Modules

LEMMA RefusedAreUnlike ==
  ASSUME NEW M \in SUBSET Outputs, NEW refused \in Refusals(M)
  PROVE  refused \in SUBSET M
BY DEF Refusals

LEMMA ModuleFrame ==
  ModuleInv /\ UNCHANGED <<card, enabled, modEnabled, hook, terminal>> => ModuleInv'
BY DEF ModuleInv, HooksAgree, EnabledAloneIsSafe

\* The outputs an enable() leaves enabled carry their enable values, those it
\* found enabled included.
LEMMA EnableDrives ==
  ASSUME TypeOK, ModuleInv, Enable, ~enabled, open, card # "q2_usb",
         NEW m \in Outputs \ Direct, modEnabled'[m]
  PROVE  terminal'[m] \in {"enable", "expire"}
<1>1. PICK refused \in Refusals(Unlike(TRUE)) : RunHooks(Modules, TRUE, "enable", refused)
  BY DEF Enable
<1>2. refused \in SUBSET Unlike(TRUE)
  BY <1>1, RefusedAreUnlike DEF Unlike
<1>3. /\ \A n \in Modules : modEnabled'[n] = TRUE <=> n \notin refused
      /\ \A n \in Outputs :
           terminal'[n] = IF n \in Unlike(TRUE) \ refused
                          THEN "enable" ELSE terminal[n]
  BY <1>1, <1>2, HooksRan DEF Sources
<1>4. CASE modEnabled[m]
  BY <1>3, <1>4 DEF ModuleInv, EnabledAloneIsSafe
<1>5. CASE ~modEnabled[m]
  <2>1. m \in Unlike(TRUE)
    BY <1>5 DEF Unlike
  <2>2. m \notin refused
    BY <1>3 DEF Modules
  <2> QED
    BY <1>3, <2>1, <2>2
<1> QED
  BY <1>4, <1>5

LEMMA EnableStep == TypeOK /\ ModuleInv /\ Enable => ModuleInv'
<1> SUFFICES ASSUME TypeOK, ModuleInv, Enable PROVE ModuleInv'
  OBVIOUS
<1>1. CASE enabled
  BY <1>1, ModuleFrame DEF Enable, object
<1>2. CASE ~enabled /\ ~open
  <2>1. hook' = "failed" /\ UNCHANGED <<card, enabled, modEnabled, terminal>>
    BY <1>2 DEF Enable
  <2> QED
    BY <2>1 DEF ModuleInv, HooksAgree, EnabledAloneIsSafe
<1>3. CASE ~enabled /\ open
  <2>1. PICK refused \in Refusals(Unlike(TRUE)) :
          /\ RunHooks(Modules, TRUE, "enable", refused)
          /\ enabled' = HooksSucceed(refused)
          /\ hook' = IF HooksSucceed(refused) THEN "ok" ELSE "failed"
    BY <1>3 DEF Enable
  <2>2. refused \in SUBSET Unlike(TRUE)
    BY <2>1, RefusedAreUnlike DEF Unlike
  <2>3. /\ \A m \in Modules : modEnabled'[m] = TRUE <=> m \notin refused
        /\ \A m \in Outputs :
             terminal'[m] = IF m \in Unlike(TRUE) \ refused
                            THEN "enable" ELSE terminal[m]
    BY <2>1, <2>2, HooksRan DEF Sources
  <2>4. HooksAgree'
    BY <2>1, <2>3 DEF HooksSucceed, HooksAgree
  <2>5. card # "q2_usb" =>
          \A m \in Outputs \ Direct :
             modEnabled'[m] => terminal'[m] \in {"enable", "expire"}
    BY <1>3, EnableDrives
  <2>6. card' = card
    BY DEF Enable
  <2> QED
    BY <2>4, <2>5, <2>6 DEF ModuleInv, EnabledAloneIsSafe
<1> QED
  BY <1>1, <1>2, <1>3

LEMMA DisableStep == TypeOK /\ ModuleInv /\ Disable => ModuleInv'
<1> SUFFICES ASSUME TypeOK, ModuleInv, Disable PROVE ModuleInv'
  OBVIOUS
<1>1. CASE ~enabled
  BY <1>1, ModuleFrame DEF Disable, object
<1>2. CASE enabled /\ ~open
  <2>1. hook' = "failed" /\ UNCHANGED <<card, enabled, modEnabled, terminal>>
    BY <1>2 DEF Disable
  <2> QED
    BY <2>1 DEF ModuleInv, HooksAgree, EnabledAloneIsSafe
<1>3. CASE enabled /\ open
  <2>1. PICK refused \in Refusals(Unlike(FALSE)) :
          /\ RunHooks(Modules, FALSE, "disable", refused)
          /\ enabled' = ~HooksSucceed(refused)
          /\ hook' = IF HooksSucceed(refused) THEN "ok" ELSE "failed"
    BY <1>3 DEF Disable
  <2>2. refused \in SUBSET Unlike(FALSE)
    BY <2>1, RefusedAreUnlike DEF Unlike
  <2>3. \A m \in Modules : modEnabled'[m] = FALSE <=> m \notin refused
    BY <2>1, <2>2, HooksRan DEF Sources
  <2>4. HooksAgree'
    BY <2>1, <2>3 DEF HooksSucceed, HooksAgree
  <2>5. EnabledAloneIsSafe'
    BY <2>1, <2>3 DEF HooksSucceed, Modules, EnabledAloneIsSafe
  <2> QED
    BY <2>4, <2>5 DEF ModuleInv
<1> QED
  BY <1>1, <1>2, <1>3

\* A module's own call gives it the enable value with the flag, and ends what the DAQ
\* and its modules agreed on.
LEMMA ModuleCallStep ==
  ASSUME TypeOK, ModuleInv, NEW m \in Modules, NEW flag \in BOOLEAN, ModuleCall(m, flag)
  PROVE  ModuleInv'
<1>1. PICK refused \in Refusals(Unlike(flag) \cap {m}) :
        /\ RunHooks({m}, flag, IF flag THEN "enable" ELSE "disable", refused)
        /\ hook' = IF m \in refused THEN hook ELSE "apart"
  BY DEF ModuleCall
<1>2. UNCHANGED <<card, enabled>> /\ modEnabled[m] # flag
  BY DEF ModuleCall
<1>3. CASE m \in refused
  <2>1. UNCHANGED <<card, enabled, modEnabled, hook, terminal>>
    <3>1. {n \in {m} : modEnabled[n] # flag} \ refused = {}
      BY <1>3
    <3>2. /\ modEnabled' = [n \in Modules |-> modEnabled[n]]
          /\ terminal' = [n \in Outputs |-> terminal[n]]
      BY <1>1, <3>1 DEF RunHooks
    <3> QED
      BY <1>1, <1>2, <1>3, <3>2 DEF TypeOK
  <2> QED
    BY <2>1, ModuleFrame
<1>4. CASE m \notin refused
  <2>1. {n \in {m} : modEnabled[n] # flag} \ refused = {m}
    BY <1>2, <1>4
  <2>2. /\ modEnabled' = [n \in Modules |-> IF n \in {m} THEN flag ELSE modEnabled[n]]
        /\ terminal' = [n \in Outputs |->
                           IF n \in {m} THEN IF flag THEN "enable" ELSE "disable"
                           ELSE terminal[n]]
    BY <1>1, <2>1 DEF RunHooks, HookWrites
  <2>3. hook' = "apart"
    BY <1>1, <1>4
  <2>4. ASSUME card # "q2_usb", NEW n \in Outputs \ Direct, modEnabled'[n], ~enabled
        PROVE  terminal'[n] \in {"enable", "expire"}
    <3>1. CASE n = m
      BY <2>2, <2>4, <3>1 DEF Modules
    <3>2. CASE n # m
      BY <2>2, <2>4, <3>2 DEF Modules, ModuleInv, EnabledAloneIsSafe
    <3> QED
      BY <3>1, <3>2
  <2> QED
    BY <1>2, <2>3, <2>4 DEF ModuleInv, HooksAgree, EnabledAloneIsSafe
<1> QED
  BY <1>3, <1>4

LEMMA ModuleStep == TypeOK /\ ModuleInv /\ [Next]_vars => ModuleInv'
<1> SUFFICES ASSUME TypeOK, ModuleInv, [Next]_vars PROVE ModuleInv'
  OBVIOUS
<1>1. CASE Construct
  BY <1>1, ModuleFrame DEF Construct, object, board
<1>2. CASE Destroy \/ Crash
  <2>1. enabled' = FALSE /\ modEnabled' = NoFlags
    BY <1>2 DEF Destroy, Crash, NoObject
  <2> QED
    BY <2>1 DEF NoFlags, Modules, ModuleInv, HooksAgree, EnabledAloneIsSafe
<1>3. CASE Open \/ OpenStep \/ Close
  BY <1>3, ModuleFrame DEF Open, OpenStep, Close, object, board
<1>4. CASE Enable \/ Disable
  BY <1>4, EnableStep, DisableStep
<1>5. ASSUME NEW m \in Outputs, SetValues(m) \/ SetExpireValues(m)
      PROVE  ModuleInv'
  BY <1>5, ModuleFrame DEF SetValues, SetExpireValues, object, board
<1>6. ASSUME NEW m \in Outputs, UpdateModule(m) PROVE ModuleInv'
  <2>1. /\ UNCHANGED <<card, enabled, modEnabled, hook>>
        /\ \A n \in Outputs \ Direct : terminal'[n] = terminal[n]
    BY <1>6 DEF UpdateModule, Writes, object
  <2> QED
    BY <2>1 DEF ModuleInv, HooksAgree, EnabledAloneIsSafe
<1>7. CASE UpdateOutput
  <2>1. /\ UNCHANGED <<card, enabled, modEnabled, hook>>
        /\ card = "q2_usb" \/ enabled
    BY <1>7 DEF UpdateOutput, OutputGuard, object
  <2> QED
    BY <2>1 DEF ModuleInv, HooksAgree, EnabledAloneIsSafe
<1>8. CASE Identify
  <2>1. /\ UNCHANGED <<card, enabled, modEnabled, hook>>
        /\ \A n \in Outputs \ Direct : terminal'[n] = terminal[n]
    BY <1>8 DEF Identify, TypeOK
  <2> QED
    BY <2>1 DEF ModuleInv, HooksAgree, EnabledAloneIsSafe
<1>9. CASE WatchdogCall
  BY <1>9, ModuleFrame DEF WatchdogCall, WatchdogStart, WatchdogFoundExpired,
    WatchdogStop, WatchdogClear, object, board
<1>10. CASE WatchdogExpires
  <2>1. /\ UNCHANGED <<card, enabled, modEnabled, hook>>
        /\ \A n \in Outputs : terminal'[n] \in {terminal[n], "expire"}
    BY <1>10 DEF WatchdogExpires, object
  <2> QED
    BY <2>1 DEF ModuleInv, HooksAgree, EnabledAloneIsSafe
<1>11. CASE UNCHANGED vars
  BY <1>11, ModuleFrame DEF vars, object, board
<1>12. CASE \E m \in Modules, flag \in BOOLEAN : ModuleCall(m, flag)
  BY <1>12, ModuleCallStep
<1> QED
  BY <1>1, <1>2, <1>3, <1>4, <1>5, <1>6, <1>7, <1>8, <1>9, <1>10, <1>11, <1>12
  DEF Next, LifeCycleCall, OutputCall

\* The handle, the watchdog's expiration states and the enabled flags stay
\* consistent through every failure, for any set of input modules.
THEOREM Safety ==
  Spec => [](OpenHoldsHandle /\ OpenIsGuarded /\ HooksAgree /\ EnabledAloneIsSafe)
<1>1. Init => HandleInv /\ ModuleInv
  BY DEF Init, HandleInv, OpeningNotOpen, OpenHoldsHandle, OpenIsGuarded,
    ModuleInv, HooksAgree, EnabledAloneIsSafe, NoFlags, Modules
<1>2. TypeOK /\ HandleInv /\ ModuleInv /\ [Next]_vars => HandleInv' /\ ModuleInv'
  BY HandleStep, ModuleStep
<1>3. HandleInv /\ ModuleInv =>
        OpenHoldsHandle /\ OpenIsGuarded /\ HooksAgree /\ EnabledAloneIsSafe
  BY DEF HandleInv, ModuleInv
<1> QED
  BY <1>1, <1>2, <1>3, TypeCorrect, PTL DEF Spec

\* The DAQ that says it is open has the handle its calls need (DaqBase.cpp:24-56).
COROLLARY OpenDaqHasHandle == Spec => []OpenHoldsHandle
  BY Safety, PTL

\* Unless the last hook failed or a module was enabled or disabled by itself after it,
\* the DAQ and its modules agree on being enabled (on_enable and on_disable of the cards).
COROLLARY FlagsFollowHooks == Spec => []HooksAgree
  BY Safety, PTL

\* A module left enabled by an enable() that failed, or enabled by itself, carries its enable value or the
\* expiration state (Q8Usb::on_enable, QPid::on_enable).
COROLLARY FailedEnableIsSafe == Spec => []EnabledAloneIsSafe
  BY Safety, PTL

-----------------------------------------------------------------------------
(* The action properties. *)

LEMMA OnlyEnableEnables ==
  ASSUME [Next]_vars, ~enabled, enabled' PROVE Enable
<1>1. CASE Construct \/ Destroy \/ Crash
  BY <1>1 DEF Construct, Destroy, Crash, NoObject, object
<1>2. CASE \/ Open \/ OpenStep \/ Close \/ Disable
          \/ \E m \in Modules, flag \in BOOLEAN : ModuleCall(m, flag)
  BY <1>2 DEF ModuleCall, Open, OpenStep, Close, Disable, object
<1>3. CASE OutputCall
  BY <1>3 DEF OutputCall, SetValues, UpdateModule, SetExpireValues, UpdateOutput,
    Identify, object
<1>4. CASE WatchdogCall \/ WatchdogExpires \/ UNCHANGED vars
  BY <1>4 DEF WatchdogCall, WatchdogStart, WatchdogFoundExpired, WatchdogStop,
    WatchdogClear, WatchdogExpires, vars, object
<1> QED
  BY <1>1, <1>2, <1>3, <1>4 DEF Next, LifeCycleCall

LEMMA OnlyDisableDisables ==
  ASSUME [Next]_vars, enabled, ~enabled', alive' PROVE Disable
<1>1. CASE Construct \/ Destroy \/ Crash
  BY <1>1 DEF Construct, Destroy, Crash, NoObject, object
<1>2. CASE \/ Open \/ OpenStep \/ Close \/ Enable
          \/ \E m \in Modules, flag \in BOOLEAN : ModuleCall(m, flag)
  BY <1>2 DEF ModuleCall, Open, OpenStep, Close, Enable, object
<1>3. CASE OutputCall
  BY <1>3 DEF OutputCall, SetValues, UpdateModule, SetExpireValues, UpdateOutput,
    Identify, object
<1>4. CASE WatchdogCall \/ WatchdogExpires \/ UNCHANGED vars
  BY <1>4 DEF WatchdogCall, WatchdogStart, WatchdogFoundExpired, WatchdogStop,
    WatchdogClear, WatchdogExpires, vars, object
<1> QED
  BY <1>1, <1>2, <1>3, <1>4 DEF Next, LifeCycleCall

LEMMA InvariantHolds == Spec => [](TypeOK /\ ModuleInv)
<1>1. Init => ModuleInv
  BY DEF Init, ModuleInv, HooksAgree, EnabledAloneIsSafe, NoFlags, Modules
<1> QED
  BY <1>1, ModuleStep, TypeCorrect, PTL DEF Spec

\* enable() of a Q8Usb or QPid puts every output not written directly under its
\* enable value, whatever failed before it.
THEOREM EnableStartsControl == Spec => StartsFromEnableValues
<1>1. ASSUME TypeOK, ModuleInv, [Next]_vars, card # "q2_usb", ~enabled, enabled',
             NEW m \in Outputs \ Direct
      PROVE  terminal'[m] \in {"enable", "expire"}
  <2>1. Enable
    BY <1>1, OnlyEnableEnables
  <2>2. open /\ hook' = "ok"
    BY <1>1, <2>1 DEF Enable
  <2>3. HooksAgree'
    BY <1>1, ModuleStep DEF ModuleInv
  <2>4. modEnabled'[m]
    BY <1>1, <2>2, <2>3 DEF HooksAgree, Modules
  <2> QED
    BY <1>1, <2>1, <2>2, <2>4, EnableDrives
<1>2. TypeOK /\ ModuleInv /\ [Next]_vars =>
        [card # "q2_usb" /\ ~enabled /\ enabled' =>
           \A m \in Outputs \ Direct : terminal'[m] \in {"enable", "expire"}]_vars
  BY <1>1
<1> QED
  BY <1>2, InvariantHolds, PTL DEF Spec, StartsFromEnableValues

\* A disable() that succeeds, does not retry a failed one and finds no module enabled or
\* disabled by itself, leaves the disable value on every output.
THEOREM DisableEndsControl == Spec => EndsWithDisableValues
<1>1. ASSUME TypeOK, ModuleInv, [Next]_vars, enabled, ~enabled', alive',
             hook \notin {"failed", "apart"}, NEW m \in Outputs
      PROVE  terminal'[m] = "disable"
  <2>1. Disable
    BY <1>1, OnlyDisableDisables
  <2>2. PICK refused \in Refusals(Unlike(FALSE)) :
          /\ RunHooks(Modules, FALSE, "disable", refused)
          /\ enabled' = ~HooksSucceed(refused)
    BY <1>1, <2>1 DEF Disable
  <2>3. refused = {}
    BY <1>1, <2>2 DEF HooksSucceed
  <2>4. m \in Unlike(FALSE)
    BY <1>1 DEF ModuleInv, HooksAgree, Unlike, Modules, TypeOK
  <2>5. \A n \in Outputs :
           terminal'[n] = IF n \in Unlike(FALSE) \ refused
                          THEN "disable" ELSE terminal[n]
    <3>1. refused \in SUBSET Unlike(FALSE) /\ "disable" \in Sources
      BY <2>3 DEF Sources
    <3> QED
      BY <1>1, <2>2, <3>1, HooksRan
  <2> QED
    BY <2>3, <2>4, <2>5
<1>2. TypeOK /\ ModuleInv /\ [Next]_vars =>
        [enabled /\ ~enabled' /\ alive' /\ hook \notin {"failed", "apart"} =>
           \A m \in Outputs : terminal'[m] = "disable"]_vars
  BY <1>1
<1> QED
  BY <1>2, InvariantHolds, PTL DEF Spec, EndsWithDisableValues

=============================================================================
