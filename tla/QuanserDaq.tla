----------------------------- MODULE QuanserDaq -----------------------------
(***************************************************************************)
(* The life cycle of a Quanser DAQ (Q8Usb, Q2Usb, QPid): open, close,      *)
(* enable, disable, the output modules' writes, the watchdog, destruction  *)
(* and the death of the process, over a board whose HIL calls may fail.    *)
(*                                                                         *)
(* An action is one call of the public interface, with every HIL call it   *)
(* makes; which of them the board refuses is chosen nondeterministically.  *)
(* Q8Usb::on_open calls itself while the sanity check fails, so open() is  *)
(* a step to pc = "opening" and one OpenStep per on_open.                  *)
(*                                                                         *)
(* Values are abstracted to where they come from: an output's registry     *)
(* and its terminals hold an "enable", a "disable", a "command" value ...  *)
(* The board and the HIL library are external.                             *)
(***************************************************************************)
EXTENDS FiniteSets

CONSTANTS Cards,  \* the card types, given to QuanserDaq's constructor
          Inputs, \* the input modules of a card (AI, DI, encoder)
          Direct, \* the output modules the application also writes by
                  \* module or channel, not only by update_output()
          Loose   \* the modules it also enables and disables by themselves

Outputs == {"AO", "DO"}      \* DO is the module called DIO on Q2Usb and QPid
Modules == Inputs \cup Outputs

ASSUME Assumptions ==
       /\ Cards \subseteq {"q8_usb", "q2_usb", "qpid_e"}
       /\ Inputs \cap Outputs = {}
       /\ Direct \subseteq Outputs /\ Loose \subseteq Modules

VARIABLES
  card,       \* card_type_, fixed for a behaviour
  alive,      \* the DAQ object exists
  pc,         \* "opening" inside open(), else "idle"
  open,       \* DaqBase::open_
  enabled,    \* Device::enabled_ of the DAQ
  modEnabled, \* Device::enabled_ of its modules
  values,     \* values_ of the output modules
  watching,   \* Watchdog::watching_
  result,     \* the last life cycle call that returned, and what it returned
  hook,       \* history: how the last on_enable or on_disable ended, "apart"
              \* once a module's flag was changed by a call of its own
  armed,      \* history: the process died with the DAQ open, watchdog running
  held,       \* handle_ is a handle the board has open
  leaked,     \* the process has a handle open that handle_ no longer names
  terminal,   \* board: what the output terminals carry
  expireSet,  \* board: outputs given an expiration state since hil_open, the
              \* PWM outputs of a QPid, which no module writes, among them
  wd          \* board: its watchdog timer

object == <<open, enabled, modEnabled, values, watching, hook>>
board  == <<terminal, expireSet, wd>>
vars   == <<card, alive, armed, pc, object, result, held, leaked, board>>

Sources  == {"initial", "enable", "disable", "command"}
NoResult == [call |-> "none", ok |-> TRUE]
Results  == [call: {"none", "open", "close", "enable", "disable"}, ok: BOOLEAN]
Returns(call, ok) == result' = [call |-> call, ok |-> ok]

\* Every module, input or output, has a flag; outputs and terminals carry
\* values that some call put there.
TypeOK ==
  /\ card \in Cards
  /\ alive \in BOOLEAN /\ armed \in BOOLEAN /\ pc \in {"idle", "opening"}
  /\ open \in BOOLEAN /\ enabled \in BOOLEAN /\ watching \in BOOLEAN
  /\ modEnabled \in [Modules -> BOOLEAN]
  /\ values \in [Outputs -> Sources]
  /\ result \in Results
  /\ hook \in {"none", "ok", "failed", "apart"}
  /\ held \in BOOLEAN /\ leaked \in BOOLEAN
  /\ terminal \in [Outputs -> Sources \cup {"expire"}]
  /\ expireSet \subseteq Outputs \cup {"PWM"}
  /\ wd \in {"stopped", "running", "expired"}

-----------------------------------------------------------------------------
(* The board, as src/ uses it. *)

\* The watchdog after a stop() that succeeds iff s and a clear() that succeeds
\* iff c: stop ends a running timer, clear an expired state.
StopClear(w, s, c) ==
  IF (s /\ w = "running") \/ (c /\ w = "expired") THEN "stopped" ELSE w

\* The board takes no call on a closed handle, and no output while expired.
CanWrite == held /\ wd # "expired"

\* The sets of output modules among M whose write the board may refuse.
Refusals(M) == IF CanWrite THEN SUBSET M ELSE {M}

\* A watchdog that is not kicked in time drives the expiration states, on the
\* outputs that have been given one.
WatchdogExpires ==
  /\ wd = "running"
  /\ wd' = "expired"
  /\ terminal' = [m \in Outputs |-> IF m \in expireSet THEN "expire" ELSE terminal[m]]
  /\ UNCHANGED <<card, alive, armed, pc, object, result, held, leaked, expireSet>>

-----------------------------------------------------------------------------
(* The object. *)

NoFlags  == [m \in Modules |-> FALSE]
NoValues == [m \in Outputs |-> "initial"]

Init ==
  /\ card \in Cards
  /\ alive = FALSE /\ armed = FALSE /\ pc = "idle" /\ result = NoResult
  /\ open = FALSE /\ enabled = FALSE /\ modEnabled = NoFlags
  /\ values = NoValues /\ watching = FALSE /\ hook = "none"
  /\ held = FALSE /\ leaked = FALSE
  /\ terminal = [m \in Outputs |-> "initial"]
  /\ expireSet = {} /\ wd = "stopped"

\* The object is gone; the next one starts as in Init.
NoObject ==
  /\ alive' = FALSE /\ pc' = "idle" /\ result' = NoResult
  /\ open' = FALSE /\ enabled' = FALSE /\ modEnabled' = NoFlags
  /\ values' = NoValues /\ watching' = FALSE /\ hook' = "none"

Construct ==
  /\ ~alive
  /\ alive' = TRUE /\ armed' = FALSE
  /\ UNCHANGED <<card, pc, object, result, held, leaked, board>>

Idle == alive /\ pc = "idle"

-----------------------------------------------------------------------------
(* open() and close(). *)

\* DaqBase::open: nothing to do, or on to on_open.
Open ==
  /\ Idle
  /\ \/ /\ open
        /\ Returns("open", TRUE)
        /\ UNCHANGED pc
     \/ /\ ~open
        /\ pc' = "opening"
        /\ UNCHANGED result
  /\ UNCHANGED <<card, alive, armed, object, held, leaked, board>>

OpenReturns(ok) ==
  /\ pc' = "idle"
  /\ Returns("open", ok)
  /\ open' = ok

\* All five attempts at hil_open fail.
HilOpenFails ==
  /\ OpenReturns(FALSE)
  /\ UNCHANGED <<held, leaked, watching, expireSet, wd>>

\* hil_open stores a new handle over the one handle_ held.
Reopens == leaked' = (leaked \/ held)

\* on_close after hil_open: stop(), clear(), hil_close, each with its result.
Recloses(w, s, c, h) ==
  /\ wd' = StopClear(w, s, c)
  /\ watching' = (watching /\ ~s)
  /\ held' = ~h
  /\ expireSet' = {}

\* set_options is refused: the virtual on_close runs, open() fails.
OptionsRefused ==
  /\ Reopens
  /\ \E s, c, h \in BOOLEAN : Recloses(wd, s, c, h)
  /\ OpenReturns(FALSE)

\* A moving encoder fails the sanity check: on_close, its result unused, and
\* on_open again. (perform_sanity_check_ false: this never happens.)
SanityFails ==
  /\ card = "q8_usb"
  /\ Reopens
  /\ \E s1, c1, s2, c2, h \in BOOLEAN :
        Recloses(StopClear(wd, s1, c1), s1 \/ s2, c2, h)
  /\ UNCHANGED <<pc, result, open>>

\* on_open goes on once the board has taken the expire values of all outputs.
ExpireValuesTakenMutant(set) == "AO" \in set  \* DO's result unused
ExpireValuesIgnoredMutant(set) == TRUE        \* "ok if fails" for both
ExpireValuesTaken(set) == set = Outputs

\* on_open gets as far as the expire values: AO's are set, then DO's, up to
\* the one the board refuses. On a refusal on_open calls close(), which finds
\* open_ false and only returns. QPid::on_open sets those of the PWM outputs
\* too, and goes on when the board refuses them.
SetsExpireValues ==
  /\ Reopens
  /\ held' = TRUE
  /\ \E s, c \in BOOLEAN : /\ wd' = StopClear(wd, s, c)
                           /\ watching' = (watching /\ ~s)
  /\ \E set \in {{}, {"AO"}, Outputs}, pwm \in SUBSET {"PWM"} :
        /\ pwm # {} => card = "qpid_e" /\ set = Outputs
        /\ expireSet' = set \cup pwm
        /\ OpenReturns(ExpireValuesTaken(set))

OpenStep ==
  /\ pc = "opening"
  /\ HilOpenFails \/ OptionsRefused \/ SanityFails \/ SetsExpireValues
  /\ UNCHANGED <<card, alive, armed, enabled, modEnabled, values, hook, terminal>>

\* on_close stops and clears the watchdog, then closes the handle: a hil_close
\* that fails leaves the DAQ open with its watchdog stopped.
Close ==
  /\ Idle
  /\ \/ /\ ~open
        /\ Returns("close", TRUE)
        /\ UNCHANGED <<open, held, wd, watching>>
     \/ /\ open
        /\ \E s, c, h \in BOOLEAN :
              /\ wd' = StopClear(wd, s, c)
              /\ watching' = (watching /\ ~s)
              /\ held' = ~h /\ open' = ~h
              /\ Returns("close", h)
  /\ UNCHANGED <<card, alive, armed, pc, enabled, modEnabled, values, hook, leaked,
                 terminal, expireSet>>

-----------------------------------------------------------------------------
(* enable() and disable(): Device calls the hook when the flag must change, *)
(* and the flag changes when the hook returns true.                         *)

\* on_enable and on_disable succeed when every module's hook did.
HooksSucceed(refused) == refused = {}

\* What a module's hook writes: it sets the values, then updates.
HookWritesMutant(m, source) == values[m]  \* update before set_values
HookWrites(m, source) == source

\* The hook of each module of M not yet enabled (disabled): its values become
\* the enable (disable) values and are written, but for the refused ones.
RunHooks(M, flag, source, refused) ==
  LET run == {m \in M : modEnabled[m] # flag}
  IN /\ values' = [m \in Outputs |-> IF m \in run THEN source ELSE values[m]]
     /\ terminal' = [m \in Outputs |->
                       IF m \in run \ refused THEN HookWrites(m, source)
                       ELSE terminal[m]]
     /\ modEnabled' = [m \in Modules |->
                         IF m \in run \ refused THEN flag ELSE modEnabled[m]]

\* The output modules a hook would write.
Unlike(flag) == {m \in Outputs : modEnabled[m] # flag}

Enable ==
  /\ Idle
  /\ \/ /\ enabled
        /\ Returns("enable", TRUE)
        /\ UNCHANGED <<object, terminal>>
     \/ /\ ~enabled /\ ~open
        /\ hook' = "failed"
        /\ Returns("enable", FALSE)
        /\ UNCHANGED <<open, enabled, modEnabled, values, watching, terminal>>
     \/ /\ ~enabled /\ open
        /\ \E refused \in Refusals(Unlike(TRUE)) :
              /\ RunHooks(Modules, TRUE, "enable", refused)
              /\ enabled' = HooksSucceed(refused)
              /\ hook' = IF HooksSucceed(refused) THEN "ok" ELSE "failed"
              /\ Returns("enable", HooksSucceed(refused))
        /\ UNCHANGED <<open, watching>>
  /\ UNCHANGED <<card, alive, armed, pc, held, leaked, expireSet, wd>>

\* Q2Usb::on_disable also stops and clears the watchdog.
DisableWatchdog(s, c) ==
  IF card = "q2_usb"
  THEN /\ wd' = StopClear(wd, s, c)
       /\ watching' = (watching /\ ~s)
  ELSE UNCHANGED <<wd, watching>>

Disable ==
  /\ Idle
  /\ \/ /\ ~enabled
        /\ Returns("disable", TRUE)
        /\ UNCHANGED <<object, terminal, wd>>
     \/ /\ enabled /\ ~open
        /\ hook' = "failed"
        /\ Returns("disable", FALSE)
        /\ UNCHANGED <<open, enabled, modEnabled, values, watching, terminal, wd>>
     \/ /\ enabled /\ open
        /\ \E refused \in Refusals(Unlike(FALSE)) :
              /\ RunHooks(Modules, FALSE, "disable", refused)
              /\ enabled' = ~HooksSucceed(refused)
              /\ hook' = IF HooksSucceed(refused) THEN "ok" ELSE "failed"
              /\ Returns("disable", HooksSucceed(refused))
        /\ \E s, c \in BOOLEAN : DisableWatchdog(s, c)
        /\ UNCHANGED open
  /\ UNCHANGED <<card, alive, armed, pc, held, leaked, expireSet>>

OtherCall == Idle /\ result' = NoResult

\* Device::enable() and disable() of one module, which ask nothing of the DAQ.
ModuleCall(m, flag) ==
  /\ OtherCall
  /\ m \in Loose /\ modEnabled[m] # flag
  /\ \E refused \in Refusals(Unlike(flag) \cap {m}) :
        /\ RunHooks({m}, flag, IF flag THEN "enable" ELSE "disable", refused)
        /\ hook' = IF m \in refused THEN hook ELSE "apart"
  /\ UNCHANGED <<card, alive, armed, pc, open, enabled, watching, held, leaked,
                 expireSet, wd>>

-----------------------------------------------------------------------------
(* Outputs. *)

\* A command put in a module's registry; it waits there for a write.
SetValues(m) ==
  /\ OtherCall
  /\ values' = [values EXCEPT ![m] = "command"]
  /\ UNCHANGED <<card, alive, armed, pc, open, enabled, modEnabled, watching, hook, held,
                 leaked, board>>

Writes(M) == terminal' = [m \in Outputs |-> IF m \in M THEN values[m] ELSE terminal[m]]

\* What update_output asks first.
OutputGuardMutant == open  \* Q2Usb's guard on every card
OutputGuard == IF card = "q2_usb" THEN open ELSE enabled

\* update_output: Q8Usb and QPid write all modules in one hil_write; Q2Usb
\* writes AO, then DIO if AO was taken.
UpdateOutput ==
  /\ OtherCall
  /\ OutputGuard /\ CanWrite
  /\ \/ Writes(Outputs)
     \/ card = "q2_usb" /\ Writes({"AO"})
  /\ UNCHANGED <<card, alive, armed, pc, object, held, leaked, expireSet, wd>>

\* Module::update and Channel::update ask neither enabled_ nor open_.
UpdateModule(m) ==
  /\ OtherCall
  /\ m \in Direct /\ CanWrite
  /\ Writes({m})
  /\ UNCHANGED <<card, alive, armed, pc, object, held, leaked, expireSet, wd>>

\* identify() pulses a digital output and returns at the first level not read
\* back, leaving that level in the registry, and on the terminal if written.
Identify ==
  /\ OtherCall
  /\ open /\ "DO" \in Direct
  /\ values' = [values EXCEPT !["DO"] = "command"]
  /\ \/ CanWrite /\ terminal' = [terminal EXCEPT !["DO"] = "command"]
     \/ UNCHANGED terminal
  /\ UNCHANGED <<card, alive, armed, pc, open, enabled, modEnabled, watching, hook, held,
                 leaked, expireSet, wd>>

\* set_expire_values of an output module, taken by the board.
SetExpireValues(m) ==
  /\ OtherCall
  /\ held
  /\ expireSet' = expireSet \cup {m}
  /\ UNCHANGED <<card, alive, armed, pc, object, held, leaked, terminal, wd>>

-----------------------------------------------------------------------------
(* The watchdog object: none of its calls asks whether the DAQ is open. *)

WatchdogStart ==
  /\ OtherCall
  /\ held /\ wd = "stopped"
  /\ wd' = "running"
  /\ UNCHANGED <<card, alive, armed, pc, object, held, leaked, terminal, expireSet>>

\* kick() and is_expired() learn of an expiry.
WatchdogFoundExpired ==
  /\ OtherCall
  /\ held /\ wd = "expired"
  /\ watching' = FALSE
  /\ UNCHANGED <<card, alive, armed, pc, open, enabled, modEnabled, values, hook, held,
                 leaked, board>>

WatchdogStop ==
  /\ OtherCall
  /\ held
  /\ wd' = StopClear(wd, TRUE, FALSE)
  /\ watching' = FALSE
  /\ UNCHANGED <<card, alive, armed, pc, open, enabled, modEnabled, values, hook, held,
                 leaked, terminal, expireSet>>

WatchdogClear ==
  /\ OtherCall
  /\ held
  /\ wd' = StopClear(wd, FALSE, TRUE)
  /\ UNCHANGED <<card, alive, armed, pc, object, held, leaked, terminal, expireSet>>

-----------------------------------------------------------------------------
(* The end of the object, and of the process. *)

\* The destructor: disable() if enabled, then set_options and close() if open.
\* A handle still open is no longer anybody's.
Destroy ==
  /\ Idle
  /\ NoObject
  /\ IF open
     THEN /\ \E s1, c1, s2, c2, h \in BOOLEAN :
               /\ wd' = IF card = "q2_usb" /\ enabled
                        THEN StopClear(StopClear(wd, s1, c1), s2, c2)
                        ELSE StopClear(wd, s2, c2)
               /\ leaked' = (leaked \/ ~h)
          /\ \E refused \in Refusals(Unlike(FALSE)) :
               terminal' = [m \in Outputs |->
                              IF enabled /\ m \in Unlike(FALSE) \ refused
                              THEN "disable" ELSE terminal[m]]
     ELSE /\ leaked' = (leaked \/ held)
          /\ UNCHANGED <<terminal, wd>>
  /\ held' = FALSE
  /\ UNCHANGED <<card, armed, expireSet>>

\* The process dies: the driver closes its handles, the board keeps its state.
Crash ==
  /\ alive
  /\ NoObject
  /\ armed' = (open /\ wd = "running")
  /\ held' = FALSE /\ leaked' = FALSE
  /\ UNCHANGED <<card, board>>

-----------------------------------------------------------------------------

OutputCall ==
  \/ \E m \in Outputs : SetValues(m) \/ UpdateModule(m) \/ SetExpireValues(m)
  \/ UpdateOutput
  \/ Identify

WatchdogCall ==
  WatchdogStart \/ WatchdogFoundExpired \/ WatchdogStop \/ WatchdogClear

LifeCycleCall ==
  \/ Open \/ OpenStep \/ Close \/ Enable \/ Disable
  \/ \E m \in Modules, flag \in BOOLEAN : ModuleCall(m, flag)

Next ==
  \/ Construct \/ Destroy \/ Crash
  \/ LifeCycleCall \/ OutputCall \/ WatchdogCall
  \/ WatchdogExpires

Spec == Init /\ [][Next]_vars

\* With nobody left to kick it, a running watchdog runs out.
Unattended == ~alive /\ WatchdogExpires

FairSpec == Spec /\ WF_vars(Unattended)

-----------------------------------------------------------------------------
(* What holds whatever the board refuses. *)

\* An open DAQ has a handle the board answers to.
OpenHoldsHandle == open => held

\* An open DAQ has given the board an expiration state for every output, also
\* after refused opens, sanity retries, and an earlier process that died:
\* its watchdog never drives a state on_open did not choose.
OpenIsGuarded == open => Outputs \subseteq expireSet

\* Unless the last on_enable or on_disable failed (Q8Usb's have no rollback), or
\* a module was enabled or disabled by itself after it, the DAQ and all its
\* modules agree on being enabled.
HooksAgree == hook \notin {"failed", "apart"} => \A m \in Modules : modEnabled[m] = enabled

\* A module of a Q8Usb or QPid left enabled by a failed enable(), or enabled by
\* itself, carries its enable value, or the expiration state: nobody commands it
\* before the DAQ is enabled. (Q2Usb::update_output asks only is_open().)
EnabledAloneIsSafe ==
  card # "q2_usb" =>
    \A m \in Outputs \ Direct :
       modEnabled[m] /\ ~enabled => terminal[m] \in {"enable", "expire"}

\* enable() of a Q8Usb or QPid starts control from the enable values (or the
\* expiration states), even when earlier attempts enabled some of the modules.
StartsFromEnableValues ==
  [][card # "q2_usb" /\ ~enabled /\ enabled' =>
       \A m \in Outputs \ Direct : terminal'[m] \in {"enable", "expire"}]_vars

\* disable() ends control with the disable values on every output, provided
\* that it is not the retry of one that failed and that no module was enabled
\* or disabled by itself since enable(): disable() passes over those that are
\* disabled, and update_output() of the DAQ writes them all the same.
EndsWithDisableValues ==
  [][enabled /\ ~enabled' /\ alive' /\ hook \notin {"failed", "apart"} =>
       \A m \in Outputs : terminal'[m] = "disable"]_vars

\* The watchdog of an open DAQ whose process dies drives the expiration state
\* of every output, unless a new process takes the board over.
DeathIsCovered ==
  armed ~> (alive \/ \A m \in Outputs : terminal[m] = "expire")

-----------------------------------------------------------------------------
(* What the documentation says and the code does not do. *)

\* "Closes communication with DAQ": no handle is open when close() has
\* returned true (DaqBase.hpp).
ClosedReleasesHandle == result = [call |-> "close", ok |-> TRUE] => ~held

\* disable_values_ are "the final values set when the Module is disabled"
\* (Output.hpp): a DAQ that disable() ends has them on its terminals.
DisableSetsFinalValues ==
  [][enabled /\ ~enabled' /\ alive' =>
       \A m \in Outputs \ Direct : terminal'[m] = "disable"]_vars
=============================================================================
