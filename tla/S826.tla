-------------------------------- MODULE S826 --------------------------------
(***************************************************************************)
(* Sensoray's S826 boards: one S826 object for each board of a process,    *)
(* over a driver that the objects share and that is opened and closed for  *)
(* all boards at once.  What is written to a board stays there when the    *)
(* process ends, and its watchdog runs on.                                 *)
(*                                                                         *)
(* The driver and the boards are external: a call fails when the driver is *)
(* closed, and otherwise if its kind is one that fails on the board.  The  *)
(* process has one thread, ends or dies at any time, and is started again. *)
(* Device's flag is left out: on_enable() and on_disable() do nothing, and *)
(* no other call asks for it.                                              *)
(***************************************************************************)
EXTENDS Integers

CONSTANTS Boards,   \* board numbers, of boards that are plugged in
          Failing,  \* what may fail of each: "detect" when the driver is opened, "module"
                    \* when a module is, "write" of an output, "factor", "watchdog"
          QuadratureFactors

S826Assumption ==
  /\ Boards \subseteq Nat
  /\ Failing \in [Boards -> SUBSET {"detect", "module", "write", "factor", "watchdog"}]
  /\ QuadratureFactors \subseteq {"X1", "X2", "X4"}

VARIABLES
  process,   \* "runs", "ended" or "died"
  systemOpen,\* S826_SystemOpen() was called and S826_SystemClose() was not
  open,      \* DaqBase::open_
  updating,  \* boards in AI.update()
  adc,       \* the board converts
  ranged,    \* its outputs have their range
  counting,  \* its counters count
  mode,      \* their quadrature mode
  dac,       \* what the outputs were last told: "zero" or a "command"
  config,    \* its watchdog's expiry sets it to safe mode
  timer,     \* its watchdog: "off", "running" or "expired"
  safeMode,  \* its outputs are at their safe values
  told       \* history: what the program was told of its watchdog, since a stop() or
             \* clear(): that it was started ("start"), only kicked ("kick") or "nothing"

object == <<open, updating>>
inputs == <<adc, counting, mode>>
output == <<ranged, dac>>
guard  == <<config, timer, safeMode, told>>
vars   == <<process, systemOpen, object, inputs, output, guard>>

\* The board has these modes, the outputs are safe because the watchdog was told to,
\* and a process that is gone is in no call.
TypeOK ==
  /\ process \in {"runs", "ended", "died"} /\ systemOpen \in BOOLEAN
  /\ \A f \in {open, adc, ranged, counting, config, safeMode} : f \in [Boards -> BOOLEAN]
  /\ dac \in [Boards -> {"zero", "command"}]
  /\ updating \subseteq Boards /\ \A b, c \in updating : b = c
  /\ mode \in [Boards -> {"none", "X1", "X2", "X4"}]
  /\ timer \in [Boards -> {"off", "running", "expired"}]
  /\ told \in [Boards -> {"nothing", "kick", "start"}]
  /\ \A b \in Boards : safeMode[b] => config[b]
  /\ process # "runs" => updating = {} /\ ~systemOpen

All(v) == [b \in Boards |-> v]

Init ==
  /\ process = "runs" /\ systemOpen = FALSE
  /\ open = All(FALSE) /\ updating = {}
  /\ adc = All(FALSE) /\ counting = All(FALSE) /\ mode = All("none")
  /\ ranged = All(FALSE) /\ dac = All("zero")
  /\ config = All(FALSE) /\ timer = All("off") /\ safeMode = All(FALSE)
  /\ told = All("nothing")
-----------------------------------------------------------------------------
(* S826: DaqBase's and Device's calls. *)

Idle == process = "runs" /\ updating = {}

\* What a call of the driver may return
Answers(kind, b) == IF kind \in Failing[b] THEN BOOLEAN ELSE {TRUE}
Results(kind, b) == IF systemOpen /\ b \in Boards THEN Answers(kind, b) ELSE {FALSE}

\* on_open() of AI, AO and the encoder.  What they return is computed into
\* success, and TRUE is returned instead; whether a counter was started is not
\* looked at either
Modules(b) ==
  \E converts, ranges, modes, starts \in Answers("module", b) :
    /\ adc' = [adc EXCEPT ![b] = @ \/ converts]
    /\ ranged' = [ranged EXCEPT ![b] = @ \/ ranges]
    /\ mode' = [mode EXCEPT ![b] = IF modes THEN "X4" ELSE @]
    /\ counting' = [counting EXCEPT ![b] = @ \/ (modes /\ starts)]
    /\ UNCHANGED dac

\* A board that is not detected leaves the driver open, and the object not
Open(b) ==
  /\ Idle /\ ~open[b]
  /\ systemOpen' = TRUE
  /\ \/ TRUE \in Answers("detect", b) /\ Modules(b) /\ open' = [open EXCEPT ![b] = TRUE]
     \/ FALSE \in Answers("detect", b) /\ UNCHANGED <<inputs, output, open>>
  /\ UNCHANGED <<process, updating, guard>>

OpenAfter == FALSE

\* S826_SystemClose() "closes comms with all boards"
Close(b) ==
  /\ Idle /\ open[b]
  /\ systemOpen' = FALSE
  /\ open' = [open EXCEPT ![b] = OpenAfter]
  /\ UNCHANGED <<process, updating, inputs, output, guard>>
-----------------------------------------------------------------------------
(* Modules. *)

\* AO: set_value() and update(), enabled or not
Write(b, v) ==
  /\ Idle
  /\ \E ok \in Results("write", b) : dac' = [dac EXCEPT ![b] = IF ok THEN v ELSE @]
  /\ UNCHANGED <<process, systemOpen, object, inputs, ranged, guard>>

\* AI.update(), which asks again as long as the board is not ready: for ever, if its
\* conversions were never started
Update(b) ==
  /\ Idle
  /\ updating' = {b}
  /\ UNCHANGED <<process, systemOpen, open, inputs, output, guard>>

Updated(b) ==
  /\ process = "runs" /\ b \in updating
  /\ systemOpen => adc[b]
  /\ updating' = {}
  /\ UNCHANGED <<process, systemOpen, open, inputs, output, guard>>

\* S826Encoder::set_quadrature_factor() does not tell Encoder: factors_ stays X4
SetQuadratureFactor(b, factor) ==
  /\ Idle
  /\ \E ok \in Results("factor", b) : mode' = [mode EXCEPT ![b] = IF ok THEN factor ELSE @]
  /\ UNCHANGED <<process, systemOpen, object, adc, counting, output, guard>>
-----------------------------------------------------------------------------
(* The watchdog. *)

Configured(b) == 0            \* S826_WatchdogConfigWrite(0, ...)

StartedMutant(allowed, configured, enables) == allowed /\ configured
Started(allowed, configured, enables) == allowed /\ configured /\ enables  \* start()'s result

\* start(): allow the write, configure board 0, start the timer
Start(b) ==
  /\ Idle
  /\ \E allowed, enables \in Results("watchdog", b),
        configured \in Results("watchdog", Configured(b)) :
       /\ config' = [c \in Boards |-> \/ config[c]
                                      \/ c = Configured(b) /\ allowed /\ configured]
       /\ timer' = [timer EXCEPT ![b] = IF allowed /\ configured /\ enables THEN "running" ELSE @]
       /\ told' = [told EXCEPT ![b] = IF Started(allowed, configured, enables) THEN "start" ELSE @]
  /\ UNCHANGED <<process, systemOpen, object, inputs, output, safeMode>>

\* kick(): reloads a timer that runs
Kick(b) ==
  /\ Idle
  /\ \E ok \in Results("watchdog", b) :
       told' = [told EXCEPT ![b] = IF ok /\ @ = "nothing" THEN "kick" ELSE @]
  /\ UNCHANGED <<process, systemOpen, object, inputs, output, config, timer, safeMode>>

\* stop(): an expired watchdog is left expired, and the board in safe mode
Stop(b) ==
  /\ Idle
  /\ \E ok \in Results("watchdog", b) :
       timer' = [timer EXCEPT ![b] = IF ok /\ @ = "running" THEN "off" ELSE @]
  /\ told' = [told EXCEPT ![b] = "nothing"]
  /\ UNCHANGED <<process, systemOpen, object, inputs, output, config, safeMode>>

\* clear(): allow the write, leave safe mode
Clear(b) ==
  /\ Idle
  /\ \E ok \in Results("watchdog", b) :
       /\ safeMode' = [safeMode EXCEPT ![b] = @ /\ ~ok]
       /\ timer' = [timer EXCEPT ![b] = IF ok /\ @ = "expired" THEN "off" ELSE @]
  /\ told' = [told EXCEPT ![b] = "nothing"]
  /\ UNCHANGED <<process, systemOpen, object, inputs, output, config>>

\* The board's timer runs out
Expire(b) ==
  /\ timer[b] = "running"
  /\ timer' = [timer EXCEPT ![b] = "expired"]
  /\ safeMode' = [safeMode EXCEPT ![b] = @ \/ config[b]]
  /\ UNCHANGED <<process, systemOpen, object, inputs, output, config, told>>
-----------------------------------------------------------------------------
(* The process. *)

Gone(how) ==
  /\ process' = how /\ systemOpen' = FALSE /\ updating' = {}
  /\ UNCHANGED <<open, inputs, output, guard>>

\* The objects' destructors disable and close, which writes nothing, and
\* ~S826Watchdog does nothing
End == Idle /\ Gone("ended")

Die == process = "runs" /\ Gone("died")

Restart ==
  /\ process # "runs"
  /\ process' = "runs"
  /\ open' = All(FALSE)
  /\ UNCHANGED <<systemOpen, updating, inputs, output, guard>>

Next ==
  \/ \E b \in Boards :
       \/ Open(b) \/ Close(b)
       \/ \E v \in {"zero", "command"} : Write(b, v)
       \/ Update(b) \/ Updated(b)
       \/ \E factor \in QuadratureFactors : SetQuadratureFactor(b, factor)
       \/ Start(b) \/ Kick(b) \/ Stop(b) \/ Clear(b) \/ Expire(b)
  \/ End \/ Die \/ Restart

\* A loop goes on, and a timer that is not kicked runs out
Spec == /\ Init /\ [][Next]_vars
        /\ \A b \in Boards : WF_vars(Updated(b)) /\ WF_vars(Expire(b))
-----------------------------------------------------------------------------
(* Properties *)

Runs == process = "runs"

\* "This function should call the DAQ's API to start the watchdog timer"
\* (Watchdog.hpp:37): when start() of board 0's watchdog has returned TRUE, and
\* neither stop() nor clear() was called since, a process that dies leaves the
\* board's outputs at their safe values before long, whatever calls of the two
\* boards were refused.  Of no other board: see ExpiryIsSafe
DeadMeansSafe ==
  \A b \in Boards \cap {0} : told[b] = "start" /\ process = "died" ~> Runs \/ safeMode[b]

\* When the timer of a board runs out, its outputs are safe: "on the #timeout_
\* period" the watchdog protects the board it was started for (Watchdog.hpp:37-38)
ExpiryIsSafe == [][\A b \in Boards : Expire(b) => safeMode'[b]]_vars

\* "Stops the watchdog if watching" (S826Watchdog.hpp:37): a process that ends
\* leaves no watchdog running behind
EndStops == [][End => \A b \in Boards : told[b] = "start" => timer'[b] # "running"]_vars

\* "If the watchdog hasn't been started, it should implicitly do so"
\* (Watchdog.hpp:42-44): a kick that returned TRUE left a watchdog
KickWatches == \A b \in Boards : told[b] = "kick" => timer[b] # "off"

\* An object that is open has its board ready: "TRUE if open successful, FALSE
\* otherwise" (DaqBase.hpp:42)
OpenMeansReady == \A b \in Boards : Runs /\ open[b] => adc[b] /\ ranged[b] /\ counting[b]

\* "Returns whether the DAQ is open or closed" (DaqBase.hpp:60): calls of an
\* object that is open reach its board, whatever other objects were closed
OpenReaches == \A b \in Boards : Runs /\ open[b] => systemOpen

\* AI.update() of an object that is open returns
UpdateReturns == \A b \in Boards : b \in updating /\ open[b] ~> updating = {}

\* "The encoder quadrature factors" (Encoder.hpp:93), X4 here at all times, are
\* the board's: positions are computed from them
PositionsFit == \A b \in Boards : counting[b] => mode[b] = "X4"
=============================================================================
