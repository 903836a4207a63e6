------------------------------- MODULE MyRio -------------------------------
(***************************************************************************)
(* The NI myRIO (MyRio, MyRioConnector, MyRioDIO, MyRioEncoder, MyRioI2C): *)
(* the FPGA session behind open, close and reset, and on each connector    *)
(* the pins that the encoder channels and I2C take from the digital I/O.   *)
(* The FPGA outlives the process: its registers keep what the last program *)
(* selected, and every open() reads them back.                             *)
(*                                                                         *)
(* An action is one call with every register access and every hook it      *)
(* runs.  The registers of an open session answer; without a session they  *)
(* are not written, and a read returns an uninitialized byte (MyRioUtil.cpp*)
(* only logs the error), so any value.  Analog outputs may be refused.     *)
(* What the destructor does is Disable, Close and Restart.                 *)
(*                                                                         *)
(* The modules AO and DIO of a connector are public, so a program may      *)
(* enable and disable them alone; AI and the encoder refuse nothing, and   *)
(* nobody asks whether they are enabled.  No update() asks that either:    *)
(* the values that a program writes between the calls are not followed.    *)
(***************************************************************************)
EXTENDS Integers, FiniteSets

CONSTANTS Connectors,  \* of the three the board has
          Pins,        \* the pins of a connector that are followed
          Bits,        \* the bits of SYSSELECT that are followed
          Loose        \* the connectors whose modules a program enables alone

MyRioAssumption ==
  /\ Connectors \subseteq {"mxpA", "mxpB", "mspC"}
  /\ Pins \subseteq 0..15
  /\ Bits \subseteq 0..7
  /\ Loose \subseteq Connectors

VARIABLES
  session,     \* myrio_session names a session the library has open
  sysselect,   \* FPGA: the set bits of SYSSELECT, per connector
  dirs,        \* FPGA: the pins whose direction register says output
  open,        \* DaqBase::open_ of the myRIO and of its connectors
  enabled,     \* Device::enabled_ of the same
  modEnabled,  \* the output modules of each connector that are enabled
  i2c,         \* Device::enabled_ of the connector's MyRioI2C
  encoder,     \* the channel numbers of the connector's MyRioEncoder
  dio,         \* the channel numbers of the connector's MyRioDIO
  outs,        \* those of them whose entry in directions_ is Out
  vector,      \* history: set_directions changed directions since the last sync
  failed,      \* history: a close() or reset() failed since the last open()
  apart        \* history: the <<connector, module>> enabled now that no enable() of
               \* the myRIO that succeeded has enabled or found enabled

fpga   == <<sysselect, dirs>>
device == <<open, enabled, modEnabled>>
pinout == <<i2c, encoder, dio, outs, vector>>
vars   == <<session, fpga, device, pinout, failed, apart>>

Rio     == "rio"
Daqs    == {Rio} \cup Connectors
Modules == {"AO", "DIO"}
Mxps    == Connectors \ {"mspC"}

\* The SYSSELECT bits and the pins a connector has.
BitsOf(c) == Bits \cap IF c = "mspC" THEN 0..3 ELSE {0, 1, 2, 3, 4, 5, 7}
PinsOf(c) == Pins \cap IF c = "mspC" THEN 0..7 ELSE 0..15

\* The module's view and the FPGA's are sets of pins, bits and channels.
TypeOK ==
  /\ session \in BOOLEAN /\ failed \in BOOLEAN
  /\ \A c \in Connectors : sysselect[c] \subseteq BitsOf(c) /\ dirs[c] \subseteq PinsOf(c)
  /\ open \in [Daqs -> BOOLEAN] /\ enabled \in [Daqs -> BOOLEAN]
  /\ modEnabled \in [Connectors -> SUBSET Modules]
  /\ i2c \in [Mxps -> BOOLEAN]
  /\ encoder \in [Connectors -> SUBSET {0, 1}]
  /\ \A c \in Connectors : outs[c] \subseteq dio[c] /\ dio[c] \subseteq PinsOf(c)
  /\ vector \subseteq Connectors
  /\ apart \subseteq Connectors \X Modules

-----------------------------------------------------------------------------
(* Which bit of SYSSELECT selects what, and which pins that takes. *)

I2CBit == 7
EncoderBit(c) == IF c = "mspC" THEN [ch \in {0, 1} |-> 2 * ch] ELSE [ch \in {0} |-> 5]
Allowed(c) == {ch \in DOMAIN EncoderBit(c) : EncoderBit(c)[ch] \in BitsOf(c)}  \* allowed_

Unless(b, bits, pins) == IF b \in bits THEN {} ELSE pins

\* The channels MyRioDIO::sync finds available.
AvailableMutant(c, bits) == PinsOf(c) \ Unless(5, {5} \ bits, {11, 12})  \* I2C's forgotten

Available(c, bits) == PinsOf(c) \cap
  IF c = "mspC"
    THEN {1, 5} \cup Unless(0, bits, {0, 2}) \cup Unless(1, bits, {3})
                \cup Unless(2, bits, {4, 6}) \cup Unless(3, bits, {7})
    ELSE (0..4) \cup {13}
           \cup Unless(0, bits, {5} \cup Unless(1, bits, {7})) \cup Unless(1, bits, {6})
           \cup Unless(2, bits, {8}) \cup Unless(3, bits, {9}) \cup Unless(4, bits, {10})
           \cup Unless(5, bits, {11, 12}) \cup Unless(7, bits, {14, 15})

-----------------------------------------------------------------------------
(* A process starts. *)

\* What MyRio's constructor gives the flags, the modules and the pins.
Off     == [d \in Daqs |-> FALSE]
NoneOn  == [c \in Connectors |-> {}]
AllPins == [c \in Connectors |-> PinsOf(c)]

\* The FPGA holds what programs before this one selected, with MEL or not.
Init ==
  /\ session = FALSE /\ failed = FALSE /\ apart = {}
  /\ open = Off /\ enabled = Off /\ modEnabled = NoneOn
  /\ i2c = [c \in Mxps |-> FALSE] /\ encoder = NoneOn
  /\ dio = AllPins /\ outs = NoneOn /\ vector = {}
  /\ sysselect \in [Connectors -> SUBSET Bits] /\ \A c \in Connectors : sysselect[c] \subseteq BitsOf(c)
  /\ dirs \in [Connectors -> {{}, Pins}] /\ \A c \in Connectors : dirs[c] \subseteq PinsOf(c)

\* The process ends, in its destructor or anywhere else; the driver closes its
\* session without a reset, and the next process constructs a MyRio.
Restart ==
  /\ session' = FALSE /\ failed' = FALSE /\ apart' = {}
  /\ open' = Off /\ enabled' = Off /\ modEnabled' = NoneOn
  /\ i2c' = [c \in Mxps |-> FALSE] /\ encoder' = NoneOn
  /\ dio' = AllPins /\ outs' = NoneOn /\ vector' = {}
  /\ UNCHANGED fpga

-----------------------------------------------------------------------------
(* The pins. *)

\* MyRioDIO::sync on the connectors of C, when SYSSELECT and the direction
\* registers are about to hold select and direct.
SyncDIO(C, select, direct) ==
  /\ \E bits \in IF session' THEN {select} ELSE [C -> SUBSET Bits],
        ways \in IF session' THEN {direct} ELSE [C -> {{}, Pins}] :
       LET new(c) == Available(c, bits[c])
       IN  /\ dio'  = [c \in Connectors |-> IF c \in C THEN new(c) ELSE dio[c]]
           /\ outs' = [c \in Connectors |-> IF c \in C THEN new(c) \cap ways[c] ELSE outs[c]]
  /\ vector' = vector \ C

\* Bit b of a connector's SYSSELECT is set or cleared, if there is a session.
Select(c, b, on) ==
  sysselect' = IF session
                 THEN [sysselect EXCEPT ![c] = IF on THEN @ \cup {b} ELSE @ \ {b}]
                 ELSE sysselect

\* MyRioEncoder::enable_channel: the channel, the bit, then the pins.
EnableChannel(c, ch) ==
  /\ ch \in Allowed(c)
  /\ encoder' = [encoder EXCEPT ![c] = @ \cup {ch}]
  /\ Select(c, EncoderBit(c)[ch], TRUE)
  /\ UNCHANGED <<session, dirs, device, i2c, failed, apart>>
  /\ SyncDIO({c}, sysselect', dirs)

DisableChannel(c, ch) ==
  /\ ch \in Allowed(c)
  /\ encoder' = [encoder EXCEPT ![c] = @ \ {ch}]
  /\ Select(c, EncoderBit(c)[ch], FALSE)
  /\ UNCHANGED <<session, dirs, device, i2c, failed, apart>>
  /\ SyncDIO({c}, sysselect', dirs)

\* Device::enable or disable of a MyRioI2C that is not so already.
SetI2C(c, on) ==
  /\ c \in Mxps /\ I2CBit \in Bits
  /\ i2c[c] # on
  /\ i2c' = [i2c EXCEPT ![c] = on]
  /\ Select(c, I2CBit, on)
  /\ UNCHANGED <<session, dirs, device, encoder, failed, apart>>
  /\ SyncDIO({c}, sysselect', dirs)

\* MyRioDIO::set_direction: the registry, then the register.
SetDirection(c, p, out) ==
  /\ p \in dio[c]
  /\ outs' = [outs EXCEPT ![c] = IF out THEN @ \cup {p} ELSE @ \ {p}]
  /\ dirs' = IF session
               THEN [dirs EXCEPT ![c] = IF out THEN @ \cup {p} ELSE @ \ {p}]
               ELSE dirs
  /\ UNCHANGED <<session, sysselect, device, i2c, encoder, dio, vector, failed, apart>>

\* InputOutput::set_directions, which MyRioDIO does not override.
SetDirections(c, P) ==
  /\ P \subseteq dio[c]
  /\ outs' = [outs EXCEPT ![c] = P]
  /\ vector' = vector \cup {d \in {c} : outs'[d] # outs[d]}
  /\ UNCHANGED <<session, fpga, device, i2c, encoder, dio, failed, apart>>

\* reset() of a connector: its I2C and its encoder channels are disabled.
ResetConnector(c) ==
  /\ encoder' = [encoder EXCEPT ![c] = {}]
  /\ i2c' = [d \in Mxps |-> d # c /\ i2c[d]]
  /\ sysselect' = IF session
       THEN [sysselect EXCEPT ![c] = @ \ ({EncoderBit(c)[ch] : ch \in encoder[c]}
                                         \cup {b \in {I2CBit} : c \in Mxps /\ i2c[c]})]
       ELSE sysselect
  /\ UNCHANGED <<session, dirs, device, failed, apart>>
  /\ SyncDIO({c}, sysselect', dirs)

-----------------------------------------------------------------------------
(* The session. *)

\* on_open of the connectors of C: I2C, encoder and pins read the registers.
SyncMutant(C, select, direct) ==  \* only the pins are read back
  /\ SyncDIO(C, select, direct)
  /\ UNCHANGED <<i2c, encoder>>

Sync(C, select, direct) ==
  /\ SyncDIO(C, select, direct)
  /\ i2c' = [c \in Mxps |-> IF c \in C THEN I2CBit \in select[c] ELSE i2c[c]]
  /\ encoder' = [c \in Connectors |->
       IF c \in C THEN {ch \in Allowed(c) : EncoderBit(c)[ch] \in select[c]} ELSE encoder[c]]

\* DaqBase::open and MyRio::on_open.  open_myrio can fail before it has a
\* session and after; the connectors are opened only when it succeeds.
Open ==
  /\ ~open[Rio]
  /\ \/ /\ session' = TRUE
        /\ open' = [d \in Daqs |-> TRUE]
        /\ failed' = FALSE
        /\ Sync({c \in Connectors : ~open[c]}, sysselect, dirs)
     \/ /\ session' \in {session, TRUE}
        /\ UNCHANGED <<open, pinout, failed>>
  /\ UNCHANGED <<fpga, enabled, modEnabled, apart>>

\* What the calls of close_myrio may leave: NiFpga_Close refused, the library
\* not unloaded, or all done; only an open session can be closed.
CloseFails(closed) ==
  /\ closed => session
  /\ session' = (session /\ ~closed)

CloseSucceeds == session /\ session' = FALSE

\* DaqBase::close and MyRio::on_close, which closes the connectors last.
Close ==
  /\ open[Rio]
  /\ \/ CloseSucceeds /\ open' = [d \in Daqs |-> FALSE] /\ UNCHANGED failed
     \/ /\ \E closed \in BOOLEAN : CloseFails(closed)
        /\ failed' = TRUE
        /\ UNCHANGED open
  /\ UNCHANGED <<fpga, enabled, modEnabled, pinout, apart>>

Defaults == sysselect' = NoneOn /\ dirs' = NoneOn

\* MyRio::reset: the session is closed and opened again with the FPGA reset,
\* and the connectors drop their encoder channels and their I2C.  It returns
\* TRUE whatever happens.  (MyRioConnector::reset erases from the vector it
\* walks; the entry it then reads is the last channel, so all are disabled.)
ResetSucceeds ==
  /\ open[Rio] /\ session
  /\ session' = TRUE
  /\ Defaults
  /\ i2c' = [c \in Mxps |-> FALSE]
  /\ encoder' = NoneOn
  /\ SyncDIO(Connectors, sysselect', dirs')
  /\ failed' = FALSE
  /\ UNCHANGED <<device, apart>>

ResetFails ==
  /\ open[Rio]
  /\ \/ CloseFails(FALSE) /\ UNCHANGED fpga
     \/ CloseFails(TRUE) /\ Defaults
     \/ session /\ session' \in BOOLEAN /\ Defaults  \* open_myrio fails
  /\ failed' = TRUE
  /\ UNCHANGED <<device, pinout, apart>>

-----------------------------------------------------------------------------
(* Device::enable and disable of the myRIO, of a connector and of a module. *)

Rank == [c \in {"mxpA", "mxpB", "mspC"} |->
           CASE c = "mxpA" -> 1 [] c = "mxpB" -> 2 [] c = "mspC" -> 3]
Before(c) == {d \in Connectors : Rank[d] < Rank[c]}

\* The output modules that are enabled, and those of them left apart.
Outputs == {output \in Connectors \X Modules : output[2] \in modEnabled[output[1]]}
Apart   == apart' = Outputs' \ (Outputs \ apart)

\* Whose enabled_ a call changes when connector c is the one that failed.
SwitchedMutant(todo, c) == (todo \cap Before(c)) \cup {Rio}  \* the hook's result is lost

Switched(todo, c) == todo \cap Before(c)

\* The hooks run on the connectors of C that are not `on` yet, in order, up to
\* the first whose analog output is refused: none of its outputs is switched.
\* Unless one fails, the devices of flags are then `on`.
Switch(C, flags, on) ==
  LET todo == {c \in C : enabled[c] # on}
      full == IF on THEN Modules ELSE {}
      Refusable(c) == ("AO" \in modEnabled[c]) # on
      Through(D) == modEnabled' = [c \in Connectors |-> IF c \in D THEN full ELSE modEnabled[c]]
  IN  /\ \/ /\ session \/ \A c \in todo : ~Refusable(c)
            /\ Through(todo)
            /\ enabled' = [d \in Daqs |-> IF d \in flags THEN on ELSE enabled[d]]
            /\ IF on /\ Rio \in flags THEN apart' = {} ELSE Apart
         \/ \E c \in todo :
            /\ Refusable(c)
            /\ session \/ \A d \in todo \cap Before(c) : ~Refusable(d)
            /\ Through(todo \cap Before(c))
            /\ enabled' = [d \in Daqs |-> IF d \in Switched(todo, c) THEN on ELSE enabled[d]]
            /\ Apart
      /\ UNCHANGED <<session, fpga, open, pinout, failed>>

Enable  == open[Rio] /\ ~enabled[Rio] /\ Switch(Connectors, Daqs, TRUE)
Disable == open[Rio] /\ enabled[Rio] /\ Switch(Connectors, Daqs, FALSE)

\* A connector's own enable and disable do not ask whether it is open.
SwitchConnector(c, on) == enabled[c] # on /\ Switch({c}, {c}, on)

\* Nor do a module's own, which ask no connector: only the analog output can be
\* refused, and is without a session.
SwitchModule(c, m, on) ==
  /\ (m \in modEnabled[c]) # on
  /\ m = "AO" => session
  /\ modEnabled' = [modEnabled EXCEPT ![c] = IF on THEN @ \cup {m} ELSE @ \ {m}]
  /\ Apart
  /\ UNCHANGED <<session, fpga, open, enabled, pinout, failed>>

-----------------------------------------------------------------------------
Calls ==
  \/ Open \/ Close \/ ResetSucceeds \/ ResetFails \/ Enable \/ Disable
  \/ \E c \in Connectors :
       \/ \E on \in BOOLEAN : SetI2C(c, on) \/ SwitchConnector(c, on)
       \/ \E ch \in Allowed(c) : EnableChannel(c, ch) \/ DisableChannel(c, ch)
       \/ \E p \in PinsOf(c), out \in BOOLEAN : SetDirection(c, p, out)
       \/ \E P \in {{}, dio[c]} : SetDirections(c, P)
       \/ ResetConnector(c)
  \/ \E c \in Loose, m \in Modules, on \in BOOLEAN : SwitchModule(c, m, on)

Next == Calls \/ Restart

Spec == Init /\ [][Next]_vars

-----------------------------------------------------------------------------
(* What must hold. *)

Synced == open[Rio] /\ session /\ ~failed

\* While the myRIO is open and no close() or reset() of it has failed, it has a
\* session, its connectors are open and what the modules say is what the FPGA
\* does, whatever programs before this one and calls before open() left: I2C
\* and the encoder channels are those SYSSELECT selects, the digital channels
\* are the pins that leaves, and (unless all directions were set at once) their
\* directions are the registers'.
FpgaAgrees ==
  open[Rio] /\ ~failed =>
    /\ session
    /\ \A c \in Connectors :
         /\ open[c]
         /\ c \in Mxps => (i2c[c] <=> I2CBit \in sysselect[c])
         /\ encoder[c] = {ch \in Allowed(c) : EncoderBit(c)[ch] \in sysselect[c]}
         /\ dio[c] = Available(c, sysselect[c])
         /\ c \notin vector => outs[c] = dirs[c] \cap dio[c]

\* The shared pins, as MyRioConnector.hpp lists them for what MEL selects.
Shared(c, bits) ==
  UNION {IF c = "mspC" THEN IF b = 0 THEN {0, 2} ELSE IF b = 2 THEN {4, 6} ELSE {}
         ELSE IF b = 5 THEN {11, 12} ELSE IF b = 7 THEN {14, 15} ELSE {} : b \in bits}

\* No call turns a pin around while the encoder or the I2C that SYSSELECT
\* selects drives it: an open myRIO offers no such pin as a channel.
OwnedPinsKeepDirection ==
  [][Synced => \A c \in Connectors :
       \A p \in Pins \cap Shared(c, sysselect[c]) \cap Shared(c, sysselect'[c]) :
         p \in dirs'[c] <=> p \in dirs[c]]_vars

\* While the myRIO says it is disabled, the only outputs left enabled are those
\* the program enabled one by one (a module, or a connector, by its own call),
\* or an enable() of the myRIO that failed half way: of what a successful
\* enable() covers nothing is left, whichever connectors and modules were
\* switched or refused in between and however often disable() was retried.
OnlyApartDrives == ~enabled[Rio] => Outputs \subseteq apart

\* Not so without the exception: after an enable() that failed at the second
\* connector the first drives, and disable() says there is nothing to do.
DisabledIsSilent == ~enabled[Rio] => Outputs = {}
=============================================================================
