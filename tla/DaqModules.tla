----------------------------- MODULE DaqModules -----------------------------
(***************************************************************************)
(* The modules of a DAQ: lists of channels with their registries           *)
(* (Channels), and the modules of a myRIO, which share pins (MyRio).  They *)
(* share no state; a behaviour is one of them.                             *)
(***************************************************************************)
EXTENDS Channels

CONSTANTS Subjects,                      \* which of the two are explored
          Connectors, Pins, Bits, Loose  \* of the myRIO

VARIABLES
  subject,  \* which of the two moves
  \* of the myRIO
  session, sysselect, dirs, open, running, modEnabled, i2c, encoder, dio, outs, vectored,
  failed, apart

rioVars == <<session, sysselect, dirs, open, running, modEnabled, i2c, encoder, dio, outs,
             vectored, failed, apart>>

Board == INSTANCE MyRio WITH enabled <- running, vector <- vectored

ASSUME SubjectsAssumption == Subjects \subseteq {"channels", "board"}
ASSUME BoardAssumption    == Board!MyRioAssumption

ModulesInit ==
  /\ subject \in Subjects
  /\ Init /\ Board!Init
  /\ subject # "channels" => kind = "io" /\ numbers = <<>>
  /\ subject # "board" => \A c \in Connectors : sysselect[c] = {} /\ dirs[c] = {}

ModulesNext ==
  \/ subject = "channels" /\ Next /\ UNCHANGED <<subject, rioVars>>
  \/ subject = "board" /\ Board!Next /\ UNCHANGED <<subject, vars>>

ModulesSpec == ModulesInit /\ [][ModulesNext]_<<subject, vars, rioVars>>
-----------------------------------------------------------------------------
(* Properties, of the module they are stated in. *)

\* What the modules of an open myRIO say is what its FPGA does (MyRio).
FpgaAgrees == Board!FpgaAgrees

\* No call turns a pin around while the encoder or the I2C drives it (MyRio).
OwnedPinsKeepDirection == Board!OwnedPinsKeepDirection

\* A disabled myRIO drives only what was enabled apart from it (MyRio).
OnlyApartDrives == Board!OnlyApartDrives
=============================================================================
