------------------------------ MODULE Sharing -------------------------------
(***************************************************************************)
(* What processes and objects share through the system: a MelShare on      *)
(* POSIX (MelShare) and on Windows (MelShareWindows), and the descriptors  *)
(* of serial ports (SerialPort) and of sockets (SocketSelector).  They     *)
(* share no state with each other; a behaviour is one of them, and one run *)
(* explores all.                                                           *)
(***************************************************************************)
EXTENDS MelShare

CONSTANTS
  CSharp, Python, Openers, TextReaders,  \* of the processes on Windows
  SerialPorts, Sizes, MaxFd,             \* of the serial ports
  Sockets, MaxHandle, SetSize, Careful   \* of the sockets

VARIABLES
  subject,  \* which of the four moves
  \* of the shared memory on Windows
  place, mapped, guarded, holder, abandoned, kept, header, body, op, shown, newest,
  spoiled, trespassed,
  \* of the serial ports
  alive, isOpen, cport, descriptor, locks, foreign, parted, left, strayed, wrecked,
  \* of the selector
  handle, readable, allSockets, socketsReady, maxSocket, added, reported, received

windowsVars == <<place, mapped, guarded, holder, abandoned, kept, header, body, op, shown,
                 newest, spoiled, trespassed>>
portVars    == <<alive, isOpen, cport, descriptor, locks, foreign, parted, left, strayed, wrecked>>
socketVars  == <<handle, readable, allSockets, socketsReady, maxSocket, added, reported, received>>

\* No process is in Unity, which writes one byte of a message's size.
Windows == INSTANCE MelShareWindows WITH
  Unity <- {}, pc <- place, seen <- shown, last <- newest

\* Each port has one object.
Serial == INSTANCE SerialPort WITH
  Objects <- SerialPorts, PortOf <- [o \in SerialPorts |-> o]

Selector == INSTANCE SocketSelector

ASSUME WindowsAssumption  == Windows!WindowsAssumption
ASSUME PortsAssumption    == Serial!SerialPortAssumption
ASSUME SelectorAssumption == Selector!SelectorAssumption

SharingInit ==
  /\ subject \in {"posix", "windows", "ports", "selector"}
  /\ Init /\ Windows!Init /\ Serial!Init /\ Selector!Init

SharingNext ==
  \/ subject = "posix"    /\ Next /\ UNCHANGED <<subject, windowsVars, portVars, socketVars>>
  \/ subject = "windows"  /\ Windows!Next /\ UNCHANGED <<subject, vars, portVars, socketVars>>
  \/ subject = "ports"    /\ Serial!Next /\ UNCHANGED <<subject, vars, windowsVars, socketVars>>
  \/ subject = "selector" /\ Selector!Next /\ UNCHANGED <<subject, vars, windowsVars, portVars>>

SharingSpec ==
  SharingInit /\ [][SharingNext]_<<subject, vars, windowsVars, portVars, socketVars>>
-----------------------------------------------------------------------------
(* Properties, of the modules they are stated in. *)

\* On Windows, too, one process that got the mutex is in a call at a time, whatever
\* died or threw.  A read hands out the message last written whole, except after a
\* write that ended half way, until the next whole one, and once a process that did not
\* get the mutex has used the memory (MelShareWindows).
WindowsReadsLast == Windows!ReadsLast /\ Windows!MutualExclusion

\* Each port having one object, and until an object whose port was closed under it
\* closes another's descriptor: a serial port that was opened is held, a port without
\* such an object is free for others, a descriptor its status left apart, and no call
\* of such an object reaches anything else (SerialPort).
PortsKept == Serial!OpenHoldsPort /\ Serial!NothingLeft /\ Serial!OnlyItsOwn

\* A ready socket has data, silence is true, and the selector watches the sockets
\* that were added and not removed, whatever numbers the kernel uses again
\* (SocketSelector).
SelectionIsTrue ==
  [](Selector!ReadyMeansData /\ Selector!RefersToAdded) /\ Selector!SilenceIsTrue
=============================================================================
