----------------------------- MODULE SerialPort -----------------------------
(***************************************************************************)
(* SerialPort objects of one process on the POSIX build of rs232.c, which  *)
(* keeps the descriptor of each port in a table of its own.  Descriptors   *)
(* are numbers that the process shares with its files: the lowest free one *)
(* is the next.  The ports, their drivers and other processes are external:*)
(* a step of an open may fail, a write may take less, and another process  *)
(* may hold a port's lock.  Programs open what is open, close before the   *)
(* destructor does and send without having opened, too.                    *)
(*                                                                         *)
(* Speed, mode and control lines are left out, and so is receiving, which  *)
(* has the descriptor in common with sending.                              *)
(***************************************************************************)
EXTENDS Integers, FiniteSetsExt

CONSTANTS
  Objects,      \* SerialPort objects
  PortOf,       \* [Objects -> ports]: port_
  Sizes,        \* bytes sent at once
  MaxFd         \* bound: of descriptors

Ports == {PortOf[o] : o \in Objects}
Fds   == 0..MaxFd

SerialPortAssumption ==
  /\ DOMAIN PortOf = Objects /\ Sizes \subseteq Nat \ {0} /\ MaxFd \in Nat \ {0}
  /\ {"free", "stdin", "file"} \cap Ports = {}

VARIABLES
  alive,      \* objects that are constructed
  isOpen,     \* is_open_
  cport,      \* Cport of rs232.c
  descriptor, \* what each descriptor is open on
  locks,      \* descriptors that hold the lock of their port
  foreign,    \* ports that another process has locked
  parted,     \* history: objects that say they are open since a close() or an open() of
              \* theirs that failed has closed their port
  left,       \* history: descriptors of open()s that the port's status failed
  strayed,    \* history: an open object that is not parted wrote to or closed something
              \* else than its port
  wrecked     \* history: a parted object, or one not open, closed something else

object  == <<alive, isOpen>>
process == <<descriptor, locks>>
history == <<parted, left, strayed, wrecked>>
vars == <<object, cport, process, foreign, history>>

Init ==
  /\ alive = {} /\ isOpen = [o \in Objects |-> FALSE]
  /\ cport = [p \in Ports |-> 0]
  /\ descriptor = [d \in Fds |-> IF d = 0 THEN "stdin" ELSE "free"]
  /\ locks = {} /\ foreign = {}
  /\ parted = {} /\ left = {} /\ strayed = FALSE /\ wrecked = FALSE

\* The rest of the program, and other processes.
OpenFile ==
  /\ LET free == {d \in Fds : descriptor[d] = "free"}
     IN free # {} /\ descriptor' = [descriptor EXCEPT ![Min(free)] = "file"]
  /\ UNCHANGED <<object, cport, locks, foreign, history>>

CloseFile(d) ==
  /\ descriptor[d] = "file"
  /\ descriptor' = [descriptor EXCEPT ![d] = "free"]
  /\ UNCHANGED <<object, cport, locks, foreign, history>>

Locked(p) == p \in foreign \/ (\E d \in locks : descriptor[d] = p)

Foreign(p) ==
  /\ p \in foreign \/ ~Locked(p)
  /\ foreign' = IF p \in foreign THEN foreign \ {p} ELSE foreign \cup {p}
  /\ UNCHANGED <<object, cport, process, history>>
-----------------------------------------------------------------------------
Create(o) ==
  /\ o \notin alive
  /\ alive' = alive \cup {o}
  /\ isOpen' = [isOpen EXCEPT ![o] = FALSE]
  /\ UNCHANGED <<cport, process, foreign, history>>

\* RS232_CloseComport(): whatever the table's descriptor is by now.
Closed(p)  == IF cport[p] \in Fds THEN [descriptor EXCEPT ![cport[p]] = "free"] ELSE descriptor
IsOther(p) == cport[p] \in Fds /\ descriptor[cport[p]] \notin {p, "free"}

\* Objects that say they are open and whose port nobody has closed since.
Whole == {o \in alive : isOpen[o] /\ o \notin parted}

\* What a call of object o leaves of the history when it has come upon something
\* else than its port, and closed that.
Reached(o, other, closes) ==
  /\ strayed' = (strayed \/ (other /\ o \in Whole))
  /\ wrecked' = (wrecked \/ (other /\ closes /\ o \notin Whole))

KeptMutant(step) == step \in {"lock", "status"}  \* not closed if another has the lock

\* A failed open() leaves the new descriptor in the table, and closes it except when
\* the port cannot say its status; its lock is given back then, too.
Kept(step) == step = "status"

HeldByOther(p, held, files) == p \in foreign \/ (\E d \in held : files[d] = p)

\* open() closes first if it is open, then RS232_OpenComport(): a port that cannot
\* be opened, is locked, or fails at its attributes or its status.  is_open_ is set
\* when that succeeds, and stays as it was when it fails.
Open(o) ==
  LET p     == PortOf[o]
      files == IF isOpen[o] THEN Closed(p) ELSE descriptor
      held  == IF isOpen[o] THEN locks \ {cport[p]} ELSE locks
      rest  == IF isOpen[o] THEN left \ {cport[p]} ELSE left
      free  == {d \in Fds : files[d] = "free"}
      fails == parted' = (IF isOpen[o] THEN parted \cup {o} ELSE parted) /\ UNCHANGED isOpen
  IN /\ o \in alive /\ free # {}
     /\ Reached(o, isOpen[o] /\ IsOther(p), TRUE)
     /\ \/ /\ cport' = [cport EXCEPT ![p] = -1]
           /\ descriptor' = files /\ locks' = held /\ left' = rest
           /\ fails
        \/ \E step \in {"lock", "attributes", "status"} :
             /\ step = "lock" <=> HeldByOther(p, held, files)
             /\ cport' = [cport EXCEPT ![p] = Min(free)]
             /\ descriptor' = IF Kept(step) THEN [files EXCEPT ![Min(free)] = p] ELSE files
             /\ left' = IF step = "status" THEN rest \cup {Min(free)} ELSE rest
             /\ locks' = held
             /\ fails
        \/ /\ ~HeldByOther(p, held, files)
           /\ cport' = [cport EXCEPT ![p] = Min(free)]
           /\ descriptor' = [files EXCEPT ![Min(free)] = p]
           /\ locks' = held \cup {Min(free)} /\ left' = rest
           /\ isOpen' = [isOpen EXCEPT ![o] = TRUE]
           /\ parted' = parted \ {o}
     /\ UNCHANGED <<alive, foreign>>

CloseComport(o) ==
  /\ descriptor' = Closed(PortOf[o])
  /\ locks' = locks \ {cport[PortOf[o]]} /\ left' = left \ {cport[PortOf[o]]}
  /\ Reached(o, IsOther(PortOf[o]), TRUE)

\* close() does not ask whether it is open, and leaves is_open_ as it is.
Close(o) ==
  /\ o \in alive
  /\ CloseComport(o)
  /\ parted' = IF isOpen[o] THEN parted \cup {o} ELSE parted
  /\ UNCHANGED <<object, cport, foreign>>

Destroyed(o) == isOpen[o]

Destroy(o) ==
  /\ o \in alive
  /\ alive' = alive \ {o}
  /\ isOpen' = [isOpen EXCEPT ![o] = FALSE]
  /\ parted' = parted \ {o}
  /\ IF Destroyed(o) THEN CloseComport(o)
     ELSE UNCHANGED <<process, left, strayed, wrecked>>
  /\ UNCHANGED <<cport, foreign>>

\* What RS232_SendBuf() returns: a count, 0 if it would block, -1 for an error.
Writes(d, n) == IF d \in Fds /\ descriptor[d] # "free" THEN {-1} \cup 0..n ELSE {-1}

Returns(written) == written # 1

\* send_data() asks neither whether the port is open.
Send(o, n) ==
  /\ o \in alive
  /\ \E written \in Writes(cport[PortOf[o]], n) :
       Reached(o, written > 0 /\ IsOther(PortOf[o]), FALSE)
  /\ UNCHANGED <<object, cport, process, parted, left, foreign>>

Next ==
  \/ OpenFile \/ (\E d \in Fds : CloseFile(d))
  \/ \E p \in Ports : Foreign(p)
  \/ \E o \in Objects : \/ Create(o) \/ Open(o) \/ Close(o) \/ Destroy(o)
                        \/ \E n \in Sizes : Send(o, n)

Spec == Init /\ [][Next]_vars
-----------------------------------------------------------------------------
(* Properties *)

TypeOK ==
  /\ alive \subseteq Objects /\ isOpen \in [Objects -> BOOLEAN]
  /\ cport \in [Ports -> Fds \cup {-1}]
  /\ descriptor \in [Fds -> Ports \cup {"free", "stdin", "file"}]
  /\ locks \cup left \subseteq {d \in Fds : descriptor[d] \in Ports} /\ foreign \subseteq Ports
  /\ parted \subseteq {o \in alive : isOpen[o]} /\ wrecked \in BOOLEAN
  /\ strayed \in BOOLEAN

HoldsPort(o) == cport[PortOf[o]] \in locks /\ descriptor[cport[PortOf[o]]] = PortOf[o]

\* Until an object that is parted or not open closes what is not its own: an object that has opened its
\* port has it, open and locked, whatever other objects, processes and failed calls
\* did.
OpenHoldsPort == ~wrecked => \A o \in Whole : HoldsPort(o)

\* Until then, too: such an object writes to and closes nothing of the program that
\* has come by a descriptor the table still has.
OnlyItsOwn == ~wrecked => ~strayed

\* And nothing of a port stays open but for an object that has it, so that another
\* process can ("free the port so that others can use it", rs232.c:341), except
\* what an open() left that the port's status failed, which holds no lock.
NothingLeft ==
  ~wrecked =>
    \A d \in Fds : descriptor[d] \in Ports =>
      \/ d \in left /\ d \notin locks
      \/ \E o \in Whole : PortOf[o] = descriptor[d]

\* "Returns true if SerialPort is open" (SerialPort.hpp:56): not after a close() or
\* an open() that failed when it was open.
IsOpenIsTrue == \A o \in alive : isOpen[o] => HoldsPort(o)

\* "Closes communication on specified port" (SerialPort.hpp:38), "Sends data" (:41):
\* a destructor after either of these closes what has come by the number.
NothingWrecked == ~wrecked

\* No descriptor of a port stays open without an object: one does whose status the
\* port refused (rs232.c:245-262).
NothingLost == left = {}

\* "Sends data" (SerialPort.hpp:41): send_data() returns TRUE if all was sent, and
\* only then.  It returns FALSE if one byte was.
SentMeansSent ==
  \A o \in alive, n \in Sizes : \A written \in Writes(cport[PortOf[o]], n) :
    Returns(written) <=> written = n
=============================================================================
