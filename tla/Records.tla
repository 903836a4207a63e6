------------------------------ MODULE Records ------------------------------
(***************************************************************************)
(* Where data is kept and how it is laid out: the ring of the last values  *)
(* (RingBuffer), the rolling log (RollingLog), tables in files (Table) and *)
(* packets (PacketCodec).  They share no state; a behaviour is one of      *)
(* them, and one run explores all.                                         *)
(***************************************************************************)
EXTENDS RingBuffer, TLC

CONSTANTS
  MaxSize, LastFile, MaxRecords, MaxRuns, MaxDepth,          \* of the log
  Names, Figures, MaxRows, MaxCols, MaxEnds,                 \* of the table
  Writer, Reader, Payloads, Old, Junk, MaxWrites, MaxReads   \* of the packet

VARIABLES
  subject,  \* which of the four moves
  \* of the log
  files, handle, written, first, pc, from, depth, accepted, failures, runs,
  \* of the table
  name, col_names, rows, n_cols, n_rows, lost, build,
  \* of the packet
  data, readPos, isValid, sent, got

logVars    == <<files, handle, written, first, pc, from, depth, accepted, failures, runs>>
tableVars  == <<name, col_names, rows, n_cols, n_rows, lost, build>>
packetVars == <<data, readPos, isValid, sent, got>>

Log    == INSTANCE RollingLog WITH size <- written
Sheet  == INSTANCE Table WITH Values <- Figures, values <- rows
Packet == INSTANCE PacketCodec WITH Values <- Payloads

ASSUME LogAssumption    == Log!RollingLogAssumption
ASSUME SheetAssumption  == Sheet!TableAssumption
ASSUME PacketAssumption == Packet!PacketCodecAssumption

\* While others move, the ring is a small one and the table empty.
RecordsInit ==
  /\ subject \in {"ring", "log", "table", "packet"}
  /\ Init /\ Log!Init /\ Sheet!Init /\ Packet!Init
  /\ subject # "ring" => capacity = CHOOSE c \in Capacities : TRUE
  /\ subject # "table" =>
       /\ name = (CHOOSE n \in Names : TRUE) /\ col_names = <<>> /\ rows = <<>>
       /\ build = "posix"

RecordsNext ==
  \/ subject = "ring"   /\ Next /\ UNCHANGED <<subject, logVars, tableVars, packetVars>>
  \/ subject = "log"    /\ Log!Next /\ UNCHANGED <<subject, vars, tableVars, packetVars>>
  \/ subject = "table"  /\ Sheet!Next /\ UNCHANGED <<subject, vars, logVars, packetVars>>
  \/ subject = "packet" /\ Packet!Next /\ UNCHANGED <<subject, vars, logVars, tableVars>>

RecordsSpec ==
  RecordsInit /\ [][RecordsNext]_<<subject, vars, logVars, tableVars, packetVars>>
-----------------------------------------------------------------------------
(* Properties, of the modules they are stated in. *)

\* The files of a rolling log hold the newest records in their order (RollingLog).
NewestKept == Log!NewestKept

\* A table is a rectangle as its counters say, and reads back from a file as it was
\* written up to six digits: alone, with an \r more in its last name in a build for
\* POSIX, and among others in a build for Windows (Table).
TablesReadBack == Sheet!Rectangular /\ Sheet!ReadsBack

\* Who reads the types that were written finds them there, has the values that
\* were written, and ends where the packet ends (PacketCodec).
RoundTrip == [](Packet!RoundTrip /\ Packet!EndsTogether) /\ Packet!NextIsThere
=============================================================================
