----------------------------- MODULE RollingLog -----------------------------
(***************************************************************************)
(* The default logger's file (RollingFileWriter over File): MEL.log is     *)
(* file 0, MEL.1.log file 1, and so on up to LastFile.  A record counts as *)
(* one byte, so that MaxSize is a number of records.                       *)
(*                                                                         *)
(* One process at a time logs here, and may die between any two system     *)
(* calls.  Its threads take the writer's mutex for a whole write(), so     *)
(* their calls come one after the other; the mutex is recursive, and       *)
(* File::open() logs its own failure: write() is then called again from    *)
(* inside itself, still wanting to roll.                                   *)
(*                                                                         *)
(* Any system call may fail (a viewer holds a file, no descriptor is left) *)
(* and MoveFile onto a file that exists does.  That is the Windows build;  *)
(* rename() of the POSIX build replaces such a file, which it only meets   *)
(* after an unlink or a rename failed, and there the directory itself      *)
(* refuses all of them.                                                    *)
(***************************************************************************)
EXTENDS Integers, Sequences, Functions

CONSTANTS MaxSize,     \* max_file_size_
          LastFile,    \* last_file_number_
          MaxRecords,  \* bound on the records that reach a file
          MaxRuns,     \* bound on the processes
          MaxDepth     \* bound on nested calls: there the stack overflows

RollingLogAssumption ==
  /\ {MaxSize, LastFile} \subseteq Nat \ {0}
  /\ {MaxRecords, MaxRuns, MaxDepth} \subseteq Nat

VARIABLES
  files,     \* the records of each file, or Absent
  handle,    \* file_ is open; it is file 0
  size,      \* file_size_
  first,     \* first_write_
  pc,        \* what write() is about to do
  from,      \* the file to be renamed next
  depth,     \* the write() calls around the one that runs
  accepted,  \* history: the records that reached a file; records are numbered
  failures,  \* history: the times open failed in a roll
  runs       \* history: the processes so far

writer == <<handle, size, first, pc, from, depth>>
vars   == <<files, writer, accepted, failures, runs>>

Absent  == <<-1>>
Numbers == 0..LastFile
Exists(f)   == files[f] # Absent
Kept        == UNION {Range(files[f]) : f \in {g \in Numbers : Exists(g)}}

\* file_size_ never counts past the byte that makes the next record roll,
\* though the file may be longer: the count starts at 1 at every open.
TypeOK ==
  /\ files \in [Numbers -> Seq(1..accepted) \cup {Absent}]
  /\ handle \in BOOLEAN /\ first \in BOOLEAN
  /\ size \in 0..(MaxSize + 1)
  /\ pc \in {"idle", "rename", "open", "write"}
  /\ from \in Numbers /\ depth \in 0..MaxDepth
  /\ accepted \in 0..MaxRecords /\ failures \in Nat /\ runs \in 1..MaxRuns

\* No process has logged yet.
Init ==
  /\ files = [f \in Numbers |-> Absent]
  /\ handle = FALSE /\ size = 0 /\ first = TRUE
  /\ pc = "idle" /\ from = 0 /\ depth = 0
  /\ accepted = 0 /\ failures = 0 /\ runs = 1

-----------------------------------------------------------------------------
(* write() and its steps. *)

Rolls == LastFile > 0 /\ size > MaxSize

\* What write() does first, called by a thread or by File::open's LOG: a roll
\* closes the file and removes the last one.
Begin ==
  \/ first /\ pc' = "open" /\ first' = FALSE /\ UNCHANGED <<files, handle, size, from>>
  \/ /\ ~first /\ Rolls
     /\ handle' = FALSE
     /\ files' \in {files, [files EXCEPT ![LastFile] = Absent]}
     /\ pc' = "rename" /\ from' = LastFile - 1
     /\ UNCHANGED <<size, first>>
  \/ ~first /\ ~Rolls /\ pc' = "write" /\ UNCHANGED <<files, handle, size, first, from>>

Write == pc = "idle" /\ Begin /\ UNCHANGED <<depth, accepted, failures, runs>>

RenamedMutant(f) == [files EXCEPT ![f] = Absent, ![f + 1] = files[f]]  \* onto any file

Renamed(f) == IF Exists(f + 1) THEN files
              ELSE [files EXCEPT ![f] = Absent, ![f + 1] = files[f]]

\* One round of the loop in roll_log_files, from the highest number down.
Rename ==
  /\ pc = "rename"
  /\ files' \in {files} \cup (IF Exists(from) THEN {Renamed(from)} ELSE {})
  /\ IF from = 0 THEN pc' = "open" /\ UNCHANGED from
                 ELSE from' = from - 1 /\ UNCHANGED pc
  /\ UNCHANGED <<handle, size, first, depth, accepted, failures, runs>>

Opened == IF Exists(0) THEN files[0] ELSE <<>>

\* File::open appends to the file or makes it; its result, TRUE, is file_size_.
OpenSucceeds ==
  /\ pc = "open"
  /\ files' = [files EXCEPT ![0] = Opened]
  /\ handle' = TRUE /\ size' = 1 /\ pc' = "write"
  /\ UNCHANGED <<first, from, depth, accepted, failures, runs>>

\* The first failure of a process comes before MEL_LOG is set and is not logged.
FirstOpenFails ==
  /\ pc = "open" /\ size = 0
  /\ size' = 0 /\ pc' = "write"
  /\ UNCHANGED <<files, handle, first, from, depth, accepted, failures, runs>>

\* Later ones are: write() within write(), with file_size_ as it was.
OpenFails ==
  /\ pc = "open" /\ size # 0
  /\ depth < MaxDepth /\ depth' = depth + 1
  /\ failures' = failures + 1
  /\ Begin
  /\ UNCHANGED <<accepted, runs>>

\* The record is written if a file is open; then the write() around goes on,
\* whose open() has returned FALSE.
WriteRecord ==
  /\ pc = "write"
  /\ \/ /\ handle /\ accepted < MaxRecords
        /\ accepted' = accepted + 1
        /\ files' = [files EXCEPT ![0] = Append(@, accepted')]
        /\ size' = IF depth = 0 THEN size + 1 ELSE 0
     \/ /\ UNCHANGED <<files, accepted>>
        /\ size' = IF depth = 0 THEN size ELSE 0
  /\ depth' = IF depth = 0 THEN 0 ELSE depth - 1
  /\ pc' = IF depth = 0 THEN "idle" ELSE "write"
  /\ UNCHANGED <<handle, first, from, failures, runs>>

\* The process ends, or dies anywhere; the next one to log constructs a writer.
Restart ==
  /\ runs < MaxRuns /\ runs' = runs + 1
  /\ handle' = FALSE /\ size' = 0 /\ first' = TRUE
  /\ pc' = "idle" /\ from' = 0 /\ depth' = 0
  /\ UNCHANGED <<files, accepted, failures>>

Next == Write \/ Rename \/ OpenSucceeds \/ FirstOpenFails \/ OpenFails \/ WriteRecord \/ Restart

Spec == Init /\ [][Next]_vars

-----------------------------------------------------------------------------
(* What must hold. *)

\* A file holds its records in the order they were logged, and those of the
\* files with lower numbers are newer.
InOrder ==
  /\ \A f \in Numbers : Exists(f) =>
       \A i, j \in DOMAIN files[f] : i < j => files[f][i] < files[f][j]
  /\ \A f, g \in Numbers : Exists(f) /\ Exists(g) /\ f < g =>
       \A i \in DOMAIN files[f], j \in DOMAIN files[g] : files[g][j] < files[f][i]

\* Read from the last file to the first, the files hold the newest records in
\* the order they were logged, with none missing between them and never less
\* than one full file of them: through deaths in the middle of a roll, renames
\* that fail and records lost to a failed write.  As many failed open() calls
\* as there are old files are too many: each one rolls once more.
NewestKept ==
  failures < LastFile =>
    /\ InOrder
    /\ \E gone \in 0..accepted :
         /\ Kept = (gone + 1)..accepted
         /\ gone > 0 => accepted - gone >= MaxSize
=============================================================================
