--------------------------- MODULE MelShareWindows ---------------------------
(***************************************************************************)
(* MelShare on Windows, where the C++ class meets its counterparts in C#   *)
(* (.NET and Unity) and Python: one section object and one mutex object of *)
(* the kernel, kept by the handles there are and known by name, so that    *)
(* nothing has to be unlinked.  The mutex is recursive and the kernel      *)
(* hands it on when its owner dies ("abandoned").                          *)
(*                                                                         *)
(* A process is one thread with at most one MelShare object of the name.   *)
(* What differs between the languages is who looks at which failure, and   *)
(* whether the mutex is released on the way out of an exception.           *)
(*                                                                         *)
(* Constructors, destructors and calls are one step per kernel object or   *)
(* copy to or from the memory.  Programs read what was written as data as  *)
(* data, and as text as text, and an oversized message exceeds the page    *)
(* that is mapped.  Unity's calls that refuse one before they lock are     *)
(* left out: they change nothing.                                          *)
(***************************************************************************)
EXTENDS FiniteSets, Naturals

CONSTANTS Processes,
          CSharp, Unity, Python, \* those not in C++
          Openers,    \* C++ processes that construct with OpenOnly
          TextReaders,\* those that call read_message
          Messages,
          Oversized,  \* the messages that do not fit
          None

WindowsAssumption ==
  /\ CSharp \cup Unity \cup Python \cup Openers \cup TextReaders \subseteq Processes
  /\ CSharp \cap Unity = {} /\ CSharp \cap Python = {} /\ Unity \cap Python = {}
  /\ Openers \cap (CSharp \cup Unity \cup Python) = {}
  /\ Oversized \subseteq Messages
  /\ None \notin Messages \cup Processes \cup {"mixed", "torn", "zeros", "data", "text"}
  /\ Messages \cap {"mixed", "torn", "zeros", "data", "text"} = {}

VARIABLES
  pc,         \* where a process is
  mapped,     \* processes with the section mapped
  guarded,    \* processes with a handle of the mutex
  holder,     \* the owner of the mutex
  abandoned,  \* its last owner died with it
  kept,       \* processes that left a call with the mutex
  header,     \* the size in the memory, as the message it is the size of
  body,       \* the bytes after it
  op,         \* the running call: the message it writes, "data" or "text"
  seen,       \* what the running read has read
  last,       \* history: the message last written whole
  spoiled,    \* history: a write ended half way since
  trespassed  \* history: a process without the mutex has used the memory

kernel  == <<mapped, guarded, holder, abandoned>>
memory  == <<header, body>>
calls   == <<op, seen>>
history == <<last, spoiled, trespassed>>
vars    == <<pc, kernel, kept, memory, calls, history>>

Making  == {"map", "guard"}
Calling == {"lock", "header", "body", "unlock", "caught"}
Reads   == {"data", "text"}
Headers == Messages \cup {None, "mixed"}

\* Processes that own the mutex or wait in a call have an object; sizes and
\* bodies are those of messages.
TypeOK ==
  /\ pc \in [Processes -> {"gone", "ready", "unmap"} \cup Making \cup Calling]
  /\ mapped \subseteq Processes /\ guarded \subseteq Processes /\ kept \subseteq Processes
  /\ holder \in Processes \cup {None} /\ abandoned \in BOOLEAN
  /\ header \in Headers /\ body \in Messages \cup {None, "torn"}
  /\ op \in [Processes -> Messages \cup Reads \cup {None}]
  /\ seen \in [Processes -> Headers \cup {"torn", "zeros"}]
  /\ last \in Messages \cup {None} /\ {spoiled, trespassed} \subseteq BOOLEAN

Init ==
  /\ pc = [p \in Processes |-> "gone"]
  /\ mapped = {} /\ guarded = {} /\ holder = None /\ abandoned = FALSE /\ kept = {}
  /\ header = None /\ body = None
  /\ op = [p \in Processes |-> None] /\ seen = [p \in Processes |-> None]
  /\ last = None /\ spoiled = FALSE /\ trespassed = FALSE

Goes(p, to) == pc' = [pc EXCEPT ![p] = to]
-----------------------------------------------------------------------------
(* The kernel's objects live as long as somebody has a handle of them. *)

\* p unmaps the section (if it had), in the middle of a write or not; zeros
\* for the next that creates it
Unmapped(p, writing) ==
  /\ mapped' = mapped \ {p}
  /\ IF mapped' = {}
     THEN /\ header' = None /\ body' = None /\ last' = None
          /\ spoiled' = FALSE /\ trespassed' = FALSE
     ELSE /\ spoiled' = (spoiled \/ writing)
          /\ UNCHANGED <<memory, last, trespassed>>

\* p closes its handle of the mutex.  It goes on owning it, if it did
Unguarded(p) ==
  /\ guarded' = guarded \ {p}
  /\ IF guarded' = {} THEN holder' = None /\ abandoned' = FALSE /\ kept' = {}
                      ELSE UNCHANGED <<holder, abandoned, kept>>

Abandoned(p) == holder = p  \* the kernel hands it on

\* p dies, or its thread ends
Dies(p) ==
  /\ Goes(p, "gone")
  /\ Unmapped(p, pc[p] = "body" /\ op[p] \in Messages)
  /\ guarded' = guarded \ {p}
  /\ kept' = IF guarded' = {} THEN {} ELSE kept \ {p}
  /\ holder' = IF guarded' = {} \/ Abandoned(p) THEN None ELSE holder
  /\ abandoned' = (guarded' # {} /\ (abandoned \/ Abandoned(p)))
  /\ op' = [op EXCEPT ![p] = None] /\ seen' = [seen EXCEPT ![p] = None]

Crash(p) == (pc[p] # "gone" \/ p \in kept \cup mapped) /\ Dies(p)
-----------------------------------------------------------------------------
(* Constructors map the section and make the mutex; Python's in the other  *)
(* order.  Only OpenOnly asks whether they exist.                          *)

\* CreateFileMapping and MapViewOfFile, MemoryMappedFile.CreateOrOpen, mmap
Map(p) ==
  /\ IF p \in Python THEN pc[p] = "map" /\ Goes(p, "ready")
                     ELSE pc[p] = "gone" /\ Goes(p, "guard")
  /\ mapped' = IF p \in Openers /\ mapped = {} THEN mapped ELSE mapped \cup {p}
  /\ UNCHANGED <<guarded, holder, abandoned, kept, memory, calls, history>>

\* CreateMutex, or OpenMutex, which leaves a NULL handle
Guard(p) ==
  /\ IF p \in Python THEN pc[p] = "gone" /\ Goes(p, "map")
                     ELSE pc[p] = "guard" /\ Goes(p, "ready")
  /\ guarded' = IF p \in Openers /\ guarded = {} THEN guarded ELSE guarded \cup {p}
  /\ UNCHANGED <<mapped, holder, abandoned, kept, memory, calls, history>>

\* Destructor or finalizer: CloseHandle of the mutex, then of the memory
Destroy(p) ==
  /\ pc[p] = "ready"
  /\ Unguarded(p)
  /\ Goes(p, "unmap")
  /\ UNCHANGED <<mapped, memory, calls, history>>

\* Unity's never unmaps its view
Unmap(p) ==
  /\ pc[p] = "unmap"
  /\ IF p \in Unity THEN UNCHANGED <<mapped, memory, history>> ELSE Unmapped(p, FALSE)
  /\ Goes(p, "gone")
  /\ UNCHANGED <<guarded, holder, abandoned, kept, calls>>
-----------------------------------------------------------------------------
(* The calls. *)

Call(p, o) ==
  /\ pc[p] = "ready"
  /\ o = "text" => p \in TextReaders
  /\ ~(p \in Unity /\ o \in Oversized)
  /\ Goes(p, "lock")
  /\ op' = [op EXCEPT ![p] = o] /\ seen' = [seen EXCEPT ![p] = None]
  /\ UNCHANGED <<kernel, kept, memory, history>>

\* An exception in the call of p: the mutex is not released.  C# catches it
\* and returns nothing, Unity and Python leave it to the program
Throws(p) ==
  /\ Goes(p, IF p \in CSharp THEN "caught" ELSE "ready")
  /\ kept' = kept \cup {p}

Free(p) == holder \in {None, p}  \* the mutex is recursive

\* WaitForSingleObject, WaitOne.  C++ without a mutex logs and goes on; a wait
\* that finds the mutex abandoned owns it, but in .NET throws
Lock(p) ==
  /\ pc[p] = "lock"
  /\ IF p \notin guarded
     THEN Goes(p, "header") /\ UNCHANGED <<holder, abandoned, kept>>
     ELSE /\ Free(p)
          /\ holder' = p /\ abandoned' = FALSE
          /\ IF abandoned /\ p \in CSharp \cup Unity
             THEN Throws(p)
             ELSE Goes(p, "header") /\ UNCHANGED kept
  /\ UNCHANGED <<mapped, guarded, memory, calls, history>>

TooLong(h) == h \in Oversized \cup {"mixed"}

SizeMutant(p, m) == IF header = None THEN m ELSE header  \* written once
\* The size after p has written that of m.  Unity copies one byte of the four
Size(p, m) == IF p \in Unity /\ TooLong(header) THEN "mixed" ELSE m

\* The first copy.  A C++ process whose open failed writes to NULL
Header(p) ==
  /\ pc[p] = "header"
  /\ IF p \notin mapped THEN Dies(p)
     ELSE /\ Goes(p, "body")
          /\ IF op[p] \in Messages
             THEN header' = Size(p, op[p]) /\ UNCHANGED seen
             ELSE seen' = [seen EXCEPT ![p] = header] /\ UNCHANGED header
          /\ trespassed' = (trespassed \/ p \notin guarded)
          /\ UNCHANGED <<kernel, kept, body, op, last, spoiled>>

\* The bytes after p has written m: C++ and Python write nothing of what does
\* not fit, C# as much as there is room for
Bytes(p, m) == IF m \notin Oversized THEN m ELSE IF p \in CSharp THEN "torn" ELSE body

\* The second copy of a write.  C++ refuses an oversized one and does not look
\* at that; C# and Python throw
WriteBody(p) ==
  /\ pc[p] = "body" /\ op[p] \in Messages
  /\ body' = Bytes(p, op[p])
  /\ last' = IF op[p] \in Oversized THEN last ELSE op[p]
  /\ spoiled' = (op[p] \in Oversized)
  /\ IF op[p] \in Oversized /\ p \in CSharp \cup Python
     THEN Throws(p)
     ELSE Goes(p, "unlock") /\ UNCHANGED kept
  /\ UNCHANGED <<kernel, header, calls, trespassed>>

\* What p makes of a size h and bytes b: C++ reads no more than there is
Shown(p, h, b) ==
  CASE h = None -> None
    [] TooLong(h) -> IF p \in Python THEN "torn" ELSE "zeros"
    [] h # None /\ ~TooLong(h) -> IF h = b THEN b ELSE "torn"

\* C#'s ReadMessage stores the terminator past the end of its array, every
\* time; C# and Python throw over a size that cannot be; but Python shows what
\* text there is
ReadThrows(p, o, h) ==
  \/ p \in CSharp /\ (o = "text" \/ TooLong(h))
  \/ p \in Python /\ o = "data" /\ TooLong(h)

\* The second copy of a read.  Unity copies from beyond the memory, and dies
ReadBody(p) ==
  /\ pc[p] = "body" /\ op[p] \in Reads
  /\ IF p \in Unity /\ TooLong(seen[p]) THEN Dies(p)
     ELSE /\ IF ReadThrows(p, op[p], seen[p])
             THEN Throws(p) /\ seen' = [seen EXCEPT ![p] = None]
             ELSE /\ Goes(p, "unlock") /\ UNCHANGED kept
                  /\ seen' = [seen EXCEPT ![p] = Shown(p, @, body)]
          /\ UNCHANGED <<kernel, memory, op, history>>

\* ReleaseMutex: one of as many times as it was taken
Unlock(p) ==
  /\ pc[p] = "unlock"
  /\ holder' = IF holder = p /\ p \notin kept THEN None ELSE holder
  /\ Goes(p, "ready")
  /\ op' = [op EXCEPT ![p] = None] /\ seen' = [seen EXCEPT ![p] = None]
  /\ UNCHANGED <<mapped, guarded, abandoned, kept, memory, history>>

\* The program gets what a C# call that caught an exception returns: nothing
Return(p) ==
  /\ pc[p] = "caught"
  /\ Goes(p, "ready")
  /\ op' = [op EXCEPT ![p] = None] /\ seen' = [seen EXCEPT ![p] = None]
  /\ UNCHANGED <<kernel, kept, memory, history>>
-----------------------------------------------------------------------------
Proceeds(p) == Header(p) \/ WriteBody(p) \/ ReadBody(p) \/ Unlock(p) \/ Return(p)

Next == \E p \in Processes :
  \/ Map(p) \/ Guard(p) \/ Destroy(p) \/ Unmap(p)
  \/ \E o \in Messages \cup Reads : Call(p, o)
  \/ Lock(p) \/ Proceeds(p)
  \/ Crash(p)

Spec == Init /\ [][Next]_vars

\* A call that has the mutex goes on, and the kernel passes the mutex over
\* nobody for ever
FairSpec == Spec /\ \A p \in Processes : WF_vars(Proceeds(p)) /\ SF_vars(Lock(p))
-----------------------------------------------------------------------------
(* Properties *)

Inside(p) == pc[p] \in {"header", "body", "unlock", "caught"}

\* "Blocks concurrent access to shared resources from multiple processes"
\* (NamedMutex.hpp:31): processes that got the mutex are not in a call at once,
\* whatever died, threw or closed its handle with it before
MutualExclusion ==
  \A p, q \in guarded : Inside(p) /\ Inside(q) => p = q

\* A read that comes to its end hands out the message last written whole,
\* unless a write ended half way since or somebody came without the mutex
ReadsLast ==
  \A p \in guarded : pc[p] = "unlock" /\ op[p] \in Reads /\ ~spoiled /\ ~trespassed
    => seen[p] = last

\* A process that waits for the mutex gets it, although others die with it,
\* unless one that lives left a call by an exception
NobodyIsShutOut ==
  \A p \in Processes : pc[p] = "lock" ~> (pc[p] # "lock" \/ kept # {})

\* "Reads a string message from the MelShare." (MelShare.cs:381): a text that
\* was written is read
TextIsRead ==
  [][\A p \in Processes :
       pc[p] = "body" /\ op[p] = "text" /\ ~spoiled /\ seen[p] # None => pc'[p] \in {"unlock", "gone"}]_vars
=============================================================================
