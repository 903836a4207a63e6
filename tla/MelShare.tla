------------------------------ MODULE MelShare ------------------------------
(***************************************************************************)
(* MelShare on POSIX: processes that pass messages through a SharedMemory, *)
(* guarded by a NamedMutex which is itself a pthread mutex in shared       *)
(* memory.                                                                 *)
(*                                                                         *)
(* A process has at most one MelShare object of the name.  Constructor,    *)
(* destructor and calls are one step per system call or access to shared   *)
(* memory, since other processes run in between.  Names and objects are    *)
(* separate: shm_unlink removes the name, and the processes that map the   *)
(* object keep it, until the last unmaps it and the kernel frees it.  The  *)
(* kernel and pthreads (glibc) are external.                               *)
(*                                                                         *)
(* A message stands for its size and its bytes at once: the header written *)
(* for it says which message the body should be.                           *)
(***************************************************************************)
EXTENDS Naturals

CONSTANTS Processes,
          Creators,    \* those that construct with OpenOrCreate
          Messages,
          Oversized,   \* the messages that do not fit in max_bytes_
          MaxObjects,  \* bound: shared memory objects made under a name
          Staged,      \* the program stages construction and destruction
          None

ASSUME Assumptions ==
       /\ Creators \subseteq Processes /\ Oversized \subseteq Messages
       /\ MaxObjects \in Nat /\ Staged \in BOOLEAN
       /\ None \notin Messages \cup Processes \cup {"zeros", "torn"}

VARIABLES
  memName, mtxName, \* the objects the two names lead to, 0 for none
  memMade, mtxMade, \* number of objects made
  memory,           \* the objects of SharedMemory: size set, header, body
  mutex,            \* the objects of NamedMutex: size set, state, holder
  pc,               \* where a process is
  mem, mtx,         \* the objects a process maps, 0 for none
  owner,            \* is_owner_
  writes,           \* the message of the running write, None in a read
  seen,             \* what the running read has read
  last              \* history: the message last written whole, per memory

names   == <<memName, mtxName, memMade, mtxMade>>
maps    == <<mem, mtx, owner>>
calls   == <<writes, seen>>
vars    == <<names, memory, mutex, pc, maps, calls, last>>

Objects == 1..MaxObjects
Calling == {"lock", "head", "body", "unlock"}
Making  == {"mem_open", "mem_create", "mem_size",
            "mtx_open", "mtx_create", "mtx_size", "mtx_init"}
Leaving == {"mtx_destroy", "mtx_unlink", "mem_unlink"}
Results == Messages \cup {None, "zeros", "torn"}

\* Names and maps lead to objects that were made; sizes and bodies in shared
\* memory are those of messages, whole.
TypeOK ==
  /\ memMade \in 0..MaxObjects /\ memName \in 0..memMade
  /\ mtxMade \in 0..MaxObjects /\ mtxName \in 0..mtxMade
  /\ memory \in [Objects -> [sized: BOOLEAN, header: Messages \cup {None},
                             body: Messages \cup {None}]]
  /\ mutex \in [Objects -> [sized: BOOLEAN, holder: Processes \cup {None},
                            state: {"zero", "ready", "destroyed"}]]
  /\ pc \in [Processes -> {"gone", "ready"} \cup Making \cup Calling \cup Leaving]
  /\ mem \in [Processes -> 0..memMade] /\ mtx \in [Processes -> 0..mtxMade]
  /\ owner \in [Processes -> BOOLEAN]
  /\ writes \in [Processes -> Messages \cup {None}]
  /\ seen \in [Processes -> Results]
  /\ last \in [Objects -> Messages \cup {None}]

Each(v) == [p \in Processes |-> v]

NewMemory == [sized |-> FALSE, header |-> None, body |-> None]
NewMutex  == [sized |-> FALSE, holder |-> None, state |-> "zero"]

Init ==
  /\ memName = 0 /\ mtxName = 0 /\ memMade = 0 /\ mtxMade = 0
  /\ memory = [o \in Objects |-> NewMemory]
  /\ mutex = [o \in Objects |-> NewMutex]
  /\ pc = Each("gone") /\ mem = Each(0) /\ mtx = Each(0) /\ owner = Each(FALSE)
  /\ writes = Each(None) /\ seen = Each(None)
  /\ last = [o \in Objects |-> None]

Goes(p, to) == pc' = [pc EXCEPT ![p] = to]

\* What is left of objects when they have that name and those who map them.
Live(objects, name, map, new) ==
  [o \in Objects |-> IF o = name \/ (\E p \in Processes : map[p] = o) THEN objects[o] ELSE new]

\* The process dies: what it mapped is unmapped, a mutex it holds stays held
Dies(p) ==
  /\ Goes(p, "gone")
  /\ mem' = [mem EXCEPT ![p] = 0] /\ mtx' = [mtx EXCEPT ![p] = 0]
  /\ memory' = Live(memory, memName, mem', NewMemory) /\ last' = Live(last, memName, mem', None)
  /\ mutex' = Live(mutex, mtxName, mtx', NewMutex)
  /\ owner' = [owner EXCEPT ![p] = FALSE]
  /\ writes' = [writes EXCEPT ![p] = None] /\ seen' = [seen EXCEPT ![p] = None]
  /\ UNCHANGED names

\* A staged program lets constructors and destructors run alone and to their
\* end, and the process that owns the mutex leaves after those that use it.
Alone(p) == Staged => \A q \in Processes \ {p} : pc[q] \notin Making \cup Leaving

\* A process may die anywhere; in a staged program not in the end of a destructor,
\* where the mutex is destroyed, or has no name, and the memory still has its.
Crash(p) ==
  /\ pc[p] # "gone"
  /\ Staged => pc[p] # "mtx_unlink" /\ ~(pc[p] = "mem_unlink" /\ mtxName = 0)
  /\ Dies(p)
-----------------------------------------------------------------------------
(* MelShare::MelShare: SharedMemory, then NamedMutex *)

Construct(p) ==
  /\ pc[p] = "gone" /\ Alone(p)
  /\ Goes(p, "mem_open")
  /\ UNCHANGED <<names, memory, mutex, maps, calls, last>>

\* shm_open(O_RDWR): the object of that name, or none, and OpenOnly gives up
MemOpen(p) ==
  /\ pc[p] = "mem_open"
  /\ mem' = [mem EXCEPT ![p] = memName]
  /\ Goes(p, IF memName = 0 /\ p \in Creators THEN "mem_create" ELSE "mtx_open")
  /\ UNCHANGED <<names, memory, mutex, mtx, owner, calls, last>>

\* shm_open(O_CREAT | O_RDWR), without O_EXCL
MemCreate(p) ==
  /\ pc[p] = "mem_create"
  /\ IF memName # 0 THEN UNCHANGED <<memName, memMade>>
     ELSE memMade < MaxObjects /\ memMade' = memMade + 1 /\ memName' = memMade + 1
  /\ mem' = [mem EXCEPT ![p] = memName']
  /\ Goes(p, "mem_size")
  /\ UNCHANGED <<mtxName, mtxMade, memory, mutex, mtx, owner, calls, last>>

\* ftruncate
MemSize(p) ==
  /\ pc[p] = "mem_size"
  /\ memory' = [memory EXCEPT ![mem[p]].sized = TRUE]
  /\ Goes(p, "mtx_open")
  /\ UNCHANGED <<names, mutex, maps, calls, last>>

MtxOpen(p) ==
  /\ pc[p] = "mtx_open"
  /\ mtx' = [mtx EXCEPT ![p] = mtxName]
  /\ Goes(p, IF mtxName = 0 /\ p \in Creators THEN "mtx_create" ELSE "ready")
  /\ UNCHANGED <<names, memory, mutex, mem, owner, calls, last>>

\* The open said ENOENT: the process takes itself for the owner, whether or
\* not another has made the object since
MtxCreate(p) ==
  /\ pc[p] = "mtx_create"
  /\ IF mtxName # 0 THEN UNCHANGED <<mtxName, mtxMade>>
     ELSE mtxMade < MaxObjects /\ mtxMade' = mtxMade + 1 /\ mtxName' = mtxMade + 1
  /\ mtx' = [mtx EXCEPT ![p] = mtxName']
  /\ owner' = [owner EXCEPT ![p] = TRUE]
  /\ Goes(p, "mtx_size")
  /\ UNCHANGED <<memName, memMade, memory, mutex, mem, calls, last>>

MtxSize(p) ==
  /\ pc[p] = "mtx_size"
  /\ mutex' = [mutex EXCEPT ![mtx[p]].sized = TRUE]
  /\ Goes(p, "mtx_init")
  /\ UNCHANGED <<names, memory, maps, calls, last>>

\* pthread_mutex_init: the mutex is free, whoever held it
MtxInit(p) ==
  /\ pc[p] = "mtx_init"
  /\ mutex' = [mutex EXCEPT ![mtx[p]].state = "ready", ![mtx[p]].holder = None]
  /\ Goes(p, "ready")
  /\ UNCHANGED <<names, memory, maps, calls, last>>
-----------------------------------------------------------------------------
(* write and read, write_data and read_data, write_message and read_message *)

\* m is None for a read
Call(p, m) ==
  /\ pc[p] = "ready"
  /\ Goes(p, "lock")
  /\ writes' = [writes EXCEPT ![p] = m] /\ seen' = [seen EXCEPT ![p] = None]
  /\ UNCHANGED <<names, memory, mutex, maps, last>>

HolderMutant(p) == mutex[mtx[p]].holder   \* a lock that takes nothing
\* Who holds the mutex after p has locked it: pthread_mutex_lock returns EINVAL
\* on a destroyed mutex, and lock() does not look at what it returns
Holder(p) == IF mutex[mtx[p]].state = "destroyed" THEN mutex[mtx[p]].holder ELSE p

\* A zeroed mutex is a valid one to glibc.  No mutex, or one without a size,
\* kills the process
Lock(p) ==
  /\ pc[p] = "lock"
  /\ IF mtx[p] = 0 THEN Dies(p)
     ELSE IF ~mutex[mtx[p]].sized THEN Dies(p)
     ELSE /\ mutex[mtx[p]].state = "destroyed" \/ mutex[mtx[p]].holder = None
          /\ mutex' = [mutex EXCEPT ![mtx[p]].holder = Holder(p)]
          /\ Goes(p, "head")
          /\ UNCHANGED <<names, memory, maps, calls, last>>

\* The first copy to or from shared memory, of the size
Header(p) ==
  /\ pc[p] = "head"
  /\ IF mem[p] = 0 THEN Dies(p)
     ELSE IF ~memory[mem[p]].sized THEN Dies(p)
     ELSE /\ Goes(p, "body")
          /\ IF writes[p] # None
             THEN /\ memory' = [memory EXCEPT ![mem[p]].header = writes[p]]
                  /\ UNCHANGED seen
             ELSE /\ seen' = [seen EXCEPT ![p] = memory[mem[p]].header]
                  /\ UNCHANGED memory
          /\ UNCHANGED <<names, mutex, maps, writes, last>>

\* The body left by a write of m over b: SharedMemory::write refuses what does
\* not fit, and nobody looks at what it returns
BodyAfterMutant(m, b) == b                                        \* no second copy
BodyAfter(m, b) == IF m \in Oversized THEN b ELSE m

\* What a read hands out of the body b after the header h: nothing for size 0,
\* a buffer of zeros when SharedMemory::read refuses the size
Shown(h, b) ==
  IF h \in Oversized THEN "zeros" ELSE IF h \in {None, b} THEN h ELSE "torn"

\* The second copy, of the bytes
Body(p) ==
  LET o == mem[p]
  IN /\ pc[p] = "body"
     /\ Goes(p, "unlock")
     /\ IF writes[p] # None
        THEN /\ memory' = [memory EXCEPT ![o].body = BodyAfter(writes[p], @)]
             /\ last' = [last EXCEPT ![o] = writes[p]]
             /\ UNCHANGED seen
        ELSE /\ seen' = [seen EXCEPT ![p] = Shown(@, memory[o].body)]
             /\ UNCHANGED <<memory, last>>
     /\ UNCHANGED <<names, mutex, maps, writes>>

\* pthread_mutex_unlock frees a mutex whoever holds it, but a destroyed one
Unlock(p) ==
  /\ pc[p] = "unlock"
  /\ mutex' = IF mutex[mtx[p]].state = "destroyed" THEN mutex
              ELSE [mutex EXCEPT ![mtx[p]].holder = None]
  /\ writes' = [writes EXCEPT ![p] = None] /\ seen' = [seen EXCEPT ![p] = None]
  /\ Goes(p, "ready")
  /\ UNCHANGED <<names, memory, maps, last>>
-----------------------------------------------------------------------------
(* ~MelShare: the NamedMutex, then the SharedMemory *)

Destroy(p) ==
  /\ pc[p] = "ready" /\ Alone(p)
  /\ Staged /\ owner[p] => \A q \in Processes \ {p} : mtx[q] # mtx[p]
  /\ Goes(p, IF owner[p] THEN "mtx_destroy" ELSE "mem_unlink")
  /\ mtx' = IF owner[p] THEN mtx ELSE [mtx EXCEPT ![p] = 0]
  /\ mutex' = Live(mutex, mtxName, mtx', NewMutex)
  /\ UNCHANGED <<names, memory, mem, owner, calls, last>>

\* pthread_mutex_destroy, which refuses a locked mutex; then munmap
MtxDestroy(p) ==
  /\ pc[p] = "mtx_destroy"
  /\ mtx' = [mtx EXCEPT ![p] = 0]
  /\ LET destroyed == IF mutex[mtx[p]].holder # None THEN mutex
                      ELSE [mutex EXCEPT ![mtx[p]].state = "destroyed"]
     IN  mutex' = Live(destroyed, mtxName, mtx', NewMutex)
  /\ Goes(p, "mtx_unlink")
  /\ UNCHANGED <<names, memory, mem, owner, calls, last>>

MtxUnlink(p) ==
  /\ pc[p] = "mtx_unlink"
  /\ mtxName' = 0
  /\ mutex' = Live(mutex, 0, mtx, NewMutex)
  /\ owner' = [owner EXCEPT ![p] = FALSE]
  /\ Goes(p, "mem_unlink")
  /\ UNCHANGED <<memName, memMade, mtxMade, memory, mem, mtx, calls, last>>

\* SharedMemory::close unlinks the name, in every process
MemUnlink(p) ==
  /\ pc[p] = "mem_unlink"
  /\ memName' = 0
  /\ mem' = [mem EXCEPT ![p] = 0]
  /\ memory' = Live(memory, 0, mem', NewMemory) /\ last' = Live(last, 0, mem', None)
  /\ Goes(p, "gone")
  /\ UNCHANGED <<mtxName, memMade, mtxMade, mutex, mtx, owner, calls>>

Step(p) ==
  \/ Construct(p) \/ MemOpen(p) \/ MemCreate(p) \/ MemSize(p)
  \/ MtxOpen(p) \/ MtxCreate(p) \/ MtxSize(p) \/ MtxInit(p)
  \/ \E m \in Messages \cup {None} : Call(p, m)
  \/ Lock(p) \/ Header(p) \/ Body(p) \/ Unlock(p)
  \/ Destroy(p) \/ MtxDestroy(p) \/ MtxUnlink(p) \/ MemUnlink(p)
  \/ Crash(p)

Next == \E p \in Processes : Step(p)

Spec == Init /\ [][Next]_vars
-----------------------------------------------------------------------------
(* Properties *)

Critical(p) == pc[p] \in {"head", "body", "unlock"}

\* "Blocks concurrent access to shared resources from multiple processes"
\* (NamedMutex.hpp): no two processes are in a call on the same memory, also
\* after processes died in one and others came back
MutualExclusion ==
  \A p, q \in Processes :
    Critical(p) /\ Critical(q) /\ mem[p] = mem[q] /\ mem[p] # 0 => p = q

\* A read hands out the message last written whole to its memory (zeros for an
\* oversized one, None before the first), and never one a process died writing
ReadsLast ==
  \A p \in Processes : pc[p] = "unlock" /\ writes[p] = None =>
    seen[p] = IF last[mem[p]] \in Oversized THEN "zeros" ELSE last[mem[p]]

\* shm_unlink "should probably be called by the LAST process"
\* (SharedMemory.cpp:194): processes that have mapped the name share one memory
OneMemory ==
  \A p, q \in Processes :
    pc[p] = "ready" /\ pc[q] = "ready" /\ 0 \notin {mem[p], mem[q]} => mem[p] = mem[q]
=============================================================================
