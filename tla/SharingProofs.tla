--------------------------- MODULE SharingProofs ---------------------------
(*************************************************************************)
(* Proofs about MelShare, for any number of processes and objects: types, *)
(* and, in a program that stages construction and destruction, mutual    *)
(* exclusion and that reads hand out what was written whole last; about  *)
(* the named objects of Windows, in whatever program; about SerialPort,  *)
(* whose descriptors are those of its open ports until an object closes  *)
(* what is not its own; and about SocketSelector, which watches the sockets *)
(* added to it.                                                          *)
(*************************************************************************)
EXTENDS Sharing, WellFoundedInduction, TLAPS

MemoryObject == [sized: BOOLEAN, header: Messages \cup {None}, body: Messages \cup {None}]
MutexObject  == [sized: BOOLEAN, holder: Processes \cup {None},
                 state: {"zero", "ready", "destroyed"}]

LEMMA PartsKeepType ==
  /\ \A r \in MutexObject : /\ [r EXCEPT !.state = "ready"] \in MutexObject
                            /\ [r EXCEPT !.state = "destroyed"] \in MutexObject
  /\ \A r \in MutexObject, h \in Processes \cup {None} :
       [r EXCEPT !.holder = h] \in MutexObject
  /\ \A r \in MemoryObject, m \in Messages \cup {None} :
       /\ [r EXCEPT !.header = m] \in MemoryObject
       /\ [r EXCEPT !.body = m] \in MemoryObject
BY DEF MutexObject, MemoryObject

LEMMA UpdateKeepsType ==
  ASSUME NEW S, NEW T, NEW f \in [S -> T], NEW x, NEW y, x \in S => y \in T
  PROVE  [f EXCEPT ![x] = y] \in [S -> T]
OBVIOUS

\* What has a name or a map stays as it is, and what has neither is as it was made.
MutexesStay(before) ==
  \A o \in Objects :
    /\ \/ mutex'[o] = before[o]
       \/ ~mutex'[o].sized /\ mutex'[o].holder = None /\ mutex'[o].state = "zero"
    /\ o = mtxName' \/ (\E q \in Processes : mtx'[q] = o) => mutex'[o] = before[o]

MemoriesStay ==
  \A o \in Objects :
    /\ \/ memory'[o] = memory[o] /\ last'[o] = last[o]
       \/ memory'[o].header = None /\ last'[o] = None
    /\ o = memName' \/ (\E q \in Processes : mem'[q] = o) =>
         memory'[o] = memory[o] /\ last'[o] = last[o]

Destroyed(p) == IF mutex[mtx[p]].holder # None THEN mutex
                ELSE [mutex EXCEPT ![mtx[p]].state = "destroyed"]

LEMMA LiveMutexes ==
  ASSUME NEW before, mutex' = Live(before, mtxName', mtx', NewMutex)
  PROVE  MutexesStay(before)
BY DEF Live, NewMutex, MutexesStay

LEMMA LiveMemories ==
  ASSUME memory' = Live(memory, memName', mem', NewMemory), last' = Live(last, memName', mem', None)
  PROVE  MemoriesStay
BY DEF Live, NewMemory, MemoriesStay

LEMMA EndsKeep ==
  ASSUME NEW p \in Processes
  PROVE  /\ Dies(p) => MutexesStay(mutex) /\ MemoriesStay
         /\ Destroy(p) => MutexesStay(mutex)
         /\ MtxDestroy(p) => MutexesStay(Destroyed(p))
         /\ MtxUnlink(p) => MutexesStay(mutex)
         /\ MemUnlink(p) => MemoriesStay
<1>1. ASSUME Dies(p) PROVE MutexesStay(mutex) /\ MemoriesStay
  <2>1. mutex' = Live(mutex, mtxName', mtx', NewMutex)
    BY <1>1 DEF Dies, names
  <2>2. memory' = Live(memory, memName', mem', NewMemory) /\ last' = Live(last, memName', mem', None)
    BY <1>1 DEF Dies, names
  <2> QED
    BY <2>1, <2>2, LiveMutexes, LiveMemories
<1>2. ASSUME Destroy(p) PROVE MutexesStay(mutex)
  <2>1. mutex' = Live(mutex, mtxName', mtx', NewMutex)
    BY <1>2 DEF Destroy, names
  <2> QED
    BY <2>1, LiveMutexes
<1>3. ASSUME MtxDestroy(p) PROVE MutexesStay(Destroyed(p))
  <2>1. mutex' = Live(Destroyed(p), mtxName', mtx', NewMutex)
    BY <1>3 DEF MtxDestroy, Destroyed, names
  <2> QED
    BY <2>1, LiveMutexes
<1>4. ASSUME MtxUnlink(p) PROVE MutexesStay(mutex)
  <2>1. mutex' = Live(mutex, mtxName', mtx', NewMutex)
    BY <1>4 DEF MtxUnlink
  <2> QED
    BY <2>1, LiveMutexes
<1>5. ASSUME MemUnlink(p) PROVE MemoriesStay
  <2>1. memory' = Live(memory, memName', mem', NewMemory) /\ last' = Live(last, memName', mem', None)
    BY <1>5 DEF MemUnlink
  <2> QED
    BY <2>1, LiveMemories
<1> QED
  BY <1>1, <1>2, <1>3, <1>4, <1>5

LEMMA LiveKeepsType ==
  ASSUME NEW T, NEW objects \in [Objects -> T], NEW name, NEW map, NEW new \in T
  PROVE  Live(objects, name, map, new) \in [Objects -> T]
BY DEF Live

LEMMA NewIs == NewMemory \in MemoryObject /\ NewMutex \in MutexObject
BY DEF NewMemory, NewMutex, MemoryObject, MutexObject

\* Names and maps never lead to objects that were not made.
THEOREM TypeCorrect == Spec => []TypeOK
<1>1. Init => TypeOK
  <2> SUFFICES ASSUME Init PROVE TypeOK
    OBVIOUS
  <2>1. memory \in [Objects -> MemoryObject] /\ mutex \in [Objects -> MutexObject]
    BY NewIs DEF Init
  <2> QED
    BY <2>1, Assumptions DEF Init, TypeOK, Each, Results, MemoryObject, MutexObject
<1>2. TypeOK /\ [Next]_vars => TypeOK'
  <2> SUFFICES ASSUME TypeOK, [Next]_vars PROVE TypeOK'
    OBVIOUS
  <2> USE Assumptions DEF TypeOK, Goes, names, maps, calls
  <2>1. CASE UNCHANGED vars
    BY <2>1 DEF vars
  <2>2. ASSUME NEW p \in Processes, Dies(p) PROVE TypeOK'
    <3>1. memory' \in [Objects -> MemoryObject] /\ mutex' \in [Objects -> MutexObject]
          /\ last' \in [Objects -> Messages \cup {None}]
      BY <2>2, NewIs, LiveKeepsType DEF Dies, MemoryObject, MutexObject
    <3>2. /\ pc' \in [Processes -> {"gone", "ready"} \cup Making \cup Calling \cup Leaving]
          /\ mem' \in [Processes -> 0..memMade] /\ mtx' \in [Processes -> 0..mtxMade]
          /\ owner' \in [Processes -> BOOLEAN]
          /\ writes' \in [Processes -> Messages \cup {None}] /\ seen' \in [Processes -> Results]
          /\ UNCHANGED <<memName, mtxName, memMade, mtxMade>>
      BY <2>2 DEF Dies, Results
    <3> QED
      BY <3>1, <3>2 DEF MemoryObject, MutexObject
  <2>3. ASSUME NEW p \in Processes, Construct(p) PROVE TypeOK'
    BY <2>3 DEF Construct, Making
  <2>4. ASSUME NEW p \in Processes, MemOpen(p) PROVE TypeOK'
    BY <2>4 DEF MemOpen, Making
  <2>5. ASSUME NEW p \in Processes, MemCreate(p) PROVE TypeOK'
    BY <2>5 DEF MemCreate, Making
  <2>6. ASSUME NEW p \in Processes, MemSize(p) PROVE TypeOK'
    BY <2>6 DEF MemSize, Making
  <2>7. ASSUME NEW p \in Processes, MtxOpen(p) PROVE TypeOK'
    BY <2>7 DEF MtxOpen, Making
  <2>8. ASSUME NEW p \in Processes, MtxCreate(p) PROVE TypeOK'
    BY <2>8 DEF MtxCreate, Making
  <2>9. ASSUME NEW p \in Processes, MtxSize(p) PROVE TypeOK'
    BY <2>9 DEF MtxSize, Making
  <2>10. ASSUME NEW p \in Processes, MtxInit(p) PROVE TypeOK'
    <3>1. mutex' \in [Objects -> [sized: BOOLEAN, holder: Processes \cup {None},
                                   state: {"zero", "ready", "destroyed"}]]
      <4> DEFINE r == [mutex[mtx[p]] EXCEPT !.state = "ready"]
      <4>1. mtx[p] \in Objects => [r EXCEPT !.holder = None] \in MutexObject
        BY PartsKeepType DEF MutexObject
      <4>2. mutex' = [mutex EXCEPT ![mtx[p]] = [r EXCEPT !.holder = None]]
        BY <2>10 DEF MtxInit
      <4> QED
        BY <4>1, <4>2, UpdateKeepsType DEF MutexObject
    <3> QED
      BY <2>10, <3>1 DEF MtxInit
  <2>11. ASSUME NEW p \in Processes, NEW m \in Messages \cup {None}, Call(p, m)
         PROVE  TypeOK'
    BY <2>11 DEF Call, Calling, Results
  <2>12. ASSUME NEW p \in Processes, Lock(p) PROVE TypeOK'
    BY <2>2, <2>12 DEF Lock, Holder, Calling
  <2>13. ASSUME NEW p \in Processes, Header(p) PROVE TypeOK'
    <3>1. mem[p] # 0 => mem[p] \in Objects
      BY DEF Objects
    <3>2. CASE Dies(p)
      BY <2>2, <3>2
    <3>3. CASE ~Dies(p) /\ writes[p] # None
      <4>1. [memory[mem[p]] EXCEPT !.header = writes[p]] \in MemoryObject
        BY <2>13, <3>1, <3>3, PartsKeepType DEF Header, MemoryObject
      <4>2. memory' \in [Objects -> MemoryObject]
        BY <2>13, <3>3, <4>1, UpdateKeepsType DEF Header, MemoryObject
      <4> QED
        BY <2>13, <3>3, <4>2 DEF Header, Calling, MemoryObject
    <3>4. CASE ~Dies(p) /\ writes[p] = None
      BY <2>13, <3>1, <3>4 DEF Header, Calling, Results
    <3> QED
      BY <3>2, <3>3, <3>4
  <2>14. ASSUME NEW p \in Processes, Body(p) PROVE TypeOK'
    <3>1. CASE writes[p] # None
      <4> DEFINE o == mem[p]
                 b == BodyAfter(writes[p], memory[o].body)
      <4>1. o \in Objects => [memory[o] EXCEPT !.body = b] \in MemoryObject
        BY PartsKeepType DEF MemoryObject, BodyAfter
      <4>2. memory' = [memory EXCEPT ![o] = [memory[o] EXCEPT !.body = b]]
        BY <2>14, <3>1 DEF Body
      <4>3. memory' \in [Objects -> MemoryObject]
        BY <4>1, <4>2, UpdateKeepsType DEF MemoryObject
      <4> QED
        BY <2>14, <3>1, <4>3 DEF Body, Calling, MemoryObject
    <3>2. CASE writes[p] = None
      <4>1. Shown(seen[p], memory[mem[p]].body) \in Results
        BY DEF Shown, Results
      <4> QED
        BY <2>14, <3>2, <4>1 DEF Body, Calling
    <3> QED
      BY <3>1, <3>2
  <2>15. ASSUME NEW p \in Processes, Unlock(p) PROVE TypeOK'
    BY <2>15 DEF Unlock, Results
  <2>16. ASSUME NEW p \in Processes, Destroy(p) PROVE TypeOK'
    <3>1. mutex' \in [Objects -> MutexObject]
      BY <2>16, NewIs, LiveKeepsType DEF Destroy, MutexObject
    <3>2. /\ pc' \in [Processes -> {"gone", "ready"} \cup Making \cup Calling \cup Leaving]
          /\ mtx' \in [Processes -> 0..mtxMade]
          /\ UNCHANGED <<memName, mtxName, memMade, mtxMade, memory, mem, owner, writes, seen, last>>
      BY <2>16 DEF Destroy, Leaving
    <3> QED
      BY <3>1, <3>2 DEF MutexObject
  <2>17. ASSUME NEW p \in Processes, MtxDestroy(p) PROVE TypeOK'
    <3> DEFINE destroyed == IF mutex[mtx[p]].holder # None THEN mutex
                            ELSE [mutex EXCEPT ![mtx[p]].state = "destroyed"]
    <3>1. mtx[p] \in Objects => [mutex[mtx[p]] EXCEPT !.state = "destroyed"] \in MutexObject
      BY PartsKeepType DEF MutexObject
    <3>2. destroyed \in [Objects -> MutexObject]
      BY <3>1, UpdateKeepsType DEF MutexObject
    <3>3. mutex' = Live(destroyed, mtxName, mtx', NewMutex)
      BY <2>17 DEF MtxDestroy
    <3> HIDE DEF destroyed
    <3>4. mutex' \in [Objects -> MutexObject]
      BY <3>2, <3>3, NewIs, LiveKeepsType
    <3>5. /\ pc' \in [Processes -> {"gone", "ready"} \cup Making \cup Calling \cup Leaving]
          /\ mtx' \in [Processes -> 0..mtxMade]
          /\ UNCHANGED <<memName, mtxName, memMade, mtxMade, memory, mem, owner, writes, seen, last>>
      BY <2>17 DEF MtxDestroy, Leaving
    <3> QED
      BY <3>4, <3>5 DEF MutexObject
  <2>18. ASSUME NEW p \in Processes, MtxUnlink(p) PROVE TypeOK'
    <3>1. mutex' \in [Objects -> MutexObject]
      BY <2>18, NewIs, LiveKeepsType DEF MtxUnlink, MutexObject
    <3> QED
      BY <2>18, <3>1 DEF MtxUnlink, Leaving, MutexObject
  <2>19. ASSUME NEW p \in Processes, MemUnlink(p) PROVE TypeOK'
    <3>1. memory' \in [Objects -> MemoryObject] /\ last' \in [Objects -> Messages \cup {None}]
      BY <2>19, NewIs, LiveKeepsType DEF MemUnlink, MemoryObject
    <3>2. /\ pc' \in [Processes -> {"gone", "ready"} \cup Making \cup Calling \cup Leaving]
          /\ memName' = 0 /\ mem' \in [Processes -> 0..memMade]
          /\ UNCHANGED <<mtxName, memMade, mtxMade, mutex, mtx, owner, writes, seen>>
      BY <2>19 DEF MemUnlink
    <3> QED
      BY <3>1, <3>2 DEF MemoryObject
  <2> QED
    BY <2>1, <2>2, <2>3, <2>4, <2>5, <2>6, <2>7, <2>8, <2>9, <2>10, <2>11, <2>12,
       <2>13, <2>14, <2>15, <2>16, <2>17, <2>18, <2>19 DEF Next, Step, Crash
<1> QED
  BY <1>1, <1>2, PTL DEF Spec
-----------------------------------------------------------------------------
(* Mutual exclusion.  Who constructs or destroys does so alone, the mutex  *)
(* that is mapped is the one that has the name, and who is past its lock    *)
(* holds it.                                                                *)

Busy(p) == pc[p] \in Making \cup Leaving

OneIsBusy == \A p, q \in Processes : Busy(p) /\ Busy(q) => p = q

\* What a process knows while it makes or removes the mutex.
Stage(p) ==
  /\ pc[p] = "mtx_create" => mtxName = 0
  /\ pc[p] \in {"mtx_size", "mtx_init"} => /\ \A q \in Processes \ {p} : mtx[q] = 0
                                          /\ mtx[p] # 0 /\ mutex[mtx[p]].holder = None
  /\ pc[p] = "mtx_destroy" => mtx[p] # 0 /\ \A q \in Processes \ {p} : mtx[q] # mtx[p]
  /\ pc[p] = "mtx_unlink" => \A q \in Processes : mtx[q] = 0
  /\ owner[p] => mtx[p] # 0 \/ pc[p] = "mtx_unlink"

\* No process keeps a mutex that has lost its name, ...
MappedIsNamed == \A p \in Processes : mtx[p] # 0 => mtx[p] = mtxName

\* ... and a mutex that can be opened is not a destroyed one, which nobody can
\* lock: pthread_mutex_lock fails on it and lock() goes on without it.
NamedIsUsable ==
  mtxName # 0 /\ (\A p \in Processes : pc[p] # "mtx_unlink") =>
    mutex[mtxName].state # "destroyed"

NewIsFresh ==
  \A o \in Objects : o > mtxMade => mutex[o].state # "destroyed" /\ mutex[o].holder = None

\* A process between lock() and unlock() holds the mutex it maps, which no crash
\* and no other process takes from it.
CriticalHolds ==
  \A p \in Processes : Critical(p) => mtx[p] # 0 /\ mutex[mtx[p]].holder = p

Exclusive ==
  /\ TypeOK /\ OneIsBusy /\ \A p \in Processes : Stage(p)
  /\ MappedIsNamed /\ NamedIsUsable /\ NewIsFresh /\ CriticalHolds

LEMMA MappedIsUsable ==
  Exclusive => \A p \in Processes : mtx[p] # 0 =>
                 mtx[p] \in Objects /\ mutex[mtx[p]].state # "destroyed"
<1> SUFFICES ASSUME Exclusive, NEW p \in Processes, mtx[p] # 0
             PROVE  mtx[p] \in Objects /\ mutex[mtx[p]].state # "destroyed"
  OBVIOUS
<1>1. mtx[p] = mtxName /\ mtx[p] \in Objects
  BY Assumptions DEF Exclusive, TypeOK, MappedIsNamed, Objects
<1>2. \A q \in Processes : pc[q] # "mtx_unlink"
  BY DEF Exclusive, Stage
<1> QED
  BY <1>1, <1>2 DEF Exclusive, NamedIsUsable

LEMMA ExclusiveStep == Staged /\ Exclusive /\ TypeOK' /\ [Next]_vars => Exclusive'
<1> SUFFICES ASSUME Staged, Exclusive, TypeOK', [Next]_vars PROVE Exclusive'
  OBVIOUS
<1> USE DEF Exclusive, TypeOK, OneIsBusy, Busy, Stage, MappedIsNamed, NamedIsUsable,
            NewIsFresh, CriticalHolds, Critical, Objects, Making, Leaving,
            Goes, names, maps, calls
<1>1. CASE UNCHANGED vars
  BY <1>1 DEF vars
<1>2. ASSUME NEW p \in Processes, pc[p] # "mtx_unlink", Dies(p)
      PROVE  Exclusive'
  <2>1. /\ pc' = [pc EXCEPT ![p] = "gone"] /\ mtx' = [mtx EXCEPT ![p] = 0]
        /\ owner' = [owner EXCEPT ![p] = FALSE] /\ UNCHANGED names
    BY <1>2 DEF Dies
  <2>2. MutexesStay(mutex)
    BY <1>2, EndsKeep
  <2>3. \A o \in Objects : mutex'[o] = mutex[o] \/ (mutex'[o].holder = None /\ mutex'[o].state = "zero")
    BY <2>2 DEF MutexesStay
  <2>4. mtxName # 0 => mutex'[mtxName] = mutex[mtxName]
    <3>1. mtxName # 0 => mtxName \in Objects
      BY Assumptions
    <3>2. mtxName' = mtxName
      BY <2>1
    <3> QED
      BY <2>2, <3>1, <3>2 DEF MutexesStay
  <2>5. \A q \in Processes : mtx'[q] # 0 => mutex'[mtx[q]] = mutex[mtx[q]] /\ mtx'[q] = mtx[q]
    BY <2>1, <2>4
  <2>6. (OneIsBusy /\ (\A q \in Processes : Stage(q)) /\ MappedIsNamed)'
    BY <1>2, <2>1, <2>5
  <2>7. (NamedIsUsable /\ NewIsFresh)'
    BY <1>2, <2>1, <2>3, <2>4
  <2>8. CriticalHolds'
    BY <2>1, <2>5
  <2> QED
    BY <2>6, <2>7, <2>8
<1>3. ASSUME NEW p \in Processes, NEW m \in Messages \cup {None}, Call(p, m)
      PROVE  Exclusive'
  BY <1>3 DEF Call
<1>4. ASSUME NEW p \in Processes, Construct(p) PROVE Exclusive'
  BY <1>4 DEF Construct, Alone
<1>5. ASSUME NEW p \in Processes, MemOpen(p) PROVE Exclusive'
  BY <1>5 DEF MemOpen
<1>6. ASSUME NEW p \in Processes, MemCreate(p) PROVE Exclusive'
  BY <1>6 DEF MemCreate
<1>7. ASSUME NEW p \in Processes, MemSize(p) PROVE Exclusive'
  BY <1>7 DEF MemSize
<1>8. ASSUME NEW p \in Processes, MtxOpen(p) PROVE Exclusive'
  BY <1>8 DEF MtxOpen
<1>9. ASSUME NEW p \in Processes, MtxCreate(p) PROVE Exclusive'
  BY <1>9 DEF MtxCreate
<1>10. ASSUME NEW p \in Processes, MtxSize(p) PROVE Exclusive'
  BY <1>10 DEF MtxSize
<1>11. ASSUME NEW p \in Processes, MtxInit(p) PROVE Exclusive'
  BY <1>11 DEF MtxInit
<1>12. ASSUME NEW p \in Processes, Lock(p) PROVE Exclusive'
  <2>1. CASE Dies(p)
    BY <1>2, <1>12, <2>1 DEF Lock
  <2>2. CASE ~Dies(p)
    <3>0. mtx[p] # 0 /\ mtx[p] \in Objects /\ Holder(p) = p
      BY <1>12, <2>2, MappedIsUsable DEF Lock, Holder
    <3>1. /\ mutex[mtx[p]].holder = None
          /\ mutex' = [mutex EXCEPT ![mtx[p]].holder = p]
          /\ pc' = [pc EXCEPT ![p] = "head"]
          /\ UNCHANGED <<names, memory, maps, calls, last>>
      BY <1>12, <2>2, <3>0, MappedIsUsable DEF Lock
    <3>2. \A o \in Objects : mutex'[o].state = mutex[o].state
      BY <3>1
    <3>3. (OneIsBusy /\ (\A q \in Processes : Stage(q)) /\ MappedIsNamed)'
      BY <3>1
    <3>4. (NamedIsUsable /\ NewIsFresh)'
      BY <3>1, <3>2
    <3>5. CriticalHolds'
      BY <3>1, Assumptions
    <3> QED
      BY <3>3, <3>4, <3>5
  <2> QED
    BY <2>1, <2>2
<1>13. ASSUME NEW p \in Processes, Header(p) PROVE Exclusive'
  <2>1. CASE Dies(p)
    BY <1>2, <1>13, <2>1 DEF Header
  <2>2. CASE ~Dies(p)
    <3>1. /\ pc[p] = "head" /\ pc' = [pc EXCEPT ![p] = "body"]
          /\ UNCHANGED <<names, mutex, maps>>
      BY <1>13, <2>2 DEF Header
    <3> QED
      BY <3>1
  <2> QED
    BY <2>1, <2>2
<1>14. ASSUME NEW p \in Processes, Body(p) PROVE Exclusive'
  BY <1>14 DEF Body
<1>15. ASSUME NEW p \in Processes, Unlock(p) PROVE Exclusive'
  BY <1>15 DEF Unlock
<1>16. ASSUME NEW p \in Processes, Destroy(p) PROVE Exclusive'
  <2>1. MutexesStay(mutex)
    BY <1>16, EndsKeep
  <2>2. \A o \in Objects : mutex'[o] = mutex[o] \/ (mutex'[o].holder = None /\ mutex'[o].state = "zero")
    BY <2>1 DEF MutexesStay
  <2>3. /\ pc[p] = "ready" /\ \A q \in Processes \ {p} : pc[q] \notin Making \cup Leaving
        /\ owner[p] => \A q \in Processes \ {p} : mtx[q] # mtx[p]
        /\ pc' = [pc EXCEPT ![p] = IF owner[p] THEN "mtx_destroy" ELSE "mem_unlink"]
        /\ mtx' = (IF owner[p] THEN mtx ELSE [mtx EXCEPT ![p] = 0])
        /\ UNCHANGED <<mtxName, mtxMade, owner>>
    BY <1>16 DEF Destroy, Alone
  <2>4. mtxName # 0 => mutex'[mtxName] = mutex[mtxName]
    <3>1. mtxName # 0 => mtxName \in Objects
      BY Assumptions
    <3>2. mtxName' = mtxName
      BY <2>3
    <3> QED
      BY <2>1, <3>1, <3>2 DEF MutexesStay
  <2>5. \A q \in Processes : mtx'[q] # 0 => mutex'[mtx[q]] = mutex[mtx[q]] /\ mtx'[q] = mtx[q]
    BY <2>3, <2>4
  <2>6. OneIsBusy' /\ MappedIsNamed'
    BY <2>3
  <2>7. \A q \in Processes : Stage(q)'
    BY <2>3, <2>5
  <2>8. (NamedIsUsable /\ NewIsFresh)'
    BY <2>2, <2>3, <2>4
  <2>9. CriticalHolds'
    BY <2>3, <2>5
  <2> QED
    BY <2>6, <2>7, <2>8, <2>9
<1>17. ASSUME NEW p \in Processes, MtxDestroy(p) PROVE Exclusive'
  <2>1. MutexesStay(Destroyed(p))
    BY <1>17, EndsKeep
  <2>2. \A o \in Objects : /\ Destroyed(p)[o].holder = mutex[o].holder
                          /\ o # mtx[p] => Destroyed(p)[o] = mutex[o]
    BY DEF Destroyed
  <2>3. /\ pc[p] = "mtx_destroy" /\ pc' = [pc EXCEPT ![p] = "mtx_unlink"]
        /\ mtx' = [mtx EXCEPT ![p] = 0] /\ UNCHANGED <<mtxName, mtxMade, owner>>
    BY <1>17 DEF MtxDestroy
  <2>4. \A o \in Objects : mutex'[o] = Destroyed(p)[o] \/ (mutex'[o].holder = None /\ mutex'[o].state = "zero")
    BY <2>1 DEF MutexesStay
  <2>5. \A q \in Processes : mtx'[q] = 0
    BY <2>3
  <2>6. (OneIsBusy /\ (\A q \in Processes : Stage(q)) /\ MappedIsNamed)'
    BY <2>3, <2>5
  <2>7. (NamedIsUsable /\ NewIsFresh)'
    <3>1. NamedIsUsable'
      BY <2>3
    <3>2. \A o \in Objects : o > mtxMade => o # mtx[p]
      BY Assumptions
    <3>3. ASSUME NEW o \in Objects, o > mtxMade
          PROVE  mutex'[o].state # "destroyed" /\ mutex'[o].holder = None
      <4>1. mutex[o].state # "destroyed" /\ mutex[o].holder = None
        BY <3>3
      <4>2. o # mtx[p]
        BY <3>2, <3>3
      <4>3. Destroyed(p)[o] = mutex[o]
        BY <4>2 DEF Destroyed
      <4> QED
        BY <2>4, <4>1, <4>3
    <3>4. NewIsFresh'
      BY <2>3, <3>3
    <3> QED
      BY <3>1, <3>4
  <2>8. CriticalHolds'
    BY <2>3, <2>5
  <2> QED
    BY <2>6, <2>7, <2>8
<1>18. ASSUME NEW p \in Processes, MtxUnlink(p) PROVE Exclusive'
  <2>1. MutexesStay(mutex)
    BY <1>18, EndsKeep
  <2>2. /\ pc[p] = "mtx_unlink" /\ pc' = [pc EXCEPT ![p] = "mem_unlink"] /\ mtxName' = 0
        /\ owner' = [owner EXCEPT ![p] = FALSE] /\ UNCHANGED <<mtxMade, mtx>>
    BY <1>18 DEF MtxUnlink
  <2>3. \A o \in Objects : mutex'[o] = mutex[o] \/ (mutex'[o].holder = None /\ mutex'[o].state = "zero")
    BY <2>1 DEF MutexesStay
  <2>4. \A q \in Processes : mtx[q] = 0
    BY <2>2
  <2>5. (OneIsBusy /\ (\A q \in Processes : Stage(q)) /\ MappedIsNamed)'
    BY <2>2, <2>4
  <2>6. (NamedIsUsable /\ NewIsFresh)'
    BY <2>2, <2>3
  <2>7. CriticalHolds'
    BY <2>2, <2>4
  <2> QED
    BY <2>5, <2>6, <2>7
<1>19. ASSUME NEW p \in Processes, MemUnlink(p) PROVE Exclusive'
  <2>1. /\ pc[p] = "mem_unlink" /\ pc' = [pc EXCEPT ![p] = "gone"]
        /\ UNCHANGED <<mtxName, mtxMade, mutex, mtx, owner>>
    BY <1>19 DEF MemUnlink
  <2> QED
    BY <2>1
<1> QED
  BY <1>1, <1>2, <1>3, <1>4, <1>5, <1>6, <1>7, <1>8, <1>9, <1>10, <1>11, <1>12, <1>13,
     <1>14, <1>15, <1>16, <1>17, <1>18, <1>19 DEF Next, Step, Crash

LEMMA ExclusiveHolds == Staged => (Spec => []Exclusive)
<1> SUFFICES ASSUME Staged PROVE Spec => []Exclusive
  OBVIOUS
<1>1. TypeOK /\ Init => Exclusive
  BY Assumptions
  DEF Init, Each, Exclusive, OneIsBusy, Busy, Stage, MappedIsNamed, NamedIsUsable,
      NewIsFresh, CriticalHolds, Critical, Making, Leaving, NewMutex
<1>2. TypeOK' /\ Exclusive /\ [Next]_vars => Exclusive'
  BY ExclusiveStep
<1> QED
  BY <1>1, <1>2, TypeCorrect, PTL DEF Spec

\* In a staged program no two processes are ever in a call on one memory, with any
\* number of processes that die, in construction, in a call or in a destructor, and
\* come back; but none dies in a destructor whose mutex is destroyed or has lost its
\* name and whose memory still has its name (Crash).
THEOREM Exclusion == Staged => (Spec => []MutualExclusion)
<1> SUFFICES ASSUME Staged PROVE Spec => []MutualExclusion
  OBVIOUS
<1>1. Exclusive => MutualExclusion
  BY DEF Exclusive, MutualExclusion, CriticalHolds, MappedIsNamed
<1> QED
  BY <1>1, ExclusiveHolds, PTL
-----------------------------------------------------------------------------
(* Reads.  A memory whose last write is not whole is one that nobody can    *)
(* read now.                                                                *)

\* What a read would find is what was written last.
Whole(o) ==
  /\ memory[o].header = last[o]
  /\ last[o] \notin Oversized \cup {None} => memory[o].body = last[o]

\* A process is between the two copies of a write, ...
Writing(o) == \E p \in Processes : pc[p] = "body" /\ mem[p] = o /\ writes[p] # None

\* ... or has died there with the mutex, ...
Stuck == mtxName # 0 /\ mutex[mtxName].holder # None /\ ~\E p \in Processes : Critical(p)

\* ... or nobody has a mutex to lock for it any more, nor gets one.
Left(o) ==
  /\ \A p \in Processes : mem[p] = o => mtx[p] = 0 /\ pc[p] \notin Making
  /\ memName = o => mtxName = 0 /\ \E p \in Processes : pc[p] = "mem_unlink"

Memories ==
  \A o \in Objects : Whole(o) \/ (o <= memMade /\ (Writing(o) \/ Stuck \/ Left(o)))

\* What a call has done between its steps.
Progress(p) ==
  /\ pc[p] = "gone" => mem[p] = 0
  /\ Critical(p) /\ pc[p] # "head" => mem[p] # 0
  /\ pc[p] = "body" /\ writes[p] # None => memory[mem[p]].header = writes[p]
  /\ pc[p] = "body" /\ writes[p] = None => seen[p] = memory[mem[p]].header
  /\ pc[p] = "unlock" /\ writes[p] = None =>
       seen[p] = IF last[mem[p]] \in Oversized THEN "zeros" ELSE last[mem[p]]

Reads == Exclusive /\ Memories /\ \A p \in Processes : Progress(p)

LEMMA OneIsCritical ==
  ASSUME Exclusive, NEW p \in Processes, Critical(p)
  PROVE  /\ mtx[p] = mtxName /\ mtxName \in Objects /\ mutex[mtxName].holder = p
         /\ p # None /\ ~Stuck
         /\ \A q \in Processes : Critical(q) => q = p
BY Assumptions, MappedIsUsable DEF Exclusive, CriticalHolds, MappedIsNamed, Stuck

LEMMA LeftStep ==
  ASSUME Staged, Reads, Exclusive', [Next]_vars, NEW o \in Objects, o <= memMade, Left(o)
  PROVE  Left(o)'
<1> USE DEF Left, Goes, names, maps, calls
<1>1. \A q \in Processes : pc[q] = "mem_unlink" =>
        \A p \in Processes \ {q} : pc[p] \notin Making \cup Leaving
  BY DEF Reads, Exclusive, OneIsBusy, Busy, Leaving
<1> USE <1>1 DEF Reads, Exclusive, TypeOK, Making, Leaving
<1>2. ASSUME NEW p \in Processes, ~(pc[p] = "mem_unlink" /\ mtxName = 0), Dies(p)
      PROVE  Left(o)'
  BY <1>2 DEF Dies, Objects
<1>3. ASSUME NEW p \in Processes, Construct(p) PROVE Left(o)'
  BY <1>3 DEF Construct, Progress, Objects
<1>4. ASSUME NEW p \in Processes, MemOpen(p) PROVE Left(o)'
  BY <1>4 DEF MemOpen
<1>5. ASSUME NEW p \in Processes, MemCreate(p) PROVE Left(o)'
  BY <1>5 DEF MemCreate
<1>6. ASSUME NEW p \in Processes, MtxOpen(p) PROVE Left(o)'
  BY <1>6 DEF MtxOpen
<1>7. ASSUME NEW p \in Processes, MtxCreate(p) PROVE Left(o)'
  BY <1>7 DEF MtxCreate
<1>8. ASSUME NEW p \in Processes, Destroy(p) PROVE Left(o)'
  BY <1>8 DEF Destroy
<1>9. ASSUME NEW p \in Processes, MtxDestroy(p) PROVE Left(o)'
  BY <1>9 DEF MtxDestroy
<1>10. ASSUME NEW p \in Processes, MtxUnlink(p) PROVE Left(o)'
  BY <1>10 DEF MtxUnlink
<1>11. ASSUME NEW p \in Processes, MemUnlink(p) PROVE Left(o)'
  BY <1>11 DEF MemUnlink, Objects
<1>12. ASSUME UNCHANGED <<names, mem, mtx>>,
              \A p \in Processes : pc'[p] # pc[p] =>
                pc[p] # "mem_unlink" /\ (pc[p] \notin Making => pc'[p] \notin Making)
       PROVE  Left(o)'
  BY <1>12
<1>13. ASSUME NEW p \in Processes,
               \/ MemSize(p) \/ MtxSize(p) \/ MtxInit(p)
               \/ \E m \in Messages \cup {None} : Call(p, m)
               \/ ~Dies(p) /\ (Lock(p) \/ Header(p))
               \/ Body(p) \/ Unlock(p)
       PROVE  Left(o)'
  BY <1>12, <1>13 DEF MemSize, MtxSize, MtxInit, Call, Lock, Header, Body, Unlock
<1> QED
  BY <1>2, <1>3, <1>4, <1>5, <1>6, <1>7, <1>8, <1>9, <1>10, <1>11, <1>12,
     <1>13 DEF Next, Step, Crash, Lock, Header, vars

LEMMA WritingStep ==
  ASSUME Staged, Reads, Exclusive', [Next]_vars, NEW o \in Objects, Writing(o)
  PROVE  (Writing(o) \/ Whole(o) \/ Stuck)'
<1> PICK q \in Processes : pc[q] = "body" /\ mem[q] = o /\ writes[q] # None
  BY DEF Writing
<1>1. Critical(q) /\ memory[o].header = writes[q]
  BY DEF Critical, Reads, Progress
<1>2. CASE UNCHANGED <<pc[q], mem[q], writes[q]>>
  BY <1>2 DEF Writing
<1>3. ASSUME NEW p \in Processes, p = q, Body(p) PROVE Whole(o)'
  BY <1>1, <1>3 DEF Body, BodyAfter, Whole, Reads, Exclusive, TypeOK, names, maps, calls
<1>4. ASSUME NEW p \in Processes, p = q, Dies(p) PROVE Stuck'
  <2>1. mtxName \in Objects /\ mutex[mtxName].holder # None
    BY <1>1, OneIsCritical DEF Reads
  <2>2. \A r \in Processes : ~Critical(r)'
    BY <1>1, <1>4, OneIsCritical DEF Dies, Goes, Critical, Reads, Exclusive, TypeOK
  <2>3. MutexesStay(mutex) /\ UNCHANGED names
    BY <1>4, EndsKeep DEF Dies
  <2>4. mutex'[mtxName] = mutex[mtxName] /\ mtxName' = mtxName /\ mtxName # 0
    BY <2>1, <2>3 DEF MutexesStay, names, Objects
  <2> QED
    BY <2>1, <2>2, <2>4 DEF Stuck
<1> USE DEF Goes, names, maps, calls, Reads, Exclusive, TypeOK
<1>5. ASSUME NEW p \in Processes, p # q, Step(p)
      PROVE  UNCHANGED <<pc[q], mem[q], writes[q]>>
  BY <1>5
  DEF Step, Construct, MemOpen, MemCreate, MemSize, MtxOpen, MtxCreate, MtxSize, MtxInit,
      Call, Lock, Header, Body, Unlock, Destroy, MtxDestroy, MtxUnlink, MemUnlink,
      Crash, Dies
<1>6. ASSUME NEW p \in Processes, p = q, Step(p) PROVE Body(p) \/ Dies(p)
  BY <1>6
  DEF Step, Construct, MemOpen, MemCreate, MemSize, MtxOpen, MtxCreate, MtxSize, MtxInit,
      Call, Lock, Header, Unlock, Destroy, MtxDestroy, MtxUnlink, MemUnlink, Crash
<1> QED
  BY <1>2, <1>3, <1>4, <1>5, <1>6 DEF Next, vars

LEMMA WholeStep ==
  ASSUME Staged, Reads, Exclusive', [Next]_vars, NEW o \in Objects, Whole(o)
  PROVE  (Writing(o) \/ Whole(o))'
<1> USE DEF Whole, Goes, names, maps, calls, Reads, Exclusive, TypeOK
<1>1. CASE UNCHANGED <<memory[o].header, memory[o].body, last[o]>>
  BY <1>1
<1>5. ASSUME MemoriesStay PROVE Whole(o)'
  BY <1>5 DEF MemoriesStay
<1>2. ASSUME NEW p \in Processes, Header(p) PROVE (Writing(o) \/ Whole(o))'
  <2>1. CASE Dies(p)
    BY <1>5, <2>1, EndsKeep
  <2>2. CASE ~Dies(p) /\ mem[p] = o /\ writes[p] # None
    BY <1>2, <2>2 DEF Header, Writing
  <2>3. CASE ~Dies(p) /\ ~(mem[p] = o /\ writes[p] # None)
    BY <1>1, <1>2, <2>3 DEF Header
  <2> QED
    BY <2>1, <2>2, <2>3
<1>3. ASSUME NEW p \in Processes, Body(p) PROVE (Writing(o) \/ Whole(o))'
  <2>1. CASE mem[p] = o /\ writes[p] # None
    BY <1>3, <2>1 DEF Body, BodyAfter, Progress
  <2>2. CASE ~(mem[p] = o /\ writes[p] # None)
    BY <1>1, <1>3, <2>2 DEF Body
  <2> QED
    BY <2>1, <2>2
<1>4. ASSUME NEW p \in Processes, MemSize(p) PROVE (Writing(o) \/ Whole(o))'
  BY <1>1, <1>4 DEF MemSize
<1>6. ASSUME NEW p \in Processes, Dies(p) \/ MemUnlink(p) PROVE Whole(o)'
  BY <1>5, <1>6, EndsKeep
<1>7. ASSUME NEW p \in Processes, Lock(p) PROVE Whole(o)'
  BY <1>1, <1>6, <1>7 DEF Lock
<1> QED
  BY <1>1, <1>2, <1>3, <1>4, <1>6, <1>7
  DEF Next, Step, Construct, MemOpen, MemCreate, MtxOpen, MtxCreate, MtxSize, MtxInit, Call,
      Unlock, Destroy, MtxDestroy, MtxUnlink, Crash, vars

LEMMA StuckStep ==
  ASSUME Staged, Reads, Exclusive', [Next]_vars, NEW o \in Objects, Stuck
  PROVE  (Stuck \/ Left(o))'
<1> USE DEF Stuck, Goes, names, maps, calls, Reads, Exclusive, TypeOK
<1>1. \A p \in Processes : ~Critical(p)
  OBVIOUS
<1>2. ASSUME UNCHANGED mtxName, mutex'[mtxName].holder = mutex[mtxName].holder,
             \A p \in Processes : pc'[p] \notin {"head", "body", "unlock"}
      PROVE  Stuck'
  BY <1>2 DEF Critical
<1>11. mtxName \in Objects
  BY Assumptions DEF Objects
<1>3. ASSUME NEW p \in Processes, Dies(p) PROVE Stuck'
  <2>1. MutexesStay(mutex) /\ mtxName' = mtxName /\ pc' = [pc EXCEPT ![p] = "gone"]
    BY <1>3, EndsKeep DEF Dies
  <2>2. mutex'[mtxName] = mutex[mtxName]
    BY <1>11, <2>1 DEF MutexesStay
  <2> QED
    BY <1>1, <1>2, <2>1, <2>2 DEF Critical
<1>4. ASSUME NEW p \in Processes, Lock(p), ~Dies(p) PROVE FALSE
  BY <1>4, MappedIsUsable DEF Lock, MappedIsNamed
<1>5. ASSUME NEW p \in Processes, MtxCreate(p) \/ MtxInit(p) PROVE Stuck'
  <2>1. CASE MtxCreate(p)
    BY <2>1 DEF MtxCreate, Stage
  <2>2. CASE MtxInit(p)
    BY <2>2 DEF MtxInit, Stage, MappedIsNamed
  <2> QED
    BY <1>5, <2>1, <2>2
<1>6. ASSUME NEW p \in Processes, MtxUnlink(p) PROVE Left(o)'
  BY <1>6 DEF MtxUnlink, Left, Stage, OneIsBusy, Busy, Making, Leaving
<1>7. ASSUME NEW p \in Processes, MtxSize(p) \/ MtxDestroy(p) PROVE Stuck'
  <2>1. CASE MtxSize(p)
    BY <1>1, <1>2, <2>1 DEF MtxSize, Critical
  <2>2. CASE MtxDestroy(p)
    <3>1. MutexesStay(Destroyed(p)) /\ mtxName' = mtxName /\ pc' = [pc EXCEPT ![p] = "mtx_unlink"]
      BY <2>2, EndsKeep DEF MtxDestroy
    <3>2. mutex'[mtxName] = Destroyed(p)[mtxName]
      BY <1>11, <3>1 DEF MutexesStay
    <3>3. Destroyed(p)[mtxName].holder = mutex[mtxName].holder
      BY <1>11 DEF Destroyed
    <3> QED
      BY <1>1, <1>2, <3>1, <3>2, <3>3 DEF Critical
  <2> QED
    BY <1>7, <2>1, <2>2
<1>8. ASSUME NEW p \in Processes, Header(p) \/ Body(p) \/ Unlock(p) PROVE FALSE
  BY <1>1, <1>8 DEF Header, Body, Unlock, Critical
<1>9. ASSUME NEW p \in Processes,
             \/ Construct(p) \/ MemOpen(p) \/ MemCreate(p) \/ MemSize(p) \/ MtxOpen(p)
             \/ \E m \in Messages \cup {None} : Call(p, m)
             \/ MemUnlink(p)
      PROVE  Stuck'
  BY <1>1, <1>2, <1>9
  DEF Construct, MemOpen, MemCreate, MemSize, MtxOpen, Call, MemUnlink, Critical
<1>12. ASSUME NEW p \in Processes, Destroy(p) PROVE Stuck'
  <2>1. /\ MutexesStay(mutex) /\ mtxName' = mtxName
        /\ pc' = [pc EXCEPT ![p] = IF owner[p] THEN "mtx_destroy" ELSE "mem_unlink"]
    BY <1>12, EndsKeep DEF Destroy
  <2>2. mutex'[mtxName] = mutex[mtxName]
    BY <1>11, <2>1 DEF MutexesStay
  <2> QED
    BY <1>1, <1>2, <2>1, <2>2 DEF Critical
<1>10. CASE UNCHANGED vars
  BY <1>1, <1>2, <1>10 DEF vars, Critical
<1> QED
  BY <1>3, <1>4, <1>5, <1>6, <1>7, <1>8, <1>9, <1>10, <1>12 DEF Next, Step, Crash

LEMMA ProgressStep ==
  ASSUME Staged, Reads, Exclusive', [Next]_vars, NEW q \in Processes
  PROVE  Progress(q)'
<1> USE DEF Progress, Goes, names, maps, calls, Exclusive, TypeOK
<1> Exclusive /\ Progress(q)
  BY DEF Reads
<1>1. CASE UNCHANGED vars
  BY <1>1 DEF vars, Critical
<1>2. ASSUME NEW p \in Processes, p # q, Step(p) PROVE Progress(q)'
  <2>1. UNCHANGED <<pc[q], mem[q], writes[q], seen[q]>>
    BY <1>2
    DEF Step, Construct, MemOpen, MemCreate, MemSize, MtxOpen, MtxCreate, MtxSize,
        MtxInit, Call, Lock, Header, Body, Unlock, Destroy, MtxDestroy, MtxUnlink,
        MemUnlink, Crash, Dies
  <2>2. ASSUME ~Critical(p), mem[q] \in Objects
        PROVE  memory'[mem[q]].header = memory[mem[q]].header /\ last'[mem[q]] = last[mem[q]]
    <3>1. ASSUME MemoriesStay PROVE memory'[mem[q]] = memory[mem[q]] /\ last'[mem[q]] = last[mem[q]]
      BY <2>1, <2>2, <3>1 DEF MemoriesStay
    <3>2. CASE Dies(p) \/ MemUnlink(p)
      BY <3>1, <3>2, EndsKeep
    <3>3. CASE ~Dies(p) /\ ~MemUnlink(p)
      BY <1>2, <2>2, <3>3
      DEF Step, Construct, MemOpen, MemCreate, MemSize, MtxOpen, MtxCreate, MtxSize,
          MtxInit, Call, Lock, Header, Body, Unlock, Destroy, MtxDestroy, MtxUnlink,
          Crash, Critical
    <3> QED
      BY <3>2, <3>3
  <2>3. Critical(q) => ~Critical(p)
    BY <1>2, OneIsCritical
  <2> QED
    <3>1. mem[q] # 0 => mem[q] \in Objects
      BY Assumptions DEF Objects
    <3>2. CASE Critical(q)
      BY <2>1, <2>2, <2>3, <3>1, <3>2 DEF Critical
    <3>3. CASE ~Critical(q)
      BY <2>1, <3>3 DEF Critical
    <3> QED
      BY <3>2, <3>3
<1>3. ASSUME NEW p \in Processes, p = q, Body(p) PROVE Progress(q)'
  <2>1. mem[q] # 0 /\ pc'[q] = "unlock" /\ UNCHANGED <<mem, writes>>
    BY <1>3 DEF Body, Critical
  <2>2. CASE writes[q] # None
    BY <2>1, <2>2 DEF Critical
  <2>3. CASE writes[q] = None
    <3>1. mem[q] \in Objects /\ Critical(q)
      BY <1>3, <2>1, Assumptions DEF Objects, Critical, Body
    <3>2. Whole(mem[q])
      BY <1>3, <2>3, <3>1, OneIsCritical
      DEF Reads, Memories, Writing, Left, Critical, CriticalHolds, Body
    <3>3. seen'[q] = Shown(memory[mem[q]].header, memory[mem[q]].body) /\ UNCHANGED last
      BY <1>3, <2>3 DEF Body
    <3>4. None \notin Oversized
      BY Assumptions
    <3>5. Shown(memory[mem[q]].header, memory[mem[q]].body)
            = IF last[mem[q]] \in Oversized THEN "zeros" ELSE last[mem[q]]
      BY <3>2, <3>4 DEF Whole, Shown
    <3> QED
      BY <2>1, <3>3, <3>5 DEF Critical
  <2> QED
    BY <2>2, <2>3
<1>4. ASSUME NEW p \in Processes, p = q, Header(p) PROVE Progress(q)'
  <2>1. CASE Dies(p)
    BY <1>4, <2>1 DEF Dies, Critical
  <2>2. CASE ~Dies(p) /\ writes[q] # None
    BY <1>4, <2>2, Assumptions DEF Header, Critical, Objects
  <2>3. CASE ~Dies(p) /\ writes[q] = None
    BY <1>4, <2>3 DEF Header, Critical
  <2> QED
    BY <2>1, <2>2, <2>3
<1>5. ASSUME NEW p \in Processes, p = q, Step(p), ~Body(p), ~Header(p) PROVE Progress(q)'
  BY <1>5
  DEF Step, Construct, MemOpen, MemCreate, MemSize, MtxOpen, MtxCreate, MtxSize, MtxInit,
      Call, Lock, Unlock, Destroy, MtxDestroy, MtxUnlink, MemUnlink, Crash, Dies, Critical
<1> QED
  BY <1>1, <1>2, <1>3, <1>4, <1>5 DEF Next

LEMMA ReadsHold == Staged => (Spec => []Reads)
<1> SUFFICES ASSUME Staged PROVE Spec => []Reads
  OBVIOUS
<1>1. Init /\ Exclusive => Reads
  BY DEF Init, Each, Reads, Memories, Whole, Progress, Critical, NewMemory
<1>2. Exclusive' /\ Reads /\ [Next]_vars => Reads'
  <2> SUFFICES ASSUME Exclusive', Reads, [Next]_vars
               PROVE  (Memories /\ \A p \in Processes : Progress(p))'
    BY DEF Reads
  <2>1. \A p \in Processes : Progress(p)'
    BY ProgressStep
  <2>2. ASSUME NEW o \in Objects
        PROVE  (Whole(o) \/ (o <= memMade /\ (Writing(o) \/ Stuck \/ Left(o))))'
    <3>1. Writing(o)' => o <= memMade'
      BY DEF Writing, Exclusive, TypeOK, Objects
    <3>2. CASE Whole(o)
      BY <3>1, <3>2, WholeStep
    <3>3. CASE o <= memMade /\ (Writing(o) \/ Stuck \/ Left(o))
      <4>1. o <= memMade'
        <5>1. memMade' = memMade \/ memMade' = memMade + 1
          BY
          DEF Next, Step, Construct, MemOpen, MemCreate, MemSize, MtxOpen, MtxCreate, MtxSize,
              MtxInit, Call, Lock, Header, Body, Unlock, Destroy, MtxDestroy, MtxUnlink,
              MemUnlink, Crash, Dies, vars, names
        <5> QED
          BY <3>3, <5>1 DEF Reads, Exclusive, TypeOK, Objects
      <4>2. CASE Writing(o)
        BY <4>1, <4>2, WritingStep
      <4>3. CASE Stuck
        BY <4>1, <4>3, StuckStep
      <4>4. CASE Left(o)
        BY <3>3, <4>1, <4>4, LeftStep
      <4> QED
        BY <3>3, <4>2, <4>3, <4>4
    <3> QED
      BY <3>2, <3>3 DEF Reads, Memories
  <2> QED
    BY <2>1, <2>2 DEF Memories
<1> QED
  BY <1>1, <1>2, ExclusiveHolds, PTL DEF Spec

\* In a staged program a read hands out what was written whole last, also when
\* processes died while they wrote and whatever they left behind, with the deaths of
\* Exclusion.
THEOREM ReadsCorrect == Staged => (Spec => []ReadsLast)
<1> SUFFICES ASSUME Staged PROVE Spec => []ReadsLast
  OBVIOUS
<1>1. Reads => ReadsLast
  BY DEF Reads, Progress, ReadsLast
<1> QED
  BY <1>1, ReadsHold, PTL
-----------------------------------------------------------------------------
(* Windows. *)

Words == {"mixed", "torn", "zeros", "data", "text"}
Places == {"gone", "ready", "unmap"} \cup Windows!Making \cup Windows!Calling

LEMMA WindowsFacts ==
  /\ CSharp \subseteq Processes /\ Python \subseteq Processes /\ CSharp \cap Python = {}
  /\ Oversized \subseteq Messages
  /\ None \notin Messages /\ None \notin Processes /\ None \notin Words
  /\ Messages \cap Words = {}
BY WindowsAssumption DEF Windows!WindowsAssumption, Words

\* Who has the mutex and is in a call owns it; a copy is made by a process that has
\* the memory, and by none without the mutex that trespassed does not tell of.
Owned == \A p \in guarded : Windows!Inside(p) => holder = p
Copying == \A p \in Processes : place[p] \in {"body", "unlock"} =>
             p \in mapped /\ (p \in guarded \/ trespassed)

Storing(p) == place[p] = "body" /\ op[p] \in Messages

\* Between two calls the memory holds the last message; in a write its size is already
\* the next one's; and who has begun to read finds what it read the size of.
Halves == ~trespassed => \A p \in Processes : Storing(p) => header = op[p]
Untorn == ~spoiled /\ ~trespassed =>
  /\ newest \in (Messages \ Oversized) \cup {None} /\ body = newest
  /\ (\A p \in Processes : ~Storing(p)) => header = newest
Reading == ~spoiled /\ ~trespassed => \A p \in Processes :
  place[p] \in {"body", "unlock"} /\ op[p] \in Windows!Reads => shown[p] = newest

WinInv == Windows!TypeOK /\ Owned /\ Copying /\ Halves /\ Untorn /\ Reading

LEMMA WindowsInit == Windows!Init => WinInv
BY WindowsFacts DEF Windows!Init, WinInv, Windows!TypeOK, Owned, Copying, Halves, Untorn, Reading, Storing,
   Windows!Inside, Windows!Headers, Windows!Reads

\* What a step of one process leaves of the others.
LEMMA OneInside ==
  ASSUME WinInv, NEW p \in guarded, NEW q \in guarded, Windows!Inside(p), Windows!Inside(q)
  PROVE  p = q
BY DEF WinInv, Owned

\* While a guarded process is inside, nobody else copies unless somebody trespassed.
LEMMA NobodyElse ==
  ASSUME WinInv, ~trespassed, NEW p \in Processes, p \in guarded, Windows!Inside(p),
         NEW q \in Processes, place[q] \in {"body", "unlock"}
  PROVE  p = q
<1>1. q \in guarded /\ Windows!Inside(q)
  BY DEF WinInv, Copying, Windows!Inside
<1> QED
  BY <1>1, OneInside

LEMMA TypesStep ==
  ASSUME Windows!TypeOK, Windows!Next
  PROVE  Windows!TypeOK'
<1> USE WindowsFacts DEF Windows!TypeOK, Windows!Goes
<1>1. PICK p \in Processes :
        \/ Windows!Map(p) \/ Windows!Guard(p) \/ Windows!Destroy(p) \/ Windows!Unmap(p)
        \/ \E o \in Messages \cup Windows!Reads : Windows!Call(p, o)
        \/ Windows!Lock(p) \/ Windows!Proceeds(p)
        \/ Windows!Crash(p)
  BY DEF Windows!Next
<1>2. ASSUME Windows!Dies(p) PROVE Windows!TypeOK'
  BY <1>2 DEF Windows!Dies, Windows!Unmapped, Windows!Headers, Windows!memory
<1>3. CASE Windows!Map(p) \/ Windows!Guard(p)
  BY <1>3 DEF Windows!Map, Windows!Guard, Windows!Making, Windows!memory, Windows!calls, Windows!history
<1>4. CASE Windows!Destroy(p)
  BY <1>4 DEF Windows!Destroy, Windows!Unguarded, Windows!memory, Windows!calls, Windows!history
<1>5. CASE Windows!Unmap(p)
  BY <1>5 DEF Windows!Unmap, Windows!Unmapped, Windows!memory, Windows!calls, Windows!history, Windows!Headers
<1>6. ASSUME NEW o \in Messages \cup Windows!Reads, Windows!Call(p, o) PROVE Windows!TypeOK'
  BY <1>6 DEF Windows!Call, Windows!Calling, Windows!Headers, Windows!kernel, Windows!memory, Windows!history
<1>7. CASE Windows!Lock(p)
  BY <1>7 DEF Windows!Lock, Windows!Throws, Windows!Calling, Windows!calls, Windows!memory, Windows!history
<1>8. CASE Windows!Header(p)
  <2>1. CASE p \notin mapped
    BY <1>2, <1>8, <2>1 DEF Windows!Header
  <2>2. CASE p \in mapped
    BY <1>8, <2>2 DEF Windows!Header, Windows!Size, Windows!TooLong, Windows!Calling, Windows!Headers, Windows!kernel
  <2> QED
    BY <2>1, <2>2
<1>9. CASE Windows!WriteBody(p)
  BY <1>9 DEF Windows!WriteBody, Windows!Bytes, Windows!Throws, Windows!Calling, Windows!kernel, Windows!calls
<1>10. CASE Windows!ReadBody(p)
  <2>1. Windows!Shown(p, shown[p], body) \in Windows!Headers \cup {"torn", "zeros"}
    BY DEF Windows!Shown, Windows!TooLong, Windows!Headers
  <2> QED
    BY <1>10, <2>1 DEF Windows!ReadBody, Windows!Throws, Windows!Calling, Windows!Headers, Windows!kernel, Windows!memory,
       Windows!history
<1>11. CASE Windows!Unlock(p)
  BY <1>11 DEF Windows!Unlock, Windows!Headers, Windows!memory, Windows!history
<1>12. CASE Windows!Return(p)
  BY <1>12 DEF Windows!Return, Windows!Headers, Windows!kernel, Windows!memory, Windows!history
<1> QED
  BY <1>1, <1>2, <1>3, <1>4, <1>5, <1>6, <1>7, <1>8, <1>9, <1>10, <1>11, <1>12
  DEF Windows!Proceeds, Windows!Crash
\* A step in which p neither copies nor takes or leaves the mutex, and the memory
\* stays.
LEMMA Elsewhere ==
  ASSUME WinInv, Windows!TypeOK', NEW p \in Processes,
         \A q \in Processes \ {p} : place'[q] = place[q] /\ op'[q] = op[q] /\ shown'[q] = shown[q]
                                   /\ (q \in guarded' <=> q \in guarded)
                                   /\ (q \in mapped' <=> q \in mapped),
         ~Windows!Inside(p)', ~Storing(p), UNCHANGED <<body, newest, trespassed, header>>,
         UNCHANGED spoiled,
         \A q \in guarded' \ {p} : holder = q => holder' = q
  PROVE  WinInv'
<1>1. Owned' /\ Copying'
  BY DEF WinInv, Windows!TypeOK, Owned, Copying, Windows!Inside
<1>2. Halves' /\ Untorn' /\ Reading'
  BY DEF WinInv, Windows!TypeOK, Halves, Untorn, Reading, Storing, Windows!Inside
<1> QED
  BY <1>1, <1>2 DEF WinInv
\* What happens to the others in a step of p.
Others(p) ==
  \A q \in Processes \ {p} :
    /\ place'[q] = place[q] /\ op'[q] = op[q] /\ shown'[q] = shown[q]
    /\ q \in guarded' <=> q \in guarded
    /\ q \in mapped' => q \in mapped
    /\ q \in guarded' /\ holder = q => holder' = q

\* p leaves the memory, in the middle of a write or not.
LEMMA Leaves ==
  ASSUME WinInv, Windows!TypeOK', NEW p \in Processes, NEW writing \in BOOLEAN,
         Windows!Unmapped(p, writing), Storing(p) => writing, place'[p] = "gone", Others(p)
  PROVE  WinInv'
<1>1. Owned'
  BY DEF WinInv, Windows!TypeOK, Owned, Windows!Inside, Others
<1>2. Copying'
  BY DEF WinInv, Windows!TypeOK, Copying, Others, Windows!Unmapped
<1>3. CASE mapped' = {}
  <2>1. \A q \in Processes : place'[q] \notin {"body", "unlock"}
    BY <1>2, <1>3 DEF Copying
  <2>2. header' = None /\ body' = None /\ newest' = None
    BY <1>3 DEF Windows!Unmapped
  <2> QED
    BY <1>1, <1>2, <2>1, <2>2, WindowsFacts DEF WinInv, Halves, Untorn, Reading, Storing
<1>4. CASE mapped' # {}
  <2>1. UNCHANGED <<header, body, newest, trespassed>> /\ spoiled' = (spoiled \/ writing)
    BY <1>4 DEF Windows!Unmapped, Windows!memory
  <2>2. \A q \in Processes : place'[q] \in {"body", "unlock"} => q # p /\ place[q] = place'[q]
                            /\ op'[q] = op[q] /\ shown'[q] = shown[q]
    BY DEF Others
  <2>3. Halves'
    BY <2>1, <2>2 DEF WinInv, Halves, Storing
  <2>4. Untorn'
    BY <2>1, <2>2 DEF WinInv, Untorn, Storing, Others
  <2>5. Reading'
    BY <2>1, <2>2 DEF WinInv, Reading
  <2> QED
    BY <1>1, <1>2, <2>3, <2>4, <2>5 DEF WinInv
<1> QED
  BY <1>3, <1>4

LEMMA DiesStep ==
  ASSUME WinInv, Windows!TypeOK', NEW p \in Processes, Windows!Dies(p)
  PROVE  WinInv'
<1>1. place' = [place EXCEPT ![p] = "gone"] /\ op' = [op EXCEPT ![p] = None]
      /\ shown' = [shown EXCEPT ![p] = None] /\ guarded' = guarded \ {p}
      /\ Windows!Unmapped(p, Storing(p))
  BY DEF Windows!Dies, Windows!Goes, Storing
<1>2. mapped' = mapped \ {p}
  BY <1>1 DEF Windows!Unmapped
<1>3. \A q \in Processes \ {p} : q \in guarded' /\ holder = q => holder' = q
  BY WindowsFacts DEF Windows!Dies, Windows!Abandoned
<1>4. Others(p) /\ place'[p] = "gone"
  BY <1>1, <1>2, <1>3 DEF WinInv, Windows!TypeOK, Others
<1> QED
  BY <1>1, <1>4, Leaves DEF Storing

\* p does nothing that the memory is touched by.
Apart(p) ==
  \/ Windows!Map(p) \/ Windows!Guard(p) \/ Windows!Destroy(p) \/ Windows!Unlock(p) \/ Windows!Return(p)
  \/ \E o \in Messages \cup Windows!Reads : Windows!Call(p, o)

LEMMA ApartStep ==
  ASSUME WinInv, Windows!TypeOK', NEW p \in Processes, Apart(p)
  PROVE  WinInv'
<1> USE DEF WinInv, Windows!TypeOK, Windows!Goes, Windows!Inside, Storing, Windows!kernel, Windows!memory,
        Windows!history, Windows!calls
<1>1. CASE Windows!Map(p)
  BY <1>1, Elsewhere DEF Windows!Map
<1>2. CASE Windows!Guard(p)
  BY <1>2, Elsewhere DEF Windows!Guard
<1>3. CASE Windows!Destroy(p)
  BY <1>3, Elsewhere DEF Windows!Destroy, Windows!Unguarded
<1>4. CASE Windows!Unlock(p)
  BY <1>4, Elsewhere DEF Windows!Unlock
<1>5. CASE Windows!Return(p)
  BY <1>5, Elsewhere DEF Windows!Return
<1>6. ASSUME NEW o \in Messages \cup Windows!Reads, Windows!Call(p, o) PROVE WinInv'
  BY <1>6, Elsewhere DEF Windows!Call
<1> QED
  BY <1>1, <1>2, <1>3, <1>4, <1>5, <1>6 DEF Apart
LEMMA UnmapStep ==
  ASSUME WinInv, Windows!TypeOK', NEW p \in Processes, Windows!Unmap(p)
  PROVE  WinInv'
<1>1. /\ place[p] = "unmap" /\ place' = [place EXCEPT ![p] = "gone"] /\ Windows!Unmapped(p, FALSE)
      /\ UNCHANGED <<guarded, holder, op, shown>>
  BY DEF Windows!Unmap, Windows!Goes, Windows!calls
<1>2. Others(p) /\ place'[p] = "gone" /\ ~Storing(p)
  BY <1>1 DEF WinInv, Windows!TypeOK, Others, Windows!Unmapped, Storing
<1> QED
  BY <1>1, <1>2, Leaves

LEMMA LockStep ==
  ASSUME WinInv, Windows!TypeOK', NEW p \in Processes, Windows!Lock(p)
  PROVE  WinInv'
<1>1. /\ place[p] = "lock" /\ place' = [place EXCEPT ![p] = place'[p]]
      /\ place'[p] \in {"header", "caught", "ready"}
      /\ UNCHANGED <<mapped, guarded, header, body, op, shown, newest, spoiled, trespassed>>
  BY DEF WinInv, Windows!TypeOK, Windows!Lock, Windows!Throws, Windows!Goes, Windows!memory, Windows!calls,
     Windows!history
<1>2. Owned'
  <2>1. CASE p \in guarded
    <3>1. holder' = p /\ holder \in {None, p}
      BY <2>1 DEF Windows!Lock, Windows!Free
    <3> QED
      BY <1>1, <3>1, WindowsFacts DEF WinInv, Windows!TypeOK, Owned, Windows!Inside
  <2>2. CASE p \notin guarded
    <3>1. holder' = holder
      BY <2>2 DEF Windows!Lock
    <3> QED
      BY <1>1, <2>2, <3>1 DEF WinInv, Windows!TypeOK, Owned, Windows!Inside
  <2> QED
    BY <2>1, <2>2
<1>3. \A q \in Processes : place'[q] \in {"body", "unlock"} <=> place[q] \in {"body", "unlock"}
  BY <1>1 DEF WinInv, Windows!TypeOK
<1>4. \A q \in Processes : place[q] \in {"body", "unlock"} => place'[q] = place[q]
  BY <1>1 DEF WinInv, Windows!TypeOK
<1>5. \A q \in Processes : Storing(q)' <=> Storing(q)
  BY <1>1, <1>3, <1>4 DEF Storing
<1> QED
  BY <1>1, <1>2, <1>3, <1>4, <1>5 DEF WinInv, Copying, Halves, Untorn, Reading

\* The place p has come to is all that changed of who is where.
Advances(p, to) ==
  /\ place' = [place EXCEPT ![p] = to] /\ to \in {"header", "body", "unlock", "caught", "ready"}
  /\ UNCHANGED <<mapped, guarded, holder, op>>

LEMMA AdvanceOwned ==
  ASSUME WinInv, Windows!TypeOK', NEW p \in Processes, NEW to, Advances(p, to), Windows!Inside(p)
  PROVE  Owned'
BY DEF WinInv, Windows!TypeOK, Owned, Windows!Inside, Advances

LEMMA HeaderStep ==
  ASSUME WinInv, Windows!TypeOK', NEW p \in Processes, Windows!Header(p), p \in mapped
  PROVE  WinInv'
<1>1. /\ place[p] = "header" /\ Advances(p, "body") /\ trespassed' = (trespassed \/ p \notin guarded)
      /\ UNCHANGED <<body, newest, spoiled>>
      /\ IF op[p] \in Messages THEN header' = op[p] /\ UNCHANGED shown
                               ELSE shown' = [shown EXCEPT ![p] = header] /\ UNCHANGED header
  BY DEF Windows!Header, Windows!Goes, Windows!Size, Windows!kernel, Advances
<1>2. Owned'
  BY <1>1, AdvanceOwned DEF Windows!Inside
<1>3. Copying'
  BY <1>1 DEF WinInv, Windows!TypeOK, Copying, Advances
<1>4. CASE trespassed'
  BY <1>2, <1>3, <1>4 DEF WinInv, Halves, Untorn, Reading
<1>5. CASE ~trespassed'
  <2>1. ~trespassed /\ p \in guarded
    BY <1>1, <1>5
  <2>2. \A q \in Processes : place[q] \in {"body", "unlock"} => q = p
    BY <2>1, <1>1, NobodyElse DEF Windows!Inside
  <2>3. \A q \in Processes : place[q] \notin {"body", "unlock"}
    BY <1>1, <2>2
  <2>4. \A q \in Processes : place'[q] \in {"body", "unlock"} => q = p
    BY <1>1, <2>3 DEF Advances, WinInv, Windows!TypeOK
  <2>5. place'[p] = "body" /\ op' = op
    BY <1>1 DEF Advances, WinInv, Windows!TypeOK
  <2>6. \A q \in Processes : ~Storing(q)
    BY <2>3 DEF Storing
  <2>7. Halves'
    BY <1>1, <2>4, <2>5 DEF Halves, Storing
  <2>8. Untorn'
    BY <1>1, <2>1, <2>5, <2>6 DEF WinInv, Untorn, Storing
  <2>9. Reading'
    <3> SUFFICES ASSUME ~spoiled, op[p] \in Windows!Reads PROVE shown'[p] = newest
      BY <1>1, <2>4, <2>5 DEF Reading
    <3>1. op[p] \notin Messages
      BY WindowsFacts DEF Windows!Reads, Words
    <3>2. header = newest
      BY <2>1, <2>6 DEF WinInv, Untorn
    <3> QED
      BY <1>1, <3>1, <3>2 DEF WinInv, Windows!TypeOK
  <2> QED
    BY <1>2, <1>3, <2>7, <2>8, <2>9 DEF WinInv
<1> QED
  BY <1>4, <1>5

LEMMA WriteStep ==
  ASSUME WinInv, Windows!TypeOK', NEW p \in Processes, Windows!WriteBody(p)
  PROVE  WinInv'
<1>1. /\ place[p] = "body" /\ op[p] \in Messages
      /\ Advances(p, place'[p]) /\ place'[p] \in {"unlock", "caught", "ready"}
      /\ UNCHANGED <<header, shown, trespassed>>
      /\ spoiled' = (op[p] \in Oversized)
      /\ op[p] \notin Oversized => body' = op[p] /\ newest' = op[p]
  BY DEF Windows!WriteBody, Windows!Goes, Windows!Throws, Windows!Bytes, Windows!kernel, Windows!calls, Advances,
     WinInv, Windows!TypeOK
<1>2. Owned'
  BY <1>1, AdvanceOwned DEF Windows!Inside
<1>3. Copying'
  BY <1>1 DEF WinInv, Windows!TypeOK, Copying, Advances
<1>4. CASE trespassed
  BY <1>1, <1>2, <1>3, <1>4 DEF WinInv, Halves, Untorn, Reading
<1>5. CASE ~trespassed
  <2>1. p \in guarded
    BY <1>1, <1>5 DEF WinInv, Copying
  <2>2. \A q \in Processes : place[q] \in {"body", "unlock"} => q = p
    BY <1>1, <1>5, <2>1, NobodyElse DEF Windows!Inside
  <2>3. \A q \in Processes : place'[q] \in {"body", "unlock"} => q = p
    BY <1>1, <2>2 DEF Advances, WinInv, Windows!TypeOK
  <2>4. \A q \in Processes : ~Storing(q)' /\ op' = op /\ place'[p] # "body"
    BY <1>1, <2>3 DEF Storing, Advances
  <2>5. header = op[p]
    BY <1>1, <1>5 DEF WinInv, Halves, Storing
  <2>6. Halves'
    BY <2>4 DEF Halves
  <2>7. Untorn'
    BY <1>1, <2>5 DEF Untorn
  <2>8. Reading'
    BY <1>1, <2>3, <2>4, WindowsFacts DEF Reading, Windows!Reads, Words
  <2> QED
    BY <1>2, <1>3, <2>6, <2>7, <2>8 DEF WinInv
<1> QED
  BY <1>4, <1>5

LEMMA ReadStep ==
  ASSUME WinInv, Windows!TypeOK', NEW p \in Processes, Windows!ReadBody(p)
  PROVE  WinInv'
<1>1. /\ place[p] = "body" /\ op[p] \in Windows!Reads
      /\ Advances(p, place'[p]) /\ place'[p] \in {"unlock", "caught", "ready"}
      /\ UNCHANGED <<header, body, newest, spoiled, trespassed>>
      /\ \A q \in Processes \ {p} : shown'[q] = shown[q]
      /\ place'[p] = "unlock" => shown'[p] = Windows!Shown(p, shown[p], body)
  BY DEF Windows!ReadBody, Windows!Goes, Windows!Throws, Windows!kernel, Windows!memory, Windows!history, Advances,
     WinInv, Windows!TypeOK
<1>2. Owned'
  BY <1>1, AdvanceOwned DEF Windows!Inside
<1>3. Copying'
  BY <1>1 DEF WinInv, Windows!TypeOK, Copying, Advances
<1>4. op' = op /\ \A q \in Processes \ {p} : place'[q] = place[q]
  BY <1>1 DEF Advances, WinInv, Windows!TypeOK
<1>5. \A q \in Processes : Storing(q)' <=> Storing(q)
  BY <1>1, <1>4, WindowsFacts DEF Storing, Windows!Reads, Words
<1>6. Halves' /\ Untorn'
  <2>1. Halves'
    BY <1>1, <1>4, <1>5 DEF WinInv, Halves
  <2>2. Untorn'
    BY <1>1, <1>5 DEF WinInv, Untorn
  <2> QED
    BY <2>1, <2>2
<1>7. Reading'
  <2>1. ASSUME ~spoiled, ~trespassed, place'[p] = "unlock" PROVE shown'[p] = newest
    <3>1. shown[p] = newest /\ newest \in (Messages \ Oversized) \cup {None} /\ body = newest
      BY <1>1, <2>1 DEF WinInv, Reading, Untorn
    <3>2. Windows!Shown(p, newest, newest) = newest
      BY <3>1, WindowsFacts DEF Windows!Shown, Windows!TooLong, Words
    <3> QED
      BY <1>1, <2>1, <3>1, <3>2
  <2> QED
    BY <1>1, <1>4, <2>1 DEF WinInv, Reading
<1> QED
  BY <1>2, <1>3, <1>6, <1>7 DEF WinInv

LEMMA WindowsStep == WinInv /\ [Windows!Next]_(Windows!vars) => WinInv'
<1> SUFFICES ASSUME WinInv, [Windows!Next]_(Windows!vars) PROVE WinInv'
  OBVIOUS
<1>1. CASE UNCHANGED Windows!vars
  BY <1>1 DEF Windows!vars, Windows!kernel, Windows!memory, Windows!calls, Windows!history, WinInv, Windows!TypeOK,
     Owned, Copying, Halves, Untorn, Reading, Storing, Windows!Inside
<1>2. CASE Windows!Next
  <2>1. Windows!TypeOK'
    BY <1>2, TypesStep DEF WinInv
  <2>2. PICK p \in Processes : \/ Apart(p) \/ Windows!Unmap(p) \/ Windows!Lock(p) \/ Windows!Header(p)
                              \/ Windows!WriteBody(p) \/ Windows!ReadBody(p) \/ Windows!Dies(p)
    BY <1>2 DEF Windows!Next, Windows!Proceeds, Windows!Crash, Apart
  <2>3. CASE Windows!Header(p)
    BY <2>1, <2>3, HeaderStep, DiesStep DEF Windows!Header
  <2> QED
    BY <2>1, <2>2, <2>3, ApartStep, UnmapStep, LockStep, WriteStep, ReadStep, DiesStep
<1> QED
  BY <1>1, <1>2

\* On Windows no two processes that got the mutex are in a call at once, whatever died
\* or threw before.  A read by such a process hands out the message last written whole,
\* but not between a write that ended half way and the next whole one, nor once a
\* process without the mutex has used the memory.
THEOREM WindowsCorrect == Windows!Spec => [](Windows!TypeOK /\ WindowsReadsLast)
<1>1. WinInv => Windows!TypeOK /\ WindowsReadsLast
  BY OneInside DEF WinInv, Windows!TypeOK, Owned, Reading, WindowsReadsLast, Windows!ReadsLast, Windows!MutualExclusion
<1> QED
  BY <1>1, WindowsInit, WindowsStep, PTL DEF Windows!Spec

-----------------------------------------------------------------------------
(* Serial ports. *)

\* The lowest free descriptor is free.
LEMMA LowestIsOne ==
  ASSUME NEW S \in SUBSET Nat, S # {}
  PROVE  Serial!Min(S) \in S
<1> DEFINE less == {p \in Nat \X Nat : p[1] < p[2]}
<1>1. IsWellFoundedOn(less, Nat)
  BY NatLessThanWellFounded DEF OpToRel
<1>2. PICK x \in S : \A y \in S : ~(<<y, x>> \in less)
  BY <1>1, WFMin
<1>3. ASSUME NEW y \in S PROVE x <= y
  <2>1. x \in Nat /\ y \in Nat
    OBVIOUS
  <2>2. <<y, x>> \in Nat \X Nat /\ <<y, x>>[1] = y /\ <<y, x>>[2] = x
    BY <2>1
  <2>3. ~(y < x)
    BY <1>2, <2>2
  <2> QED
    BY <2>1, <2>3
<1> QED
  BY <1>3 DEF Serial!Min

\* What is not wrecked: each object that is whole has the descriptor the table says,
\* open and locked; every descriptor of a port is that of such an object, or one an
\* open() left without a lock; and no such object reached anything else.
PortTypes ==
  /\ alive \subseteq SerialPorts /\ isOpen \in [SerialPorts -> BOOLEAN]
  /\ cport \in [SerialPorts -> Serial!Fds \cup {-1}]
  /\ descriptor \in [Serial!Fds -> SerialPorts \cup {"free", "stdin", "file"}]
  /\ \A d \in locks \cup left : d \in Serial!Fds /\ descriptor[d] \in SerialPorts
  /\ strayed \in BOOLEAN /\ wrecked \in BOOLEAN

Has(o) == cport[o] \in Serial!Fds /\ cport[o] \in locks /\ descriptor[cport[o]] = o

WholeHave == \A o \in Serial!Whole : Has(o)

OpenDescriptors == \A d \in Serial!Fds : descriptor[d] \in SerialPorts =>
  \/ d \in left /\ d \notin locks
  \/ descriptor[d] \in Serial!Whole /\ cport[descriptor[d]] = d

PortsSound == WholeHave /\ OpenDescriptors /\ ~strayed

PortInv == PortTypes /\ (wrecked \/ PortsSound)

LEMMA SerialFacts ==
  /\ Serial!Ports = SerialPorts
  /\ \A o \in SerialPorts : o # "free" /\ o # "stdin" /\ o # "file" /\ [x \in SerialPorts |-> x][o] = o
  /\ Serial!Fds \subseteq Nat /\ MaxFd \in Nat /\ 0 \in Serial!Fds /\ -1 \notin Serial!Fds
<1>1. Serial!Ports = SerialPorts
  BY DEF Serial!Ports
<1> QED
  BY <1>1, PortsAssumption DEF Serial!SerialPortAssumption, Serial!Fds

LEMMA PortInit == Serial!Init => PortInv
BY SerialFacts DEF Serial!Init, PortInv, PortsSound, PortTypes, Has, WholeHave, OpenDescriptors,
   Serial!Whole

LEMMA OpenFileGives ==
  ASSUME PortTypes, Serial!OpenFile
  PROVE  \E m \in Serial!Fds : descriptor[m] = "free" /\ descriptor' = [descriptor EXCEPT ![m] = "file"]
<1> DEFINE free == {d \in Serial!Fds : descriptor[d] = "free"}
<1>1. free # {} /\ descriptor' = [descriptor EXCEPT ![Serial!Min(free)] = "file"]
  BY DEF Serial!OpenFile
<1>2. Serial!Min(free) \in free
  BY <1>1, SerialFacts, LowestIsOne
<1> QED
  BY <1>1, <1>2

LEMMA FileStep ==
  ASSUME PortInv, Serial!OpenFile \/ \E d \in Serial!Fds : Serial!CloseFile(d)
  PROVE  PortInv'
<1> USE DEF Serial!object, Serial!history, PortInv, PortsSound, PortTypes, Has, WholeHave,
        OpenDescriptors, Serial!Whole
<1>1. ASSUME Serial!OpenFile PROVE PortInv'
  <2>1. PICK m \in Serial!Fds : descriptor[m] = "free" /\ descriptor' = [descriptor EXCEPT ![m] = "file"]
    BY <1>1, OpenFileGives
  <2>2. descriptor' = [descriptor EXCEPT ![m] = "file"]
    BY <2>1
  <2>3. UNCHANGED <<alive, isOpen, cport, locks, parted, left, strayed, wrecked>>
    BY <1>1 DEF Serial!OpenFile
  <2>4. \A d \in Serial!Fds : descriptor'[d] = IF d = m THEN "file" ELSE descriptor[d]
    BY <2>2
  <2>5. PortTypes'
    BY <2>1, <2>2, <2>3, <2>4, SerialFacts
  <2>6. PortsSound => PortsSound'
    BY <2>1, <2>3, <2>4, SerialFacts
  <2> QED
    BY <2>3, <2>5, <2>6
<1>2. ASSUME NEW d \in Serial!Fds, Serial!CloseFile(d) PROVE PortInv'
  BY <1>2, SerialFacts DEF Serial!CloseFile
<1> QED
  BY <1>1, <1>2

\* What closing the descriptor the table has of a port leaves: nothing of this port
\* but what was left, and everything of the others.
Rest(files, held, rest) ==
  /\ files \in [Serial!Fds -> SerialPorts \cup {"free", "stdin", "file"}]
  /\ \A d \in held \cup rest : d \in Serial!Fds /\ files[d] \in SerialPorts

OthersHold(o, files, held, rest) ==
  /\ \A x \in Serial!Whole : x # o => cport[x] \in Serial!Fds /\ cport[x] \in held /\ files[cport[x]] = x
  /\ \A d \in Serial!Fds : files[d] \in SerialPorts =>
       \/ d \in rest /\ d \notin held
       \/ files[d] \in Serial!Whole /\ files[d] # o /\ cport[files[d]] = d

LEMMA CloseTypes ==
  ASSUME PortTypes, NEW o \in SerialPorts
  PROVE  Rest(Serial!Closed(o), locks \ {cport[o]}, left \ {cport[o]})
<1> DEFINE files == Serial!Closed(o)
<1>1. /\ files \in [Serial!Fds -> SerialPorts \cup {"free", "stdin", "file"}]
      /\ \A d \in Serial!Fds : d # cport[o] => files[d] = descriptor[d]
  BY SerialFacts DEF Serial!Closed, PortTypes
<1> HIDE DEF files
<1> QED
  BY <1>1 DEF Rest, PortTypes, files

LEMMA CloseOthers ==
  ASSUME PortTypes, PortsSound, NEW o \in SerialPorts, o \in Serial!Whole \/ ~Serial!IsOther(o)
  PROVE  OthersHold(o, Serial!Closed(o), locks \ {cport[o]}, left \ {cport[o]}) /\ ~Serial!IsOther(o)
<1> DEFINE files == Serial!Closed(o)
<1>1. ~Serial!IsOther(o)
  BY DEF Serial!IsOther, PortsSound, WholeHave, Has
<1>2. cport[o] \in Serial!Fds => descriptor[cport[o]] \in {o, "free"}
  BY <1>1 DEF Serial!IsOther
<1>3. \A d \in Serial!Fds : files[d] = IF d = cport[o] THEN "free" ELSE descriptor[d]
  BY SerialFacts DEF Serial!Closed, PortTypes
<1>4. ASSUME NEW x \in Serial!Whole, x # o
      PROVE  cport[x] \in Serial!Fds /\ cport[x] \in locks \ {cport[o]} /\ files[cport[x]] = x
  <2>1. cport[x] \in Serial!Fds /\ cport[x] \in locks /\ descriptor[cport[x]] = x /\ x \in SerialPorts
    BY DEF PortsSound, WholeHave, Has, Serial!Whole, PortTypes
  <2>2. cport[x] # cport[o]
    BY <1>2, <1>4, <2>1, SerialFacts
  <2> HIDE DEF files
  <2> QED
    BY <1>3, <2>1, <2>2
<1>5. ASSUME NEW d \in Serial!Fds, files[d] \in SerialPorts
      PROVE  \/ d \in left \ {cport[o]} /\ d \notin locks \ {cport[o]}
             \/ files[d] \in Serial!Whole /\ files[d] # o /\ cport[files[d]] = d
  <2> HIDE DEF files
  <2>1. d # cport[o] /\ files[d] = descriptor[d]
    BY <1>3, <1>5, SerialFacts
  <2> QED
    BY <1>5, <2>1 DEF PortsSound, OpenDescriptors
<1> QED
  BY <1>1, <1>4, <1>5 DEF OthersHold

\* An object that does not close anything, and was not open.
LEMMA NothingClosed ==
  ASSUME PortTypes, PortsSound, NEW o \in SerialPorts, ~isOpen[o]
  PROVE  OthersHold(o, descriptor, locks, left)
BY DEF PortTypes, PortsSound, WholeHave, OpenDescriptors, Has, OthersHold, Serial!Whole

\* close(), the destructor and an open() that fails leave what closing leaves.
LEMMA LeavesOthers ==
  ASSUME NEW o \in SerialPorts, NEW files, NEW held, NEW rest,
         OthersHold(o, files, held, rest), ~strayed', Serial!Whole' = Serial!Whole \ {o},
         descriptor' = files, locks' = held, left' = rest,
         \A x \in SerialPorts : x # o => cport'[x] = cport[x],
         Serial!Whole \subseteq SerialPorts
  PROVE  PortsSound'
BY DEF OthersHold, PortsSound, WholeHave, OpenDescriptors, Has

LEMMA ClosePortStep ==
  ASSUME PortInv, NEW o \in SerialPorts, Serial!Close(o)
  PROVE  PortInv'
<1>1. /\ descriptor' = Serial!Closed(o) /\ locks' = locks \ {cport[o]} /\ left' = left \ {cport[o]}
      /\ Serial!Reached(o, Serial!IsOther(o), TRUE)
      /\ parted' = (IF isOpen[o] THEN parted \cup {o} ELSE parted)
      /\ UNCHANGED <<alive, isOpen, cport, foreign>>
  BY SerialFacts DEF Serial!Close, Serial!CloseComport, Serial!object
<1>2. PortTypes'
  BY <1>1, CloseTypes DEF Rest, PortInv, PortTypes, Serial!Reached
<1>3. ASSUME ~wrecked' PROVE PortsSound'
  <2>1. PortsSound /\ (o \in Serial!Whole \/ ~Serial!IsOther(o))
    BY <1>1, <1>3 DEF Serial!Reached, PortInv
  <2>2. ~strayed'
    BY <1>1, <2>1, CloseOthers DEF Serial!Reached, PortInv, PortsSound
  <2>3. Serial!Whole' = Serial!Whole \ {o} /\ Serial!Whole \subseteq SerialPorts
    BY <1>1 DEF Serial!Whole, PortInv, PortTypes
  <2> QED
    BY <1>1, <2>1, <2>2, <2>3, CloseOthers, LeavesOthers DEF PortInv
<1> QED
  BY <1>2, <1>3 DEF PortInv

LEMMA DestroyStep ==
  ASSUME PortInv, NEW o \in SerialPorts, Serial!Destroy(o)
  PROVE  PortInv'
<1>1. /\ alive' = alive \ {o} /\ isOpen' = [isOpen EXCEPT ![o] = FALSE] /\ cport' = cport
      /\ parted' = parted \ {o}
  BY DEF Serial!Destroy
<1>2. Serial!Whole' = Serial!Whole \ {o} /\ Serial!Whole \subseteq SerialPorts
  BY <1>1 DEF Serial!Whole, PortInv, PortTypes
<1>3. CASE isOpen[o]
  <2>1. /\ descriptor' = Serial!Closed(o) /\ locks' = locks \ {cport[o]} /\ left' = left \ {cport[o]}
        /\ Serial!Reached(o, Serial!IsOther(o), TRUE)
    BY <1>3, SerialFacts DEF Serial!Destroy, Serial!Destroyed, Serial!CloseComport
  <2>2. PortTypes'
    BY <1>1, <2>1, CloseTypes DEF Rest, PortInv, PortTypes, Serial!Reached
  <2>3. ASSUME ~wrecked' PROVE PortsSound'
    <3>1. PortsSound /\ (o \in Serial!Whole \/ ~Serial!IsOther(o))
      BY <2>1, <2>3 DEF Serial!Reached, PortInv
    <3>2. ~strayed'
      BY <2>1, <3>1, CloseOthers DEF Serial!Reached, PortInv, PortsSound
    <3> QED
      BY <1>1, <1>2, <2>1, <3>1, <3>2, CloseOthers, LeavesOthers DEF PortInv
  <2> QED
    BY <2>2, <2>3 DEF PortInv
<1>4. CASE ~isOpen[o]
  <2>1. UNCHANGED <<descriptor, locks, left, strayed, wrecked>>
    BY <1>4 DEF Serial!Destroy, Serial!Destroyed, Serial!process
  <2>2. PortTypes'
    BY <1>1, <2>1 DEF PortInv, PortTypes
  <2>3. ASSUME ~wrecked' PROVE PortsSound'
    <3>1. PortsSound /\ ~strayed'
      BY <2>1, <2>3 DEF PortInv, PortsSound
    <3> QED
      BY <1>1, <1>2, <1>4, <2>1, <3>1, NothingClosed, LeavesOthers DEF PortInv
  <2> QED
    BY <2>2, <2>3 DEF PortInv
<1> QED
  BY <1>3, <1>4

\* What open() comes to: what closing left, and then nothing, a descriptor left, or
\* the port.
OpenGives(o, m, files, held, rest) ==
  \/ /\ cport' = [cport EXCEPT ![o] = -1] \/ cport' = [cport EXCEPT ![o] = m]
     /\ descriptor' = files /\ locks' = held /\ left' = rest
     /\ isOpen' = isOpen /\ parted' = (IF isOpen[o] THEN parted \cup {o} ELSE parted)
  \/ /\ cport' = [cport EXCEPT ![o] = m]
     /\ descriptor' = [files EXCEPT ![m] = o] /\ locks' = held /\ left' = rest \cup {m}
     /\ isOpen' = isOpen /\ parted' = (IF isOpen[o] THEN parted \cup {o} ELSE parted)
  \/ /\ cport' = [cport EXCEPT ![o] = m]
     /\ descriptor' = [files EXCEPT ![m] = o] /\ locks' = held \cup {m} /\ left' = rest
     /\ isOpen' = [isOpen EXCEPT ![o] = TRUE] /\ parted' = parted \ {o}

LEMMA OpenSound ==
  ASSUME NEW o \in SerialPorts, NEW files, NEW held, NEW rest, NEW m \in Serial!Fds,
         PortTypes, PortsSound, o \in alive, alive' = alive, ~strayed',
         Rest(files, held, rest), OthersHold(o, files, held, rest), files[m] = "free",
         OpenGives(o, m, files, held, rest)
  PROVE  PortsSound'
<1>1. m \notin held /\ m \notin rest
  BY SerialFacts DEF Rest
<1>2. Serial!Whole \subseteq SerialPorts
  BY DEF Serial!Whole, PortTypes
<1>3. \A x \in SerialPorts : x # o => cport'[x] = cport[x]
  BY DEF OpenGives, PortTypes
<1>4. CASE /\ descriptor' = files /\ locks' = held /\ left' = rest
           /\ isOpen' = isOpen /\ parted' = (IF isOpen[o] THEN parted \cup {o} ELSE parted)
  <2>1. Serial!Whole' = Serial!Whole \ {o}
    BY <1>4 DEF Serial!Whole
  <2> QED
    BY <1>2, <1>3, <1>4, <2>1, LeavesOthers
<1>5. ASSUME descriptor' = [files EXCEPT ![m] = o]
      PROVE  \A d \in Serial!Fds : descriptor'[d] = IF d = m THEN o ELSE files[d]
  BY <1>5 DEF Rest
<1>6. CASE /\ descriptor' = [files EXCEPT ![m] = o] /\ locks' = held /\ left' = rest \cup {m}
           /\ isOpen' = isOpen /\ parted' = (IF isOpen[o] THEN parted \cup {o} ELSE parted)
  <2>1. Serial!Whole' = Serial!Whole \ {o}
    BY <1>6 DEF Serial!Whole
  <2>2. WholeHave'
    BY <1>1, <1>2, <1>3, <1>5, <1>6, <2>1, SerialFacts DEF WholeHave, Has, OthersHold
  <2>3. OpenDescriptors'
    BY <1>1, <1>2, <1>3, <1>5, <1>6, <2>1, SerialFacts DEF OpenDescriptors, OthersHold
  <2> QED
    BY <2>2, <2>3 DEF PortsSound
<1>7. CASE /\ cport' = [cport EXCEPT ![o] = m]
           /\ descriptor' = [files EXCEPT ![m] = o] /\ locks' = held \cup {m} /\ left' = rest
           /\ isOpen' = [isOpen EXCEPT ![o] = TRUE] /\ parted' = parted \ {o}
  <2>1. Serial!Whole' = Serial!Whole \cup {o}
    BY <1>7 DEF Serial!Whole, PortTypes
  <2>2. cport'[o] = m
    BY <1>7 DEF PortTypes
  <2>3. WholeHave'
    BY <1>1, <1>2, <1>3, <1>5, <1>7, <2>1, <2>2, SerialFacts DEF WholeHave, Has, OthersHold
  <2>4. OpenDescriptors'
    BY <1>1, <1>2, <1>3, <1>5, <1>7, <2>1, <2>2, SerialFacts DEF OpenDescriptors, OthersHold
  <2> QED
    BY <2>3, <2>4 DEF PortsSound
<1> QED
  BY <1>4, <1>6, <1>7 DEF OpenGives

LEMMA OpenTypes ==
  ASSUME NEW o \in SerialPorts, NEW files, NEW held, NEW rest, NEW m \in Serial!Fds,
         PortTypes, alive' = alive, strayed' \in BOOLEAN, wrecked' \in BOOLEAN,
         Rest(files, held, rest), files[m] = "free",
         OpenGives(o, m, files, held, rest)
  PROVE  PortTypes'
<1>1. alive' \subseteq SerialPorts /\ isOpen' \in [SerialPorts -> BOOLEAN]
      /\ cport' \in [SerialPorts -> Serial!Fds \cup {-1}]
  BY DEF OpenGives, PortTypes
<1>2. descriptor' \in [Serial!Fds -> SerialPorts \cup {"free", "stdin", "file"}]
  BY DEF OpenGives, Rest
<1>3. m \notin held /\ m \notin rest
  BY SerialFacts DEF Rest
<1>4. locks' \subseteq held \cup {m} /\ left' \subseteq rest \cup {m}
  BY DEF OpenGives
<1>5. \/ descriptor' = files /\ locks' = held /\ left' = rest
      \/ descriptor' = [files EXCEPT ![m] = o]
  BY DEF OpenGives
<1>7. \A d \in held \cup rest : d \in Serial!Fds /\ files[d] \in SerialPorts /\ d # m
  BY <1>3 DEF Rest
<1>8. files \in [Serial!Fds -> SerialPorts \cup {"free", "stdin", "file"}]
  BY DEF Rest
<1>6. ASSUME NEW d \in locks' \cup left' PROVE d \in Serial!Fds /\ descriptor'[d] \in SerialPorts
  <2>1. CASE descriptor' = files /\ locks' = held /\ left' = rest
    BY <1>7, <2>1
  <2>2. CASE descriptor' = [files EXCEPT ![m] = o]
    <3>1. d = m \/ d \in held \cup rest
      BY <1>4
    <3> QED
      BY <1>7, <1>8, <2>2, <3>1
  <2> QED
    BY <1>5, <2>1, <2>2
<1> QED
  BY <1>1, <1>2, <1>6 DEF PortTypes

LEMMA OpenPortStep ==
  ASSUME PortInv, NEW o \in SerialPorts, Serial!Open(o)
  PROVE  PortInv'
<1> DEFINE files == IF isOpen[o] THEN Serial!Closed(o) ELSE descriptor
           held  == IF isOpen[o] THEN locks \ {cport[o]} ELSE locks
           rest  == IF isOpen[o] THEN left \ {cport[o]} ELSE left
           free  == {d \in Serial!Fds : files[d] = "free"}
<1>1. /\ o \in alive /\ free # {} /\ alive' = alive
      /\ Serial!Reached(o, isOpen[o] /\ Serial!IsOther(o), TRUE)
  BY SerialFacts DEF Serial!Open
<1>2. PICK m \in Serial!Fds : m = Serial!Min(free) /\ files[m] = "free"
  BY <1>1, SerialFacts, LowestIsOne
<1>3. OpenGives(o, m, files, held, rest)
  BY <1>2, SerialFacts DEF Serial!Open, Serial!Kept, OpenGives
<1>4. Rest(files, held, rest)
  BY CloseTypes DEF PortInv, PortTypes, Rest
<1> HIDE DEF files, held, rest, free
<1>5. strayed' \in BOOLEAN /\ wrecked' \in BOOLEAN
  BY <1>1 DEF Serial!Reached, PortInv, PortTypes
<1>6. PortTypes'
  BY <1>1, <1>2, <1>3, <1>4, <1>5, OpenTypes DEF PortInv
<1>7. ASSUME ~wrecked' PROVE PortsSound'
  <2>1. PortsSound /\ (isOpen[o] => o \in Serial!Whole \/ ~Serial!IsOther(o))
    BY <1>1, <1>7 DEF Serial!Reached, PortInv
  <2>2. OthersHold(o, files, held, rest) /\ (isOpen[o] => ~Serial!IsOther(o))
    BY <2>1, CloseOthers, NothingClosed DEF PortInv, files, held, rest
  <2>3. ~strayed'
    BY <1>1, <2>1, <2>2 DEF Serial!Reached, PortsSound
  <2> QED
    BY <1>1, <1>2, <1>3, <1>4, <2>1, <2>2, <2>3, OpenSound DEF PortInv
<1> QED
  BY <1>6, <1>7 DEF PortInv

LEMMA PortStep == PortInv /\ [Serial!Next]_(Serial!vars) => PortInv'
<1> SUFFICES ASSUME PortInv, [Serial!Next]_(Serial!vars) PROVE PortInv'
  OBVIOUS
<1>1. ASSUME NEW o \in SerialPorts, Serial!Create(o) PROVE PortInv'
  <2>1. Serial!Whole' = Serial!Whole
    BY <1>1 DEF Serial!Create, Serial!history, PortInv, PortTypes, Serial!Whole
  <2> QED
    BY <1>1, <2>1 DEF Serial!Create, Serial!process, Serial!history, PortInv, PortTypes, PortsSound,
       WholeHave, Has, OpenDescriptors
<1>2. ASSUME NEW o \in SerialPorts, NEW n \in Sizes, Serial!Send(o, n) PROVE PortInv'
  <2>1. PICK other \in BOOLEAN : /\ strayed' = (strayed \/ (other /\ Serial!IsOther(o) /\ o \in Serial!Whole))
                               /\ wrecked' = wrecked
    <3>1. PICK written : Serial!Reached(o, written > 0 /\ Serial!IsOther(o), FALSE)
      BY <1>2, SerialFacts DEF Serial!Send
    <3>2. /\ strayed' = (strayed \/ ((written > 0 /\ Serial!IsOther(o)) /\ o \in Serial!Whole))
          /\ wrecked' = wrecked
      BY <3>1 DEF Serial!Reached, PortInv, PortTypes
    <3>3. CASE written > 0
      BY <3>2, <3>3
    <3>4. CASE ~(written > 0)
      BY <3>2, <3>4
    <3> QED
      BY <3>3, <3>4
  <2>2. UNCHANGED <<alive, isOpen, cport, descriptor, locks, parted, left>>
    BY <1>2 DEF Serial!Send, Serial!object, Serial!process
  <2>3. wrecked' \in BOOLEAN /\ strayed' \in BOOLEAN
    BY <2>1 DEF PortInv, PortTypes
  <2>4. PortsSound => ~strayed'
    BY <2>1 DEF Serial!IsOther, PortsSound, WholeHave, Has
  <2> QED
    BY <2>1, <2>2, <2>3, <2>4 DEF PortInv, PortTypes, PortsSound, WholeHave, Has, OpenDescriptors,
       Serial!Whole
<1>3. ASSUME NEW p \in Serial!Ports, Serial!Foreign(p) PROVE PortInv'
  BY <1>3 DEF Serial!Foreign, Serial!object, Serial!process, Serial!history, PortInv, PortTypes,
     PortsSound, WholeHave, Has, OpenDescriptors, Serial!Whole
<1>4. CASE UNCHANGED Serial!vars
  BY <1>4 DEF Serial!vars, Serial!object, Serial!process, Serial!history, PortInv, PortTypes,
     PortsSound, WholeHave, Has, OpenDescriptors, Serial!Whole
<1> QED
  BY <1>1, <1>2, <1>3, <1>4, FileStep, OpenPortStep, ClosePortStep, DestroyStep DEF Serial!Next

\* Until an object whose port a close() or a failed open() has closed, or that never
\* opened it, closes something else that came by the number: an object that opened its
\* port holds it, nothing of a port stays open but for such an object or as what a
\* refused status left, and no call of such an object reaches anything else.
THEOREM PortsCorrect == Serial!Spec => []PortsKept
<1>1. PortInv => PortsKept
  BY SerialFacts DEF PortInv, PortTypes, PortsSound, WholeHave, Has, OpenDescriptors, PortsKept,
     Serial!OpenHoldsPort, Serial!HoldsPort, Serial!Whole, Serial!NothingLeft, Serial!OnlyItsOwn
<1> QED
  BY <1>1, PortInit, PortStep, PTL DEF Serial!Spec

-----------------------------------------------------------------------------
(* The selector. *)

\* What the selector has recorded of a socket is still true of it.
SelectorTypes ==
  /\ handle \in [Sockets -> Selector!Handles \cup {Selector!Invalid}]
  /\ maxSocket \in Nat /\ added \subseteq Sockets \X Selector!Handles
  /\ readable \subseteq Selector!Open

OneEach == \A s, t \in Sockets : handle[s] = handle[t] /\ handle[s] # Selector!Invalid => s = t

AddedOpen == \A a \in added : handle[a[1]] = a[2] /\ Selector!Fits(a[2]) /\ a[2] <= maxSocket

SelectorInv ==
  SelectorTypes /\ OneEach /\ AddedOpen
    /\ socketsReady \subseteq allSockets /\ Selector!RefersToAdded /\ Selector!ReadyMeansData

LEMMA SelectorFacts ==
  /\ MaxHandle \in Nat /\ SetSize \in Nat /\ Selector!Invalid = -1
  /\ Selector!Handles \subseteq Nat /\ Selector!Handles = 1..MaxHandle
  /\ Selector!Invalid \notin Selector!Handles
BY SelectorAssumption DEF Selector!SelectorAssumption, Selector!Handles, Selector!Invalid

LEMMA LowestIsFree ==
  ASSUME NEW S \in SUBSET Nat, S # {}
  PROVE  Selector!Min(S) \in S
BY LowestIsOne DEF Selector!Min, Serial!Min

LEMMA SelectorInit == Selector!Init => SelectorInv
BY SelectorFacts DEF Selector!Init, SelectorInv, SelectorTypes, OneEach, AddedOpen,
   Selector!RefersToAdded, Selector!ReadyMeansData, Selector!Open

\* Only sockets that are open have been added, and each has its own descriptor.
LEMMA AddedIs ==
  ASSUME SelectorInv
  PROVE  /\ \A h \in allSockets : \E s \in Sockets : <<s, h>> \in added /\ handle[s] = h /\ h \in Selector!Handles
         /\ \A s \in Sockets : Selector!Added(s) => handle[s] \in Selector!Handles
         /\ \A s \in Sockets : handle[s] \in allSockets => Selector!Added(s)
<1>1. ASSUME NEW h \in allSockets
      PROVE  \E s \in Sockets : <<s, h>> \in added /\ handle[s] = h /\ h \in Selector!Handles
  <2>1. PICK a \in added : a[2] = h
    BY DEF SelectorInv, Selector!RefersToAdded
  <2>2. PICK s \in Sockets, g \in Selector!Handles : a = <<s, g>>
    BY <2>1 DEF SelectorInv, SelectorTypes
  <2>3. g = h /\ a[1] = s
    BY <2>1, <2>2
  <2> QED
    BY <2>1, <2>2, <2>3 DEF SelectorInv, AddedOpen
<1>2. ASSUME NEW s \in Sockets, NEW h \in Selector!Handles, <<s, h>> \in added
      PROVE  handle[s] = h
  BY <1>2 DEF SelectorInv, AddedOpen
<1>3. ASSUME NEW s \in Sockets, handle[s] \in allSockets PROVE Selector!Added(s)
  <2>1. PICK t \in Sockets : <<t, handle[s]>> \in added /\ handle[t] = handle[s] /\ handle[s] \in Selector!Handles
    BY <1>1, <1>3
  <2>2. t = s
    BY <2>1, SelectorFacts DEF SelectorInv, OneEach
  <2> QED
    BY <2>1, <2>2 DEF Selector!Added
<1> QED
  BY <1>1, <1>2, <1>3 DEF Selector!Added

\* A socket that was not added takes a free descriptor, or gives its own away.
LEMMA HandleMoves ==
  ASSUME SelectorInv, NEW s \in Sockets, ~Selector!Added(s), NEW h,
         h = Selector!Invalid \/ h \in Selector!Free, handle' = [handle EXCEPT ![s] = h],
         readable' = readable \ {handle[s]},
         received' = received \/ received' = received \ {s},
         UNCHANGED Selector!selector, UNCHANGED <<added, reported>>
  PROVE  SelectorInv'
<1>1. /\ h \in Selector!Handles \cup {Selector!Invalid}
      /\ h # Selector!Invalid => \A t \in Sockets : handle[t] # h
  BY DEF Selector!Free, Selector!Open
<1>2. \A t \in Sockets : handle'[t] = IF t = s THEN h ELSE handle[t]
  BY DEF SelectorInv, SelectorTypes
<1>3. \A a \in added : a[1] # s
  <2> SUFFICES ASSUME NEW a \in added, a[1] = s PROVE FALSE
    OBVIOUS
  <2>1. PICK t \in Sockets, g \in Selector!Handles : a = <<t, g>>
    BY DEF SelectorInv, SelectorTypes
  <2>2. t = s
    BY <2>1
  <2> QED
    BY <2>1, <2>2 DEF Selector!Added
<1>4. OneEach'
  BY <1>1, <1>2 DEF SelectorInv, OneEach, Selector!Invalid
<1>5. \A t \in Sockets : t # s => handle[t] # handle[s] \/ handle[t] = Selector!Invalid
  BY DEF SelectorInv, OneEach
<1>6. SelectorTypes'
  <2>1. readable' \subseteq Selector!Open'
    <3> SUFFICES ASSUME NEW g \in readable' PROVE g \in Selector!Open'
      OBVIOUS
    <3>1. g \in readable /\ g # handle[s]
      OBVIOUS
    <3>2. PICK t \in Sockets : g = handle[t] /\ g # Selector!Invalid
      BY <3>1 DEF SelectorInv, SelectorTypes, Selector!Open
    <3>3. handle'[t] = g
      BY <1>2, <3>1, <3>2
    <3> QED
      BY <3>2, <3>3 DEF Selector!Open, Selector!Invalid
  <2> QED
    BY <1>1, <2>1 DEF SelectorInv, SelectorTypes, Selector!selector, Selector!Invalid, Selector!Handles
<1>7. AddedOpen'
  BY <1>2, <1>3 DEF SelectorInv, SelectorTypes, AddedOpen, Selector!selector, Selector!Fits, Selector!Invalid
<1>8. Selector!ReadyMeansData'
  <2> SUFFICES ASSUME NEW t \in Sockets, reported, Selector!Fits(handle'[t]), handle'[t] \in socketsReady,
                      t \notin received'
               PROVE  handle'[t] \in readable'
    BY DEF Selector!ReadyMeansData, Selector!IsReady, Selector!selector, Selector!Fits, Selector!Invalid
  <2>1. handle'[t] \in allSockets
    BY DEF SelectorInv
  <2>2. t # s
    <3> SUFFICES ASSUME t = s PROVE FALSE
      OBVIOUS
    <3>1. h \in allSockets /\ h # Selector!Invalid
      BY <1>2, <2>1 DEF Selector!Fits
    <3> QED
      BY <1>1, <3>1, AddedIs
  <2>3. handle'[t] = handle[t] /\ t \notin received
    BY <1>2, <2>2
  <2>4. handle[t] \in readable /\ handle[t] # Selector!Invalid
    BY <2>3 DEF SelectorInv, Selector!ReadyMeansData, Selector!IsReady, Selector!Fits
  <2> QED
    BY <1>5, <2>2, <2>3, <2>4
<1>9. (socketsReady \subseteq allSockets)' /\ Selector!RefersToAdded'
  BY DEF SelectorInv, Selector!selector, Selector!RefersToAdded
<1> QED
  BY <1>4, <1>6, <1>7, <1>8, <1>9 DEF SelectorInv

LEMMA CreateMoves ==
  ASSUME SelectorInv, NEW s \in Sockets, Selector!Create(s) \/ Selector!Accept(s) \/ Selector!Close(s), Careful
  PROVE  SelectorInv'
<1>1. ASSUME Selector!Free # {} PROVE Selector!Min(Selector!Free) \in Selector!Free
  <2>1. Selector!Free \in SUBSET Nat
    BY SelectorFacts DEF Selector!Free
  <2> QED
    BY <1>1, <2>1, LowestIsFree
<1>2. ASSUME Selector!Create(s) PROVE SelectorInv'
  <2>1. ~Selector!Added(s)
    BY <1>2, AddedIs, SelectorFacts DEF Selector!Create
  <2>2. readable' = readable \ {handle[s]}
    BY <1>2 DEF Selector!Create, SelectorInv, SelectorTypes, Selector!Open
  <2> QED
    BY <1>1, <1>2, <2>1, <2>2, HandleMoves DEF Selector!Create, Selector!history
<1>3. ASSUME Selector!Accept(s) PROVE SelectorInv'
  BY <1>1, <1>3, HandleMoves DEF Selector!Accept
<1>4. ASSUME Selector!Close(s) PROVE SelectorInv'
  BY <1>4, HandleMoves DEF Selector!Close
<1> QED
  BY <1>2, <1>3, <1>4

LEMMA DataMoves ==
  ASSUME SelectorInv, (\E h \in Selector!Handles : Selector!Arrives(h)) \/ \E s \in Sockets : Selector!Receive(s)
  PROVE  SelectorInv'
<1>1. ASSUME NEW h \in Selector!Handles, Selector!Arrives(h) PROVE SelectorInv'
  BY <1>1 DEF Selector!Arrives, Selector!selector, Selector!history, SelectorInv, SelectorTypes, OneEach,
     AddedOpen, Selector!Open, Selector!Fits, Selector!RefersToAdded, Selector!ReadyMeansData,
     Selector!IsReady, Selector!Invalid
<1>2. ASSUME NEW s \in Sockets, Selector!Receive(s) PROVE SelectorInv'
  <2>1. /\ readable' = readable \/ readable' = readable \ {handle[s]}
        /\ received' = received \cup {s} /\ UNCHANGED <<handle, Selector!selector, added, reported>>
    BY <1>2 DEF Selector!Receive
  <2>2. SelectorTypes' /\ OneEach' /\ AddedOpen' /\ (socketsReady \subseteq allSockets)' /\ Selector!RefersToAdded'
    BY <2>1 DEF Selector!selector, SelectorInv, SelectorTypes, OneEach, AddedOpen, Selector!Open,
       Selector!Fits, Selector!RefersToAdded, Selector!Invalid
  <2>3. Selector!ReadyMeansData'
    <3> SUFFICES ASSUME NEW t \in Sockets, reported, Selector!IsReady(t), t \notin received'
                 PROVE  handle[t] \in readable'
      BY <2>1 DEF Selector!ReadyMeansData, Selector!IsReady, Selector!selector, Selector!Fits, Selector!Invalid
    <3>1. handle[t] \in readable /\ t # s /\ handle[t] # Selector!Invalid
      BY <2>1 DEF SelectorInv, Selector!ReadyMeansData, Selector!IsReady, Selector!Fits
    <3>2. handle[t] # handle[s]
      BY <3>1 DEF SelectorInv, OneEach
    <3> QED
      BY <2>1, <3>1, <3>2
  <2> QED
    BY <2>2, <2>3 DEF SelectorInv
<1> QED
  BY <1>1, <1>2

LEMMA AddMoves ==
  ASSUME SelectorInv, NEW s \in Sockets, Selector!Add(s)
  PROVE  SelectorInv'
<1>1. UNCHANGED <<handle, readable, socketsReady, reported, received>>
  BY DEF Selector!Add, Selector!kernel
<1>2. CASE ~Selector!Fits(handle[s])
  <2>1. UNCHANGED <<allSockets, maxSocket, added>>
    BY <1>2 DEF Selector!Add
  <2> QED
    BY <1>1, <2>1 DEF SelectorInv, SelectorTypes, OneEach, AddedOpen, Selector!Open,
       Selector!Fits, Selector!RefersToAdded, Selector!ReadyMeansData, Selector!IsReady, Selector!Invalid
<1>3. CASE Selector!Fits(handle[s])
  <2>1. PICK h \in Selector!Handles : h = handle[s] /\ h \in Nat /\ Selector!Fits(h)
    BY <1>3, SelectorFacts DEF SelectorInv, SelectorTypes, Selector!Fits
  <2>2. PICK m : m = Selector!Max({maxSocket, h})
    OBVIOUS
  <2>3. m \in Nat /\ m >= maxSocket /\ m >= h
    <3>1. maxSocket \in Nat
      BY DEF SelectorInv, SelectorTypes
    <3>2. \E x \in {maxSocket, h} : \A y \in {maxSocket, h} : x >= y
      BY <2>1, <3>1
    <3>3. m \in {maxSocket, h} /\ \A y \in {maxSocket, h} : m >= y
      BY <2>2, <3>2 DEF Selector!Max
    <3> QED
      BY <2>1, <3>1, <3>3
  <2>4. /\ allSockets' = allSockets \cup {h} /\ maxSocket' = m
        /\ added' = added \cup {<<s, h>>}
    BY <1>3, <2>1, <2>2 DEF Selector!Add
  <2>5. PICK x : x = <<s, h>>
    OBVIOUS
  <2>6. x \in Sockets \X Selector!Handles /\ x[1] = s /\ x[2] = h
    BY <2>1, <2>5
  <2>7. SelectorTypes' /\ OneEach' /\ (socketsReady \subseteq allSockets)'
    BY <1>1, <2>3, <2>4, <2>5, <2>6 DEF SelectorInv, SelectorTypes, OneEach, Selector!Open, Selector!Invalid,
       Selector!Handles
  <2>8. AddedOpen'
    <3> SUFFICES ASSUME NEW a \in added'
                 PROVE  handle[a[1]] = a[2] /\ Selector!Fits(a[2]) /\ a[2] <= m
      BY <1>1, <2>4 DEF AddedOpen, Selector!Fits, Selector!Invalid
    <3>1. CASE a \in added
      <4>1. handle[a[1]] = a[2] /\ Selector!Fits(a[2]) /\ a[2] <= maxSocket
        BY <3>1 DEF SelectorInv, AddedOpen
      <4>2. a[2] \in Nat /\ maxSocket \in Nat
        <5>1. PICK g \in Selector!Handles : g = a[2]
          BY <3>1 DEF SelectorInv, SelectorTypes
        <5> QED
          BY <5>1, SelectorFacts DEF SelectorInv, SelectorTypes
      <4> QED
        BY <2>3, <4>1, <4>2
    <3>2. CASE a = x
      BY <2>1, <2>3, <2>6, <3>2
    <3> QED
      BY <2>4, <2>5, <3>1, <3>2
  <2>9. Selector!RefersToAdded'
    BY <2>4, <2>5, <2>6 DEF SelectorInv, Selector!RefersToAdded
  <2>10. Selector!ReadyMeansData'
    BY <1>1 DEF SelectorInv, Selector!ReadyMeansData, Selector!IsReady, Selector!Fits, Selector!Invalid
  <2> QED
    BY <2>7, <2>8, <2>9, <2>10 DEF SelectorInv
<1> QED
  BY <1>2, <1>3

LEMMA RemoveMoves ==
  ASSUME SelectorInv, NEW s \in Sockets, Selector!Remove(s)
  PROVE  SelectorInv'
<1>1. UNCHANGED <<handle, readable, maxSocket, reported, received>> /\ added' = {a \in added : a[1] # s}
  BY DEF Selector!Remove, Selector!kernel
<1>2. allSockets' = {h \in allSockets : ~(h = handle[s] /\ Selector!Fits(h))}
  BY DEF Selector!Remove, Selector!Forgotten
<1>3. socketsReady' = {h \in socketsReady : ~(h = handle[s] /\ Selector!Fits(h))}
  BY DEF Selector!Remove, Selector!Cleared
<1>4. Selector!RefersToAdded'
  <2>1. ASSUME NEW h \in allSockets' PROVE \E a \in added' : a[2] = h
    <3>1. PICK t \in Sockets : <<t, h>> \in added /\ handle[t] = h
      BY <1>2, <2>1, AddedIs
    <3>2. PICK a : a = <<t, h>>
      OBVIOUS
    <3>3. a \in added /\ a[1] = t /\ a[2] = h
      BY <3>1, <3>2
    <3>4. Selector!Fits(h)
      BY <3>3 DEF SelectorInv, AddedOpen
    <3>5. t # s
      BY <1>2, <3>1, <3>4
    <3> QED
      BY <1>1, <3>3, <3>5
  <2>2. ASSUME NEW a \in added' PROVE a[2] \in allSockets'
    <3>1. a \in added /\ a[1] # s /\ handle[a[1]] = a[2] /\ Selector!Fits(a[2]) /\ a[2] \in allSockets
      BY <1>1, <2>2 DEF SelectorInv, AddedOpen, Selector!RefersToAdded
    <3>2. PICK t \in Sockets : t = a[1]
      BY <3>1 DEF SelectorInv, SelectorTypes
    <3>3. a[2] # handle[s]
      BY <3>1, <3>2 DEF SelectorInv, OneEach, Selector!Fits
    <3> QED
      BY <1>2, <3>1, <3>3
  <2>3. allSockets' = {a[2] : a \in added'}
    BY <2>1, <2>2
  <2> QED
    BY <2>3 DEF Selector!RefersToAdded
<1>5. SelectorTypes' /\ OneEach' /\ AddedOpen'
  BY <1>1 DEF SelectorInv, SelectorTypes, OneEach, AddedOpen, Selector!Open, Selector!Fits, Selector!Invalid,
     Selector!Handles
<1>6. (socketsReady \subseteq allSockets)'
  BY <1>2, <1>3 DEF SelectorInv
<1>7. Selector!ReadyMeansData'
  BY <1>1, <1>3 DEF SelectorInv, Selector!ReadyMeansData, Selector!IsReady, Selector!Fits, Selector!Invalid
<1> QED
  BY <1>4, <1>5, <1>6, <1>7 DEF SelectorInv

\* select() is asked about every descriptor that was added.
LEMMA AllWatched == ASSUME SelectorInv PROVE Selector!Watched = allSockets
<1> SUFFICES ASSUME NEW h \in allSockets PROVE h < maxSocket + 1
  BY DEF Selector!Watched
<1>1. PICK a \in added : a[2] = h
  BY DEF SelectorInv, Selector!RefersToAdded
<1>2. h <= maxSocket /\ maxSocket \in Nat
  BY <1>1 DEF SelectorInv, AddedOpen, SelectorTypes
<1>3. h \in Nat
  BY AddedIs, SelectorFacts
<1> QED
  BY <1>2, <1>3

LEMMA SelectorStep == ASSUME Careful, SelectorInv, [Selector!Next]_(Selector!vars) PROVE SelectorInv'
<1>1. ASSUME Selector!Clear PROVE SelectorInv'
  BY <1>1, SelectorFacts DEF Selector!Clear, Selector!kernel, SelectorInv, SelectorTypes, OneEach, AddedOpen, Selector!Open,
     Selector!Fits, Selector!RefersToAdded, Selector!ReadyMeansData, Selector!IsReady, Selector!Invalid
<1>2. ASSUME Selector!Wait PROVE SelectorInv'
  <2>1. UNCHANGED <<handle, readable, allSockets, maxSocket, added>>
    BY <1>2 DEF Selector!Wait, Selector!kernel
  <2>2. socketsReady' \subseteq allSockets /\ (reported' => socketsReady' \subseteq readable)
    BY <1>2, AllWatched DEF Selector!Wait, Selector!Finds, Selector!TimesOut, Selector!Fails
  <2> QED
    BY <2>1, <2>2 DEF SelectorInv, SelectorTypes, OneEach, AddedOpen, Selector!Open,
       Selector!Fits, Selector!RefersToAdded, Selector!ReadyMeansData, Selector!IsReady, Selector!Invalid
<1>3. CASE UNCHANGED Selector!vars
  BY <1>3 DEF Selector!vars, Selector!kernel, Selector!selector, Selector!history, SelectorInv, SelectorTypes,
     OneEach, AddedOpen, Selector!Open, Selector!Fits, Selector!RefersToAdded, Selector!ReadyMeansData,
     Selector!IsReady, Selector!Invalid
<1> QED
  BY <1>1, <1>2, <1>3, CreateMoves, DataMoves, AddMoves, RemoveMoves DEF Selector!Next

\* If the program closes no socket the selector refers to, whatever else it does and
\* whatever numbers the kernel uses again.
THEOREM SelectionCorrect == Careful => (Selector!Spec => SelectionIsTrue)
<1> SUFFICES ASSUME Careful PROVE Selector!Spec => SelectionIsTrue
  OBVIOUS
<1>1. Selector!Init => SelectorInv
  BY SelectorInit
<1>2. SelectorInv /\ [Selector!Next]_(Selector!vars) => SelectorInv'
  BY SelectorStep
<1>3. SelectorInv => Selector!ReadyMeansData /\ Selector!RefersToAdded
  BY DEF SelectorInv
<1>4. SelectorInv =>
        [Selector!Wait /\ ~Selector!Fails /\ ~reported' => \A a \in added : a[2] \notin readable]_(Selector!vars)
  <2> SUFFICES ASSUME SelectorInv, Selector!Wait, ~Selector!Fails, ~reported', NEW a \in added
               PROVE  a[2] \notin readable
    OBVIOUS
  <2>1. allSockets \cap readable = {}
    BY AllWatched DEF Selector!Wait, Selector!Finds, Selector!TimesOut
  <2> QED
    BY <2>1 DEF SelectorInv, Selector!RefersToAdded
<1> QED
  BY <1>1, <1>2, <1>3, <1>4, PTL DEF Selector!Spec, SelectionIsTrue, Selector!SilenceIsTrue

-----------------------------------------------------------------------------
(* The composite. *)

\* What a run of Sharing explores are behaviours of the four components.
THEOREM Parts == SharingSpec => Spec /\ Windows!Spec /\ Serial!Spec /\ Selector!Spec
<1>1. SharingInit => Init /\ Windows!Init /\ Serial!Init /\ Selector!Init
  BY DEF SharingInit
<1> DEFINE all == <<subject, vars, windowsVars, portVars, socketVars>>
<1>2. [SharingNext]_all => [Next]_vars
  BY DEF SharingNext
<1>3. [SharingNext]_all => [Windows!Next]_(Windows!vars)
  BY DEF SharingNext, windowsVars, Windows!vars, Windows!kernel, Windows!memory, Windows!calls,
         Windows!history
<1>4. [SharingNext]_all => [Serial!Next]_(Serial!vars)
  BY DEF SharingNext, portVars, Serial!vars, Serial!object, Serial!process, Serial!history
<1>5. [SharingNext]_all => [Selector!Next]_(Selector!vars)
  BY DEF SharingNext, socketVars, Selector!vars, Selector!kernel, Selector!selector, Selector!history
<1> QED
  BY <1>1, <1>2, <1>3, <1>4, <1>5, PTL
     DEF SharingSpec, Spec, Windows!Spec, Serial!Spec, Selector!Spec
=============================================================================
