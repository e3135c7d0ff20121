----------------------------- MODULE FIFOProofs -----------------------------
(***************************************************************************)
(* FIFO.c is correct for every capacity, every byte type and every finite  *)
(* set of threads: the invariant that counts what each semaphore stands    *)
(* for, and what follows from it.  Last, it implements the linearizable    *)
(* bounded queue of ByteQueue.                                             *)
(***************************************************************************)
EXTENDS FIFO, FiniteSetTheorems, SequenceTheorems, TLAPS

\* The types, before it is known that NbBytes stays within the ring.
WeakType ==
    /\ fifo \in [Start : Slots, End : Slots, NbBytes : Int, Buffer : [Slots -> Bytes]]
    /\ pc \in [Threads -> {"idle"} \cup PutLabels \cup GetLabels]
    /\ item \in [Threads -> Bytes]
    /\ count \in [Semaphores -> Nat]
    /\ waiters \in [Semaphores -> SUBSET Threads]

\* A thread sleeps where its pc says, and only on a semaphore whose count is 0.
Sleeping ==
    /\ \A t \in waiters[SpaceAvailbale] : pc[t] = "put_space"
    /\ \A t \in waiters[ItemsAvailable] : pc[t] = "get_item"
    /\ \A t \in waiters[BufferAccess] : pc[t] \in {"put_access", "get_access"}
    /\ \A s \in Semaphores \ {SpaceAvailbale, ItemsAvailable, BufferAccess} : waiters[s] = {}
    /\ \A s \in Semaphores : waiters[s] # {} => count[s] = 0

\* The threads that hold a unit of each semaphore.
AccessHolders == {t \in Threads : InBuffer(t)}

HoldsSpace(t) ==
    \/ pc[t] = "put_space" /\ t \notin waiters[SpaceAvailbale]
    \/ pc[t] \in {"put_access", "put_stored", "get_counted", "get_left"}

SpaceHolders == {t \in Threads : HoldsSpace(t)}

HoldsItem(t) ==
    \/ pc[t] = "get_item" /\ t \notin waiters[ItemsAvailable]
    \/ pc[t] \in {"get_access", "get_loaded", "put_counted", "put_left"}

ItemHolders == {t \in Threads : HoldsItem(t)}

\* Every unit of a semaphore is in its count, in a thread's hands, or (a place
\* of the ring) occupied by a byte.
AccessCounted == count[BufferAccess] + Cardinality(AccessHolders) = 1
SpaceCounted == count[SpaceAvailbale] + Cardinality(SpaceHolders) + fifo.NbBytes = FIFO_SIZE
ItemsCounted == count[ItemsAvailable] + Cardinality(ItemHolders) = fifo.NbBytes

IInv == WeakType /\ Sleeping /\ AccessCounted /\ SpaceCounted /\ ItemsCounted

-----------------------------------------------------------------------------
(* Counting *)

\* One thread joins the holders of a unit.
LEMMA Gain ==
    ASSUME NEW S, NEW S1, NEW t, IsFiniteSet(S), t \notin S, S1 = S \cup {t}
    PROVE  Cardinality(S1) = Cardinality(S) + 1
  BY FS_AddElement

\* One thread leaves the holders of a unit.
LEMMA Lose ==
    ASSUME NEW S, NEW S1, NEW t, IsFiniteSet(S), t \in S, S1 = S \ {t}
    PROVE  Cardinality(S1) = Cardinality(S) - 1
  BY FS_RemoveElement

\* One thread passes its unit to another.
LEMMA Pass ==
    ASSUME NEW S, NEW S1, NEW t, NEW u, IsFiniteSet(S), t \in S, u \notin S,
           S1 = (S \ {t}) \cup {u}
    PROVE  Cardinality(S1) = Cardinality(S)
<1>1. IsFiniteSet(S \ {t}) /\ Cardinality(S \ {t}) = Cardinality(S) - 1
  BY FS_RemoveElement
<1>2. Cardinality(S1) = Cardinality(S \ {t}) + 1
  BY <1>1, FS_AddElement
<1>3. Cardinality(S) \in Nat
  BY FS_CardinalityType
<1> QED BY <1>1, <1>2, <1>3

\* The sets of holders are finite, so their cardinalities are numbers.
LEMMA HoldersFinite ==
    /\ IsFiniteSet(AccessHolders) /\ Cardinality(AccessHolders) \in Nat
    /\ IsFiniteSet(SpaceHolders)  /\ Cardinality(SpaceHolders) \in Nat
    /\ IsFiniteSet(ItemHolders)   /\ Cardinality(ItemHolders) \in Nat
<1>1. /\ AccessHolders \subseteq Threads
      /\ SpaceHolders \subseteq Threads
      /\ ItemHolders \subseteq Threads
  BY DEF AccessHolders, SpaceHolders, ItemHolders
<1> QED BY <1>1, OSAssumption, FS_Subset, FS_CardinalityType

-----------------------------------------------------------------------------
(* The invariant holds initially. *)

LEMMA InitIInv == Init => IInv
<1> SUFFICES ASSUME Init PROVE IInv
  OBVIOUS
<1> USE DEF Init, FIFO_Init, OS_SemaphoreCreate
<1>1. WeakType
  <2>1. 0 \in Slots
    BY FIFOAssumption DEF Slots
  <2>2. \A s \in Semaphores : InitialCount(s) \in Nat
    BY FIFOAssumption DEF InitialCount
  <2> QED BY <2>1, <2>2, FIFOAssumption DEF WeakType
<1>2. Sleeping
  BY FIFOAssumption DEF Sleeping
<1>3. AccessHolders = {} /\ SpaceHolders = {} /\ ItemHolders = {}
  BY DEF AccessHolders, SpaceHolders, ItemHolders, InBuffer, HoldsSpace, HoldsItem
<1>4. /\ count[SpaceAvailbale] = FIFO_SIZE
      /\ count[BufferAccess] = 1
      /\ count[ItemsAvailable] = 0
  BY FIFOAssumption DEF InitialCount
<1>5. AccessCounted /\ SpaceCounted /\ ItemsCounted
  BY <1>3, <1>4, FS_EmptySet, FIFOAssumption DEF AccessCounted, SpaceCounted, ItemsCounted
<1> QED BY <1>1, <1>2, <1>5 DEF IInv

-----------------------------------------------------------------------------
(* What a kernel call does to types and to the sleepers *)

LEMMA WaitType ==
    ASSUME WeakType, NEW s \in Semaphores, NEW t \in Threads, OS_SemaphoreWait(s, t)
    PROVE  /\ count' \in [Semaphores -> Nat]
           /\ waiters' \in [Semaphores -> SUBSET Threads]
<1>1. CASE Take(s)
  BY <1>1 DEF WeakType, Take
<1>2. CASE Sleep(s, t)
  BY <1>2 DEF WeakType, Sleep
<1> QED BY <1>1, <1>2 DEF OS_SemaphoreWait

LEMMA SignalType ==
    ASSUME WeakType, NEW s \in Semaphores, OS_SemaphoreSignal(s)
    PROVE  /\ count' \in [Semaphores -> Nat]
           /\ waiters' \in [Semaphores -> SUBSET Threads]
<1>1. CASE Give(s)
  BY <1>1 DEF WeakType, Give
<1>2. CASE \E t \in waiters[s] : HandOver(s, t)
  BY <1>2 DEF WeakType, HandOver
<1> QED BY <1>1, <1>2 DEF OS_SemaphoreSignal

\* A cursor stays inside the ring.
LEMMA AfterSlots == \A i \in Slots : After(i) \in Slots
  BY FIFOAssumption DEF After, Slots

LEMMA TypeStep ==
    ASSUME WeakType, [Next]_vars
    PROVE  WeakType'
<1> USE DEF WeakType, Goto, PutLabels, GetLabels
<1> USE FIFOAssumption
<1>1. ASSUME NEW t \in Threads, NEW b \in Bytes, PutCall(t, b)
      PROVE  WeakType'
  BY <1>1, WaitType DEF PutCall
<1>2. ASSUME NEW t \in Threads, GetCall(t)
      PROVE  WeakType'
  BY <1>2, WaitType DEF GetCall
<1>3. ASSUME NEW t \in Threads, PutEnter(t)
      PROVE  WeakType'
  BY <1>3, WaitType DEF PutEnter
<1>4. ASSUME NEW t \in Threads, PutStore(t)
      PROVE  WeakType'
  BY <1>4 DEF PutStore, osVars
<1>5. ASSUME NEW t \in Threads, PutAdvance(t)
      PROVE  WeakType'
  <2>1. After(fifo.End) \in Slots /\ fifo.NbBytes + 1 \in Int
    BY AfterSlots
  <2> QED BY <1>5, <2>1 DEF PutAdvance, osVars
<1>6. ASSUME NEW t \in Threads, PutLeave(t)
      PROVE  WeakType'
  BY <1>6, SignalType DEF PutLeave
<1>7. ASSUME NEW t \in Threads, PutReturn(t)
      PROVE  WeakType'
  BY <1>7, SignalType DEF PutReturn
<1>8. ASSUME NEW t \in Threads, GetEnter(t)
      PROVE  WeakType'
  BY <1>8, WaitType DEF GetEnter
<1>9. ASSUME NEW t \in Threads, GetLoad(t)
      PROVE  WeakType'
  BY <1>9 DEF GetLoad, osVars
<1>10. ASSUME NEW t \in Threads, GetAdvance(t)
      PROVE  WeakType'
  <2>1. After(fifo.Start) \in Slots /\ fifo.NbBytes - 1 \in Int
    BY AfterSlots
  <2> QED BY <1>10, <2>1 DEF GetAdvance, osVars
<1>11. ASSUME NEW t \in Threads, GetLeave(t)
      PROVE  WeakType'
  BY <1>11, SignalType DEF GetLeave
<1>12. ASSUME NEW t \in Threads, GetReturn(t)
      PROVE  WeakType'
  BY <1>12, SignalType DEF GetReturn
<1>13. CASE UNCHANGED vars
  BY <1>13 DEF vars, fifoVars, osVars
<1> QED
  BY <1>1, <1>2, <1>3, <1>4, <1>5, <1>6, <1>7, <1>8, <1>9, <1>10, <1>11, <1>12, <1>13
     DEF Next, PutStep, GetStep

-----------------------------------------------------------------------------
(* Sleepers *)

LEMMA WaitSleepers ==
    ASSUME WeakType, Sleeping, NEW s \in Semaphores, NEW t \in Threads,
           OS_SemaphoreWait(s, t)
    PROVE  /\ \A x \in Semaphores \ {s} :
                 waiters'[x] = waiters[x] /\ count'[x] = count[x]
           /\ waiters'[s] \subseteq waiters[s] \cup {t}
           /\ waiters'[s] # {} => count'[s] = 0
<1>1. CASE Take(s)
  BY <1>1 DEF WeakType, Sleeping, Take
<1>2. CASE Sleep(s, t)
  BY <1>2 DEF WeakType, Sleeping, Sleep
<1> QED BY <1>1, <1>2 DEF OS_SemaphoreWait

LEMMA SignalSleepers ==
    ASSUME WeakType, Sleeping, NEW s \in Semaphores, OS_SemaphoreSignal(s)
    PROVE  /\ \A x \in Semaphores \ {s} :
                 waiters'[x] = waiters[x] /\ count'[x] = count[x]
           /\ waiters'[s] \subseteq waiters[s]
           /\ waiters'[s] # {} => count'[s] = 0
<1>1. CASE Give(s)
  BY <1>1 DEF WeakType, Sleeping, Give
<1>2. CASE \E t \in waiters[s] : HandOver(s, t)
  BY <1>2 DEF WeakType, Sleeping, HandOver
<1> QED BY <1>1, <1>2 DEF OS_SemaphoreSignal

\* The three semaphores of the FIFO are semaphores of the system.
LEMMA Names == /\ SpaceAvailbale \in Semaphores
               /\ BufferAccess \in Semaphores
               /\ ItemsAvailable \in Semaphores
  BY FIFOAssumption

LEMMA SleepStep ==
    ASSUME WeakType, Sleeping, [Next]_vars
    PROVE  Sleeping'
<1> USE FIFOAssumption, Names
<1>1. ASSUME NEW t \in Threads, NEW b \in Bytes, PutCall(t, b)
      PROVE  Sleeping'
  BY <1>1, WaitSleepers DEF PutCall, Goto, Ready, Sleeping, WeakType
<1>2. ASSUME NEW t \in Threads, GetCall(t)
      PROVE  Sleeping'
  BY <1>2, WaitSleepers DEF GetCall, Goto, Ready, Sleeping, WeakType
<1>3. ASSUME NEW t \in Threads, PutEnter(t)
      PROVE  Sleeping'
  BY <1>3, WaitSleepers DEF PutEnter, Goto, Ready, Sleeping, WeakType
<1>4. ASSUME NEW t \in Threads, GetEnter(t)
      PROVE  Sleeping'
  BY <1>4, WaitSleepers DEF GetEnter, Goto, Ready, Sleeping, WeakType
<1>5. ASSUME NEW t \in Threads, PutLeave(t)
      PROVE  Sleeping'
  BY <1>5, SignalSleepers DEF PutLeave, Goto, Ready, Sleeping, WeakType
<1>6. ASSUME NEW t \in Threads, GetLeave(t)
      PROVE  Sleeping'
  BY <1>6, SignalSleepers DEF GetLeave, Goto, Ready, Sleeping, WeakType
<1>7. ASSUME NEW t \in Threads, PutReturn(t)
      PROVE  Sleeping'
  BY <1>7, SignalSleepers DEF PutReturn, Goto, Ready, Sleeping, WeakType
<1>8. ASSUME NEW t \in Threads, GetReturn(t)
      PROVE  Sleeping'
  BY <1>8, SignalSleepers DEF GetReturn, Goto, Ready, Sleeping, WeakType
<1>9. ASSUME NEW t \in Threads, PutStore(t) \/ PutAdvance(t) \/ GetLoad(t) \/ GetAdvance(t)
      PROVE  Sleeping'
  BY <1>9 DEF PutStore, PutAdvance, GetLoad, GetAdvance, Goto, Ready, Sleeping, WeakType, osVars
<1>10. CASE UNCHANGED vars
  BY <1>10 DEF vars, fifoVars, osVars, Sleeping
<1> QED
  BY <1>1, <1>2, <1>3, <1>4, <1>5, <1>6, <1>7, <1>8, <1>9, <1>10 DEF Next, PutStep, GetStep

-----------------------------------------------------------------------------
(* BufferAccess *)

LEMMA AccessStep ==
    ASSUME WeakType, Sleeping, AccessCounted, [Next]_vars
    PROVE  AccessCounted'
<1> USE FIFOAssumption, Names
<1>1. ASSUME NEW t \in Threads, PutEnter(t) \/ GetEnter(t)
      PROVE  AccessCounted'
  <2>1. t \notin AccessHolders
    BY <1>1 DEF AccessHolders, InBuffer, PutEnter, GetEnter, Goto
  <2>2. CASE Take(BufferAccess)
    <3>1. AccessHolders' = AccessHolders \cup {t}
      BY <1>1, <2>2 DEF Take, AccessHolders, InBuffer, PutEnter, GetEnter, Goto, Ready, WeakType
    <3>2. count'[BufferAccess] = count[BufferAccess] - 1
      BY <2>2 DEF Take, WeakType
    <3> QED BY <2>1, <3>1, <3>2, Gain, HoldersFinite DEF AccessCounted, WeakType
  <2>3. CASE Sleep(BufferAccess, t)
    <3>1. AccessHolders' = AccessHolders
      BY <1>1, <2>3 DEF Sleep, AccessHolders, InBuffer, PutEnter, GetEnter, Goto, Ready, WeakType
    <3> QED BY <2>3, <3>1 DEF Sleep, AccessCounted
  <2> QED BY <1>1, <2>2, <2>3 DEF PutEnter, GetEnter, OS_SemaphoreWait
<1>2. ASSUME NEW t \in Threads, PutLeave(t) \/ GetLeave(t)
      PROVE  AccessCounted'
  <2>1. t \in AccessHolders
    BY <1>2 DEF AccessHolders, InBuffer, PutLeave, GetLeave, Goto, Ready
  <2>2. CASE Give(BufferAccess)
    <3>1. AccessHolders' = AccessHolders \ {t}
      BY <1>2, <2>2 DEF Give, AccessHolders, InBuffer, PutLeave, GetLeave, Goto, WeakType
    <3>2. count'[BufferAccess] = count[BufferAccess] + 1
      BY <2>2 DEF Give, WeakType
    <3> QED BY <2>1, <3>1, <3>2, Lose, HoldersFinite DEF AccessCounted, WeakType
  <2>3. ASSUME NEW u \in waiters[BufferAccess], HandOver(BufferAccess, u)
        PROVE  AccessCounted'
    <3>1. u \in Threads /\ u # t /\ u \notin AccessHolders
      BY <1>2 DEF AccessHolders, InBuffer, PutLeave, GetLeave, Goto, Ready, WeakType
    <3>2. AccessHolders' = (AccessHolders \ {t}) \cup {u}
      BY <1>2, <2>3, <3>1
      DEF HandOver, AccessHolders, InBuffer, PutLeave, GetLeave, Goto, WeakType, Sleeping
    <3> QED BY <2>1, <2>3, <3>1, <3>2, Pass, HoldersFinite DEF HandOver, AccessCounted
  <2> QED BY <1>2, <2>2, <2>3 DEF PutLeave, GetLeave, OS_SemaphoreSignal
<1>3. ASSUME NEW t \in Threads, \/ \E b \in Bytes : PutCall(t, b)
                                \/ GetCall(t)
      PROVE  AccessCounted'
  <2>1. /\ waiters'[BufferAccess] = waiters[BufferAccess]
        /\ count'[BufferAccess] = count[BufferAccess]
    BY <1>3, WaitSleepers DEF PutCall, GetCall
  <2>2. AccessHolders' = AccessHolders
    BY <1>3, <2>1 DEF PutCall, GetCall, Goto, AccessHolders, InBuffer, WeakType
  <2> QED BY <2>1, <2>2 DEF AccessCounted
<1>4. ASSUME NEW t \in Threads, PutReturn(t) \/ GetReturn(t)
      PROVE  AccessCounted'
  <2>1. /\ waiters'[BufferAccess] = waiters[BufferAccess]
        /\ count'[BufferAccess] = count[BufferAccess]
    BY <1>4, SignalSleepers DEF PutReturn, GetReturn
  <2>2. AccessHolders' = AccessHolders
    BY <1>4, <2>1 DEF PutReturn, GetReturn, Goto, AccessHolders, InBuffer, WeakType
  <2> QED BY <2>1, <2>2 DEF AccessCounted
<1>5. ASSUME NEW t \in Threads, PutStore(t) \/ PutAdvance(t) \/ GetLoad(t) \/ GetAdvance(t)
      PROVE  AccessCounted'
  <2>1. AccessHolders' = AccessHolders
    BY <1>5 DEF PutStore, PutAdvance, GetLoad, GetAdvance, Goto, AccessHolders, InBuffer, WeakType,
                osVars
  <2> QED BY <1>5, <2>1 DEF PutStore, PutAdvance, GetLoad, GetAdvance, osVars, AccessCounted
<1>6. CASE UNCHANGED vars
  BY <1>6 DEF vars, fifoVars, osVars, AccessCounted, AccessHolders, InBuffer
<1> QED
  BY <1>1, <1>2, <1>3, <1>4, <1>5, <1>6 DEF Next, PutStep, GetStep

-----------------------------------------------------------------------------
(* SpaceAvailbale *)

LEMMA SpaceStep ==
    ASSUME WeakType, Sleeping, SpaceCounted, [Next]_vars
    PROVE  SpaceCounted'
<1> USE FIFOAssumption, Names
<1>1. ASSUME NEW t \in Threads, NEW b \in Bytes, PutCall(t, b)
      PROVE  SpaceCounted'
  <2>1. t \notin SpaceHolders
    BY <1>1 DEF SpaceHolders, HoldsSpace, PutCall, Goto
  <2>2. CASE Take(SpaceAvailbale)
    <3>1. SpaceHolders' = SpaceHolders \cup {t}
      BY <1>1, <2>2 DEF Take, SpaceHolders, HoldsSpace, PutCall, Goto, Ready, WeakType
    <3>2. count'[SpaceAvailbale] = count[SpaceAvailbale] - 1 /\ fifo' = fifo
      BY <1>1, <2>2 DEF Take, PutCall, WeakType
    <3>3. Cardinality(SpaceHolders') = Cardinality(SpaceHolders) + 1
      BY <2>1, <3>1, Gain, HoldersFinite
    <3>4. count[SpaceAvailbale] \in Nat /\ fifo.NbBytes \in Int
      BY DEF WeakType
    <3> QED BY <3>2, <3>3, <3>4, HoldersFinite DEF SpaceCounted
  <2>3. CASE Sleep(SpaceAvailbale, t)
    <3>1. SpaceHolders' = SpaceHolders
      BY <1>1, <2>3 DEF Sleep, SpaceHolders, HoldsSpace, PutCall, Goto, Ready, WeakType
    <3> QED BY <1>1, <2>3, <3>1 DEF Sleep, PutCall, SpaceCounted
  <2> QED BY <1>1, <2>2, <2>3 DEF PutCall, OS_SemaphoreWait
<1>2. ASSUME NEW t \in Threads, GetReturn(t)
      PROVE  SpaceCounted'
  <2>1. t \in SpaceHolders
    BY <1>2 DEF SpaceHolders, HoldsSpace, GetReturn, Goto
  <2>2. CASE Give(SpaceAvailbale)
    <3>1. SpaceHolders' = SpaceHolders \ {t}
      BY <1>2, <2>2 DEF Give, SpaceHolders, HoldsSpace, GetReturn, Goto, WeakType
    <3>2. count'[SpaceAvailbale] = count[SpaceAvailbale] + 1 /\ fifo' = fifo
      BY <1>2, <2>2 DEF Give, GetReturn, WeakType
    <3>3. Cardinality(SpaceHolders') = Cardinality(SpaceHolders) - 1
      BY <2>1, <3>1, Lose, HoldersFinite
    <3>4. count[SpaceAvailbale] \in Nat /\ fifo.NbBytes \in Int
      BY DEF WeakType
    <3> QED BY <3>2, <3>3, <3>4, HoldersFinite DEF SpaceCounted
  <2>3. ASSUME NEW u \in waiters[SpaceAvailbale], HandOver(SpaceAvailbale, u)
        PROVE  SpaceCounted'
    <3>1. u \in Threads /\ u # t /\ u \notin SpaceHolders
      BY <1>2 DEF SpaceHolders, HoldsSpace, GetReturn, Goto, Ready, WeakType, Sleeping
    <3>2. SpaceHolders' = (SpaceHolders \ {t}) \cup {u}
      BY <1>2, <2>3, <3>1 DEF HandOver, SpaceHolders, HoldsSpace, GetReturn, Goto, WeakType, Sleeping
    <3> QED BY <1>2, <2>1, <2>3, <3>1, <3>2, Pass, HoldersFinite DEF HandOver, GetReturn, SpaceCounted
  <2> QED BY <1>2, <2>2, <2>3 DEF GetReturn, OS_SemaphoreSignal
<1>3. ASSUME NEW t \in Threads, PutAdvance(t)
      PROVE  SpaceCounted'
  <2>1. t \in SpaceHolders
    BY <1>3 DEF SpaceHolders, HoldsSpace, PutAdvance, Goto
  <2>2. SpaceHolders' = SpaceHolders \ {t}
    BY <1>3 DEF SpaceHolders, HoldsSpace, PutAdvance, Goto, WeakType, osVars
  <2>3. fifo'.NbBytes = fifo.NbBytes + 1 /\ count' = count
    BY <1>3 DEF PutAdvance, WeakType, osVars
  <2> QED BY <2>1, <2>2, <2>3, Lose, HoldersFinite DEF SpaceCounted, WeakType
<1>4. ASSUME NEW t \in Threads, GetAdvance(t)
      PROVE  SpaceCounted'
  <2>1. t \notin SpaceHolders
    BY <1>4 DEF SpaceHolders, HoldsSpace, GetAdvance, Goto
  <2>2. SpaceHolders' = SpaceHolders \cup {t}
    BY <1>4 DEF SpaceHolders, HoldsSpace, GetAdvance, Goto, WeakType, osVars
  <2>3. fifo'.NbBytes = fifo.NbBytes - 1 /\ count' = count
    BY <1>4 DEF GetAdvance, WeakType, osVars
  <2> QED BY <2>1, <2>2, <2>3, Gain, HoldersFinite DEF SpaceCounted, WeakType
<1>5. ASSUME NEW t \in Threads,
             PutEnter(t) \/ GetEnter(t) \/ GetCall(t)
      PROVE  SpaceCounted'
  <2>1. /\ waiters'[SpaceAvailbale] = waiters[SpaceAvailbale]
        /\ count'[SpaceAvailbale] = count[SpaceAvailbale]
    BY <1>5, WaitSleepers DEF PutEnter, GetEnter, GetCall
  <2>2. SpaceHolders' = SpaceHolders
    BY <1>5, <2>1 DEF PutEnter, GetEnter, GetCall, Goto, Ready, SpaceHolders, HoldsSpace, WeakType
  <2> QED BY <1>5, <2>1, <2>2 DEF PutEnter, GetEnter, GetCall, SpaceCounted
<1>6. ASSUME NEW t \in Threads, PutLeave(t) \/ GetLeave(t) \/ PutReturn(t)
      PROVE  SpaceCounted'
  <2>1. /\ waiters'[SpaceAvailbale] = waiters[SpaceAvailbale]
        /\ count'[SpaceAvailbale] = count[SpaceAvailbale]
    BY <1>6, SignalSleepers DEF PutLeave, GetLeave, PutReturn
  <2>2. SpaceHolders' = SpaceHolders
    BY <1>6, <2>1 DEF PutLeave, GetLeave, PutReturn, Goto, Ready, SpaceHolders, HoldsSpace, WeakType
  <2> QED BY <1>6, <2>1, <2>2 DEF PutLeave, GetLeave, PutReturn, SpaceCounted
<1>7. ASSUME NEW t \in Threads, PutStore(t) \/ GetLoad(t)
      PROVE  SpaceCounted'
  <2>1. SpaceHolders' = SpaceHolders
    BY <1>7 DEF PutStore, GetLoad, Goto, SpaceHolders, HoldsSpace, WeakType, osVars
  <2>2. fifo'.NbBytes = fifo.NbBytes
    BY <1>7 DEF PutStore, GetLoad, WeakType
  <2>3. count' = count
    BY <1>7 DEF PutStore, GetLoad, osVars
  <2> QED BY <2>1, <2>2, <2>3 DEF SpaceCounted
<1>8. CASE UNCHANGED vars
  BY <1>8 DEF vars, fifoVars, osVars, SpaceCounted, SpaceHolders, HoldsSpace
<1> QED
  BY <1>1, <1>2, <1>3, <1>4, <1>5, <1>6, <1>7, <1>8 DEF Next, PutStep, GetStep

-----------------------------------------------------------------------------
(* ItemsAvailable *)

LEMMA ItemsStep ==
    ASSUME WeakType, Sleeping, ItemsCounted, [Next]_vars
    PROVE  ItemsCounted'
<1> USE FIFOAssumption, Names
<1>1. ASSUME NEW t \in Threads, GetCall(t)
      PROVE  ItemsCounted'
  <2>1. t \notin ItemHolders
    BY <1>1 DEF ItemHolders, HoldsItem, GetCall, Goto
  <2>2. CASE Take(ItemsAvailable)
    <3>1. ItemHolders' = ItemHolders \cup {t}
      BY <1>1, <2>2 DEF Take, ItemHolders, HoldsItem, GetCall, Goto, Ready, WeakType
    <3>2. count'[ItemsAvailable] = count[ItemsAvailable] - 1 /\ fifo' = fifo
      BY <1>1, <2>2 DEF Take, GetCall, WeakType
    <3>3. Cardinality(ItemHolders') = Cardinality(ItemHolders) + 1
      BY <2>1, <3>1, Gain, HoldersFinite
    <3>4. count[ItemsAvailable] \in Nat /\ fifo.NbBytes \in Int
      BY DEF WeakType
    <3> QED BY <3>2, <3>3, <3>4, HoldersFinite DEF ItemsCounted
  <2>3. CASE Sleep(ItemsAvailable, t)
    <3>1. ItemHolders' = ItemHolders
      BY <1>1, <2>3 DEF Sleep, ItemHolders, HoldsItem, GetCall, Goto, Ready, WeakType
    <3> QED BY <1>1, <2>3, <3>1 DEF Sleep, GetCall, ItemsCounted
  <2> QED BY <1>1, <2>2, <2>3 DEF GetCall, OS_SemaphoreWait
<1>2. ASSUME NEW t \in Threads, PutReturn(t)
      PROVE  ItemsCounted'
  <2>1. t \in ItemHolders
    BY <1>2 DEF ItemHolders, HoldsItem, PutReturn, Goto
  <2>2. CASE Give(ItemsAvailable)
    <3>1. ItemHolders' = ItemHolders \ {t}
      BY <1>2, <2>2 DEF Give, ItemHolders, HoldsItem, PutReturn, Goto, WeakType
    <3>2. count'[ItemsAvailable] = count[ItemsAvailable] + 1 /\ fifo' = fifo
      BY <1>2, <2>2 DEF Give, PutReturn, WeakType
    <3>3. Cardinality(ItemHolders') = Cardinality(ItemHolders) - 1
      BY <2>1, <3>1, Lose, HoldersFinite
    <3>4. count[ItemsAvailable] \in Nat /\ fifo.NbBytes \in Int
      BY DEF WeakType
    <3> QED BY <3>2, <3>3, <3>4, HoldersFinite DEF ItemsCounted
  <2>3. ASSUME NEW u \in waiters[ItemsAvailable], HandOver(ItemsAvailable, u)
        PROVE  ItemsCounted'
    <3>1. u \in Threads /\ u # t /\ u \notin ItemHolders
      BY <1>2 DEF ItemHolders, HoldsItem, PutReturn, Goto, Ready, WeakType, Sleeping
    <3>2. ItemHolders' = (ItemHolders \ {t}) \cup {u}
      BY <1>2, <2>3, <3>1 DEF HandOver, ItemHolders, HoldsItem, PutReturn, Goto, WeakType, Sleeping
    <3> QED BY <1>2, <2>1, <2>3, <3>1, <3>2, Pass, HoldersFinite DEF HandOver, PutReturn, ItemsCounted
  <2> QED BY <1>2, <2>2, <2>3 DEF PutReturn, OS_SemaphoreSignal
<1>3. ASSUME NEW t \in Threads, GetAdvance(t)
      PROVE  ItemsCounted'
  <2>1. t \in ItemHolders
    BY <1>3 DEF ItemHolders, HoldsItem, GetAdvance, Goto
  <2>2. ItemHolders' = ItemHolders \ {t}
    BY <1>3 DEF ItemHolders, HoldsItem, GetAdvance, Goto, WeakType, osVars
  <2>3. fifo'.NbBytes = fifo.NbBytes - 1 /\ count' = count
    BY <1>3 DEF GetAdvance, WeakType, osVars
  <2> QED BY <2>1, <2>2, <2>3, Lose, HoldersFinite DEF ItemsCounted, WeakType
<1>4. ASSUME NEW t \in Threads, PutAdvance(t)
      PROVE  ItemsCounted'
  <2>1. t \notin ItemHolders
    BY <1>4 DEF ItemHolders, HoldsItem, PutAdvance, Goto
  <2>2. ItemHolders' = ItemHolders \cup {t}
    BY <1>4 DEF ItemHolders, HoldsItem, PutAdvance, Goto, WeakType, osVars
  <2>3. fifo'.NbBytes = fifo.NbBytes + 1 /\ count' = count
    BY <1>4 DEF PutAdvance, WeakType, osVars
  <2> QED BY <2>1, <2>2, <2>3, Gain, HoldersFinite DEF ItemsCounted, WeakType
<1>5. ASSUME NEW t \in Threads,
             PutEnter(t) \/ GetEnter(t) \/ \E b \in Bytes : PutCall(t, b)
      PROVE  ItemsCounted'
  <2>1. /\ waiters'[ItemsAvailable] = waiters[ItemsAvailable]
        /\ count'[ItemsAvailable] = count[ItemsAvailable]
    BY <1>5, WaitSleepers DEF PutEnter, GetEnter, PutCall
  <2>2. ItemHolders' = ItemHolders
    BY <1>5, <2>1 DEF PutEnter, GetEnter, PutCall, Goto, Ready, ItemHolders, HoldsItem, WeakType
  <2> QED BY <1>5, <2>1, <2>2 DEF PutEnter, GetEnter, PutCall, ItemsCounted
<1>6. ASSUME NEW t \in Threads, PutLeave(t) \/ GetLeave(t) \/ GetReturn(t)
      PROVE  ItemsCounted'
  <2>1. /\ waiters'[ItemsAvailable] = waiters[ItemsAvailable]
        /\ count'[ItemsAvailable] = count[ItemsAvailable]
    BY <1>6, SignalSleepers DEF PutLeave, GetLeave, GetReturn
  <2>2. ItemHolders' = ItemHolders
    BY <1>6, <2>1 DEF PutLeave, GetLeave, GetReturn, Goto, Ready, ItemHolders, HoldsItem, WeakType
  <2> QED BY <1>6, <2>1, <2>2 DEF PutLeave, GetLeave, GetReturn, ItemsCounted
<1>7. ASSUME NEW t \in Threads, PutStore(t) \/ GetLoad(t)
      PROVE  ItemsCounted'
  <2>1. ItemHolders' = ItemHolders
    BY <1>7 DEF PutStore, GetLoad, Goto, ItemHolders, HoldsItem, WeakType, osVars
  <2>2. fifo'.NbBytes = fifo.NbBytes
    BY <1>7 DEF PutStore, GetLoad, WeakType
  <2>3. count' = count
    BY <1>7 DEF PutStore, GetLoad, osVars
  <2> QED BY <2>1, <2>2, <2>3 DEF ItemsCounted
<1>8. CASE UNCHANGED vars
  BY <1>8 DEF vars, fifoVars, osVars, ItemsCounted, ItemHolders, HoldsItem
<1> QED
  BY <1>1, <1>2, <1>3, <1>4, <1>5, <1>6, <1>7, <1>8 DEF Next, PutStep, GetStep

-----------------------------------------------------------------------------
(* What the invariant gives *)

\* The counting invariant is inductive, and so always holds.
THEOREM Invariant == Spec => []IInv
<1>1. Init => IInv
  BY InitIInv
<1>2. IInv /\ [Next]_vars => IInv'
  BY TypeStep, SleepStep, AccessStep, SpaceStep, ItemsStep DEF IInv
<1> QED BY <1>1, <1>2, PTL DEF Spec

\* NbBytes never leaves 0 .. FIFO_SIZE: the ring neither overflows nor is read
\* when empty, whatever threads call FIFO_Put and FIFO_Get.
THEOREM TypeCorrect == Spec => []TypeOK
<1>1. IInv => TypeOK
  <2> SUFFICES ASSUME IInv PROVE TypeOK
    OBVIOUS
  <2>1. fifo.NbBytes \in 0 .. FIFO_SIZE
    BY HoldersFinite, Names, FIFOAssumption DEF IInv, WeakType, SpaceCounted, ItemsCounted
  <2> QED BY <2>1 DEF IInv, WeakType, TypeOK, TFIFO
<1> QED BY <1>1, Invariant, PTL

LEMMA OneHolder ==
    ASSUME IInv
    PROVE  MutualExclusion
<1> SUFFICES ASSUME NEW t \in Threads, NEW u \in Threads, InBuffer(t), InBuffer(u), t # u
             PROVE  FALSE
  BY DEF MutualExclusion
<1>1. /\ t \in AccessHolders
      /\ u \in AccessHolders \ {t}
  BY DEF AccessHolders
<1>2. /\ IsFiniteSet(AccessHolders \ {t})
      /\ Cardinality(AccessHolders \ {t}) = Cardinality(AccessHolders) - 1
  BY <1>1, HoldersFinite, FS_RemoveElement
<1>3. Cardinality(AccessHolders \ {t}) # 0
  BY <1>1, <1>2, FS_EmptySet
<1> QED BY <1>2, <1>3, HoldersFinite, Names, FS_CardinalityType
        DEF IInv, WeakType, AccessCounted

\* FIFO_Put and FIFO_Get never touch the ring at the same time.
THEOREM Exclusion == Spec => []MutualExclusion
  BY OneHolder, Invariant, PTL

LEMMA NobodyForgotten ==
    ASSUME IInv
    PROVE  NoLostWakeup
<1> SUFFICES ASSUME Resting, NEW t \in Threads
             PROVE  /\ pc[t] = "put_space" => fifo.NbBytes = FIFO_SIZE
                    /\ pc[t] = "get_item" => fifo.NbBytes = 0
                    /\ pc[t] \in {"idle", "put_space", "get_item"}
  BY DEF NoLostWakeup
<1> USE Names, FIFOAssumption
<1>1. \A u \in Threads :
         \/ pc[u] = "idle"
         \/ u \in waiters[SpaceAvailbale] /\ pc[u] = "put_space"
         \/ u \in waiters[ItemsAvailable] /\ pc[u] = "get_item"
         \/ u \in waiters[BufferAccess] /\ pc[u] \in {"put_access", "get_access"}
  BY DEF Resting, Ready, IInv, Sleeping
<1>2. AccessHolders = {}
  BY <1>1 DEF AccessHolders, InBuffer
<1>3. count[BufferAccess] = 1
  BY <1>2, FS_EmptySet DEF IInv, WeakType, AccessCounted
<1>4. waiters[BufferAccess] = {}
  BY <1>3 DEF IInv, Sleeping
<1>5. SpaceHolders = {} /\ ItemHolders = {}
  BY <1>1, <1>4 DEF SpaceHolders, HoldsSpace, ItemHolders, HoldsItem
<1>6. /\ count[SpaceAvailbale] + fifo.NbBytes = FIFO_SIZE
      /\ count[ItemsAvailable] = fifo.NbBytes
  BY <1>5, FS_EmptySet DEF IInv, WeakType, SpaceCounted, ItemsCounted
<1>7. ASSUME pc[t] = "put_space" PROVE fifo.NbBytes = FIFO_SIZE
  <2>1. count[SpaceAvailbale] = 0
    BY <1>1, <1>7 DEF IInv, Sleeping
  <2> QED BY <2>1, <1>6 DEF IInv, WeakType
<1>8. ASSUME pc[t] = "get_item" PROVE fifo.NbBytes = 0
  <2>1. count[ItemsAvailable] = 0
    BY <1>1, <1>8 DEF IInv, Sleeping
  <2> QED BY <2>1, <1>6
<1> QED BY <1>1, <1>4, <1>7, <1>8

\* No thread sleeps for ever on room or bytes that are there.
THEOREM Wakeup == Spec => []NoLostWakeup
  BY NobodyForgotten, Invariant, PTL

-----------------------------------------------------------------------------
(* The refinement.  On top of the counting invariant it needs the ring: End *)
(* is NbBytes places after Start, and a byte stored but not yet counted     *)
(* stays in place.                                                          *)

\* The place i after the Start of the ring.
Place(i) == (fifo.Start + i) % FIFO_SIZE

Ring == fifo.End = Place(fifo.NbBytes)

\* A byte stored by FIFO_Put is still there when the put counts it.
Stored == \A t \in Threads : pc[t] = "put_stored" => fifo.Buffer[fifo.End] = item[t]

RInv == IInv /\ Ring /\ Stored

-----------------------------------------------------------------------------
(* The ring *)

\* A place of the ring, without the remainder.
LEMMA Wrapped ==
    ASSUME NEW a \in Slots, NEW k \in 0 .. FIFO_SIZE
    PROVE  (a + k) % FIFO_SIZE = IF a + k < FIFO_SIZE THEN a + k ELSE a + k - FIFO_SIZE
<1>1. FIFO_SIZE \in Nat \ {0}
  BY FIFOAssumption
<1>2. CASE a + k < FIFO_SIZE
  BY <1>1, <1>2 DEF Slots
<1>3. CASE ~ (a + k < FIFO_SIZE)
  <2>1. a + k - FIFO_SIZE \in 0 .. FIFO_SIZE - 1
    BY <1>1, <1>3 DEF Slots
  <2> QED BY <1>1, <1>3, <2>1 DEF Slots
<1> QED BY <1>2, <1>3

\* The remainder is a place, different for different distances inside the ring.
LEMMA Places ==
    ASSUME NEW a \in Slots, NEW k \in 0 .. FIFO_SIZE, NEW m \in 0 .. FIFO_SIZE - 1
    PROVE  /\ (a + k) % FIFO_SIZE \in Slots
           /\ k < FIFO_SIZE /\ (a + k) % FIFO_SIZE = (a + m) % FIFO_SIZE => k = m
           /\ After((a + m) % FIFO_SIZE) = (a + (m + 1)) % FIFO_SIZE
<1>1. FIFO_SIZE \in Nat \ {0} /\ a \in 0 .. FIFO_SIZE - 1
  BY FIFOAssumption DEF Slots
<1>2. (a + k) % FIFO_SIZE = IF a + k < FIFO_SIZE THEN a + k ELSE a + k - FIFO_SIZE
  BY Wrapped
<1>3. (a + m) % FIFO_SIZE = IF a + m < FIFO_SIZE THEN a + m ELSE a + m - FIFO_SIZE
  BY <1>1, Wrapped
<1>4. (a + (m + 1)) % FIFO_SIZE
          = IF a + (m + 1) < FIFO_SIZE THEN a + (m + 1) ELSE a + (m + 1) - FIFO_SIZE
  BY <1>1, Wrapped
<1> QED BY <1>1, <1>2, <1>3, <1>4 DEF Slots, After

\* Places after the next Start are one place further.
LEMMA NextStart ==
    ASSUME NEW a \in Slots, NEW k \in 0 .. FIFO_SIZE - 1
    PROVE  (After(a) + k) % FIFO_SIZE = (a + (k + 1)) % FIFO_SIZE
<1>1. FIFO_SIZE \in Nat \ {0} /\ a \in 0 .. FIFO_SIZE - 1 /\ k \in 0 .. FIFO_SIZE
  BY FIFOAssumption DEF Slots
<1>2. \A b \in Slots : (b + k) % FIFO_SIZE = IF b + k < FIFO_SIZE THEN b + k ELSE b + k - FIFO_SIZE
  BY <1>1, Wrapped
<1>3. (After(a) + k) % FIFO_SIZE
          = IF After(a) + k < FIFO_SIZE THEN After(a) + k ELSE After(a) + k - FIFO_SIZE
  BY <1>2, AfterSlots
<1>4. (a + (k + 1)) % FIFO_SIZE
          = IF a + (k + 1) < FIFO_SIZE THEN a + (k + 1) ELSE a + (k + 1) - FIFO_SIZE
  BY <1>1, Wrapped
<1> QED BY <1>1, <1>3, <1>4 DEF After

-----------------------------------------------------------------------------
(* What the counts say to the thread inside the ring *)

\* A put inside the ring has room, a get inside the ring has a byte.
LEMMA Bounds ==
    ASSUME IInv
    PROVE  /\ fifo.NbBytes \in 0 .. FIFO_SIZE
           /\ \A t \in Threads :
                 /\ pc[t] \in {"put_access", "put_stored"} => fifo.NbBytes < FIFO_SIZE
                 /\ pc[t] \in {"get_access", "get_loaded"} => fifo.NbBytes > 0
<1> USE FIFOAssumption, Names
<1>1. fifo.NbBytes \in 0 .. FIFO_SIZE
  BY HoldersFinite DEF IInv, WeakType, SpaceCounted, ItemsCounted
<1>2. ASSUME NEW t \in Threads, pc[t] \in {"put_access", "put_stored"}
      PROVE  fifo.NbBytes < FIFO_SIZE
  <2>1. t \in SpaceHolders
    BY <1>2 DEF SpaceHolders, HoldsSpace
  <2>2. Cardinality(SpaceHolders) # 0
    BY <2>1, HoldersFinite, FS_EmptySet
  <2> QED BY <2>2, HoldersFinite DEF IInv, WeakType, SpaceCounted
<1>3. ASSUME NEW t \in Threads, pc[t] \in {"get_access", "get_loaded"}
      PROVE  fifo.NbBytes > 0
  <2>1. t \in ItemHolders
    BY <1>3 DEF ItemHolders, HoldsItem
  <2>2. Cardinality(ItemHolders) # 0
    BY <2>1, HoldersFinite, FS_EmptySet
  <2> QED BY <2>2, HoldersFinite DEF IInv, WeakType, ItemsCounted
<1> QED BY <1>1, <1>2, <1>3

\* A thread past the buffer access, and only one, is inside.
LEMMA Inside ==
    ASSUME IInv, NEW t \in Threads, NEW u \in Threads, InBuffer(t),
           pc[u] \in {"put_stored", "put_counted", "get_loaded", "get_counted"}
    PROVE  t = u
<1>1. InBuffer(u)
  BY Names DEF IInv, Sleeping, InBuffer
<1> QED BY <1>1, OneHolder DEF MutualExclusion

\* Whether a byte has been loaded and not yet uncounted.
LEMMA LoadedValue ==
    ASSUME IInv
    PROVE  Loaded = IF \E t \in Threads : pc[t] = "get_loaded" THEN 1 ELSE 0
<1>1. \A t \in Threads : pc[t] = "get_loaded" => InBuffer(t)
  BY Names DEF IInv, Sleeping, InBuffer
<1> QED BY <1>1 DEF Loaded

-----------------------------------------------------------------------------
(* The ring invariant *)

LEMMA RingInit == Init => Ring /\ Stored
<1> SUFFICES ASSUME Init PROVE Ring /\ Stored
  OBVIOUS
<1>1. fifo.Start = 0 /\ fifo.End = 0 /\ fifo.NbBytes = 0
  BY DEF Init, FIFO_Init
<1>2. 0 % FIFO_SIZE = 0
  BY FIFOAssumption
<1> QED BY <1>1, <1>2 DEF Init, FIFO_Init, Ring, Place, Stored

LEMMA RingStep ==
    ASSUME RInv, [Next]_vars
    PROVE  Ring' /\ Stored'
<1> USE DEF RInv, IInv, WeakType, Goto
<1> USE FIFOAssumption
<1>1. ASSUME NEW t \in Threads, PutStore(t)
      PROVE  Ring' /\ Stored'
  <2>1. /\ fifo'.Start = fifo.Start /\ fifo'.End = fifo.End /\ fifo'.NbBytes = fifo.NbBytes
        /\ fifo'.Buffer[fifo.End] = item[t] /\ item' = item
        /\ pc' = [pc EXCEPT ![t] = "put_stored"] /\ InBuffer(t)
    BY <1>1, Names DEF PutStore, InBuffer, Ready
  <2>2. \A u \in Threads \ {t} : pc[u] # "put_stored"
    BY <2>1, Inside
  <2> QED BY <2>1, <2>2 DEF Ring, Place, Stored
<1>2. ASSUME NEW t \in Threads, PutAdvance(t)
      PROVE  Ring' /\ Stored'
  <2>1. /\ fifo'.Start = fifo.Start /\ fifo'.End = After(fifo.End)
        /\ fifo'.NbBytes = fifo.NbBytes + 1 /\ fifo'.Buffer = fifo.Buffer /\ item' = item
        /\ pc' = [pc EXCEPT ![t] = "put_counted"] /\ pc[t] = "put_stored" /\ InBuffer(t)
    BY <1>2, Names DEF PutAdvance, InBuffer, Ready
  <2>2. fifo.NbBytes \in 0 .. FIFO_SIZE - 1 /\ fifo.Start \in Slots
    BY <2>1, Bounds
  <2>3. After(Place(fifo.NbBytes)) = (fifo.Start + (fifo.NbBytes + 1)) % FIFO_SIZE
    BY <2>2, Places DEF Place
  <2>4. \A u \in Threads \ {t} : pc[u] # "put_stored"
    BY <2>1, Inside
  <2> QED BY <2>1, <2>3, <2>4 DEF Ring, Place, Stored
<1>3. ASSUME NEW t \in Threads, GetAdvance(t)
      PROVE  Ring' /\ Stored'
  <2>1. /\ fifo'.Start = After(fifo.Start) /\ fifo'.End = fifo.End
        /\ fifo'.NbBytes = fifo.NbBytes - 1 /\ fifo'.Buffer = fifo.Buffer /\ item' = item
        /\ pc' = [pc EXCEPT ![t] = "get_counted"] /\ pc[t] = "get_loaded"
    BY <1>3 DEF GetAdvance
  <2>2. fifo.NbBytes - 1 \in 0 .. FIFO_SIZE - 1 /\ fifo.Start \in Slots
    BY <2>1, Bounds
  <2>3. (After(fifo.Start) + (fifo.NbBytes - 1)) % FIFO_SIZE = (fifo.Start + ((fifo.NbBytes - 1) + 1)) % FIFO_SIZE
    BY <2>2, NextStart
  <2>4. (fifo.NbBytes - 1) + 1 = fifo.NbBytes
    BY <2>2
  <2> QED BY <2>1, <2>3, <2>4 DEF Ring, Place, Stored
<1>4. ASSUME NEW t \in Threads, \/ GetLoad(t) \/ GetCall(t)
                                \/ \E b \in Bytes : PutCall(t, b)
      PROVE  Ring' /\ Stored'
  BY <1>4 DEF GetLoad, GetCall, PutCall, Ring, Place, Stored
<1>5. ASSUME NEW t \in Threads, \/ PutEnter(t) \/ PutLeave(t) \/ PutReturn(t)
                                \/ GetEnter(t) \/ GetLeave(t) \/ GetReturn(t)
      PROVE  Ring' /\ Stored'
  BY <1>5 DEF PutEnter, PutLeave, PutReturn, GetEnter, GetLeave, GetReturn, Ring, Place, Stored
<1>6. CASE UNCHANGED vars
  BY <1>6 DEF vars, fifoVars, Ring, Place, Stored
<1> QED
  BY <1>1, <1>2, <1>3, <1>4, <1>5, <1>6 DEF Next, PutStep, GetStep

LEMMA RingInvariant == Spec => []RInv
<1>1. Init => RInv
  BY InitIInv, RingInit DEF RInv
<1>2. RInv /\ [Next]_vars => RInv'
  BY TypeStep, SleepStep, AccessStep, SpaceStep, ItemsStep, RingStep DEF RInv, IInv
<1> QED BY <1>1, <1>2, PTL DEF Spec

-----------------------------------------------------------------------------
(* What a ring holds, of which l bytes are loaded but still counted *)

Holds(f, l) == [i \in 1 .. f.NbBytes - l |-> f.Buffer[(f.Start + l + i - 1) % FIFO_SIZE]]

LEMMA HoldsBytes ==
    ASSUME NEW f \in TFIFO, NEW l \in 0 .. f.NbBytes
    PROVE  /\ Holds(f, l) \in Seq(Bytes)
           /\ Len(Holds(f, l)) = f.NbBytes - l
           /\ \A i \in 1 .. f.NbBytes - l :
                 Holds(f, l)[i] = f.Buffer[(f.Start + (l + i - 1)) % FIFO_SIZE]
<1>1. /\ f.NbBytes \in 0 .. FIFO_SIZE /\ f.Start \in Slots /\ f.Start \in Int
      /\ f.Buffer \in [Slots -> Bytes] /\ f.NbBytes - l \in Nat /\ l \in Int
  BY FIFOAssumption DEF TFIFO, Slots
<1>2. ASSUME NEW i \in 1 .. f.NbBytes - l
      PROVE  /\ f.Start + l + i - 1 = f.Start + (l + i - 1)
             /\ f.Buffer[(f.Start + l + i - 1) % FIFO_SIZE] \in Bytes
  <2>1. l + i - 1 \in 0 .. FIFO_SIZE /\ f.Start + l + i - 1 = f.Start + (l + i - 1)
    BY <1>1, FIFOAssumption
  <2>2. (f.Start + (l + i - 1)) % FIFO_SIZE \in Slots
    BY <1>1, <2>1, Places, FIFOAssumption
  <2> QED BY <1>1, <2>1, <2>2
<1>3. Holds(f, l) \in [1 .. f.NbBytes - l -> Bytes]
  BY <1>2 DEF Holds
<1>4. \A g : g \in [1 .. f.NbBytes - l -> Bytes] => g \in Seq(Bytes) /\ Len(g) = f.NbBytes - l
  BY <1>1
<1> QED BY <1>2, <1>3, <1>4 DEF Holds

\* Counting one byte more appends the byte in the next place.
LEMMA HoldsAppend ==
    ASSUME NEW f \in TFIFO, NEW g \in TFIFO, g.Start = f.Start, g.Buffer = f.Buffer,
           g.NbBytes = f.NbBytes + 1
    PROVE  Holds(g, 0) = Append(Holds(f, 0), f.Buffer[(f.Start + f.NbBytes) % FIFO_SIZE])
<1> DEFINE b == f.Buffer[(f.Start + f.NbBytes) % FIFO_SIZE]
<1>1. f.NbBytes \in Nat /\ g.NbBytes \in Nat /\ 0 \in 0 .. f.NbBytes /\ 0 \in 0 .. g.NbBytes
  BY FIFOAssumption DEF TFIFO
<1>2. /\ Holds(f, 0) \in Seq(Bytes) /\ Len(Holds(f, 0)) = f.NbBytes
      /\ \A i \in 1 .. f.NbBytes : Holds(f, 0)[i] = f.Buffer[(f.Start + (0 + i - 1)) % FIFO_SIZE]
  BY <1>1, HoldsBytes
<1>3. /\ Holds(g, 0) \in Seq(Bytes) /\ Len(Holds(g, 0)) = f.NbBytes + 1
      /\ \A i \in 1 .. f.NbBytes + 1 : Holds(g, 0)[i] = f.Buffer[(f.Start + (0 + i - 1)) % FIFO_SIZE]
  BY <1>1, HoldsBytes
<1>4. Holds(g, 0)[f.NbBytes + 1] = b
  <2>1. f.NbBytes + 1 \in 1 .. f.NbBytes + 1 /\ 0 + (f.NbBytes + 1) - 1 = f.NbBytes
    BY <1>1
  <2> QED BY <1>3, <2>1
<1>5. b \in Bytes
  <2>1. f.NbBytes + 1 \in 1 .. Len(Holds(g, 0))
    BY <1>1, <1>3
  <2> QED BY <1>3, <1>4, <2>1, ElementOfSeq
<1> HIDE DEF b
<1>6. /\ Append(Holds(f, 0), b) \in Seq(Bytes) /\ Len(Append(Holds(f, 0), b)) = f.NbBytes + 1
      /\ \A i \in 1 .. f.NbBytes : Append(Holds(f, 0), b)[i] = Holds(f, 0)[i]
      /\ Append(Holds(f, 0), b)[f.NbBytes + 1] = b
  BY <1>2, <1>5, AppendProperties
<1>7. ASSUME NEW i \in 1 .. f.NbBytes + 1
      PROVE  Holds(g, 0)[i] = Append(Holds(f, 0), b)[i]
  <2>1. CASE i = f.NbBytes + 1
    BY <2>1, <1>4, <1>6
  <2>2. CASE i # f.NbBytes + 1
    <3>1. i \in 1 .. f.NbBytes
      BY <1>1, <2>2
    <3> QED BY <3>1, <1>2, <1>3, <1>6
  <2> QED BY <2>1, <2>2
<1>8. Holds(g, 0) = Append(Holds(f, 0), b)
  BY <1>3, <1>6, <1>7, SeqEqual
<1> QED BY <1>8 DEF b

\* The byte at Start is the oldest; the others remain when it is loaded.
LEMMA HoldsTail ==
    ASSUME NEW f \in TFIFO, f.NbBytes > 0
    PROVE  /\ Holds(f, 0) # <<>>
           /\ Head(Holds(f, 0)) = f.Buffer[f.Start]
           /\ Tail(Holds(f, 0)) = Holds(f, 1)
<1>1. /\ f.NbBytes \in Nat /\ 0 \in 0 .. f.NbBytes /\ 1 \in 0 .. f.NbBytes /\ f.Start \in Slots
      /\ f.NbBytes - 0 = f.NbBytes
  BY FIFOAssumption DEF TFIFO
<1>2. /\ Holds(f, 0) \in Seq(Bytes) /\ Len(Holds(f, 0)) = f.NbBytes
      /\ \A i \in 1 .. f.NbBytes : Holds(f, 0)[i] = f.Buffer[(f.Start + (0 + i - 1)) % FIFO_SIZE]
  BY <1>1, HoldsBytes
<1>3. /\ Holds(f, 1) \in Seq(Bytes) /\ Len(Holds(f, 1)) = f.NbBytes - 1
      /\ \A i \in 1 .. f.NbBytes - 1 : Holds(f, 1)[i] = f.Buffer[(f.Start + (1 + i - 1)) % FIFO_SIZE]
  BY <1>1, HoldsBytes
<1>4. Holds(f, 0) # <<>>
  BY <1>2, EmptySeq
<1>5. Head(Holds(f, 0)) = f.Buffer[f.Start]
  <2>1. (f.Start + 0) % FIFO_SIZE = f.Start
    BY <1>1, FIFOAssumption DEF Slots
  <2>2. 1 \in 1 .. f.NbBytes /\ 0 + 1 - 1 = 0
    BY <1>1
  <2>3. Holds(f, 0)[1] = f.Buffer[f.Start]
    BY <1>2, <2>1, <2>2
  <2> QED BY <2>3
<1>6. /\ Tail(Holds(f, 0)) \in Seq(Bytes) /\ Len(Tail(Holds(f, 0))) = f.NbBytes - 1
      /\ \A i \in 1 .. f.NbBytes - 1 : Tail(Holds(f, 0))[i] = Holds(f, 0)[i + 1]
  BY <1>2, <1>4, HeadTailProperties
<1>7. ASSUME NEW i \in 1 .. f.NbBytes - 1
      PROVE  Tail(Holds(f, 0))[i] = Holds(f, 1)[i]
  <2>1. i + 1 \in 1 .. f.NbBytes /\ 0 + (i + 1) - 1 = 1 + i - 1
    BY <1>1
  <2> QED BY <1>2, <1>3, <1>6, <2>1
<1>8. Tail(Holds(f, 0)) = Holds(f, 1)
  BY <1>3, <1>6, <1>7, SeqEqual
<1> QED BY <1>4, <1>5, <1>8

\* Moving Start over the loaded byte changes nothing.
LEMMA HoldsAdvance ==
    ASSUME NEW f \in TFIFO, NEW g \in TFIFO, f.NbBytes > 0,
           g.Start = After(f.Start), g.Buffer = f.Buffer, g.NbBytes = f.NbBytes - 1
    PROVE  Holds(g, 0) = Holds(f, 1)
<1>1. /\ f.NbBytes \in 1 .. FIFO_SIZE /\ g.NbBytes \in Nat /\ 0 \in 0 .. g.NbBytes
      /\ 1 \in 0 .. f.NbBytes /\ f.Start \in Slots /\ g.NbBytes - 0 = f.NbBytes - 1
  BY FIFOAssumption DEF TFIFO
<1>2. /\ Holds(f, 1) \in Seq(Bytes) /\ Len(Holds(f, 1)) = f.NbBytes - 1
      /\ \A i \in 1 .. f.NbBytes - 1 : Holds(f, 1)[i] = f.Buffer[(f.Start + (1 + i - 1)) % FIFO_SIZE]
  BY <1>1, HoldsBytes
<1>3. /\ Holds(g, 0) \in Seq(Bytes) /\ Len(Holds(g, 0)) = f.NbBytes - 1
      /\ \A i \in 1 .. f.NbBytes - 1 : Holds(g, 0)[i] = f.Buffer[(After(f.Start) + (0 + i - 1)) % FIFO_SIZE]
  BY <1>1, HoldsBytes
<1>4. ASSUME NEW i \in 1 .. f.NbBytes - 1
      PROVE  Holds(g, 0)[i] = Holds(f, 1)[i]
  <2>1. 0 + i - 1 \in 0 .. FIFO_SIZE - 1 /\ (0 + i - 1) + 1 = 1 + i - 1
    BY <1>1, FIFOAssumption
  <2>2. (After(f.Start) + (0 + i - 1)) % FIFO_SIZE = (f.Start + ((0 + i - 1) + 1)) % FIFO_SIZE
    BY <1>1, <2>1, NextStart
  <2> QED BY <1>2, <1>3, <2>1, <2>2
<1> QED BY <1>2, <1>3, <1>4, SeqEqual

\* Storing a byte in the place after the last changes nothing.
LEMMA HoldsStore ==
    ASSUME NEW f \in TFIFO, NEW g \in TFIFO, f.NbBytes < FIFO_SIZE,
           g.Start = f.Start, g.NbBytes = f.NbBytes,
           \A j \in Slots : j # (f.Start + f.NbBytes) % FIFO_SIZE => g.Buffer[j] = f.Buffer[j]
    PROVE  Holds(g, 0) = Holds(f, 0)
<1>1. /\ f.NbBytes \in 0 .. FIFO_SIZE /\ f.NbBytes \in 0 .. FIFO_SIZE - 1 /\ 0 \in 0 .. f.NbBytes
      /\ f.Start \in Slots /\ f.NbBytes - 0 = f.NbBytes
  BY FIFOAssumption DEF TFIFO
<1>2. /\ Holds(f, 0) \in Seq(Bytes) /\ Len(Holds(f, 0)) = f.NbBytes
      /\ \A i \in 1 .. f.NbBytes : Holds(f, 0)[i] = f.Buffer[(f.Start + (0 + i - 1)) % FIFO_SIZE]
  BY <1>1, HoldsBytes
<1>3. /\ Holds(g, 0) \in Seq(Bytes) /\ Len(Holds(g, 0)) = f.NbBytes
      /\ \A i \in 1 .. f.NbBytes : Holds(g, 0)[i] = g.Buffer[(f.Start + (0 + i - 1)) % FIFO_SIZE]
  BY <1>1, HoldsBytes
<1>4. ASSUME NEW i \in 1 .. f.NbBytes
      PROVE  Holds(g, 0)[i] = Holds(f, 0)[i]
  <2>1. 0 + i - 1 \in 0 .. FIFO_SIZE /\ 0 + i - 1 < FIFO_SIZE /\ 0 + i - 1 # f.NbBytes
    BY <1>1, FIFOAssumption
  <2>2. /\ (f.Start + (0 + i - 1)) % FIFO_SIZE \in Slots
        /\ (f.Start + (0 + i - 1)) % FIFO_SIZE # (f.Start + f.NbBytes) % FIFO_SIZE
    BY <1>1, <2>1, Places
  <2> QED BY <1>2, <1>3, <2>2
<1> QED BY <1>2, <1>3, <1>4, SeqEqual

-----------------------------------------------------------------------------
(* The refinement *)

\* What the steps of the refinement start from and end in.
LoadedCounted == Loaded = IF \E t \in Threads : pc[t] = "get_loaded" THEN 1 ELSE 0

Facts == RInv /\ TypeOK /\ LoadedCounted

CallMap == [t \in Threads |-> Call(t)]

\* A thread that moves inside one phase of its call, or on to the next phase.
LEMMA CallMoves ==
    ASSUME TypeOK, NEW t \in Threads, NEW l, pc' = [pc EXCEPT ![t] = l], NEW c,
           c = CASE l = "idle" -> "idle"
                 [] l \in {"put_space", "put_access", "put_stored"} -> "put"
                 [] l \in {"get_item", "get_access"} -> "get"
                 [] OTHER -> "done"
    PROVE  /\ CallMap' = [CallMap EXCEPT ![t] = c]
           /\ c = Call(t) => CallMap' = CallMap
  BY DEF TypeOK, Call, CallMap

\* No byte is loaded and still counted while another thread changes the ring.
LEMMA NothingLoaded ==
    ASSUME IInv, LoadedCounted, NEW t \in Threads, InBuffer(t), pc[t] # "get_loaded"
    PROVE  Loaded = 0
  BY Inside DEF LoadedCounted

LEMMA RefineInit == Init => Queue!Init
<1> SUFFICES ASSUME Init PROVE Queue!Init
  OBVIOUS
<1>1. fifo.NbBytes = 0 /\ Loaded = 0
  BY DEF Init, FIFO_Init, Loaded
<1>2. Contents = <<>>
  BY <1>1 DEF Contents
<1>3. [t \in Threads |-> Call(t)] = [t \in Threads |-> "idle"]
  BY DEF Init, FIFO_Init, Call
<1>4. item \in [Threads -> Bytes]
  BY FIFOAssumption DEF Init, FIFO_Init
<1> QED BY <1>2, <1>3, <1>4 DEF Queue!Init

LEMMA RefineStep ==
    ASSUME Facts, Facts', [Next]_vars
    PROVE  [Queue!Next]_(Queue!queueVars)
<1> USE FIFOAssumption
<1>0. /\ Facts /\ IInv /\ RInv /\ TypeOK /\ LoadedCounted /\ LoadedCounted'
      /\ fifo \in TFIFO /\ fifo' \in TFIFO
      /\ pc \in [Threads -> {"idle"} \cup PutLabels \cup GetLabels]
      /\ item \in [Threads -> Bytes]
      /\ Contents = Holds(fifo, Loaded) /\ Contents' = Holds(fifo', Loaded')
  BY DEF Facts, RInv, TypeOK, Contents, Holds
<1> DEFINE Same == UNCHANGED <<Contents, CallMap, item>>
<1>1. ASSUME Same PROVE UNCHANGED Queue!queueVars
  BY <1>1 DEF Queue!queueVars, CallMap
<1>2. ASSUME NEW t \in Threads, NEW b \in Bytes, PutCall(t, b)
      PROVE  Queue!CallPut(t, b)
  <2>1. pc[t] = "idle" /\ pc' = [pc EXCEPT ![t] = "put_space"] /\ fifo' = fifo
        /\ item' = [item EXCEPT ![t] = b]
    BY <1>2 DEF PutCall, Goto
  <2>2. CallMap' = [CallMap EXCEPT ![t] = "put"] /\ CallMap[t] = "idle"
    BY <1>0, <2>1, CallMoves DEF CallMap, Call
  <2>3. Loaded' = Loaded
    BY <1>0, <2>1 DEF LoadedCounted
  <2> QED BY <1>0, <2>1, <2>2, <2>3 DEF Queue!CallPut, CallMap
<1>3. ASSUME NEW t \in Threads, GetCall(t)
      PROVE  Queue!CallGet(t)
  <2>1. pc[t] = "idle" /\ pc' = [pc EXCEPT ![t] = "get_item"] /\ fifo' = fifo /\ item' = item
    BY <1>3 DEF GetCall, Goto
  <2>2. CallMap' = [CallMap EXCEPT ![t] = "get"] /\ CallMap[t] = "idle"
    BY <1>0, <2>1, CallMoves DEF CallMap, Call
  <2>3. Loaded' = Loaded
    BY <1>0, <2>1 DEF LoadedCounted
  <2> QED BY <1>0, <2>1, <2>2, <2>3 DEF Queue!CallGet, CallMap
<1>4. ASSUME NEW t \in Threads, PutStore(t)
      PROVE  Same
  <2>1. /\ pc[t] = "put_access" /\ pc' = [pc EXCEPT ![t] = "put_stored"] /\ item' = item
        /\ fifo' = [fifo EXCEPT !.Buffer = [fifo.Buffer EXCEPT ![fifo.End] = item[t]]]
    BY <1>4 DEF PutStore, Goto
  <2>2. InBuffer(t)
    BY <1>4, <2>1, Names DEF PutStore, Goto, Ready, InBuffer
  <2>3. Loaded = 0 /\ Loaded' = 0
    <3>1. Loaded = 0
      BY <1>0, <2>1, <2>2, NothingLoaded
    <3> QED BY <1>0, <2>1, <3>1 DEF LoadedCounted
  <2>4. fifo.NbBytes < FIFO_SIZE /\ fifo.End = (fifo.Start + fifo.NbBytes) % FIFO_SIZE
    BY <1>0, <2>1, Bounds DEF RInv, Ring, Place
  <2>5. Holds(fifo', 0) = Holds(fifo, 0)
    <3>1. /\ fifo'.Start = fifo.Start /\ fifo'.NbBytes = fifo.NbBytes
          /\ \A j \in Slots : j # (fifo.Start + fifo.NbBytes) % FIFO_SIZE
                                => fifo'.Buffer[j] = fifo.Buffer[j]
      BY <1>0, <2>1, <2>4 DEF TFIFO
    <3> QED BY <1>0, <2>4, <3>1, HoldsStore
  <2>6. CallMap' = CallMap
    BY <1>0, <2>1, CallMoves DEF Call
  <2> QED BY <1>0, <2>1, <2>3, <2>5, <2>6
<1>5. ASSUME NEW t \in Threads, PutAdvance(t)
      PROVE  Queue!Enqueue(t)
  <2>1. /\ pc[t] = "put_stored" /\ pc' = [pc EXCEPT ![t] = "put_counted"] /\ item' = item
        /\ fifo' = [fifo EXCEPT !.End = After(@), !.NbBytes = @ + 1]
    BY <1>5 DEF PutAdvance, Goto
  <2>2. InBuffer(t)
    BY <1>5, <2>1, Names DEF PutAdvance, Goto, Ready, InBuffer
  <2>3. Loaded = 0 /\ Loaded' = 0
    <3>1. Loaded = 0
      BY <1>0, <2>1, <2>2, NothingLoaded
    <3> QED BY <1>0, <2>1, <3>1 DEF LoadedCounted
  <2>4. /\ fifo.NbBytes < FIFO_SIZE /\ fifo.End = (fifo.Start + fifo.NbBytes) % FIFO_SIZE
        /\ fifo.Buffer[fifo.End] = item[t]
    BY <1>0, <2>1, Bounds DEF RInv, Ring, Place, Stored
  <2>5. Holds(fifo', 0) = Append(Holds(fifo, 0), item[t])
    <3>1. fifo'.Start = fifo.Start /\ fifo'.Buffer = fifo.Buffer /\ fifo'.NbBytes = fifo.NbBytes + 1
      BY <1>0, <2>1 DEF TFIFO
    <3> QED BY <1>0, <2>4, <3>1, HoldsAppend
  <2>6. Len(Holds(fifo, 0)) < FIFO_SIZE
    <3>1. fifo.NbBytes \in Nat /\ 0 \in 0 .. fifo.NbBytes
      BY <1>0 DEF TFIFO
    <3> QED BY <1>0, <2>4, <3>1, HoldsBytes
  <2>7. CallMap' = [CallMap EXCEPT ![t] = "done"] /\ CallMap[t] = "put"
    BY <1>0, <2>1, CallMoves DEF CallMap, Call
  <2> QED BY <1>0, <2>1, <2>3, <2>5, <2>6, <2>7 DEF Queue!Enqueue, CallMap
<1>6. ASSUME NEW t \in Threads, GetLoad(t)
      PROVE  Queue!Dequeue(t)
  <2>1. /\ pc[t] = "get_access" /\ pc' = [pc EXCEPT ![t] = "get_loaded"] /\ fifo' = fifo
        /\ item' = [item EXCEPT ![t] = fifo.Buffer[fifo.Start]]
    BY <1>6 DEF GetLoad, Goto
  <2>2. InBuffer(t)
    BY <1>6, <2>1, Names DEF GetLoad, Goto, Ready, InBuffer
  <2>3. Loaded = 0 /\ Loaded' = 1
    <3>1. Loaded = 0
      BY <1>0, <2>1, <2>2, NothingLoaded
    <3>2. pc'[t] = "get_loaded"
      BY <1>0, <2>1
    <3> QED BY <1>0, <3>1, <3>2 DEF LoadedCounted
  <2>4. fifo.NbBytes > 0
    BY <1>0, <2>1, Bounds
  <2>5. /\ Holds(fifo, 0) # <<>> /\ Head(Holds(fifo, 0)) = fifo.Buffer[fifo.Start]
        /\ Tail(Holds(fifo, 0)) = Holds(fifo, 1)
    BY <1>0, <2>4, HoldsTail
  <2>6. CallMap' = [CallMap EXCEPT ![t] = "done"] /\ CallMap[t] = "get"
    BY <1>0, <2>1, CallMoves DEF CallMap, Call
  <2> QED BY <1>0, <2>1, <2>3, <2>5, <2>6 DEF Queue!Dequeue, CallMap
<1>7. ASSUME NEW t \in Threads, GetAdvance(t)
      PROVE  Same
  <2>1. /\ pc[t] = "get_loaded" /\ pc' = [pc EXCEPT ![t] = "get_counted"] /\ item' = item
        /\ fifo' = [fifo EXCEPT !.Start = After(@), !.NbBytes = @ - 1]
    BY <1>7 DEF GetAdvance, Goto
  <2>2. InBuffer(t)
    BY <1>7, <2>1, Names DEF GetAdvance, Goto, Ready, InBuffer
  <2>3. Loaded = 1 /\ Loaded' = 0
    <3>1. \A u \in Threads \ {t} : pc[u] # "get_loaded"
      BY <1>0, <2>2, Inside
    <3>2. \A u \in Threads : pc'[u] # "get_loaded"
      BY <1>0, <2>1, <3>1
    <3> QED BY <1>0, <2>1, <3>2 DEF LoadedCounted
  <2>4. fifo.NbBytes > 0
    BY <1>0, <2>1, Bounds
  <2>5. Holds(fifo', 0) = Holds(fifo, 1)
    <3>1. /\ fifo'.Start = After(fifo.Start) /\ fifo'.Buffer = fifo.Buffer
          /\ fifo'.NbBytes = fifo.NbBytes - 1
      BY <1>0, <2>1 DEF TFIFO
    <3> QED BY <1>0, <2>4, <3>1, HoldsAdvance
  <2>6. CallMap' = CallMap
    <3>1. pc'[t] = "get_counted" /\ \A u \in Threads \ {t} : pc'[u] = pc[u]
      BY <1>0, <2>1
    <3>2. \A u \in Threads : Call(u)' = Call(u)
      BY <2>1, <3>1 DEF Call
    <3> QED BY <3>2 DEF CallMap
  <2> QED BY <1>0, <2>1, <2>3, <2>5, <2>6
<1>8. ASSUME NEW t \in Threads,
             PutEnter(t) \/ PutLeave(t) \/ GetEnter(t) \/ GetLeave(t)
      PROVE  Same
  <2>1. fifo' = fifo /\ item' = item
    BY <1>8 DEF PutEnter, PutLeave, GetEnter, GetLeave
  <2>2. PICK l \in {"put_access", "put_left", "get_access", "get_left"} :
           /\ pc' = [pc EXCEPT ![t] = l]
           /\ l = "put_access" => pc[t] = "put_space"
           /\ l = "put_left" => pc[t] = "put_counted"
           /\ l = "get_access" => pc[t] = "get_item"
           /\ l = "get_left" => pc[t] = "get_counted"
    BY <1>8 DEF PutEnter, PutLeave, GetEnter, GetLeave, Goto
  <2>3. CallMap' = CallMap
    <3>1. CASE l = "put_access"
      BY <1>0, <2>2, <3>1, CallMoves DEF Call
    <3>2. CASE l \in {"put_left", "get_left"}
      BY <1>0, <2>2, <3>2, CallMoves DEF Call
    <3>3. CASE l = "get_access"
      BY <1>0, <2>2, <3>3, CallMoves DEF Call
    <3> QED BY <2>2, <3>1, <3>2, <3>3
  <2>4. Loaded' = Loaded
    BY <1>0, <2>2 DEF LoadedCounted
  <2> QED BY <1>0, <2>1, <2>3, <2>4
<1>9. ASSUME NEW t \in Threads, PutReturn(t) \/ GetReturn(t)
      PROVE  Queue!Return(t)
  <2>1. /\ pc[t] \in {"put_left", "get_left"} /\ pc' = [pc EXCEPT ![t] = "idle"]
        /\ fifo' = fifo /\ item' = item
    BY <1>9 DEF PutReturn, GetReturn, Goto
  <2>2. CallMap' = [CallMap EXCEPT ![t] = "idle"] /\ CallMap[t] = "done"
    BY <1>0, <2>1, CallMoves DEF CallMap, Call
  <2>3. Loaded' = Loaded
    BY <1>0, <2>1 DEF LoadedCounted
  <2> QED BY <1>0, <2>1, <2>2, <2>3 DEF Queue!Return, CallMap
<1>10. ASSUME UNCHANGED vars PROVE Same
  <2>1. fifo' = fifo /\ item' = item /\ pc' = pc /\ waiters' = waiters
    BY <1>10 DEF vars, fifoVars, osVars
  <2>2. CallMap' = CallMap
    BY <2>1 DEF CallMap, Call
  <2>3. Loaded' = Loaded
    BY <1>0, <2>1 DEF LoadedCounted
  <2> QED BY <1>0, <2>1, <2>2, <2>3
<1> HIDE DEF Same
<1>11. CASE Next
  <2>1. PICK t \in Threads : \/ \E b \in Bytes : PutCall(t, b)
                             \/ GetCall(t) \/ PutStep(t) \/ GetStep(t)
    BY <1>11 DEF Next
  <2> QED
    BY <2>1, <1>1, <1>2, <1>3, <1>4, <1>5, <1>6, <1>7, <1>8, <1>9
       DEF PutStep, GetStep, Queue!Next
<1> QED BY <1>1, <1>10, <1>11

\* What a step does to the contents: only a put that becomes "done" appends, and only
\* a get that becomes "done" takes.
LEMMA QueueMoves ==
    ASSUME Facts, Facts', [Next]_vars
    PROVE  /\ \A t \in Threads : Call(t) = "put" /\ Call(t)' = "done" =>
                 Contents' = Append(Contents, item[t])
           /\ \A t \in Threads : Call(t) = "get" /\ Call(t)' = "done" =>
                 Contents # <<>> /\ item'[t] = Head(Contents) /\ Contents' = Tail(Contents)
           /\ (\A t \in Threads : Call(t)' = "done" => Call(t) = "done") => Contents' = Contents
<1>1. [Queue!Next]_(Queue!queueVars)
  BY RefineStep
<1>2. item \in [Threads -> Bytes] /\ \A t \in Threads : CallMap[t] = Call(t) /\ CallMap'[t] = Call(t)'
  BY DEF Facts, TypeOK, CallMap
<1>3. CASE UNCHANGED Queue!queueVars
  BY <1>2, <1>3 DEF Queue!queueVars, CallMap
<1>4. ASSUME NEW t \in Threads, NEW b \in Bytes,
             Queue!CallPut(t, b) \/ Queue!CallGet(t) \/ Queue!Return(t)
      PROVE  Contents' = Contents /\ \A u \in Threads : Call(u)' = "done" => Call(u) = "done"
  BY <1>2, <1>4 DEF Queue!CallPut, Queue!CallGet, Queue!Return, CallMap
<1>5. ASSUME NEW t \in Threads, Queue!Enqueue(t)
      PROVE  /\ Contents' = Append(Contents, item[t]) /\ Call(t) = "put" /\ Call(t)' = "done"
             /\ \A u \in Threads \ {t} : Call(u)' = Call(u)
  BY <1>2, <1>5 DEF Queue!Enqueue, CallMap
<1>6. ASSUME NEW t \in Threads, Queue!Dequeue(t)
      PROVE  /\ Contents # <<>> /\ item'[t] = Head(Contents) /\ Contents' = Tail(Contents)
             /\ Call(t) = "get" /\ Call(t)' = "done"
             /\ \A u \in Threads \ {t} : Call(u)' = Call(u)
  BY <1>2, <1>6 DEF Queue!Dequeue, CallMap
<1>7. CASE \E t \in Threads : \/ \E b \in Bytes : Queue!CallPut(t, b)
                              \/ Queue!CallGet(t) \/ Queue!Return(t)
  BY <1>4, <1>7, FIFOAssumption
<1>8. CASE \E t \in Threads : Queue!Enqueue(t)
  <2>1. PICK t \in Threads : Queue!Enqueue(t)
    BY <1>8
  <2> QED BY <1>5, <2>1
<1>9. CASE \E t \in Threads : Queue!Dequeue(t)
  <2>1. PICK t \in Threads : Queue!Dequeue(t)
    BY <1>9
  <2> QED BY <1>6, <2>1
<1> QED BY <1>1, <1>3, <1>7, <1>8, <1>9 DEF Queue!Next

LEMMA FactsInvariant == Spec => []Facts
<1>1. RInv => LoadedCounted
  BY LoadedValue DEF RInv, LoadedCounted
<1> QED BY <1>1, RingInvariant, TypeCorrect, PTL DEF Facts

LEMMA ContentsBytes == Facts => Contents \in Seq(Bytes)
<1> SUFFICES ASSUME Facts PROVE Contents \in Seq(Bytes)
  OBVIOUS
<1>1. fifo \in TFIFO /\ fifo.NbBytes \in Nat
  BY FIFOAssumption DEF Facts, TypeOK, TFIFO
<1>2. Loaded \in 0 .. fifo.NbBytes
  <2>1. ASSUME NEW t \in Threads, pc[t] = "get_loaded" PROVE fifo.NbBytes > 0
    BY <2>1, Bounds DEF Facts, RInv
  <2> QED BY <1>1, <2>1 DEF Facts, LoadedCounted
<1> QED BY <1>1, <1>2, HoldsBytes DEF Contents, Holds

\* FIFO_Put and FIFO_Get of any threads, interleaved in any way, are the
\* operations of one bounded queue: bytes come out once each, in the order in
\* which their puts took effect, whatever the capacity of the ring.
THEOREM Linearizable == Spec => LinearizableQueue
<1>1. Init => Queue!Init
  BY RefineInit
<1>2. Facts /\ Facts' /\ [Next]_vars => [Queue!Next]_(Queue!queueVars)
  BY RefineStep
<1> QED BY <1>1, <1>2, FactsInvariant, PTL DEF Spec, LinearizableQueue, Queue!Spec

=============================================================================
