-------------------------------- MODULE FIFO --------------------------------
(***************************************************************************)
(* FIFO.c: a ring of bytes shared by threads through three semaphores.     *)
(* The bodies of FIFO_Put and FIFO_Get are cut at every point where        *)
(* another thread may run with a consequence: at each kernel call and      *)
(* between the access to Buffer and the bookkeeping that goes with it.     *)
(*                                                                         *)
(* pc[t] names the last thing thread t did inside the FIFO.  A thread that *)
(* went to sleep in a wait has its pc past the wait, and continues when it *)
(* is Ready again.                                                         *)
(***************************************************************************)
EXTENDS OS

CONSTANTS
    FIFO_SIZE,         \* the number of bytes the ring holds (256 in FIFO.h)
    Bytes,             \* the values of a byte
    Zero,              \* the byte FIFO_Init fills the ring with
    SpaceAvailbale,    \* the semaphore that counts free places (spelled as in FIFO.h)
    BufferAccess,      \* the semaphore that guards the ring
    ItemsAvailable     \* the semaphore that counts stored bytes

ASSUME FIFOAssumption ==
    /\ FIFO_SIZE \in Nat \ {0}
    /\ Zero \in Bytes
    /\ {SpaceAvailbale, BufferAccess, ItemsAvailable} \subseteq Semaphores
    /\ SpaceAvailbale # BufferAccess
    /\ SpaceAvailbale # ItemsAvailable
    /\ BufferAccess # ItemsAvailable

VARIABLES
    fifo,      \* the TFIFO structure but its semaphores
    pc,        \* where each thread is in FIFO_Put or FIFO_Get
    item       \* the data argument of a put, the target of a get's dataPtr

fifoVars == <<fifo, pc, item>>

Slots == 0 .. FIFO_SIZE - 1

TFIFO == [Start : Slots, End : Slots, NbBytes : 0 .. FIFO_SIZE, Buffer : [Slots -> Bytes]]

PutLabels == {"put_space", "put_access", "put_stored", "put_counted", "put_left"}
GetLabels == {"get_item", "get_access", "get_loaded", "get_counted", "get_left"}

FIFO_Init ==
    /\ fifo = [Start |-> 0, End |-> 0, NbBytes |-> 0, Buffer |-> [i \in Slots |-> Zero]]
    /\ pc = [t \in Threads |-> "idle"]
    /\ item = [t \in Threads |-> Zero]

InitialCount(s) == IF s = SpaceAvailbale THEN FIFO_SIZE
                   ELSE IF s = BufferAccess THEN 1 ELSE 0

\* A cursor moves on and wraps at FIFO_SIZE.
After(i) == IF i + 1 = FIFO_SIZE THEN 0 ELSE i + 1

Goto(t, from, to) ==
    /\ pc[t] = from
    /\ Ready(t)
    /\ pc' = [pc EXCEPT ![t] = to]

-----------------------------------------------------------------------------
(* FIFO_Put(FIFO, b) *)

\* Fault: the put does not wait for room.
PutCallUnchecked(t, b) ==
    /\ Goto(t, "idle", "put_space")
    /\ item' = [item EXCEPT ![t] = b]
    /\ UNCHANGED <<fifo, osVars>>

PutCall(t, b) ==
    /\ Goto(t, "idle", "put_space")
    /\ item' = [item EXCEPT ![t] = b]
    /\ OS_SemaphoreWait(SpaceAvailbale, t)
    /\ UNCHANGED fifo

\* Fault: the put does not take BufferAccess.
PutEnterUnguarded(t) ==
    /\ Goto(t, "put_space", "put_access")
    /\ UNCHANGED <<fifo, item, osVars>>

PutEnter(t) ==
    /\ Goto(t, "put_space", "put_access")
    /\ OS_SemaphoreWait(BufferAccess, t)
    /\ UNCHANGED <<fifo, item>>

PutStore(t) ==
    /\ Goto(t, "put_access", "put_stored")
    /\ fifo' = [fifo EXCEPT !.Buffer = [@ EXCEPT ![fifo.End] = item[t]]]
    /\ UNCHANGED <<item, osVars>>

PutAdvance(t) ==
    /\ Goto(t, "put_stored", "put_counted")
    /\ fifo' = [fifo EXCEPT !.End = After(@), !.NbBytes = @ + 1]
    /\ UNCHANGED <<item, osVars>>

PutLeave(t) ==
    /\ Goto(t, "put_counted", "put_left")
    /\ OS_SemaphoreSignal(BufferAccess)
    /\ UNCHANGED <<fifo, item>>

PutReturn(t) ==
    /\ Goto(t, "put_left", "idle")
    /\ OS_SemaphoreSignal(ItemsAvailable)
    /\ UNCHANGED <<fifo, item>>

-----------------------------------------------------------------------------
(* FIFO_Get(FIFO, dataPtr) *)

GetCall(t) ==
    /\ Goto(t, "idle", "get_item")
    /\ OS_SemaphoreWait(ItemsAvailable, t)
    /\ UNCHANGED <<fifo, item>>

GetEnter(t) ==
    /\ Goto(t, "get_item", "get_access")
    /\ OS_SemaphoreWait(BufferAccess, t)
    /\ UNCHANGED <<fifo, item>>

\* Fault: the get loads the byte after the cursor.
GetLoadNext(t) ==
    /\ Goto(t, "get_access", "get_loaded")
    /\ item' = [item EXCEPT ![t] = fifo.Buffer[After(fifo.Start)]]
    /\ UNCHANGED <<fifo, osVars>>

GetLoad(t) ==
    /\ Goto(t, "get_access", "get_loaded")
    /\ item' = [item EXCEPT ![t] = fifo.Buffer[fifo.Start]]
    /\ UNCHANGED <<fifo, osVars>>

GetAdvance(t) ==
    /\ Goto(t, "get_loaded", "get_counted")
    /\ fifo' = [fifo EXCEPT !.Start = After(@), !.NbBytes = @ - 1]
    /\ UNCHANGED <<item, osVars>>

GetLeave(t) ==
    /\ Goto(t, "get_counted", "get_left")
    /\ OS_SemaphoreSignal(BufferAccess)
    /\ UNCHANGED <<fifo, item>>

\* Fault: the get announces a byte instead of a free place.
GetReturnWrongSemaphore(t) ==
    /\ Goto(t, "get_left", "idle")
    /\ OS_SemaphoreSignal(ItemsAvailable)
    /\ UNCHANGED <<fifo, item>>

GetReturn(t) ==
    /\ Goto(t, "get_left", "idle")
    /\ OS_SemaphoreSignal(SpaceAvailbale)
    /\ UNCHANGED <<fifo, item>>

-----------------------------------------------------------------------------

\* A thread goes on with the call it is in.
PutStep(t) == \/ PutEnter(t) \/ PutStore(t) \/ PutAdvance(t)
              \/ PutLeave(t) \/ PutReturn(t)

GetStep(t) == \/ GetEnter(t) \/ GetLoad(t) \/ GetAdvance(t)
              \/ GetLeave(t) \/ GetReturn(t)

Init ==
    /\ FIFO_Init
    /\ OS_SemaphoreCreate([s \in Semaphores |-> InitialCount(s)])

\* Any threads, in any order: more interleavings than fixed priorities allow.
Next ==
    \E t \in Threads :
        \/ \E b \in Bytes : PutCall(t, b)
        \/ GetCall(t)
        \/ PutStep(t)
        \/ GetStep(t)

vars == <<fifoVars, osVars>>

Spec == Init /\ [][Next]_vars

-----------------------------------------------------------------------------
(* Properties *)

\* Where every variable lives.
TypeOK ==
    /\ fifo \in TFIFO
    /\ pc \in [Threads -> {"idle"} \cup PutLabels \cup GetLabels]
    /\ item \in [Threads -> Bytes]
    /\ count \in [Semaphores -> Nat]
    /\ waiters \in [Semaphores -> SUBSET Threads]

\* The thread holds BufferAccess: FIFO.c between its wait and its signal.
InBuffer(t) ==
    /\ pc[t] \in {"put_access", "put_stored", "put_counted",
                  "get_access", "get_loaded", "get_counted"}
    /\ t \notin waiters[BufferAccess]

\* At most one thread is between OS_SemaphoreWait(BufferAccess) and
\* OS_SemaphoreSignal(BufferAccess), in FIFO_Put and FIFO_Get together.
MutualExclusion == \A t, u \in Threads : InBuffer(t) /\ InBuffer(u) => t = u

\* When every thread is outside the FIFO or asleep, a put sleeps only on a full
\* ring and a get only on an empty one: no signal is lost between the two
\* semaphores of FIFO_Put and FIFO_Get.
Resting == \A t \in Threads : pc[t] = "idle" \/ ~ Ready(t)

NoLostWakeup ==
    Resting =>
        \A t \in Threads :
            /\ pc[t] = "put_space" => fifo.NbBytes = FIFO_SIZE
            /\ pc[t] = "get_item" => fifo.NbBytes = 0
            /\ pc[t] \in {"idle", "put_space", "get_item"}

\* The ring implements the linearizable queue: a put takes effect when End and
\* NbBytes are updated, a get when the byte is loaded.
Loaded == IF \E t \in Threads : pc[t] = "get_loaded" /\ InBuffer(t) THEN 1 ELSE 0

Contents == [i \in 1 .. fifo.NbBytes - Loaded |->
                fifo.Buffer[(fifo.Start + Loaded + i - 1) % FIFO_SIZE]]

Call(t) == CASE pc[t] = "idle" -> "idle"
             [] pc[t] \in {"put_space", "put_access", "put_stored"} -> "put"
             [] pc[t] \in {"get_item", "get_access"} -> "get"
             [] OTHER -> "done"

Queue == INSTANCE ByteQueue
            WITH queue <- Contents, call <- [t \in Threads |-> Call(t)]

LinearizableQueue == Queue!Spec

=============================================================================
