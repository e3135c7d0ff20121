------------------------------ MODULE ByteQueue ------------------------------
(***************************************************************************)
(* What FIFO.c promises its callers: a linearizable bounded queue.  A call *)
(* of FIFO_Put or FIFO_Get takes effect exactly once, in one atomic step   *)
(* between its call and its return; a put waits for room and a get for a   *)
(* byte.                                                                   *)
(***************************************************************************)
EXTENDS Integers, Sequences

CONSTANTS Threads, Bytes, FIFO_SIZE

VARIABLES
    queue,    \* the bytes stored, oldest first
    call,     \* what each thread is doing: no call, a call not yet effective, or done
    item      \* the argument of a thread's put, or the result of its get

queueVars == <<queue, call, item>>

Calls == {"idle", "put", "get", "done"}

Init ==
    /\ queue = <<>>
    /\ call = [t \in Threads |-> "idle"]
    /\ item \in [Threads -> Bytes]

CallPut(t, b) ==
    /\ call[t] = "idle"
    /\ call' = [call EXCEPT ![t] = "put"]
    /\ item' = [item EXCEPT ![t] = b]
    /\ UNCHANGED queue

CallGet(t) ==
    /\ call[t] = "idle"
    /\ call' = [call EXCEPT ![t] = "get"]
    /\ UNCHANGED <<queue, item>>

Enqueue(t) ==
    /\ call[t] = "put"
    /\ Len(queue) < FIFO_SIZE
    /\ queue' = Append(queue, item[t])
    /\ call' = [call EXCEPT ![t] = "done"]
    /\ UNCHANGED item

Dequeue(t) ==
    /\ call[t] = "get"
    /\ queue # <<>>
    /\ item' = [item EXCEPT ![t] = Head(queue)]
    /\ queue' = Tail(queue)
    /\ call' = [call EXCEPT ![t] = "done"]

Return(t) ==
    /\ call[t] = "done"
    /\ call' = [call EXCEPT ![t] = "idle"]
    /\ UNCHANGED <<queue, item>>

Next ==
    \E t \in Threads :
        \/ \E b \in Bytes : CallPut(t, b)
        \/ CallGet(t)
        \/ Enqueue(t)
        \/ Dequeue(t)
        \/ Return(t)

Spec == Init /\ [][Next]_queueVars

=============================================================================
