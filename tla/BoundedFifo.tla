----------------------------- MODULE BoundedFifo -----------------------------
(***************************************************************************)
(* What putils::LockFreeQueue promises to its callers, without the ring:   *)
(* a FIFO of at most Capacity - 1 items.  A successful try_push takes      *)
(* effect at one instant between its call and its return, and so does a    *)
(* successful try_pop, which is handed the oldest item.  A try_push may    *)
(* also fail while there is room: that step is a stutter here.             *)
(***************************************************************************)
EXTENDS Naturals, Sequences

CONSTANTS Items,     \* what the callers store: shared pointers, never null
          Capacity,  \* length of the ring; one slot always stays free
          Threads    \* the threads that call the queue

VARIABLES queue,     \* the items accepted and not yet claimed, oldest first
          holding    \* holding[t]: the items promised to thread t, at most one

fifoVars == <<queue, holding>>

FifoInit == /\ queue = <<>>
            /\ holding = [t \in Threads |-> <<>>]

Enqueue(x) == /\ Len(queue) < Capacity - 1
              /\ queue' = Append(queue, x)
              /\ UNCHANGED holding

Dequeue(t) == /\ queue # <<>>
              /\ holding[t] = <<>>
              /\ holding' = [holding EXCEPT ![t] = <<Head(queue)>>]
              /\ queue' = Tail(queue)

\* The caller gets exactly the item it was promised, and the call is over.
Deliver(t) == /\ holding[t] # <<>>
              /\ holding' = [holding EXCEPT ![t] = <<>>]
              /\ UNCHANGED queue

FifoNext == \/ \E x \in Items : Enqueue(x)
            \/ \E t \in Threads : Dequeue(t) \/ Deliver(t)

FifoSpec == FifoInit /\ [][FifoNext]_fifoVars
=============================================================================
