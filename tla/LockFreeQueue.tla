---------------------------- MODULE LockFreeQueue ----------------------------
(***************************************************************************)
(* putils::LockFreeQueue (src/putils/include/LockFreeQueue.hpp): a ring of *)
(* nodes, each with a data pointer and a ready flag, and three atomic      *)
(* counters.  Every access to a variable two threads share is one step, so *)
(* a thread can be preempted between any two lines of try_push or try_pop. *)
(*                                                                         *)
(* The indices head and tail are taken modulo the capacity: a thread       *)
(* that is preempted while the others go once round the ring compares the  *)
(* index it loaded with an equal one.  The ghost variables count without   *)
(* the modulus, so that this can be told apart from an index nobody moved. *)
(***************************************************************************)
EXTENDS Integers, Sequences, FiniteSets

CONSTANTS Producers,  \* threads that call try_push
          Consumers,  \* threads that call try_pop; a thread may do both
          Items,      \* the pointers that are pushed
          Capacity,   \* ring_buffer.size(), a constructor argument
          MaxPushes,  \* bound: the calls of try_push that may claim a node
          Null        \* the null shared_ptr, in a node that was moved from

\* The constructor throws unless both hold; "& mask" is then "% Capacity".
ASSUME CapacityAssumption == /\ Capacity \in Nat
                             /\ Capacity >= 4
                             /\ \E k \in 2..Capacity : Capacity = 2^k

ASSUME NullAssumption == Null \notin Items

ASSUME BoundAssumption == MaxPushes \in Nat

VARIABLES
  ready,  \* ring_buffer[i].ready
  data,   \* ring_buffer[i].data
  head, tail, qlen,
  pc,     \* the next access of each thread; "idle" outside the two functions
  arg,    \* the caller's data_ptr
  index,  \* current_tail in try_push, current_head in try_pop
  \* Ghost variables, which no line of the code reads:
  log,    \* the items in the order in which they claimed a node
  taken,  \* how many nodes were claimed by consumers
  ticket  \* the unreduced count a thread saw when it loaded its index

ring == <<ready, data>>
counters == <<head, tail, qlen>>
locals == <<arg, index, ticket>>
vars == <<ready, data, head, tail, qlen, pc, arg, index, log, taken, ticket>>

Threads == Producers \cup Consumers
Slots == 0..(Capacity - 1)
\* Slip: the index is not masked.
Next1Unmasked(i) == i + 1

Next1(i) == (i + 1) % Capacity

Init == /\ ready = [i \in Slots |-> FALSE]
        /\ data = [i \in Slots |-> Null]
        /\ head = 0 /\ tail = 0 /\ qlen = 0
        /\ pc = [t \in Threads |-> "idle"]
        /\ arg = [t \in Threads |-> Null]
        /\ index = [t \in Threads |-> 0]
        /\ log = <<>>
        /\ taken = 0
        /\ ticket = [t \in Threads |-> 0]

Goto(t, label) == pc' = [pc EXCEPT ![t] = label]
At(t, label) == pc[t] = label

\* The locals of a call that returns, and those a loop is about to load again,
\* are dead: they get their initial values, so that they do not tell states
\* apart.
Forget(t) == /\ index' = [index EXCEPT ![t] = 0]
             /\ ticket' = [ticket EXCEPT ![t] = 0]

Loop(t, label) == Goto(t, label) /\ Forget(t) /\ UNCHANGED arg

Return(t) == /\ Goto(t, "idle") /\ Forget(t)
             /\ arg' = [arg EXCEPT ![t] = Null]

-----------------------------------------------------------------------------
(* try_push *)

\* Calls that may still claim a node, counted only to bound the model.
Claiming == {t \in Threads :
               pc[t] \in {"pushLoad", "pushFull", "pushReady", "pushSwap"}}

BeginPush(t, x) ==
  /\ Len(log) + Cardinality(Claiming) < MaxPushes
  /\ At(t, "idle") /\ Goto(t, "pushLoad")
  /\ arg' = [arg EXCEPT ![t] = x]
  /\ UNCHANGED <<ring, counters, index, ticket, log, taken>>

PushLoad(t) ==
  /\ At(t, "pushLoad") /\ Goto(t, "pushFull")
  /\ index' = [index EXCEPT ![t] = tail]
  /\ ticket' = [ticket EXCEPT ![t] = Len(log)]
  /\ UNCHANGED <<ring, counters, arg, log, taken>>

\* Slip: a full ring is not noticed.
PushFullUnchecked(t) ==
  /\ At(t, "pushFull") /\ Goto(t, "pushReady")
  /\ UNCHANGED <<ring, counters, locals, log, taken>>

\* next_tail == head: the call returns false.
PushFull(t) ==
  /\ At(t, "pushFull")
  /\ \/ Next1(index[t]) = head /\ Return(t)
     \/ Next1(index[t]) # head /\ Goto(t, "pushReady") /\ UNCHANGED locals
  /\ UNCHANGED <<ring, counters, log, taken>>

\* Slip: the consumer may still be moving the pointer out of the node.
PushReadyUnchecked(t) ==
  /\ At(t, "pushReady") /\ Goto(t, "pushSwap")
  /\ UNCHANGED <<ring, counters, locals, log, taken>>

\* A node that is still ready was not cleared by its consumer: loop.
PushReady(t) ==
  /\ At(t, "pushReady")
  /\ \/ ready[index[t]] /\ Loop(t, "pushLoad")
     \/ ~ready[index[t]] /\ Goto(t, "pushSwap") /\ UNCHANGED locals
  /\ UNCHANGED <<ring, counters, log, taken>>

PushSwap(t) ==
  /\ At(t, "pushSwap") /\ Goto(t, "pushCount")
  /\ tail = index[t]
  /\ tail' = Next1(index[t])
  /\ log' = Append(log, arg[t])
  /\ ticket' = [ticket EXCEPT ![t] = Len(log)]
  /\ UNCHANGED <<ring, head, qlen, arg, index, taken>>

\* Slip: qlen is incremented before the exchange, again in every iteration.
PushRetryCounting(t) ==
  /\ At(t, "pushSwap") /\ Loop(t, "pushLoad")
  /\ qlen' = qlen + 1
  /\ UNCHANGED <<ring, head, tail, log, taken>>

\* compare_exchange_weak may fail although the index is the expected one.
PushRetry(t) ==
  /\ At(t, "pushSwap") /\ Loop(t, "pushLoad")
  /\ UNCHANGED <<ring, counters, log, taken>>

PushCount(t) ==
  /\ At(t, "pushCount") /\ Goto(t, "pushStore")
  /\ qlen' = qlen + 1
  /\ UNCHANGED <<ring, head, tail, locals, log, taken>>

PushStore(t) ==
  /\ At(t, "pushStore") /\ Goto(t, "pushPublish")
  /\ data' = [data EXCEPT ![index[t]] = arg[t]]
  /\ UNCHANGED <<ready, counters, locals, log, taken>>

PushPublish(t) ==
  /\ At(t, "pushPublish") /\ Return(t)
  /\ ready' = [ready EXCEPT ![index[t]] = TRUE]
  /\ UNCHANGED <<data, counters, log, taken>>

-----------------------------------------------------------------------------
(* try_pop *)

BeginPop(t) ==
  /\ At(t, "idle") /\ Goto(t, "popLoad")
  /\ UNCHANGED <<ring, counters, locals, log, taken>>

PopLoad(t) ==
  /\ At(t, "popLoad") /\ Goto(t, "popEmpty")
  /\ index' = [index EXCEPT ![t] = head]
  /\ ticket' = [ticket EXCEPT ![t] = taken]
  /\ UNCHANGED <<ring, counters, arg, log, taken>>

\* Slip: the comparison of try_push, in which one node stays free.
PopEmptyOffByOne(t) ==
  /\ At(t, "popEmpty")
  /\ \/ Next1(index[t]) = tail /\ Return(t)
     \/ Next1(index[t]) # tail /\ Goto(t, "popReady") /\ UNCHANGED locals
  /\ UNCHANGED <<ring, counters, log, taken>>

\* current_head == tail: the call returns false.
PopEmpty(t) ==
  /\ At(t, "popEmpty")
  /\ \/ index[t] = tail /\ Return(t)
     \/ index[t] # tail /\ Goto(t, "popReady") /\ UNCHANGED locals
  /\ UNCHANGED <<ring, counters, log, taken>>

\* Slip: the producer may not have stored the item yet.
PopReadyUnchecked(t) ==
  /\ At(t, "popReady") /\ Goto(t, "popSwap")
  /\ UNCHANGED <<ring, counters, locals, log, taken>>

\* A node that is not ready is still being filled by its producer: loop.
PopReady(t) ==
  /\ At(t, "popReady")
  /\ \/ ready[index[t]] /\ Goto(t, "popSwap") /\ UNCHANGED locals
     \/ ~ready[index[t]] /\ Loop(t, "popLoad")
  /\ UNCHANGED <<ring, counters, log, taken>>

PopSwap(t) ==
  /\ At(t, "popSwap") /\ Goto(t, "popCount")
  /\ head = index[t]
  /\ head' = Next1(index[t])
  /\ taken' = taken + 1
  /\ ticket' = [ticket EXCEPT ![t] = taken]
  /\ UNCHANGED <<ring, tail, qlen, arg, index, log>>

\* Slip: qlen is decremented before the exchange, again in every iteration.
PopRetryCounting(t) ==
  /\ At(t, "popSwap") /\ Loop(t, "popLoad")
  /\ qlen' = qlen - 1
  /\ UNCHANGED <<ring, head, tail, log, taken>>

PopRetry(t) ==
  /\ At(t, "popSwap") /\ Loop(t, "popLoad")
  /\ UNCHANGED <<ring, counters, log, taken>>

\* qlen is a size_t: a negative value here is a wrapped one there.
PopCount(t) ==
  /\ At(t, "popCount") /\ Goto(t, "popTake")
  /\ qlen' = qlen - 1
  /\ UNCHANGED <<ring, head, tail, locals, log, taken>>

\* std::move leaves the node's pointer null.
PopTake(t) ==
  /\ At(t, "popTake") /\ Goto(t, "popClear")
  /\ arg' = [arg EXCEPT ![t] = data[index[t]]]
  /\ data' = [data EXCEPT ![index[t]] = Null]
  /\ UNCHANGED <<ready, counters, index, ticket, log, taken>>

\* Slip: the node is not handed back to the producers.
PopClearForgotten(t) ==
  /\ At(t, "popClear") /\ Return(t)
  /\ UNCHANGED <<ring, counters, log, taken>>

PopClear(t) ==
  /\ At(t, "popClear") /\ Return(t)
  /\ ready' = [ready EXCEPT ![index[t]] = FALSE]
  /\ UNCHANGED <<data, counters, log, taken>>

-----------------------------------------------------------------------------
\* The steps of a call other than the exchange that succeeds.
PushStep(t) == \/ PushLoad(t) \/ PushFull(t) \/ PushReady(t) \/ PushRetry(t)
               \/ PushCount(t) \/ PushStore(t) \/ PushPublish(t)

PopStep(t) == \/ PopLoad(t) \/ PopEmpty(t) \/ PopReady(t) \/ PopRetry(t)
              \/ PopCount(t) \/ PopTake(t) \/ PopClear(t)

Step == \/ \E t \in Producers : PushStep(t) \/ \E x \in Items : BeginPush(t, x)
        \/ \E t \in Consumers : PopStep(t) \/ BeginPop(t)

Next == \/ Step
        \/ \E t \in Producers : PushSwap(t)
        \/ \E t \in Consumers : PopSwap(t)

Spec == Init /\ [][Next]_vars

\* empty() and weak_empty() read the counter, never the indices.
Empty == qlen = 0

-----------------------------------------------------------------------------
(* The assumption of the comment in try_push, lines 160-163: no thread is  *)
(* "exactly one full cycle ahead" of a competitor, so the exchange of a    *)
(* thread whose index was moved since it loaded it always fails.           *)

LapFreePushSwap(t) == ticket[t] = Len(log) /\ PushSwap(t)
LapFreePopSwap(t) == ticket[t] = taken /\ PopSwap(t)

LapFreeNext == \/ Step
               \/ \E t \in Producers : LapFreePushSwap(t)
               \/ \E t \in Consumers : LapFreePopSwap(t)

LapFreeSpec == Init /\ [][LapFreeNext]_vars

\* The scheduler runs every thread, and the weak exchange of a thread that
\* tries again and again with an unmoved index does not always fail spuriously.
FairSpec == /\ LapFreeSpec
            /\ \A t \in Producers : /\ WF_vars(PushStep(t) \/ LapFreePushSwap(t))
                                    /\ SF_vars(LapFreePushSwap(t))
            /\ \A t \in Consumers : /\ WF_vars(PopStep(t) \/ LapFreePopSwap(t))
                                    /\ SF_vars(LapFreePopSwap(t))

-----------------------------------------------------------------------------
Labels == {"idle", "pushLoad", "pushFull", "pushReady", "pushSwap",
           "pushCount", "pushStore", "pushPublish", "popLoad", "popEmpty",
           "popReady", "popSwap", "popCount", "popTake", "popClear"}

\* Every variable stays in the set its declaration in the code gives it.
TypeOK == /\ ready \in [Slots -> BOOLEAN]
          /\ data \in [Slots -> Items \cup {Null}]
          /\ head \in Slots /\ tail \in Slots /\ qlen \in Int
          /\ pc \in [Threads -> Labels]
          /\ arg \in [Threads -> Items \cup {Null}]
          /\ index \in [Threads -> Slots]
          /\ log \in Seq(Items)
          /\ taken \in Nat
          /\ ticket \in [Threads -> Nat]

Filling(t) == pc[t] \in {"pushCount", "pushStore", "pushPublish"}
Clearing(t) == pc[t] \in {"popCount", "popTake", "popClear"}
Owns(t) == Filling(t) \/ Clearing(t)

\* No two threads ever work on one node: its shared_ptr is not atomic, and
\* two of them assigning or moving it would be a data race (lines 166-168 and
\* 201-203 run after the exchange has given the node to one thread).
SlotExclusive == \A t, u \in Threads :
                   t # u /\ Owns(t) /\ Owns(u) => index[t] # index[u]

\* The consumer that claims the n-th node is handed the n-th item that was
\* pushed, and never the null pointer or the item of another lap of the ring
\* (line 202 reads the node after the head has already moved on).
DeliversInOrder == \A t \in Threads :
                     At(t, "popTake") => /\ ticket[t] < Len(log)
                                         /\ data[index[t]] = log[ticket[t] + 1]

\* qlen is updated after the indices, in two steps that interleave with those
\* of the other threads, and still never wraps below zero nor exceeds the ring:
\* size() is compared with the capacity by the callers (lines 166, 201, 217).
SizeInRange == 0 <= qlen /\ qlen <= Capacity

\* When empty() answers true, every item not yet claimed belongs to a push that
\* has not returned and has not even counted itself: a completed push is never
\* overlooked by a caller that goes to sleep on an empty queue (line 208).
EmptyIsHonest ==
  Empty => \A n \in taken..(Len(log) - 1) :
             \E t \in Producers : At(t, "pushCount") /\ ticket[t] = n

\* try_pop returns false only at an instant when no item is unclaimed, unless
\* the thread was overtaken by a full lap of the ring since it loaded the head
\* (line 185 compares two indices loaded at different times).
FailedPopSawEmpty ==
  [][\A t \in Consumers : At(t, "popEmpty") /\ pc'[t] = "idle"
       => taken = Len(log) \/ Len(log) >= ticket[t] + Capacity]_vars

\* Every call ends: the loops at lines 143-164 and 182-199 wait for a thread in
\* the middle of its own call, or lose to one, and never for each other.
CallsReturn == \A t \in Threads : pc[t] # "idle" ~> pc[t] = "idle"

\* "Consumers only process nodes marked as ready" (line 59).
OnlyReadyNodes == \A t \in Threads : At(t, "popTake") => ready[index[t]]

-----------------------------------------------------------------------------
(* The ring implements the queue of BoundedFifo: an item is in the queue   *)
(* from the exchange of tail that claims its node to the exchange of head. *)

Promised(t) == IF pc[t] \in {"popCount", "popTake"} THEN <<log[ticket[t] + 1]>>
               ELSE IF At(t, "popClear") THEN <<arg[t]>>
               ELSE <<>>

Fifo == INSTANCE BoundedFifo WITH
          queue <- SubSeq(log, taken + 1, Len(log)),
          holding <- [t \in Threads |-> Promised(t)]

\* The queue behaves as a FIFO of at most Capacity - 1 items, in which each
\* item is handed out once, in the order the pushes took effect.
ImplementsFifo == Fifo!FifoSpec
=============================================================================
