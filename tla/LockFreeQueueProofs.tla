------------------------- MODULE LockFreeQueueProofs -------------------------
(***************************************************************************)
(* What LockFreeQueue guarantees for every capacity, every set of threads  *)
(* and every set of items.                                                 *)
(***************************************************************************)
EXTENDS LockFreeQueue, SequenceTheorems, FiniteSetTheorems, TLAPS

(* Tickets count without end, and ticket n uses node Slot(n). *)

Slot(n) == n % Capacity

LEMMA DivMod ==
  ASSUME NEW N \in Nat, N > 0, NEW a \in Nat
  PROVE  /\ a % N \in 0..(N - 1)
         /\ a \div N \in Nat
         /\ a = N * (a \div N) + (a % N)
BY SMT

LEMMA SameQuotient ==
  ASSUME NEW N \in Nat, N > 0, NEW p \in Int, NEW q \in Int,
         NEW r \in 0..(N - 1), NEW s \in 0..(N - 1), N * p + r = N * q + s
  PROVE  p = q /\ r = s
BY Z3

LEMMA NoMultipleBetween ==
  ASSUME NEW N \in Nat, N > 0, NEW d \in Int, 0 < N * d, N * d < N
  PROVE  FALSE
BY Z3

LEMMA RemainderIs ==
  ASSUME NEW N \in Nat, N > 0, NEW a \in Nat, NEW q \in Nat,
         NEW r \in 0..(N - 1), a = N * q + r
  PROVE  a % N = r
<1>1. N * (a \div N) + (a % N) = N * q + r
  BY DivMod
<1>2. (a \div N) \in Int /\ a % N \in 0..(N - 1)
  BY DivMod
<1> QED
  BY <1>1, <1>2, SameQuotient

\* Two tickets less than a lap apart use different nodes.
LEMMA SlotUnique ==
  ASSUME NEW a \in Nat, NEW b \in Nat, a < b, b < a + Capacity
  PROVE  Slot(a) # Slot(b)
<1>0. Capacity \in Nat /\ Capacity > 0
  BY CapacityAssumption
<1> SUFFICES ASSUME a % Capacity = b % Capacity PROVE FALSE
  BY DEF Slot
<1> DEFINE d == (b \div Capacity) - (a \div Capacity)
<1>1. Capacity * d = Capacity * (b \div Capacity) - Capacity * (a \div Capacity)
  BY <1>0, DivMod, Z3
<1>2. 0 < Capacity * d /\ Capacity * d < Capacity
  BY <1>0, <1>1, DivMod
<1>3. d \in Int
  BY <1>0, DivMod
<1> QED
  BY <1>0, <1>2, <1>3, NoMultipleBetween

\* The masked increment of an index follows the tickets.
LEMMA SlotNext ==
  ASSUME NEW a \in Nat
  PROVE  Slot(a + 1) = Next1(Slot(a))
<1> DEFINE q == a \div Capacity
           r == a % Capacity
<1>a. Capacity \in Nat /\ Capacity > 1
  BY CapacityAssumption
<1>0. /\ Capacity \in Nat /\ Capacity > 1
      /\ a = Capacity * q + r /\ q \in Nat /\ r \in 0..(Capacity - 1)
  BY <1>a, DivMod
<1>1. Slot(a) = r
  BY DEF Slot
<1> HIDE DEF q, r
<1>2. CASE r + 1 = Capacity
  <2>1. Capacity * (q + 1) = Capacity * q + Capacity
    BY <1>0, Z3
  <2>2. a + 1 = Capacity * (q + 1) + 0
    BY <1>0, <1>2, <2>1
  <2>3. (a + 1) % Capacity = 0
    BY <2>2, <1>0, RemainderIs
  <2>4. Capacity = Capacity * 1 + 0
    BY <1>0, Z3
  <2>5. Capacity % Capacity = 0
    BY <2>4, <1>0, RemainderIs
  <2> QED
    BY <1>1, <1>2, <2>3, <2>5 DEF Slot, Next1
<1>3. CASE r + 1 # Capacity
  <2>1. a + 1 = Capacity * q + (r + 1)
    BY <1>0
  <2>2. (a + 1) % Capacity = r + 1
    BY <2>1, <1>0, <1>3, RemainderIs
  <2>3. (r + 1) % Capacity = r + 1
    BY <1>0, <1>3, SMT
  <2> QED
    BY <1>1, <2>2, <2>3 DEF Slot, Next1
<1> QED
  BY <1>2, <1>3

\* The node of a ticket is used again one lap later.
LEMMA SlotWrap ==
  ASSUME NEW a \in Nat
  PROVE  Slot(a + Capacity) = Slot(a)
<1> DEFINE q == a \div Capacity
           r == a % Capacity
<1>a. Capacity \in Nat /\ Capacity > 0
  BY CapacityAssumption
<1>0. a = Capacity * q + r /\ q \in Nat /\ r \in 0..(Capacity - 1)
  BY <1>a, DivMod
<1>1. Slot(a) = r
  BY DEF Slot
<1> HIDE DEF q, r
<1>2. Capacity * (q + 1) = Capacity * q + Capacity
  BY <1>a, <1>0, Z3
<1>3. a + Capacity = Capacity * (q + 1) + r
  BY <1>a, <1>0, <1>2
<1>4. (a + Capacity) % Capacity = r
  BY <1>a, <1>0, <1>3, RemainderIs
<1> QED
  BY <1>1, <1>4 DEF Slot

LEMMA SlotType ==
  /\ 0 \in Slots /\ Slot(0) = 0
  /\ \A n \in Nat : Slot(n) \in Slots
  /\ \A i \in Slots : Next1(i) \in Slots
BY CapacityAssumption, SMT DEF Slot, Slots, Next1

-----------------------------------------------------------------------------
(* Types.  A producer stores the item of its caller, never null.           *)

Pushing(t) == pc[t] \in {"pushLoad", "pushFull", "pushReady", "pushSwap",
                         "pushCount", "pushStore", "pushPublish"}

TypeInv == TypeOK /\ \A t \in Threads : Pushing(t) => arg[t] \in Items

LEMMA TypeInit == Init => TypeInv
BY SlotType DEF Init, TypeInv, TypeOK, Pushing, Labels

LEMMA TypeStep == TypeInv /\ [Next]_vars => TypeInv'
<1> SUFFICES ASSUME TypeInv, [Next]_vars PROVE TypeInv'
  OBVIOUS
<1> USE DEF TypeInv, TypeOK, Pushing, Labels, Threads, At, Goto, Forget, Loop, Return,
            ring, counters, locals
<1>1. ASSUME NEW t \in Producers, NEW x \in Items, BeginPush(t, x) PROVE TypeInv'
  BY <1>1 DEF BeginPush
<1>2. ASSUME NEW t \in Producers, PushStep(t) PROVE TypeInv'
  <2>1. CASE PushLoad(t)
    BY <2>1 DEF PushLoad
  <2>2. CASE PushFull(t)
    <3>1. CASE Return(t)
      BY <2>2, <3>1, SlotType DEF PushFull
    <3>2. CASE Goto(t, "pushReady") /\ UNCHANGED locals
      BY <2>2, <3>2, SlotType DEF PushFull
    <3> QED
      BY <2>2, <3>1, <3>2 DEF PushFull
  <2>3. CASE PushReady(t)
    <3>1. CASE Loop(t, "pushLoad")
      BY <2>3, <3>1, SlotType DEF PushReady
    <3>2. CASE Goto(t, "pushSwap") /\ UNCHANGED locals
      BY <2>3, <3>2, SlotType DEF PushReady
    <3> QED
      BY <2>3, <3>1, <3>2 DEF PushReady
  <2>4. CASE PushRetry(t)
    BY <2>4, SlotType DEF PushRetry
  <2>5. CASE PushCount(t)
    BY <2>5 DEF PushCount
  <2>6. CASE PushStore(t)
    BY <2>6 DEF PushStore
  <2>7. CASE PushPublish(t)
    BY <2>7, SlotType DEF PushPublish
  <2> QED
    BY <1>2, <2>1, <2>2, <2>3, <2>4, <2>5, <2>6, <2>7 DEF PushStep
<1>3. ASSUME NEW t \in Producers, PushSwap(t) PROVE TypeInv'
  BY <1>3, SlotType DEF PushSwap
<1>4. ASSUME NEW t \in Consumers, BeginPop(t) PROVE TypeInv'
  BY <1>4 DEF BeginPop
<1>5. ASSUME NEW t \in Consumers, PopStep(t) PROVE TypeInv'
  <2>1. CASE PopLoad(t)
    BY <2>1 DEF PopLoad
  <2>2. CASE PopEmpty(t)
    BY <2>2, SlotType DEF PopEmpty
  <2>3. CASE PopReady(t)
    <3>1. CASE Loop(t, "popLoad")
      BY <2>3, <3>1, SlotType DEF PopReady
    <3>2. CASE Goto(t, "popSwap") /\ UNCHANGED locals
      BY <2>3, <3>2, SlotType DEF PopReady
    <3> QED
      BY <2>3, <3>1, <3>2 DEF PopReady
  <2>4. CASE PopRetry(t)
    BY <2>4, SlotType DEF PopRetry
  <2>5. CASE PopCount(t)
    BY <2>5 DEF PopCount
  <2>6. CASE PopTake(t)
    BY <2>6 DEF PopTake
  <2>7. CASE PopClear(t)
    BY <2>7, SlotType DEF PopClear
  <2> QED
    BY <1>5, <2>1, <2>2, <2>3, <2>4, <2>5, <2>6, <2>7 DEF PopStep
<1>6. ASSUME NEW t \in Consumers, PopSwap(t) PROVE TypeInv'
  BY <1>6, SlotType DEF PopSwap
<1>7. CASE UNCHANGED vars
  BY <1>7 DEF vars
<1> QED
  BY <1>1, <1>2, <1>3, <1>4, <1>5, <1>6, <1>7 DEF Next, Step

\* Every variable keeps the type its declaration gives it, whether or not a
\* thread is lapped: indices stay inside the ring, and only items are stored.
THEOREM TypeCorrect == Spec => []TypeOK
<1>1. TypeInv => TypeOK
  BY DEF TypeInv
<1> QED
  BY <1>1, TypeInit, TypeStep, PTL DEF Spec

-----------------------------------------------------------------------------
(* The inductive invariant of the ring, for the executions in which no     *)
(* exchange succeeds on a lapped index.  The nodes of the tickets          *)
(* taken..Len(log)-1 hold the queue; a producer owns the node of a ticket  *)
(* of this window while the node is not ready, a consumer the node of an   *)
(* older ticket while it still is.                                         *)

\* The indices are the reduced counts, and less than a lap apart.
Window == /\ tail = Slot(Len(log)) /\ head = Slot(taken)
          /\ taken <= Len(log) /\ Len(log) < taken + Capacity

Loaded(t) == pc[t] \in Labels \ {"idle", "pushLoad", "popLoad"}
               => index[t] = Slot(ticket[t])

\* What a producer knows after each of its checks: that there is room counts
\* from the ticket it loaded, that the node is free while that ticket is the
\* next one.
Producing(t) ==
  /\ pc[t] \in {"pushFull", "pushReady", "pushSwap"} => ticket[t] <= Len(log)
  /\ pc[t] \in {"pushReady", "pushSwap"} => ticket[t] + 1 < taken + Capacity
  /\ At(t, "pushSwap") /\ ticket[t] = Len(log) => ready[index[t]] = FALSE
  /\ Filling(t) => /\ taken <= ticket[t] /\ ticket[t] < Len(log)
                   /\ ready[index[t]] = FALSE
                   /\ log[ticket[t] + 1] = arg[t]
  /\ At(t, "pushPublish") => data[index[t]] = arg[t]

Consuming(t) ==
  /\ pc[t] \in {"popEmpty", "popReady", "popSwap"} => ticket[t] <= taken
  /\ pc[t] \in {"popReady", "popSwap"} /\ ticket[t] = taken => taken < Len(log)
  /\ At(t, "popSwap") /\ ticket[t] = taken => ready[index[t]] = TRUE
  /\ Clearing(t) => /\ ticket[t] < taken /\ Len(log) <= ticket[t] + Capacity
                    /\ ready[index[t]] = TRUE
  /\ pc[t] \in {"popCount", "popTake"} => data[index[t]] = log[ticket[t] + 1]
  /\ At(t, "popClear") => arg[t] = log[ticket[t] + 1]

\* A node of the window that is ready holds the item of its ticket.
Stored == \A n \in Nat : taken <= n /\ n < Len(log) /\ ready[Slot(n)] = TRUE
                           => data[Slot(n)] = log[n + 1]

\* A ticket is claimed once by a producer and once by a consumer.
Unshared == \A t, u \in Threads :
              t # u /\ ((Filling(t) /\ Filling(u)) \/ (Clearing(t) /\ Clearing(u)))
                => ticket[t] # ticket[u]

RingInv == /\ TypeInv
           /\ Window
           /\ \A t \in Threads : Loaded(t) /\ Producing(t) /\ Consuming(t)
           /\ Stored
           /\ Unshared

ThreadInv(t) == Loaded(t) /\ Producing(t) /\ Consuming(t)

LEMMA RingInit == Init => RingInv
<1> SUFFICES ASSUME Init PROVE RingInv
  OBVIOUS
<1>1. TypeInv
  BY TypeInit
<1>2. Window
  BY CapacityAssumption, SlotType DEF Init, Window
<1>3. \A t \in Threads : Loaded(t) /\ Producing(t) /\ Consuming(t)
  BY DEF Init, Loaded, Producing, Consuming, Filling, Clearing, At
<1>4. Stored
  BY DEF Init, Stored
<1>5. Unshared
  BY DEF Init, Unshared, Filling, Clearing
<1> QED
  BY <1>1, <1>2, <1>3, <1>4, <1>5 DEF RingInv

LEMMA RingBeginPush ==
  ASSUME RingInv, TypeInv', NEW t \in Producers, NEW x \in Items, BeginPush(t, x)
  PROVE  RingInv'
<1> USE DEF BeginPush, Goto, Forget, Loop, Return, ring, counters, locals, At
<1>1. t \in Threads /\ TypeInv
  BY DEF Threads, RingInv
<1>2. Window'
  BY DEF RingInv, Window
<1>3. ASSUME NEW u \in Threads PROVE ThreadInv(u)'
  <2>1. CASE u = t
    BY <1>1, <2>1 DEF RingInv, TypeInv, TypeOK, Window, Labels, ThreadInv, Loaded, Producing,
                      Consuming, Filling, Clearing
  <2>2. CASE u # t
    BY <1>1, <2>2 DEF RingInv, TypeInv, TypeOK, ThreadInv, Loaded, Producing,
                      Consuming, Filling, Clearing
  <2> QED
    BY <2>1, <2>2
<1>4. Stored'
  BY DEF RingInv, Stored
<1>5. Unshared'
  <2>1. \A u \in Threads : Filling(u)' \/ Clearing(u)' => ticket'[u] = ticket[u]
    BY <1>1 DEF TypeInv, TypeOK, Filling, Clearing
  <2>2. \A u \in Threads : (Filling(u)' => Filling(u)) /\ (Clearing(u)' => Clearing(u))
    BY <1>1 DEF TypeInv, TypeOK, Filling, Clearing
  <2> QED
    BY <2>1, <2>2 DEF RingInv, Unshared
<1> QED
  BY <1>2, <1>3, <1>4, <1>5 DEF RingInv, ThreadInv

LEMMA RingPushLoad ==
  ASSUME RingInv, TypeInv', NEW t \in Producers, PushLoad(t)
  PROVE  RingInv'
<1> USE DEF PushLoad, Goto, Forget, Loop, Return, ring, counters, locals, At
<1>1. t \in Threads /\ TypeInv
  BY DEF Threads, RingInv
<1>2. Window'
  BY DEF RingInv, Window
<1>3. ASSUME NEW u \in Threads PROVE ThreadInv(u)'
  <2>1. CASE u = t
    BY <1>1, <2>1 DEF RingInv, TypeInv, TypeOK, Window, Labels, ThreadInv, Loaded, Producing,
                      Consuming, Filling, Clearing
  <2>2. CASE u # t
    BY <1>1, <2>2 DEF RingInv, TypeInv, TypeOK, ThreadInv, Loaded, Producing,
                      Consuming, Filling, Clearing
  <2> QED
    BY <2>1, <2>2
<1>4. Stored'
  BY DEF RingInv, Stored
<1>5. Unshared'
  <2>1. \A u \in Threads : Filling(u)' \/ Clearing(u)' => ticket'[u] = ticket[u]
    BY <1>1 DEF TypeInv, TypeOK, Filling, Clearing
  <2>2. \A u \in Threads : (Filling(u)' => Filling(u)) /\ (Clearing(u)' => Clearing(u))
    BY <1>1 DEF TypeInv, TypeOK, Filling, Clearing
  <2> QED
    BY <2>1, <2>2 DEF RingInv, Unshared
<1> QED
  BY <1>2, <1>3, <1>4, <1>5 DEF RingInv, ThreadInv

LEMMA RingPushFull ==
  ASSUME RingInv, TypeInv', NEW t \in Producers, PushFull(t)
  PROVE  RingInv'
<1> USE DEF PushFull, Goto, Forget, Loop, Return, ring, counters, locals, At
<1>1. t \in Threads /\ TypeInv
  BY DEF Threads, RingInv
<1>2. Window'
  BY DEF RingInv, Window
<1>3. ASSUME NEW u \in Threads PROVE ThreadInv(u)'
  <2>1. CASE u = t
    <3>1. CASE Return(t)
      BY <1>1, <2>1, <3>1 DEF RingInv, TypeInv, TypeOK, ThreadInv, Loaded, Producing,
                              Consuming, Filling, Clearing
    <3>2. CASE Next1(index[t]) # head /\ Goto(t, "pushReady") /\ UNCHANGED locals
      <4>a. /\ ticket[t] \in Nat /\ taken \in Nat /\ Len(log) \in Nat
            /\ Capacity \in Nat
        BY <1>1, CapacityAssumption DEF TypeInv, TypeOK
      <4>b. index[t] = Slot(ticket[t]) /\ ticket[t] <= Len(log)
        BY <1>1 DEF RingInv, Labels, Loaded, Producing
      <4>1. /\ ticket[t] \in Nat /\ taken \in Nat /\ Len(log) \in Nat
            /\ Capacity \in Nat
            /\ index[t] = Slot(ticket[t]) /\ ticket[t] <= Len(log)
            /\ head = Slot(taken) /\ Len(log) < taken + Capacity
        BY <4>a, <4>b DEF RingInv, Window
      <4>2. ticket[t] + 1 # taken + Capacity
        BY <3>2, <4>1, SlotNext, SlotWrap
      <4>3. ticket[t] + 1 < taken + Capacity
        BY <4>1, <4>2
      <4> QED
        BY <1>1, <2>1, <3>2, <4>1, <4>3 DEF RingInv, TypeInv, TypeOK, Labels, ThreadInv, Loaded,
                              Producing, Consuming, Filling, Clearing
    <3> QED
      BY <3>1, <3>2
  <2>2. CASE u # t
    BY <1>1, <2>2 DEF RingInv, TypeInv, TypeOK, ThreadInv, Loaded, Producing,
                      Consuming, Filling, Clearing
  <2> QED
    BY <2>1, <2>2
<1>4. Stored'
  BY DEF RingInv, Stored
<1>5. Unshared'
  <2>1. \A u \in Threads : Filling(u)' \/ Clearing(u)' => ticket'[u] = ticket[u]
    BY <1>1 DEF TypeInv, TypeOK, Filling, Clearing
  <2>2. \A u \in Threads : (Filling(u)' => Filling(u)) /\ (Clearing(u)' => Clearing(u))
    BY <1>1 DEF TypeInv, TypeOK, Filling, Clearing
  <2> QED
    BY <2>1, <2>2 DEF RingInv, Unshared
<1> QED
  BY <1>2, <1>3, <1>4, <1>5 DEF RingInv, ThreadInv

LEMMA RingPushReady ==
  ASSUME RingInv, TypeInv', NEW t \in Producers, PushReady(t)
  PROVE  RingInv'
<1> USE DEF PushReady, Goto, Forget, Loop, Return, ring, counters, locals, At
<1>1. t \in Threads /\ TypeInv
  BY DEF Threads, RingInv
<1>2. Window'
  BY DEF RingInv, Window
<1>3. ASSUME NEW u \in Threads PROVE ThreadInv(u)'
  <2>1. CASE u = t
    BY <1>1, <2>1 DEF RingInv, TypeInv, TypeOK, Window, Labels, ThreadInv, Loaded, Producing,
                      Consuming, Filling, Clearing
  <2>2. CASE u # t
    BY <1>1, <2>2 DEF RingInv, TypeInv, TypeOK, ThreadInv, Loaded, Producing,
                      Consuming, Filling, Clearing
  <2> QED
    BY <2>1, <2>2
<1>4. Stored'
  BY DEF RingInv, Stored
<1>5. Unshared'
  <2>1. \A u \in Threads : Filling(u)' \/ Clearing(u)' => ticket'[u] = ticket[u]
    BY <1>1 DEF TypeInv, TypeOK, Filling, Clearing
  <2>2. \A u \in Threads : (Filling(u)' => Filling(u)) /\ (Clearing(u)' => Clearing(u))
    BY <1>1 DEF TypeInv, TypeOK, Filling, Clearing
  <2> QED
    BY <2>1, <2>2 DEF RingInv, Unshared
<1> QED
  BY <1>2, <1>3, <1>4, <1>5 DEF RingInv, ThreadInv

LEMMA RingPushRetry ==
  ASSUME RingInv, TypeInv', NEW t \in Producers, PushRetry(t)
  PROVE  RingInv'
<1> USE DEF PushRetry, Goto, Forget, Loop, Return, ring, counters, locals, At
<1>1. t \in Threads /\ TypeInv
  BY DEF Threads, RingInv
<1>2. Window'
  BY DEF RingInv, Window
<1>3. ASSUME NEW u \in Threads PROVE ThreadInv(u)'
  <2>1. CASE u = t
    BY <1>1, <2>1 DEF RingInv, TypeInv, TypeOK, Window, Labels, ThreadInv, Loaded, Producing,
                      Consuming, Filling, Clearing
  <2>2. CASE u # t
    BY <1>1, <2>2 DEF RingInv, TypeInv, TypeOK, ThreadInv, Loaded, Producing,
                      Consuming, Filling, Clearing
  <2> QED
    BY <2>1, <2>2
<1>4. Stored'
  BY DEF RingInv, Stored
<1>5. Unshared'
  <2>1. \A u \in Threads : Filling(u)' \/ Clearing(u)' => ticket'[u] = ticket[u]
    BY <1>1 DEF TypeInv, TypeOK, Filling, Clearing
  <2>2. \A u \in Threads : (Filling(u)' => Filling(u)) /\ (Clearing(u)' => Clearing(u))
    BY <1>1 DEF TypeInv, TypeOK, Filling, Clearing
  <2> QED
    BY <2>1, <2>2 DEF RingInv, Unshared
<1> QED
  BY <1>2, <1>3, <1>4, <1>5 DEF RingInv, ThreadInv

LEMMA RingPushCount ==
  ASSUME RingInv, TypeInv', NEW t \in Producers, PushCount(t)
  PROVE  RingInv'
<1> USE DEF PushCount, Goto, Forget, Loop, Return, ring, counters, locals, At
<1>1. t \in Threads /\ TypeInv
  BY DEF Threads, RingInv
<1>2. Window'
  BY DEF RingInv, Window
<1>3. ASSUME NEW u \in Threads PROVE ThreadInv(u)'
  <2>1. CASE u = t
    BY <1>1, <2>1 DEF RingInv, TypeInv, TypeOK, Window, Labels, ThreadInv, Loaded, Producing,
                      Consuming, Filling, Clearing
  <2>2. CASE u # t
    BY <1>1, <2>2 DEF RingInv, TypeInv, TypeOK, ThreadInv, Loaded, Producing,
                      Consuming, Filling, Clearing
  <2> QED
    BY <2>1, <2>2
<1>4. Stored'
  BY DEF RingInv, Stored
<1>5. Unshared'
  <2>1. \A u \in Threads : Filling(u)' \/ Clearing(u)' => ticket'[u] = ticket[u]
    BY <1>1 DEF TypeInv, TypeOK, Filling, Clearing
  <2>2. \A u \in Threads : (Filling(u)' => Filling(u)) /\ (Clearing(u)' => Clearing(u))
    BY <1>1 DEF TypeInv, TypeOK, Filling, Clearing
  <2> QED
    BY <2>1, <2>2 DEF RingInv, Unshared
<1> QED
  BY <1>2, <1>3, <1>4, <1>5 DEF RingInv, ThreadInv

LEMMA RingBeginPop ==
  ASSUME RingInv, TypeInv', NEW t \in Consumers, BeginPop(t)
  PROVE  RingInv'
<1> USE DEF BeginPop, Goto, Forget, Loop, Return, ring, counters, locals, At
<1>1. t \in Threads /\ TypeInv
  BY DEF Threads, RingInv
<1>2. Window'
  BY DEF RingInv, Window
<1>3. ASSUME NEW u \in Threads PROVE ThreadInv(u)'
  <2>1. CASE u = t
    BY <1>1, <2>1 DEF RingInv, TypeInv, TypeOK, Window, Labels, ThreadInv, Loaded, Producing,
                      Consuming, Filling, Clearing
  <2>2. CASE u # t
    BY <1>1, <2>2 DEF RingInv, TypeInv, TypeOK, ThreadInv, Loaded, Producing,
                      Consuming, Filling, Clearing
  <2> QED
    BY <2>1, <2>2
<1>4. Stored'
  BY DEF RingInv, Stored
<1>5. Unshared'
  <2>1. \A u \in Threads : Filling(u)' \/ Clearing(u)' => ticket'[u] = ticket[u]
    BY <1>1 DEF TypeInv, TypeOK, Filling, Clearing
  <2>2. \A u \in Threads : (Filling(u)' => Filling(u)) /\ (Clearing(u)' => Clearing(u))
    BY <1>1 DEF TypeInv, TypeOK, Filling, Clearing
  <2> QED
    BY <2>1, <2>2 DEF RingInv, Unshared
<1> QED
  BY <1>2, <1>3, <1>4, <1>5 DEF RingInv, ThreadInv

LEMMA RingPopLoad ==
  ASSUME RingInv, TypeInv', NEW t \in Consumers, PopLoad(t)
  PROVE  RingInv'
<1> USE DEF PopLoad, Goto, Forget, Loop, Return, ring, counters, locals, At
<1>1. t \in Threads /\ TypeInv
  BY DEF Threads, RingInv
<1>2. Window'
  BY DEF RingInv, Window
<1>3. ASSUME NEW u \in Threads PROVE ThreadInv(u)'
  <2>1. CASE u = t
    BY <1>1, <2>1 DEF RingInv, TypeInv, TypeOK, Window, Labels, ThreadInv, Loaded, Producing,
                      Consuming, Filling, Clearing
  <2>2. CASE u # t
    BY <1>1, <2>2 DEF RingInv, TypeInv, TypeOK, ThreadInv, Loaded, Producing,
                      Consuming, Filling, Clearing
  <2> QED
    BY <2>1, <2>2
<1>4. Stored'
  BY DEF RingInv, Stored
<1>5. Unshared'
  <2>1. \A u \in Threads : Filling(u)' \/ Clearing(u)' => ticket'[u] = ticket[u]
    BY <1>1 DEF TypeInv, TypeOK, Filling, Clearing
  <2>2. \A u \in Threads : (Filling(u)' => Filling(u)) /\ (Clearing(u)' => Clearing(u))
    BY <1>1 DEF TypeInv, TypeOK, Filling, Clearing
  <2> QED
    BY <2>1, <2>2 DEF RingInv, Unshared
<1> QED
  BY <1>2, <1>3, <1>4, <1>5 DEF RingInv, ThreadInv

LEMMA RingPopEmpty ==
  ASSUME RingInv, TypeInv', NEW t \in Consumers, PopEmpty(t)
  PROVE  RingInv'
<1> USE DEF PopEmpty, Goto, Forget, Loop, Return, ring, counters, locals, At
<1>1. t \in Threads /\ TypeInv
  BY DEF Threads, RingInv
<1>2. Window'
  BY DEF RingInv, Window
<1>3. ASSUME NEW u \in Threads PROVE ThreadInv(u)'
  <2>1. CASE u = t
    <3>1. CASE Return(t)
      BY <1>1, <2>1, <3>1 DEF RingInv, TypeInv, TypeOK, ThreadInv, Loaded, Producing,
                              Consuming, Filling, Clearing
    <3>2. CASE index[t] # tail /\ Goto(t, "popReady") /\ UNCHANGED locals
      <4>1. index[t] = Slot(ticket[t]) /\ ticket[t] <= taken
        BY <1>1 DEF RingInv, Labels, Loaded, Consuming
      <4>2. ticket[t] = taken => taken < Len(log)
        BY <1>1, <3>2, <4>1 DEF RingInv, Window, TypeInv, TypeOK
      <4> QED
        BY <1>1, <2>1, <3>2, <4>1, <4>2 DEF RingInv, TypeInv, TypeOK, Labels, ThreadInv,
                              Loaded, Producing, Consuming, Filling, Clearing
    <3> QED
      BY <3>1, <3>2
  <2>2. CASE u # t
    BY <1>1, <2>2 DEF RingInv, TypeInv, TypeOK, ThreadInv, Loaded, Producing,
                      Consuming, Filling, Clearing
  <2> QED
    BY <2>1, <2>2
<1>4. Stored'
  BY DEF RingInv, Stored
<1>5. Unshared'
  <2>1. \A u \in Threads : Filling(u)' \/ Clearing(u)' => ticket'[u] = ticket[u]
    BY <1>1 DEF TypeInv, TypeOK, Filling, Clearing
  <2>2. \A u \in Threads : (Filling(u)' => Filling(u)) /\ (Clearing(u)' => Clearing(u))
    BY <1>1 DEF TypeInv, TypeOK, Filling, Clearing
  <2> QED
    BY <2>1, <2>2 DEF RingInv, Unshared
<1> QED
  BY <1>2, <1>3, <1>4, <1>5 DEF RingInv, ThreadInv

LEMMA RingPopReady ==
  ASSUME RingInv, TypeInv', NEW t \in Consumers, PopReady(t)
  PROVE  RingInv'
<1> USE DEF PopReady, Goto, Forget, Loop, Return, ring, counters, locals, At
<1>1. t \in Threads /\ TypeInv
  BY DEF Threads, RingInv
<1>2. Window'
  BY DEF RingInv, Window
<1>3. ASSUME NEW u \in Threads PROVE ThreadInv(u)'
  <2>1. CASE u = t
    BY <1>1, <2>1 DEF RingInv, TypeInv, TypeOK, Window, Labels, ThreadInv, Loaded, Producing,
                      Consuming, Filling, Clearing
  <2>2. CASE u # t
    BY <1>1, <2>2 DEF RingInv, TypeInv, TypeOK, ThreadInv, Loaded, Producing,
                      Consuming, Filling, Clearing
  <2> QED
    BY <2>1, <2>2
<1>4. Stored'
  BY DEF RingInv, Stored
<1>5. Unshared'
  <2>1. \A u \in Threads : Filling(u)' \/ Clearing(u)' => ticket'[u] = ticket[u]
    BY <1>1 DEF TypeInv, TypeOK, Filling, Clearing
  <2>2. \A u \in Threads : (Filling(u)' => Filling(u)) /\ (Clearing(u)' => Clearing(u))
    BY <1>1 DEF TypeInv, TypeOK, Filling, Clearing
  <2> QED
    BY <2>1, <2>2 DEF RingInv, Unshared
<1> QED
  BY <1>2, <1>3, <1>4, <1>5 DEF RingInv, ThreadInv

LEMMA RingPopRetry ==
  ASSUME RingInv, TypeInv', NEW t \in Consumers, PopRetry(t)
  PROVE  RingInv'
<1> USE DEF PopRetry, Goto, Forget, Loop, Return, ring, counters, locals, At
<1>1. t \in Threads /\ TypeInv
  BY DEF Threads, RingInv
<1>2. Window'
  BY DEF RingInv, Window
<1>3. ASSUME NEW u \in Threads PROVE ThreadInv(u)'
  <2>1. CASE u = t
    BY <1>1, <2>1 DEF RingInv, TypeInv, TypeOK, Window, Labels, ThreadInv, Loaded, Producing,
                      Consuming, Filling, Clearing
  <2>2. CASE u # t
    BY <1>1, <2>2 DEF RingInv, TypeInv, TypeOK, ThreadInv, Loaded, Producing,
                      Consuming, Filling, Clearing
  <2> QED
    BY <2>1, <2>2
<1>4. Stored'
  BY DEF RingInv, Stored
<1>5. Unshared'
  <2>1. \A u \in Threads : Filling(u)' \/ Clearing(u)' => ticket'[u] = ticket[u]
    BY <1>1 DEF TypeInv, TypeOK, Filling, Clearing
  <2>2. \A u \in Threads : (Filling(u)' => Filling(u)) /\ (Clearing(u)' => Clearing(u))
    BY <1>1 DEF TypeInv, TypeOK, Filling, Clearing
  <2> QED
    BY <2>1, <2>2 DEF RingInv, Unshared
<1> QED
  BY <1>2, <1>3, <1>4, <1>5 DEF RingInv, ThreadInv

LEMMA RingPopCount ==
  ASSUME RingInv, TypeInv', NEW t \in Consumers, PopCount(t)
  PROVE  RingInv'
<1> USE DEF PopCount, Goto, Forget, Loop, Return, ring, counters, locals, At
<1>1. t \in Threads /\ TypeInv
  BY DEF Threads, RingInv
<1>2. Window'
  BY DEF RingInv, Window
<1>3. ASSUME NEW u \in Threads PROVE ThreadInv(u)'
  <2>1. CASE u = t
    <3>1. Loaded(t)' /\ Producing(t)'
      BY <1>1 DEF RingInv, TypeInv, TypeOK, Labels, Loaded, Producing, Filling
    <3>2. Consuming(t)'
      BY <1>1 DEF RingInv, TypeInv, TypeOK, Consuming, Clearing
    <3> QED
      BY <2>1, <3>1, <3>2 DEF ThreadInv
  <2>2. CASE u # t
    BY <1>1, <2>2 DEF RingInv, TypeInv, TypeOK, ThreadInv, Loaded, Producing,
                      Consuming, Filling, Clearing
  <2> QED
    BY <2>1, <2>2
<1>4. Stored'
  BY DEF RingInv, Stored
<1>5. Unshared'
  <2>1. \A u \in Threads : Filling(u)' \/ Clearing(u)' => ticket'[u] = ticket[u]
    BY <1>1 DEF TypeInv, TypeOK, Filling, Clearing
  <2>2. \A u \in Threads : (Filling(u)' => Filling(u)) /\ (Clearing(u)' => Clearing(u))
    BY <1>1 DEF TypeInv, TypeOK, Filling, Clearing
  <2> QED
    BY <2>1, <2>2 DEF RingInv, Unshared
<1> QED
  BY <1>2, <1>3, <1>4, <1>5 DEF RingInv, ThreadInv

LEMMA RingExclusive == RingInv => SlotExclusive
<1> SUFFICES ASSUME RingInv, NEW t \in Threads, NEW u \in Threads, t # u, Owns(t), Owns(u)
             PROVE  index[t] # index[u]
  BY DEF SlotExclusive
<1>1. /\ ticket[t] \in Nat /\ ticket[u] \in Nat /\ taken \in Nat /\ Len(log) \in Nat
      /\ Capacity \in Nat
  BY CapacityAssumption DEF RingInv, TypeInv, TypeOK
<1>2. index[t] = Slot(ticket[t]) /\ index[u] = Slot(ticket[u])
  BY DEF RingInv, Loaded, Owns, Filling, Clearing, Labels
<1>3. taken <= Len(log) /\ Len(log) < taken + Capacity
  BY DEF RingInv, Window
<1>4. CASE Filling(t) /\ Filling(u)
  <2>1. /\ taken <= ticket[t] /\ ticket[t] < Len(log)
        /\ taken <= ticket[u] /\ ticket[u] < Len(log)
        /\ ticket[t] # ticket[u]
    BY <1>4 DEF RingInv, Producing, Unshared
  <2>2. \/ ticket[u] < ticket[t] /\ ticket[t] < ticket[u] + Capacity
        \/ ticket[t] < ticket[u] /\ ticket[u] < ticket[t] + Capacity
    BY <1>1, <1>3, <2>1
  <2> QED
    BY <1>1, <1>2, <2>2, SlotUnique
<1>5. CASE Clearing(t) /\ Clearing(u)
  <2>1. /\ ticket[t] < taken /\ Len(log) <= ticket[t] + Capacity
        /\ ticket[u] < taken /\ Len(log) <= ticket[u] + Capacity
        /\ ticket[t] # ticket[u]
    BY <1>5 DEF RingInv, Consuming, Unshared
  <2>2. \/ ticket[u] < ticket[t] /\ ticket[t] < ticket[u] + Capacity
        \/ ticket[t] < ticket[u] /\ ticket[u] < ticket[t] + Capacity
    BY <1>1, <1>3, <2>1
  <2> QED
    BY <1>1, <1>2, <2>2, SlotUnique
<1>6. \A v \in Threads : /\ Filling(v) => ready[index[v]] = FALSE
                         /\ Clearing(v) => ready[index[v]] = TRUE
  BY DEF RingInv, Producing, Consuming
<1> QED
  BY <1>4, <1>5, <1>6 DEF Owns

\* The node of a queued item is not the one a consumer is emptying.
LEMMA RingApart ==
  ASSUME RingInv, NEW u \in Threads, Clearing(u),
         NEW n \in Nat, taken <= n, n < Len(log)
  PROVE  Slot(n) # index[u]
<1>1. ticket[u] \in Nat /\ taken \in Nat /\ Len(log) \in Nat /\ Capacity \in Nat
  BY CapacityAssumption DEF RingInv, TypeInv, TypeOK
<1>2. index[u] = Slot(ticket[u])
  BY DEF RingInv, Loaded, Clearing, Labels
<1>3. ticket[u] < taken /\ Len(log) <= ticket[u] + Capacity
  BY DEF RingInv, Consuming
<1>4. ticket[u] < n /\ n < ticket[u] + Capacity
  BY <1>1, <1>3
<1> QED
  BY <1>1, <1>2, <1>4, SlotUnique

\* The exchange of a thread whose ticket is the next one claims a free node.
LEMMA RingPushSwap ==
  ASSUME RingInv, TypeInv', NEW t \in Producers, LapFreePushSwap(t)
  PROVE  RingInv'
<1> USE DEF LapFreePushSwap, PushSwap, Goto, ring, At
<1>1. t \in Threads /\ TypeInv
  BY DEF Threads, RingInv
<1>2. /\ ticket[t] = Len(log) /\ index[t] = Slot(Len(log)) /\ ready[index[t]] = FALSE
      /\ Len(log) + 1 < taken + Capacity /\ arg[t] \in Items
      /\ Len(log) \in Nat /\ taken \in Nat /\ Capacity \in Nat
  BY <1>1, CapacityAssumption
     DEF RingInv, TypeInv, TypeOK, Labels, Loaded, Producing, Pushing
<1>3. /\ Len(log') = Len(log) + 1
      /\ log'[Len(log) + 1] = arg[t]
      /\ \A n \in Nat : n < Len(log) => log'[n + 1] = log[n + 1]
  BY <1>1, <1>2 DEF TypeInv, TypeOK
<1>4. Window'
  BY <1>2, <1>3, SlotNext DEF RingInv, Window
<1>5. ASSUME NEW u \in Threads PROVE ThreadInv(u)'
  <2>0. ThreadInv(u)
    BY DEF RingInv, ThreadInv
  <2>1. CASE u = t
    BY <1>1, <1>2, <1>3, <2>1, <2>0 DEF TypeInv, TypeOK, RingInv, Window, Labels, ThreadInv, Loaded,
                     Producing, Consuming, Filling, Clearing
  <2>2. CASE u # t
    <3>1. /\ pc'[u] = pc[u] /\ index'[u] = index[u] /\ ticket'[u] = ticket[u]
          /\ arg'[u] = arg[u] /\ ticket[u] \in Nat
      BY <1>1, <2>2 DEF TypeInv, TypeOK
    <3>2. Loaded(u)'
      BY <2>0, <3>1 DEF ThreadInv, Loaded, Labels
    <3>3. Producing(u)'
      BY <1>2, <1>3, <2>0, <3>1 DEF ThreadInv, Producing, Filling
    <3>4. Clearing(u) => Len(log) # ticket[u] + Capacity
      <4>1. Clearing(u) => index[u] = Slot(ticket[u]) /\ ready[index[u]] = TRUE
        BY <2>0 DEF ThreadInv, Loaded, Labels, Consuming, Clearing
      <4> QED
        BY <4>1, <1>2, <3>1, SlotWrap
    <3>5. Consuming(u)'
      BY <1>2, <1>3, <2>0, <3>1, <3>4 DEF ThreadInv, Consuming, Clearing, RingInv, Window
    <3> QED
      BY <3>2, <3>3, <3>5 DEF ThreadInv
  <2> QED
    BY <2>1, <2>2
<1>6. Stored'
  BY <1>2, <1>3 DEF RingInv, Stored
<1>7. Unshared'
  <2>1. \A u \in Threads : Filling(u) => ticket[u] # Len(log)
    BY <1>2 DEF RingInv, Producing, TypeInv, TypeOK
  <2>2. \A u \in Threads : u # t => pc'[u] = pc[u] /\ ticket'[u] = ticket[u]
    BY <1>1 DEF TypeInv, TypeOK
  <2>3. pc'[t] = "pushCount" /\ ticket'[t] = Len(log)
    BY <1>1 DEF TypeInv, TypeOK
  <2> QED
    BY <2>1, <2>2, <2>3 DEF RingInv, Unshared, Filling, Clearing
<1> QED
  BY <1>4, <1>5, <1>6, <1>7 DEF RingInv, ThreadInv

\* The owner of a node that is not ready may write it.
LEMMA RingPushStore ==
  ASSUME RingInv, TypeInv', NEW t \in Producers, PushStore(t)
  PROVE  RingInv'
<1> USE DEF PushStore, Goto, ring, counters, locals, At
<1>1. t \in Threads /\ TypeInv
  BY DEF Threads, RingInv
<1>2. ready[index[t]] = FALSE /\ index[t] \in Slots
  BY <1>1 DEF RingInv, TypeInv, TypeOK, Producing, Filling
<1>3. Window'
  BY DEF RingInv, Window
<1>4. \A i \in Slots : ready[i] = TRUE => data'[i] = data[i]
  BY <1>1, <1>2 DEF TypeInv, TypeOK
<1>5. ASSUME NEW u \in Threads PROVE ThreadInv(u)'
  <2>0. ThreadInv(u)
    BY DEF RingInv, ThreadInv
  <2>1. CASE u = t
    BY <1>1, <1>2, <2>0, <2>1 DEF TypeInv, TypeOK, ThreadInv, Loaded, Labels, Producing,
                      Consuming, Filling, Clearing
  <2>2. CASE u # t
    <3>1. pc'[u] = pc[u] /\ index[u] \in Slots
      BY <1>1, <2>2 DEF TypeInv, TypeOK
    <3>2. Filling(u) => index[u] # index[t]
      BY <1>1, <2>2, RingExclusive DEF SlotExclusive, Owns, Filling
    <3>3. Loaded(u)'
      BY <2>0, <3>1 DEF ThreadInv, Loaded, Labels
    <3>4. Producing(u)'
      BY <1>1, <1>2, <2>0, <3>1, <3>2 DEF TypeInv, TypeOK, ThreadInv, Producing, Filling
    <3>5. Consuming(u)'
      BY <1>4, <2>0, <3>1 DEF ThreadInv, Consuming, Clearing
    <3> QED
      BY <3>3, <3>4, <3>5 DEF ThreadInv
  <2> QED
    BY <2>1, <2>2
<1>6. Stored'
  BY <1>4, SlotType DEF RingInv, Stored
<1>7. Unshared'
  <2>1. \A u \in Threads : (Filling(u)' => Filling(u)) /\ (Clearing(u)' => Clearing(u))
    BY <1>1 DEF TypeInv, TypeOK, Filling, Clearing
  <2> QED
    BY <2>1 DEF RingInv, Unshared
<1> QED
  BY <1>3, <1>5, <1>6, <1>7 DEF RingInv, ThreadInv

\* Publishing a node does not make the next free node ready.
LEMMA RingPushPublish ==
  ASSUME RingInv, TypeInv', NEW t \in Producers, PushPublish(t)
  PROVE  RingInv'
<1> USE DEF PushPublish, Goto, Return, Forget, ring, counters, locals, At
<1>1. t \in Threads /\ TypeInv
  BY DEF Threads, RingInv
<1>2. /\ index[t] = Slot(ticket[t]) /\ index[t] \in Slots
      /\ taken <= ticket[t] /\ ticket[t] < Len(log)
      /\ data[index[t]] = arg[t] /\ log[ticket[t] + 1] = arg[t]
      /\ ticket[t] \in Nat /\ taken \in Nat /\ Len(log) \in Nat /\ Capacity \in Nat
      /\ Len(log) < taken + Capacity
  BY <1>1, CapacityAssumption
     DEF RingInv, TypeInv, TypeOK, Labels, Loaded, Producing, Filling, Window
<1>3. Window'
  BY DEF RingInv, Window
<1>4. \A i \in Slots : ready'[i] = IF i = index[t] THEN TRUE ELSE ready[i]
  BY <1>1 DEF TypeInv, TypeOK
<1>5. ASSUME NEW u \in Threads PROVE ThreadInv(u)'
  <2>0. ThreadInv(u)
    BY DEF RingInv, ThreadInv
  <2>1. CASE u = t
    BY <1>1, <2>1 DEF TypeInv, TypeOK, ThreadInv, Loaded, Producing,
                      Consuming, Filling, Clearing
  <2>2. CASE u # t
    <3>1. /\ pc'[u] = pc[u] /\ index'[u] = index[u] /\ ticket'[u] = ticket[u]
          /\ arg'[u] = arg[u] /\ index[u] \in Slots
      BY <1>1, <2>2 DEF TypeInv, TypeOK
    <3>2. Filling(u) => index[u] # index[t]
      BY <1>1, <2>2, RingExclusive DEF SlotExclusive, Owns, Filling
    <3>3. At(u, "pushSwap") /\ ticket[u] = Len(log) => index[u] # index[t]
      <4>1. At(u, "pushSwap") => index[u] = Slot(ticket[u])
        BY <2>0 DEF ThreadInv, Loaded, Labels
      <4>2. Slot(ticket[t]) # Slot(Len(log))
        BY <1>2, SlotUnique
      <4> QED
        BY <1>2, <4>1, <4>2
    <3>4. Loaded(u)'
      BY <2>0, <3>1 DEF ThreadInv, Loaded, Labels
    <3>5. Producing(u)'
      BY <1>4, <2>0, <3>1, <3>2, <3>3 DEF ThreadInv, Producing, Filling
    <3>6. Consuming(u)'
      BY <1>4, <2>0, <3>1 DEF ThreadInv, Consuming, Clearing
    <3> QED
      BY <3>4, <3>5, <3>6 DEF ThreadInv
  <2> QED
    BY <2>1, <2>2
<1>6. Stored'
  <2> SUFFICES ASSUME NEW n \in Nat, taken <= n, n < Len(log), ready'[Slot(n)] = TRUE
               PROVE  data[Slot(n)] = log[n + 1]
    BY DEF Stored
  <2>1. CASE n = ticket[t]
    BY <1>2, <2>1
  <2>2. CASE n # ticket[t]
    <3>1. \/ n < ticket[t] /\ ticket[t] < n + Capacity
          \/ ticket[t] < n /\ n < ticket[t] + Capacity
      BY <1>2, <2>2
    <3>2. Slot(n) # Slot(ticket[t])
      BY <1>2, <3>1, SlotUnique
    <3> QED
      BY <1>2, <1>4, <3>2, SlotType DEF RingInv, Stored
  <2> QED
    BY <2>1, <2>2
<1>7. Unshared'
  <2>1. \A u \in Threads : Filling(u)' \/ Clearing(u)' => ticket'[u] = ticket[u]
    BY <1>1 DEF TypeInv, TypeOK, Filling, Clearing
  <2>2. \A u \in Threads : (Filling(u)' => Filling(u)) /\ (Clearing(u)' => Clearing(u))
    BY <1>1 DEF TypeInv, TypeOK, Filling, Clearing
  <2> QED
    BY <2>1, <2>2 DEF RingInv, Unshared
<1> QED
  BY <1>3, <1>5, <1>6, <1>7 DEF RingInv, ThreadInv

\* The exchange of a consumer whose ticket is the next one claims a node that
\* is ready and holds the oldest item.
LEMMA RingPopSwap ==
  ASSUME RingInv, TypeInv', NEW t \in Consumers, LapFreePopSwap(t)
  PROVE  RingInv'
<1> USE DEF LapFreePopSwap, PopSwap, Goto, ring, At
<1>1. t \in Threads /\ TypeInv
  BY DEF Threads, RingInv
<1>2. /\ ticket[t] = taken /\ index[t] = Slot(taken) /\ ready[index[t]] = TRUE
      /\ taken < Len(log)
      /\ Len(log) \in Nat /\ taken \in Nat /\ Capacity \in Nat
  <2>1. Len(log) \in Nat /\ taken \in Nat /\ Capacity \in Nat
    BY <1>1, CapacityAssumption DEF TypeInv, TypeOK
  <2>2. index[t] = Slot(ticket[t])
    BY <1>1 DEF RingInv, Labels, Loaded
  <2>3. ready[index[t]] = TRUE /\ taken < Len(log)
    BY <1>1 DEF RingInv, Consuming
  <2> QED
    BY <2>1, <2>2, <2>3
<1>3. Len(log) < taken + Capacity
  BY DEF RingInv, Window
<1>4. Window'
  <2>1. head' = Slot(taken + 1)
    BY <1>2, SlotNext
  <2>2. tail' = Slot(Len(log))
    BY DEF RingInv, Window
  <2> QED
    BY <1>2, <1>3, <2>1, <2>2 DEF Window
<1>5. data[index[t]] = log[taken + 1]
  BY <1>2 DEF RingInv, Stored
<1>6. ASSUME NEW u \in Threads PROVE ThreadInv(u)'
  <2>0. ThreadInv(u)
    BY DEF RingInv, ThreadInv
  <2>1. CASE u = t
    <3>1. pc'[t] = "popCount" /\ index'[t] = index[t] /\ ticket'[t] = taken
      BY <1>1 DEF TypeInv, TypeOK
    <3>2. Loaded(t)' /\ Producing(t)'
      BY <1>2, <3>1 DEF Loaded, Producing, Filling
    <3>3. Consuming(t)'
      BY <1>2, <1>3, <1>5, <3>1 DEF Consuming, Clearing
    <3> QED
      BY <2>1, <3>2, <3>3 DEF ThreadInv
  <2>2. CASE u # t
    <3>1. /\ pc'[u] = pc[u] /\ index'[u] = index[u] /\ ticket'[u] = ticket[u]
          /\ arg'[u] = arg[u] /\ ticket[u] \in Nat
      BY <1>1, <2>2 DEF TypeInv, TypeOK
    <3>2. Loaded(u)'
      BY <2>0, <3>1 DEF ThreadInv, Loaded, Labels
    <3>3. Filling(u) => ticket[u] # taken
      <4>1. Filling(u) => index[u] = Slot(ticket[u]) /\ ready[index[u]] = FALSE
        BY <2>0 DEF ThreadInv, Loaded, Producing, Filling, Labels
      <4> QED
        BY <1>2, <4>1
    <3>4. Producing(u)'
      BY <1>2, <2>0, <3>1, <3>3 DEF ThreadInv, Producing, Filling
    <3>5. Consuming(u)'
      BY <1>2, <2>0, <3>1 DEF ThreadInv, Consuming, Clearing
    <3> QED
      BY <3>2, <3>4, <3>5 DEF ThreadInv
  <2> QED
    BY <2>1, <2>2
<1>7. Stored'
  BY <1>2 DEF RingInv, Stored
<1>8. Unshared'
  <2>1. \A u \in Threads : Clearing(u) => ticket[u] # taken
    BY <1>2 DEF RingInv, Consuming, TypeInv, TypeOK
  <2>2. \A u \in Threads : u # t => pc'[u] = pc[u] /\ ticket'[u] = ticket[u]
    BY <1>1 DEF TypeInv, TypeOK
  <2>3. pc'[t] = "popCount" /\ ticket'[t] = taken
    BY <1>1 DEF TypeInv, TypeOK
  <2> QED
    BY <2>1, <2>2, <2>3 DEF RingInv, Unshared, Filling, Clearing
<1> QED
  BY <1>4, <1>6, <1>7, <1>8 DEF RingInv, ThreadInv

\* Emptying a node that was claimed touches no queued item.
LEMMA RingPopTake ==
  ASSUME RingInv, TypeInv', NEW t \in Consumers, PopTake(t)
  PROVE  RingInv'
<1> USE DEF PopTake, Goto, ring, counters, locals, At
<1>1. t \in Threads /\ TypeInv
  BY DEF Threads, RingInv
<1>2. Clearing(t) /\ data[index[t]] = log[ticket[t] + 1] /\ ready[index[t]] = TRUE
  BY <1>1 DEF RingInv, Consuming, Clearing
<1>3. Window'
  BY DEF RingInv, Window
<1>4. \A i \in Slots : i # index[t] => data'[i] = data[i]
  BY <1>1 DEF TypeInv, TypeOK
<1>5. ASSUME NEW u \in Threads PROVE ThreadInv(u)'
  <2>0. ThreadInv(u)
    BY DEF RingInv, ThreadInv
  <2>1. CASE u = t
    <3>1. pc'[t] = "popClear" /\ arg'[t] = log[ticket[t] + 1]
      BY <1>1, <1>2 DEF TypeInv, TypeOK
    <3>2. Loaded(t)' /\ Producing(t)'
      BY <2>0, <2>1, <3>1 DEF ThreadInv, Loaded, Producing, Filling, Labels
    <3>3. Consuming(t)'
      BY <2>0, <2>1, <3>1 DEF ThreadInv, Consuming, Clearing
    <3> QED
      BY <2>1, <3>2, <3>3 DEF ThreadInv
  <2>2. CASE u # t
    <3>1. pc'[u] = pc[u] /\ arg'[u] = arg[u] /\ index[u] \in Slots
      BY <1>1, <2>2 DEF TypeInv, TypeOK
    <3>2. Owns(u) => index[u] # index[t]
      BY <1>1, <1>2, <2>2, RingExclusive DEF SlotExclusive, Owns
    <3>3. Loaded(u)'
      BY <2>0, <3>1 DEF ThreadInv, Loaded, Labels
    <3>4. Producing(u)'
      BY <1>4, <2>0, <3>1, <3>2 DEF ThreadInv, Producing, Filling, Owns
    <3>5. Consuming(u)'
      BY <1>4, <2>0, <3>1, <3>2 DEF ThreadInv, Consuming, Clearing, Owns
    <3> QED
      BY <3>3, <3>4, <3>5 DEF ThreadInv
  <2> QED
    BY <2>1, <2>2
<1>6. Stored'
  BY <1>1, <1>2, <1>4, RingApart, SlotType DEF RingInv, Stored
<1>7. Unshared'
  <2>1. \A u \in Threads : (Filling(u)' => Filling(u)) /\ (Clearing(u)' => Clearing(u))
    BY <1>1 DEF TypeInv, TypeOK, Filling, Clearing
  <2> QED
    BY <2>1 DEF RingInv, Unshared
<1> QED
  BY <1>3, <1>5, <1>6, <1>7 DEF RingInv, ThreadInv

\* A node handed back to the producers is not the next one to be consumed.
LEMMA RingPopClear ==
  ASSUME RingInv, TypeInv', NEW t \in Consumers, PopClear(t)
  PROVE  RingInv'
<1> USE DEF PopClear, Goto, Return, Forget, ring, counters, locals, At
<1>1. t \in Threads /\ TypeInv
  BY DEF Threads, RingInv
<1>2. Clearing(t) /\ ready[index[t]] = TRUE
  BY <1>1 DEF RingInv, Consuming, Clearing
<1>3. Window'
  BY DEF RingInv, Window
<1>4. \A i \in Slots : ready'[i] = IF i = index[t] THEN FALSE ELSE ready[i]
  BY <1>1 DEF TypeInv, TypeOK
<1>5. ASSUME NEW u \in Threads PROVE ThreadInv(u)'
  <2>0. ThreadInv(u)
    BY DEF RingInv, ThreadInv
  <2>1. CASE u = t
    BY <1>1, <2>1 DEF TypeInv, TypeOK, ThreadInv, Loaded, Producing,
                      Consuming, Filling, Clearing
  <2>2. CASE u # t
    <3>1. /\ pc'[u] = pc[u] /\ index'[u] = index[u] /\ ticket'[u] = ticket[u]
          /\ arg'[u] = arg[u] /\ index[u] \in Slots
      BY <1>1, <2>2 DEF TypeInv, TypeOK
    <3>2. Clearing(u) => index[u] # index[t]
      BY <1>1, <1>2, <2>2, RingExclusive DEF SlotExclusive, Owns
    <3>3. At(u, "popSwap") /\ ticket[u] = taken => index[u] # index[t]
      <4>1. At(u, "popSwap") /\ ticket[u] = taken
              => index[u] = Slot(taken) /\ taken < Len(log)
        BY <2>0 DEF ThreadInv, Loaded, Consuming, Labels
      <4>2. taken \in Nat /\ taken <= taken
        BY <1>1 DEF TypeInv, TypeOK
      <4> QED
        BY <1>1, <1>2, <4>1, <4>2, RingApart
    <3>4. Loaded(u)'
      BY <2>0, <3>1 DEF ThreadInv, Loaded, Labels
    <3>5. Producing(u)'
      BY <1>4, <2>0, <3>1 DEF ThreadInv, Producing, Filling
    <3>6. Consuming(u)'
      BY <1>4, <2>0, <3>1, <3>2, <3>3 DEF ThreadInv, Consuming, Clearing
    <3> QED
      BY <3>4, <3>5, <3>6 DEF ThreadInv
  <2> QED
    BY <2>1, <2>2
<1>6. Stored'
  BY <1>1, <1>2, <1>4, SlotType DEF RingInv, Stored
<1>7. Unshared'
  <2>1. \A u \in Threads : Filling(u)' \/ Clearing(u)' => ticket'[u] = ticket[u]
    BY <1>1 DEF TypeInv, TypeOK, Filling, Clearing
  <2>2. \A u \in Threads : (Filling(u)' => Filling(u)) /\ (Clearing(u)' => Clearing(u))
    BY <1>1 DEF TypeInv, TypeOK, Filling, Clearing
  <2> QED
    BY <2>1, <2>2 DEF RingInv, Unshared
<1> QED
  BY <1>3, <1>5, <1>6, <1>7 DEF RingInv, ThreadInv

LEMMA LapFreeIsNext == [LapFreeNext]_vars => [Next]_vars
BY DEF LapFreeNext, Next, LapFreePushSwap, LapFreePopSwap

LEMMA RingStep == RingInv /\ [LapFreeNext]_vars => RingInv'
<1> SUFFICES ASSUME RingInv, [LapFreeNext]_vars PROVE RingInv'
  OBVIOUS
<1>0. TypeInv'
  BY LapFreeIsNext, TypeStep DEF RingInv
<1>1. ASSUME NEW t \in Producers, NEW x \in Items, BeginPush(t, x) PROVE RingInv'
  BY <1>0, <1>1, RingBeginPush
<1>2. ASSUME NEW t \in Producers, PushStep(t) PROVE RingInv'
  BY <1>0, <1>2, RingPushLoad, RingPushFull, RingPushReady, RingPushRetry, RingPushCount,
     RingPushStore, RingPushPublish DEF PushStep
<1>3. ASSUME NEW t \in Producers, LapFreePushSwap(t) PROVE RingInv'
  BY <1>0, <1>3, RingPushSwap
<1>4. ASSUME NEW t \in Consumers, BeginPop(t) PROVE RingInv'
  BY <1>0, <1>4, RingBeginPop
<1>5. ASSUME NEW t \in Consumers, PopStep(t) PROVE RingInv'
  BY <1>0, <1>5, RingPopLoad, RingPopEmpty, RingPopReady, RingPopRetry, RingPopCount,
     RingPopTake, RingPopClear DEF PopStep
<1>6. ASSUME NEW t \in Consumers, LapFreePopSwap(t) PROVE RingInv'
  BY <1>0, <1>6, RingPopSwap
<1>7. CASE UNCHANGED vars
  BY <1>7 DEF vars, RingInv, TypeInv, TypeOK, Pushing, Window, Loaded, Producing, Consuming,
              Stored, Unshared, Filling, Clearing, At
<1> QED
  BY <1>1, <1>2, <1>3, <1>4, <1>5, <1>6, <1>7 DEF LapFreeNext, Step

LEMMA RingInvariant == LapFreeSpec => []RingInv
BY RingInit, RingStep, PTL DEF LapFreeSpec

-----------------------------------------------------------------------------
\* No two threads ever work on the same node, so the unprotected shared_ptr in
\* it is never accessed concurrently, for any number of threads and any ring.
THEOREM NoDataRace == LapFreeSpec => []SlotExclusive
BY RingInvariant, RingExclusive, PTL

\* The consumer that claims the n-th node takes the n-th item out of it: nothing
\* is lost, handed out twice, or read before it was written.
THEOREM DeliveryInOrder == LapFreeSpec => []DeliversInOrder
<1>1. RingInv => DeliversInOrder
  <2> SUFFICES ASSUME RingInv, NEW t \in Threads, At(t, "popTake")
               PROVE  ticket[t] < Len(log) /\ data[index[t]] = log[ticket[t] + 1]
    BY DEF DeliversInOrder
  <2>1. ticket[t] < taken /\ data[index[t]] = log[ticket[t] + 1]
    BY DEF RingInv, Consuming, Clearing, At
  <2>2. taken <= Len(log)
    BY DEF RingInv, Window
  <2>3. ticket[t] \in Nat /\ taken \in Nat /\ Len(log) \in Nat
    BY DEF RingInv, TypeInv, TypeOK
  <2> QED
    BY <2>1, <2>2, <2>3
<1> QED
  BY <1>1, RingInvariant, PTL

\* try_pop reports an empty queue only when it is empty, or when the thread was
\* overtaken by a lap since it loaded the head.
THEOREM EmptyReports == LapFreeSpec => FailedPopSawEmpty
<1> DEFINE Sound == \A t \in Consumers : At(t, "popEmpty") /\ pc'[t] = "idle"
                      => taken = Len(log) \/ Len(log) >= ticket[t] + Capacity
<1>1. RingInv /\ [LapFreeNext]_vars => [Sound]_vars
  <2> SUFFICES ASSUME RingInv, LapFreeNext, NEW t \in Consumers, At(t, "popEmpty"),
                      pc'[t] = "idle", taken # Len(log)
               PROVE  Len(log) >= ticket[t] + Capacity
    OBVIOUS
  <2>1. t \in Threads /\ TypeOK
    BY DEF Threads, RingInv, TypeInv
  <2>2. PopEmpty(t) /\ index[t] = tail
    <3>0. pc \in [Threads -> Labels] /\ t \in Threads /\ pc[t] = "popEmpty"
      BY <2>1 DEF TypeOK, At
    <3>1. ASSUME NEW u \in Producers, PushStep(u) \/ LapFreePushSwap(u)
                                        \/ \E x \in Items : BeginPush(u, x)
          PROVE  FALSE
      BY <3>0, <3>1 DEF PushStep, PushLoad, PushFull, PushReady, PushRetry, PushCount,
         PushStore, PushPublish, LapFreePushSwap, PushSwap, BeginPush, At, Goto, Loop, Return
    <3>2. ASSUME NEW u \in Consumers, u # t,
                 PopStep(u) \/ LapFreePopSwap(u) \/ BeginPop(u)
          PROVE  FALSE
      BY <3>0, <3>2 DEF PopStep, PopLoad, PopEmpty, PopReady, PopRetry, PopCount, PopTake,
         PopClear, LapFreePopSwap, PopSwap, BeginPop, At, Goto, Loop, Return
    <3>3. PopStep(t) \/ LapFreePopSwap(t) \/ BeginPop(t)
      BY <3>1, <3>2 DEF LapFreeNext, Step
    <3>4. PopEmpty(t)
      BY <3>0, <3>3 DEF PopStep, PopLoad, PopReady, PopRetry, PopCount, PopTake, PopClear,
         LapFreePopSwap, PopSwap, BeginPop, At
    <3> QED
      BY <3>0, <3>4 DEF PopEmpty, Goto
  <2>3. /\ index[t] = Slot(ticket[t]) /\ ticket[t] <= taken
        /\ tail = Slot(Len(log)) /\ taken <= Len(log)
    BY <2>1 DEF RingInv, Loaded, Consuming, Window, Labels, At
  <2>4. ticket[t] \in Nat /\ taken \in Nat /\ Len(log) \in Nat /\ Capacity \in Nat
    BY <2>1, CapacityAssumption DEF TypeOK
  <2>5. ticket[t] < Len(log)
    BY <2>3, <2>4
  <2>6. Slot(ticket[t]) = Slot(Len(log))
    BY <2>2, <2>3
  <2>7. ~(Len(log) < ticket[t] + Capacity)
    BY <2>4, <2>5, <2>6, SlotUnique
  <2> QED
    BY <2>4, <2>7
<1> QED
  BY <1>1, RingInvariant, PTL DEF LapFreeSpec, FailedPopSawEmpty

-----------------------------------------------------------------------------
(* What callers may rely on: the ring implements the FIFO of BoundedFifo,  *)
(* and the counter behind empty() and size() is honest.                    *)

(* The refinement.  The queue of BoundedFifo is the end of the log.        *)

Waiting == SubSeq(log, taken + 1, Len(log))
Held == [t \in Threads |-> Promised(t)]

\* The end of a sequence.
LEMMA SuffixIs ==
  ASSUME NEW S, NEW s \in Seq(S), NEW k \in 0..Len(s)
  PROVE  /\ SubSeq(s, k + 1, Len(s)) \in Seq(S)
         /\ Len(SubSeq(s, k + 1, Len(s))) = Len(s) - k
         /\ \A i \in 1..(Len(s) - k) : SubSeq(s, k + 1, Len(s))[i] = s[k + i]
<1>1. Len(s) \in Nat /\ k \in Nat /\ k <= Len(s)
  BY LenProperties
<1>2. \A i \in k + 1 .. Len(s) : s[i] \in S
  BY <1>1, ElementOfSeq
<1> QED
  BY <1>1, <1>2, SubSeqProperties

\* The items that wait are the window of the log, and keep their order.
LEMMA WaitingIs ==
  ASSUME RingInv
  PROVE  /\ Waiting \in Seq(Items) /\ Len(Waiting) = Len(log) - taken
         /\ \A i \in 1..(Len(log) - taken) : Waiting[i] = log[taken + i]
<1>1. log \in Seq(Items) /\ taken \in Nat /\ Len(log) \in Nat /\ taken <= Len(log)
  BY DEF RingInv, TypeInv, TypeOK, Window
<1>2. taken \in 0..Len(log)
  BY <1>1
<1> QED
  BY <1>1, <1>2, SuffixIs DEF Waiting

\* A thread that took a node has a ticket of the log, whatever comes later.
LEMMA TakenIsLogged ==
  ASSUME RingInv, NEW u \in Threads, Clearing(u)
  PROVE  ticket[u] \in Nat /\ ticket[u] + 1 \in 1..Len(log)
<1>1. ticket[u] \in Nat /\ taken \in Nat /\ Len(log) \in Nat
  BY DEF RingInv, TypeInv, TypeOK
<1>2. ticket[u] < taken /\ taken <= Len(log)
  BY DEF RingInv, Consuming, Window
<1> QED
  BY <1>1, <1>2

\* A step that neither claims a node nor ends a pop changes nothing a caller
\* could notice.
LEMMA Unnoticed ==
  ASSUME UNCHANGED <<log, taken>>,
         \A u \in Threads : Promised(u)' = Promised(u)
  PROVE  UNCHANGED Fifo!fifoVars
BY DEF Fifo!fifoVars

\* What the other threads were promised does not change either.
LEMMA OthersKeep ==
  ASSUME RingInv, NEW t \in Threads, NEW u \in Threads, u # t,
         pc'[u] = pc[u], arg'[u] = arg[u], ticket'[u] = ticket[u],
         log' = log \/ \E x \in Items : log' = Append(log, x)
  PROVE  Promised(u)' = Promised(u)
<1>1. CASE Clearing(u)
  <2>1. ticket[u] + 1 \in 1..Len(log) /\ log \in Seq(Items)
    BY <1>1, TakenIsLogged DEF RingInv, TypeInv, TypeOK
  <2>2. log'[ticket[u] + 1] = log[ticket[u] + 1]
    BY <2>1, AppendProperties
  <2> QED
    BY <2>2 DEF Promised, At
<1>2. CASE ~Clearing(u)
  BY <1>2 DEF Promised, Clearing, At
<1> QED
  BY <1>1, <1>2

\* The thread that takes a step, and nobody else, changes its locals.
OnlyThread(t) ==
  \A u \in Threads \ {t} : pc'[u] = pc[u] /\ arg'[u] = arg[u] /\ ticket'[u] = ticket[u]

LEMMA OneThreadSteps ==
  ASSUME TypeInv, NEW t \in Threads,
         \/ \E x \in Items : BeginPush(t, x)
         \/ PushStep(t) \/ PushSwap(t) \/ BeginPop(t) \/ PopStep(t) \/ PopSwap(t)
  PROVE  OnlyThread(t)
<1> USE DEF TypeInv, TypeOK, Goto, Loop, Return, Forget, locals, OnlyThread
<1>1. ASSUME NEW x \in Items, BeginPush(t, x) PROVE OnlyThread(t)
  BY <1>1 DEF BeginPush
<1>2. ASSUME PushStep(t) PROVE OnlyThread(t)
  BY <1>2 DEF PushStep, PushLoad, PushFull, PushReady, PushRetry, PushCount, PushStore,
     PushPublish
<1>3. ASSUME PushSwap(t) PROVE OnlyThread(t)
  BY <1>3 DEF PushSwap
<1>4. ASSUME BeginPop(t) PROVE OnlyThread(t)
  BY <1>4 DEF BeginPop
<1>5. ASSUME PopStep(t) PROVE OnlyThread(t)
  BY <1>5 DEF PopStep, PopLoad, PopEmpty, PopReady, PopRetry, PopCount, PopTake, PopClear
<1>6. ASSUME PopSwap(t) PROVE OnlyThread(t)
  BY <1>6 DEF PopSwap
<1> QED
  BY <1>1, <1>2, <1>3, <1>4, <1>5, <1>6

LEMMA PushStutters ==
  ASSUME RingInv, NEW t \in Producers, PushStep(t) \/ \E x \in Items : BeginPush(t, x)
  PROVE  UNCHANGED Fifo!fifoVars
<1>0. t \in Threads /\ TypeInv
  BY DEF Threads, RingInv
<1>1. UNCHANGED <<log, taken>>
  BY DEF PushStep, PushLoad, PushFull, PushReady, PushRetry, PushCount, PushStore, PushPublish,
         BeginPush
<1>2. OnlyThread(t)
  BY <1>0, OneThreadSteps
<1>3. Promised(t) = <<>> /\ Promised(t)' = <<>>
  BY <1>0 DEF Promised, TypeInv, TypeOK, At, Goto, Loop, Return, Forget, locals, BeginPush,
     PushStep, PushLoad, PushFull, PushReady, PushRetry, PushCount, PushStore, PushPublish
<1>4. \A u \in Threads : Promised(u)' = Promised(u)
  BY <1>0, <1>1, <1>2, <1>3, OthersKeep DEF OnlyThread
<1> QED
  BY <1>1, <1>4, Unnoticed

LEMMA PopStutters ==
  ASSUME RingInv, NEW t \in Consumers, BeginPop(t) \/ PopStep(t), ~PopClear(t)
  PROVE  UNCHANGED Fifo!fifoVars
<1>0. t \in Threads /\ TypeInv
  BY DEF Threads, RingInv
<1>1. UNCHANGED <<log, taken>>
  BY DEF PopStep, PopLoad, PopEmpty, PopReady, PopRetry, PopCount, PopTake, PopClear, BeginPop
<1>2. OnlyThread(t)
  BY <1>0, OneThreadSteps
<1>3. Promised(t)' = Promised(t)
  <2> USE DEF TypeInv, TypeOK, At, Goto, Loop, Return, Forget, locals
  <2>1. CASE BeginPop(t) \/ PopLoad(t) \/ PopEmpty(t) \/ PopReady(t) \/ PopRetry(t)
    BY <1>0, <2>1 DEF Promised, BeginPop, PopLoad, PopEmpty, PopReady, PopRetry
  <2>2. CASE PopCount(t)
    BY <1>0, <2>2 DEF Promised, PopCount
  <2>3. CASE PopTake(t)
    <3>1. data[index[t]] = log[ticket[t] + 1]
      BY <1>0, <2>3 DEF RingInv, Consuming, PopTake
    <3>2. arg'[t] = log[ticket[t] + 1] /\ pc[t] = "popTake" /\ pc'[t] = "popClear"
      BY <1>0, <2>3, <3>1 DEF PopTake
    <3> QED
      BY <3>2 DEF Promised
  <2> QED
    BY <2>1, <2>2, <2>3 DEF PopStep
<1>4. \A u \in Threads : Promised(u)' = Promised(u)
  BY <1>0, <1>1, <1>2, <1>3, OthersKeep DEF OnlyThread
<1> QED
  BY <1>1, <1>4, Unnoticed

\* The exchange of tail puts the caller's item behind all others.
LEMMA PushEnqueues ==
  ASSUME RingInv, RingInv', NEW t \in Producers, LapFreePushSwap(t)
  PROVE  Fifo!Enqueue(arg[t])
<1> DEFINE n == Len(log) - taken
<1>0. t \in Threads /\ TypeInv /\ pc[t] = "pushSwap" /\ pc'[t] = "pushCount"
      /\ arg[t] \in Items /\ ticket[t] = Len(log)
  BY DEF Threads, RingInv, TypeInv, TypeOK, LapFreePushSwap, PushSwap, At, Goto, Pushing
<1>1. log' = Append(log, arg[t]) /\ taken' = taken /\ log \in Seq(Items) /\ taken \in Nat
  BY <1>0 DEF LapFreePushSwap, PushSwap, TypeInv, TypeOK
<1>2. Len(log) \in Nat /\ Len(log') = Len(log) + 1 /\ n \in Nat
      /\ (\A i \in 1..Len(log) : log'[i] = log[i]) /\ log'[Len(log) + 1] = arg[t]
  BY <1>0, <1>1, AppendProperties DEF RingInv, Window
<1>3. Len(Waiting) < Capacity - 1
  <2>1. Len(log) + 1 < taken + Capacity
    BY <1>0 DEF RingInv, Producing
  <2> QED
    BY <2>1, <1>1, <1>2, WaitingIs, CapacityAssumption
<1>4. Waiting' = Append(Waiting, arg[t])
  <2>1. /\ Waiting' \in Seq(Items) /\ Len(Waiting') = n + 1
        /\ \A i \in 1..(n + 1) : Waiting'[i] = log'[taken + i]
    <3>1. log' \in Seq(Items) /\ taken \in 0..Len(log')
      BY <1>0, <1>1, <1>2, AppendProperties DEF RingInv, Window
    <3> DEFINE end == SubSeq(log', taken + 1, Len(log'))
    <3>2. /\ end \in Seq(Items) /\ Len(end) = Len(log') - taken
          /\ \A i \in 1..(Len(log') - taken) : end[i] = log'[taken + i]
      BY <3>1, SuffixIs
    <3>3. Waiting' = end
      BY <1>1 DEF Waiting
    <3>4. Len(log') - taken = n + 1
      BY <1>1, <1>2
    <3> HIDE DEF end, n
    <3> QED
      BY <3>2, <3>3, <3>4
  <2> DEFINE appended == Append(Waiting, arg[t])
  <2>2. /\ appended \in Seq(Items) /\ Len(appended) = n + 1
        /\ \A i \in 1..n : appended[i] = log[taken + i]
        /\ appended[n + 1] = arg[t]
    BY <1>0, WaitingIs, AppendProperties
  <2>3. \A i \in 1..(n + 1) : Waiting'[i] = appended[i]
    <3> SUFFICES ASSUME NEW i \in 1..(n + 1) PROVE Waiting'[i] = appended[i]
      OBVIOUS
    <3>1. CASE i \in 1..n
      <4>1. taken + i \in 1..Len(log)
        BY <3>1, <1>1, <1>2
      <4> QED
        BY <3>1, <4>1, <1>2, <2>1, <2>2
    <3>2. CASE i = n + 1
      <4>1. taken + i = Len(log) + 1
        BY <3>2, <1>1, <1>2
      <4> QED
        BY <3>2, <4>1, <1>2, <2>1, <2>2
    <3>3. i \in 1..n \/ i = n + 1
      BY <1>2
    <3> HIDE DEF n, appended
    <3> QED
      BY <3>1, <3>2, <3>3
  <2> HIDE DEF appended
  <2> QED
    BY <2>1, <2>2, <2>3, SeqEqual DEF appended
<1>5. Held' = Held
  <2>1. OnlyThread(t)
    BY <1>0, OneThreadSteps DEF LapFreePushSwap
  <2>2. \A u \in Threads : u # t => Promised(u)' = Promised(u)
    BY <1>0, <1>1, <2>1, OthersKeep DEF OnlyThread
  <2>3. Promised(t) = <<>> /\ Promised(t)' = <<>>
    BY <1>0 DEF Promised, At
  <2> QED
    BY <2>2, <2>3 DEF Held
<1> QED
  BY <1>3, <1>4, <1>5 DEF Fifo!Enqueue, Waiting, Held

\* The exchange of head takes the oldest item, for the thread that made it.
LEMMA PopDequeues ==
  ASSUME RingInv, NEW t \in Consumers, LapFreePopSwap(t)
  PROVE  Fifo!Dequeue(t)
<1>0. /\ t \in Threads /\ TypeInv /\ pc[t] = "popSwap" /\ pc'[t] = "popCount"
      /\ ticket[t] = taken /\ ticket'[t] = taken /\ log' = log /\ taken' = taken + 1
  BY DEF Threads, RingInv, TypeInv, TypeOK, LapFreePopSwap, PopSwap, At, Goto
<1>1. /\ log \in Seq(Items) /\ taken \in Nat /\ Len(log) \in Nat /\ taken < Len(log)
      /\ log[taken + 1] \in Items
  BY <1>0 DEF RingInv, TypeInv, TypeOK, Consuming
<1>2. Waiting # <<>> /\ Head(Waiting) = log[taken + 1]
  BY <1>1, WaitingIs
<1>3. Waiting' = Tail(Waiting)
  <2>1. Tail(Waiting) = SubSeq(log, (taken + 1) + 1, Len(log))
    BY <1>1, HeadTailOfSubSeq DEF Waiting
  <2> QED
    BY <1>0, <2>1 DEF Waiting
<1>4. Held[t] = <<>>
  BY <1>0 DEF Held, Promised, At
<1>5. Held' = [Held EXCEPT ![t] = <<Head(Waiting)>>]
  <2>1. OnlyThread(t)
    BY <1>0, OneThreadSteps DEF LapFreePopSwap
  <2>2. \A u \in Threads : u # t => Promised(u)' = Promised(u)
    BY <1>0, <2>1, OthersKeep DEF OnlyThread
  <2>3. Promised(t)' = <<log[taken + 1]>>
    BY <1>0 DEF Promised
  <2> QED
    BY <1>2, <2>2, <2>3 DEF Held
<1> QED
  BY <1>2, <1>3, <1>4, <1>5 DEF Fifo!Dequeue, Waiting, Held

\* The last step of try_pop hands over what was promised, and nothing else.
LEMMA PopDelivers ==
  ASSUME RingInv, NEW t \in Consumers, PopClear(t)
  PROVE  Fifo!Deliver(t)
<1>0. /\ t \in Threads /\ TypeInv /\ pc[t] = "popClear" /\ pc'[t] = "idle"
      /\ UNCHANGED <<log, taken>>
  BY DEF Threads, RingInv, TypeInv, TypeOK, PopClear, At, Goto, Return
<1>1. Held[t] # <<>>
  BY <1>0 DEF Held, Promised, At
<1>2. Held' = [Held EXCEPT ![t] = <<>>]
  <2>1. OnlyThread(t)
    BY <1>0, OneThreadSteps DEF PopStep
  <2>2. \A u \in Threads : u # t => Promised(u)' = Promised(u)
    BY <1>0, <2>1, OthersKeep DEF OnlyThread
  <2>3. Promised(t)' = <<>>
    BY <1>0 DEF Promised, At
  <2> QED
    BY <2>2, <2>3 DEF Held
<1>3. Waiting' = Waiting
  BY <1>0 DEF Waiting
<1> QED
  BY <1>1, <1>2, <1>3 DEF Fifo!Deliver, Waiting, Held

\* The ring is a FIFO of at most Capacity - 1 items for every capacity and any
\* number of producers and consumers: what try_push accepts is handed out once,
\* in the order in which the pushes took effect, as long as no thread is
\* overtaken by a whole lap.
THEOREM RingImplementsFifo == LapFreeSpec => ImplementsFifo
<1>1. Init => Fifo!FifoInit
  <2> SUFFICES ASSUME Init PROVE Fifo!FifoInit
    OBVIOUS
  <2>1. SubSeq(log, taken + 1, Len(log)) = <<>>
    BY SubSeqEmpty, EmptySeq DEF Init
  <2>2. \A t \in Threads : Promised(t) = <<>>
    BY DEF Init, Promised, At
  <2> QED
    BY <2>1, <2>2 DEF Fifo!FifoInit
<1>2. RingInv /\ RingInv' /\ [LapFreeNext]_vars => [Fifo!FifoNext]_(Fifo!fifoVars)
  <2> SUFFICES ASSUME RingInv, RingInv', [LapFreeNext]_vars
               PROVE  [Fifo!FifoNext]_(Fifo!fifoVars)
    OBVIOUS
  <2>1. ASSUME NEW t \in Producers, PushStep(t) \/ \E x \in Items : BeginPush(t, x)
        PROVE  UNCHANGED Fifo!fifoVars
    BY <2>1, PushStutters
  <2>2. ASSUME NEW t \in Producers, LapFreePushSwap(t)
        PROVE  Fifo!FifoNext
    <3>1. arg[t] \in Items
      BY <2>2 DEF RingInv, TypeInv, Threads, Pushing, LapFreePushSwap, PushSwap, At
    <3> QED
      BY <2>2, <3>1, PushEnqueues DEF Fifo!FifoNext
  <2>3. ASSUME NEW t \in Consumers, PopStep(t) \/ BeginPop(t)
        PROVE  Fifo!FifoNext \/ UNCHANGED Fifo!fifoVars
    <3>1. CASE PopClear(t)
      BY <3>1, PopDelivers DEF Fifo!FifoNext, Threads
    <3>2. CASE ~PopClear(t)
      BY <2>3, <3>2, PopStutters
    <3> QED
      BY <3>1, <3>2
  <2>4. ASSUME NEW t \in Consumers, LapFreePopSwap(t)
        PROVE  Fifo!FifoNext
    BY <2>4, PopDequeues DEF Fifo!FifoNext, Threads
  <2>5. CASE UNCHANGED vars
    BY <2>5 DEF vars, Fifo!fifoVars, Promised, At
  <2> QED
    BY <2>1, <2>2, <2>3, <2>4, <2>5 DEF LapFreeNext, Step
<1> QED
  BY <1>1, <1>2, RingInvariant, PTL DEF LapFreeSpec, ImplementsFifo, Fifo!FifoSpec

-----------------------------------------------------------------------------
(* The counter.  It lags behind the indices by the pushes that have their  *)
(* node but have not counted it, and by the pops likewise.                 *)

Uncounted == {t \in Threads : At(t, "pushCount")}
Undiscounted == {t \in Threads : At(t, "popCount")}

CounterInv ==
  /\ \A t \in Threads : Pushing(t) => t \in Producers
  /\ IsFiniteSet(Uncounted) /\ IsFiniteSet(Undiscounted)
  /\ qlen = (Len(log) - taken) - Cardinality(Uncounted) + Cardinality(Undiscounted)

LEMMA CounterInit == Init => CounterInv
<1> SUFFICES ASSUME Init PROVE CounterInv
  OBVIOUS
<1>1. Uncounted = {} /\ Undiscounted = {}
  BY DEF Init, Uncounted, Undiscounted, At
<1> QED
  BY <1>1, FS_EmptySet, EmptySeq DEF Init, CounterInv, Pushing

\* A step of one thread moves nobody else into or out of the two sets.
LEMMA Recounted ==
  ASSUME TypeInv, NEW t \in Threads, OnlyThread(t), pc' \in [Threads -> Labels]
  PROVE  /\ Uncounted' = IF pc'[t] = "pushCount" THEN Uncounted \cup {t} ELSE Uncounted \ {t}
         /\ Undiscounted' = IF pc'[t] = "popCount" THEN Undiscounted \cup {t}
                            ELSE Undiscounted \ {t}
BY DEF TypeInv, TypeOK, OnlyThread, Uncounted, Undiscounted, At

LEMMA CounterStep == CounterInv /\ TypeInv /\ TypeInv' /\ [Next]_vars => CounterInv'
<1> SUFFICES ASSUME CounterInv, TypeInv, TypeInv', [Next]_vars PROVE CounterInv'
  OBVIOUS
<1> DEFINE Counted == /\ IsFiniteSet(Uncounted) /\ IsFiniteSet(Undiscounted)
                      /\ qlen = (Len(log) - taken) - Cardinality(Uncounted)
                                                   + Cardinality(Undiscounted)
<1>0. /\ pc' \in [Threads -> Labels] /\ pc \in [Threads -> Labels]
      /\ qlen \in Int /\ taken \in Nat /\ Len(log) \in Nat /\ log \in Seq(Items)
      /\ IsFiniteSet(Uncounted) /\ IsFiniteSet(Undiscounted) /\ Counted
  BY DEF TypeInv, TypeOK, CounterInv
<1>1. Cardinality(Uncounted) \in Nat /\ Cardinality(Undiscounted) \in Nat
  BY <1>0, FS_CardinalityType
<1>2. ASSUME NEW t \in Threads, OnlyThread(t), UNCHANGED <<qlen, log, taken>>,
             pc[t] \notin {"pushCount", "popCount"}, pc'[t] \notin {"pushCount", "popCount"}
      PROVE  Counted'
  <2>1. Uncounted' = Uncounted /\ Undiscounted' = Undiscounted
    BY <1>0, <1>2, Recounted DEF Uncounted, Undiscounted, At
  <2> QED
    BY <1>0, <1>2, <2>1
<1>3. ASSUME NEW t \in Producers, PushStep(t) \/ \E x \in Items : BeginPush(t, x)
      PROVE  CounterInv'
  <2>0. t \in Threads /\ OnlyThread(t)
    BY <1>3, OneThreadSteps DEF Threads
  <2>1. \A u \in Threads : Pushing(u)' => u \in Producers
    BY <2>0 DEF OnlyThread, Pushing, CounterInv
  <2>2. CASE PushCount(t)
    <3>1. /\ t \in Uncounted /\ t \notin Undiscounted /\ pc'[t] = "pushStore"
          /\ qlen' = qlen + 1 /\ UNCHANGED <<log, taken>>
      BY <1>0, <2>0, <2>2 DEF PushCount, At, Goto, Uncounted, Undiscounted
    <3>2. Uncounted' = Uncounted \ {t} /\ Undiscounted' = Undiscounted
      BY <1>0, <2>0, <3>1, Recounted
    <3>3. /\ IsFiniteSet(Uncounted \ {t})
          /\ Cardinality(Uncounted \ {t}) = Cardinality(Uncounted) - 1
      BY <1>0, <3>1, FS_RemoveElement
    <3> QED
      BY <1>0, <1>1, <2>1, <3>1, <3>2, <3>3 DEF CounterInv
  <2>3. CASE ~PushCount(t)
    <3>1. UNCHANGED <<qlen, log, taken>>
      BY <1>3, <2>3 DEF PushStep, BeginPush, PushLoad, PushFull, PushReady, PushRetry, PushStore,
         PushPublish, counters
    <3>2. /\ pc[t] \notin {"pushCount", "popCount"}
          /\ pc'[t] \notin {"pushCount", "popCount"}
      BY <1>0, <1>3, <2>0, <2>3 DEF PushStep, BeginPush, PushLoad, PushFull, PushReady, PushRetry,
         PushStore, PushPublish, At, Goto, Loop, Return
    <3> QED
      BY <1>2, <2>0, <2>1, <3>1, <3>2 DEF CounterInv
  <2> QED
    BY <2>2, <2>3
<1>4. ASSUME NEW t \in Producers, PushSwap(t) PROVE CounterInv'
  <2>0. t \in Threads /\ OnlyThread(t)
    BY <1>4, OneThreadSteps DEF Threads
  <2>1. \A u \in Threads : Pushing(u)' => u \in Producers
    BY <2>0 DEF OnlyThread, Pushing, CounterInv
  <2>2. /\ t \notin Uncounted /\ t \notin Undiscounted /\ pc'[t] = "pushCount"
        /\ UNCHANGED <<qlen, taken>> /\ log' = Append(log, arg[t]) /\ arg[t] \in Items
    BY <1>0, <1>4, <2>0 DEF PushSwap, At, Goto, Uncounted, Undiscounted, TypeInv, Pushing
  <2>3. Uncounted' = Uncounted \cup {t} /\ Undiscounted' = Undiscounted
    <3>1. Uncounted' = Uncounted \cup {t} /\ Undiscounted' = Undiscounted \ {t}
      BY <1>0, <2>0, <2>2, Recounted
    <3>2. Undiscounted \ {t} = Undiscounted
      BY <2>2
    <3> QED
      BY <3>1, <3>2
  <2>4. /\ IsFiniteSet(Uncounted \cup {t})
        /\ Cardinality(Uncounted \cup {t}) = Cardinality(Uncounted) + 1
    BY <1>0, <2>2, FS_AddElement
  <2>5. Len(log') = Len(log) + 1
    BY <1>0, <2>2, AppendProperties
  <2> QED
    BY <1>0, <1>1, <2>1, <2>2, <2>3, <2>4, <2>5 DEF CounterInv
<1>5. ASSUME NEW t \in Consumers, PopStep(t) \/ BeginPop(t) PROVE CounterInv'
  <2>0. t \in Threads /\ OnlyThread(t)
    BY <1>5, OneThreadSteps DEF Threads
  <2>a. ~Pushing(t)'
    BY <1>0, <1>5, <2>0 DEF PopStep, BeginPop, PopLoad, PopEmpty, PopReady, PopRetry, PopCount,
       PopTake, PopClear, At, Goto, Loop, Return, Pushing
  <2>1. \A u \in Threads : Pushing(u)' => u \in Producers
    BY <2>0, <2>a DEF OnlyThread, Pushing, CounterInv
  <2>2. CASE PopCount(t)
    <3>1. /\ t \in Undiscounted /\ t \notin Uncounted /\ pc'[t] = "popTake"
          /\ qlen' = qlen - 1 /\ UNCHANGED <<log, taken>>
      BY <1>0, <2>0, <2>2 DEF PopCount, At, Goto, Uncounted, Undiscounted
    <3>2. Undiscounted' = Undiscounted \ {t} /\ Uncounted' = Uncounted
      BY <1>0, <2>0, <3>1, Recounted
    <3>3. /\ IsFiniteSet(Undiscounted \ {t})
          /\ Cardinality(Undiscounted \ {t}) = Cardinality(Undiscounted) - 1
      BY <1>0, <3>1, FS_RemoveElement
    <3> QED
      BY <1>0, <1>1, <2>1, <3>1, <3>2, <3>3 DEF CounterInv
  <2>3. CASE ~PopCount(t)
    <3>1. UNCHANGED <<qlen, log, taken>>
      BY <1>5, <2>3 DEF PopStep, BeginPop, PopLoad, PopEmpty, PopReady, PopRetry, PopTake,
         PopClear, counters
    <3>2. /\ pc[t] \notin {"pushCount", "popCount"}
          /\ pc'[t] \notin {"pushCount", "popCount"}
      BY <1>0, <1>5, <2>0, <2>3 DEF PopStep, BeginPop, PopLoad, PopEmpty, PopReady, PopRetry,
         PopTake, PopClear, At, Goto, Loop, Return
    <3> QED
      BY <1>2, <2>0, <2>1, <3>1, <3>2 DEF CounterInv
  <2> QED
    BY <2>2, <2>3
<1>6. ASSUME NEW t \in Consumers, PopSwap(t) PROVE CounterInv'
  <2>0. t \in Threads /\ OnlyThread(t)
    BY <1>6, OneThreadSteps DEF Threads
  <2>1. \A u \in Threads : Pushing(u)' => u \in Producers
    BY <1>0, <1>6, <2>0 DEF OnlyThread, Pushing, CounterInv, PopSwap, At, Goto
  <2>2. /\ t \notin Uncounted /\ t \notin Undiscounted /\ pc'[t] = "popCount"
        /\ UNCHANGED <<qlen, log>> /\ taken' = taken + 1
    BY <1>0, <1>6, <2>0 DEF PopSwap, At, Goto, Uncounted, Undiscounted
  <2>3. Undiscounted' = Undiscounted \cup {t} /\ Uncounted' = Uncounted
    BY <1>0, <2>0, <2>2, Recounted
  <2>4. /\ IsFiniteSet(Undiscounted \cup {t})
        /\ Cardinality(Undiscounted \cup {t}) = Cardinality(Undiscounted) + 1
    BY <1>0, <2>2, FS_AddElement
  <2> QED
    BY <1>0, <1>1, <2>1, <2>2, <2>3, <2>4 DEF CounterInv
<1>7. CASE UNCHANGED vars
  BY <1>7 DEF vars, CounterInv, Uncounted, Undiscounted, Pushing, At
<1> QED
  BY <1>3, <1>4, <1>5, <1>6, <1>7 DEF Next, Step

LEMMA CounterInvariant == Spec => []CounterInv
BY CounterInit, CounterStep, TypeInit, TypeStep, PTL DEF Spec

LEMMA LapFreeIsSpec == LapFreeSpec => Spec
<1>1. LapFreeNext => Next
  BY DEF LapFreeNext, Next, LapFreePushSwap, LapFreePopSwap
<1> QED
  BY <1>1, PTL DEF LapFreeSpec, Spec

\* Each push that has a node and has not counted it stands for one item of the
\* window.
UncountedTicket == [t \in Uncounted |-> ticket[t]]

LEMMA UncountedWait ==
  ASSUME RingInv, CounterInv
  PROVE  /\ UncountedTicket \in Injection(Uncounted, taken..(Len(log) - 1))
         /\ IsFiniteSet(taken..(Len(log) - 1))
         /\ Cardinality(taken..(Len(log) - 1)) = Len(log) - taken
<1>1. taken \in Nat /\ Len(log) \in Nat /\ taken <= Len(log) /\ ticket \in [Threads -> Nat]
  BY DEF RingInv, TypeInv, TypeOK, Window
<1>2. \A t \in Uncounted : Filling(t) /\ t \in Threads
  BY DEF Uncounted, Filling, At
<1>3. \A t \in Uncounted : ticket[t] \in taken..(Len(log) - 1)
  BY <1>1, <1>2 DEF RingInv, Producing
<1>4. \A t, u \in Uncounted : ticket[t] = ticket[u] => t = u
  BY <1>2 DEF RingInv, Unshared
<1>5. UncountedTicket \in Injection(Uncounted, taken..(Len(log) - 1))
  BY <1>3, <1>4 DEF Injection, IsInjective, UncountedTicket
<1>6. taken \in Int /\ Len(log) - 1 \in Int
  BY <1>1
<1>7. /\ IsFiniteSet(taken..(Len(log) - 1))
      /\ Cardinality(taken..(Len(log) - 1))
           = IF taken > Len(log) - 1 THEN 0 ELSE (Len(log) - 1) - taken + 1
  BY <1>6, FS_Interval
<1> QED
  BY <1>1, <1>5, <1>7

\* Each pop that took a node and has not counted it stands for one of the last
\* tickets before the window, because its node is not free yet.
UndiscountedTicket == [t \in Undiscounted |-> ticket[t]]

LEMMA UndiscountedLag ==
  ASSUME RingInv, CounterInv
  PROVE  Cardinality(Undiscounted) <= taken - Len(log) + Capacity
<1> DEFINE lag == (Len(log) - Capacity)..(taken - 1)
<1>1. /\ taken \in Nat /\ Len(log) \in Nat /\ Capacity \in Nat
      /\ taken <= Len(log) /\ Len(log) < taken + Capacity
      /\ ticket \in [Threads -> Nat]
  BY CapacityAssumption DEF RingInv, TypeInv, TypeOK, Window
<1>2. \A t \in Undiscounted : Clearing(t) /\ t \in Threads
  BY DEF Undiscounted, Clearing, At
<1>3. \A t \in Undiscounted : ticket[t] \in lag
  BY <1>1, <1>2 DEF RingInv, Consuming
<1>4. \A t, u \in Undiscounted : ticket[t] = ticket[u] => t = u
  BY <1>2 DEF RingInv, Unshared
<1>5. UndiscountedTicket \in Injection(Undiscounted, lag)
  BY <1>3, <1>4 DEF Injection, IsInjective, UndiscountedTicket
<1>6. Len(log) - Capacity \in Int /\ taken - 1 \in Int
  BY <1>1
<1>7. IsFiniteSet(lag) /\ Cardinality(lag) = taken - Len(log) + Capacity
  <2>1. /\ IsFiniteSet(lag)
        /\ Cardinality(lag) = IF Len(log) - Capacity > taken - 1 THEN 0
                              ELSE (taken - 1) - (Len(log) - Capacity) + 1
    BY <1>6, FS_Interval
  <2> QED
    BY <1>1, <2>1
<1> HIDE DEF lag
<1> QED
  BY <1>5, <1>7, FS_Injection

LEMMA Counts ==
  ASSUME RingInv, CounterInv
  PROVE  /\ Cardinality(Uncounted) \in Nat /\ Cardinality(Undiscounted) \in Nat
         /\ Cardinality(Uncounted) <= Len(log) - taken
         /\ Len(log) - taken \in Nat
         /\ qlen = (Len(log) - taken) - Cardinality(Uncounted) + Cardinality(Undiscounted)
<1>1. Cardinality(Uncounted) \in Nat /\ Cardinality(Undiscounted) \in Nat
  BY FS_CardinalityType DEF CounterInv
<1>2. Cardinality(Uncounted) <= Len(log) - taken
  BY UncountedWait, FS_Injection
<1>3. Len(log) - taken \in Nat
  BY DEF RingInv, TypeInv, TypeOK, Window
<1> QED
  BY <1>1, <1>2, <1>3 DEF CounterInv

\* The counter never wraps below zero and never exceeds the ring, whatever the
\* number of pushes and pops that are between their exchange and their count.
THEOREM CounterInRange == LapFreeSpec => []SizeInRange
<1>1. RingInv /\ CounterInv => SizeInRange
  <2> SUFFICES ASSUME RingInv, CounterInv PROVE SizeInRange
    OBVIOUS
  <2>1. taken \in Nat /\ Len(log) \in Nat /\ Capacity \in Nat
    BY CapacityAssumption DEF RingInv, TypeInv, TypeOK
  <2>2. Cardinality(Undiscounted) <= taken - Len(log) + Capacity
    BY UndiscountedLag
  <2> QED
    BY <2>1, <2>2, Counts DEF SizeInRange
<1> QED
  BY <1>1, RingInvariant, CounterInvariant, LapFreeIsSpec, PTL

\* A caller that sees the counter at zero has not missed a completed push: the
\* items that wait belong, one each, to pushes that have not counted themselves.
THEOREM EmptyAnswerIsHonest == LapFreeSpec => []EmptyIsHonest
<1>1. RingInv /\ CounterInv => EmptyIsHonest
  <2> SUFFICES ASSUME RingInv, CounterInv, Empty, NEW n \in taken..(Len(log) - 1)
               PROVE  \E t \in Producers : At(t, "pushCount") /\ ticket[t] = n
    BY DEF EmptyIsHonest
  <2>1. Cardinality(Uncounted) = Cardinality(taken..(Len(log) - 1))
    BY Counts, UncountedWait DEF Empty
  <2>2. UncountedTicket \in Surjection(Uncounted, taken..(Len(log) - 1))
    BY <2>1, UncountedWait, FS_Injection
  <2>3. PICK t \in Uncounted : UncountedTicket[t] = n
    BY <2>2 DEF Surjection
  <2>4. t \in Producers /\ At(t, "pushCount") /\ ticket[t] = n
    BY <2>3 DEF UncountedTicket, Uncounted, CounterInv, Pushing, At
  <2> QED
    BY <2>4
<1> QED
  BY <1>1, RingInvariant, CounterInvariant, LapFreeIsSpec, PTL
=============================================================================
