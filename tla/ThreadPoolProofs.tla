--------------------------- MODULE ThreadPoolProofs ---------------------------
(***************************************************************************)
(* What ThreadPool guarantees for every number of executors and workers,   *)
(* every program of tasks and every capacity of the queues.                *)
(***************************************************************************)
EXTENDS ThreadPool, FiniteSetTheorems, SequenceTheorems, TLAPS

LEMMA OwnerIsNoWorker == Owner \notin Workers
BY OwnerAssumption DEF Workers, Executors

LEMMA ThreadCases == ASSUME NEW t \in Threads PROVE t \in Workers \/ t = Owner
BY DEF Threads

LEMMA WorkersExecute == ASSUME NEW w \in Workers PROVE w \in Threads /\ Exec(w) \in Executors
BY DEF Workers, Threads, Exec

-----------------------------------------------------------------------------
(* Counting the workers of an executor                                     *)

Team(e) == {w \in Workers : Exec(w) = e}
AwakeIn(e) == {w \in Workers : Exec(w) = e /\ ~Sleeping(w)}

LEMMA TeamSize ==
  ASSUME NEW e \in Executors
  PROVE  IsFiniteSet(Team(e)) /\ Cardinality(Team(e)) = NumWorkers
<1>1. Team(e) = {e} \X (1..NumWorkers)
  BY DEF Team, Workers, Exec
<1>2. IsFiniteSet({e}) /\ Cardinality({e}) = 1
  BY FS_Singleton
<1>3. IsFiniteSet(1..NumWorkers) /\ Cardinality(1..NumWorkers) = NumWorkers
  <2>1. 1 \in Int /\ NumWorkers \in Int /\ NumWorkers >= 1
    BY SettingsAssumption
  <2> QED
    BY <2>1, FS_Interval
<1>4. /\ IsFiniteSet({e} \X (1..NumWorkers))
      /\ Cardinality({e} \X (1..NumWorkers))
           = Cardinality({e}) * Cardinality(1..NumWorkers)
  BY <1>2, <1>3, FS_Product, Zenon
<1> QED
  BY <1>1, <1>2, <1>3, <1>4, SettingsAssumption

LEMMA AwakeSize ==
  ASSUME NEW e \in Executors
  PROVE  IsFiniteSet(AwakeIn(e)) /\ Cardinality(AwakeIn(e)) \in 0..NumWorkers
<1>1. AwakeIn(e) \subseteq Team(e)
  BY DEF AwakeIn, Team
<1> QED
  BY <1>1, TeamSize, FS_Subset, FS_CardinalityType, SettingsAssumption

\* active_workers is the number of workers that have not given up the processor.
ActiveCounts == \A e \in Executors : active[e] = Cardinality(AwakeIn(e))

LEMMA CountsStay ==
  ASSUME ActiveCounts, active' = active,
         \A w \in Workers : Sleeping(w)' = Sleeping(w)
  PROVE  ActiveCounts'
<1>1. ASSUME NEW e \in Executors PROVE AwakeIn(e)' = AwakeIn(e)
  BY DEF AwakeIn
<1> QED
  BY <1>1 DEF ActiveCounts

LEMMA CountsDown ==
  ASSUME ActiveCounts, NEW w \in Workers, ~Sleeping(w), Sleeping(w)',
         active \in [Executors -> Nat],
         active' = [active EXCEPT ![Exec(w)] = @ - 1],
         \A v \in Workers \ {w} : Sleeping(v)' = Sleeping(v)
  PROVE  ActiveCounts'
<1> SUFFICES ASSUME NEW e \in Executors PROVE active'[e] = Cardinality(AwakeIn(e)')
  BY DEF ActiveCounts
<1>1. CASE e = Exec(w)
  <2>1. AwakeIn(e)' = AwakeIn(e) \ {w} /\ w \in AwakeIn(e)
    BY <1>1 DEF AwakeIn
  <2>2. Cardinality(AwakeIn(e) \ {w}) = Cardinality(AwakeIn(e)) - 1
    BY <2>1, AwakeSize, FS_RemoveElement
  <2> QED
    BY <1>1, <2>1, <2>2 DEF ActiveCounts
<1>2. CASE e # Exec(w)
  <2>1. AwakeIn(e)' = AwakeIn(e)
    BY <1>2 DEF AwakeIn
  <2> QED
    BY <1>2, <2>1 DEF ActiveCounts
<1> QED
  BY <1>1, <1>2

LEMMA CountsUp ==
  ASSUME ActiveCounts, NEW w \in Workers, Sleeping(w), ~Sleeping(w)',
         active \in [Executors -> Nat],
         active' = [active EXCEPT ![Exec(w)] = @ + 1],
         \A v \in Workers \ {w} : Sleeping(v)' = Sleeping(v)
  PROVE  ActiveCounts'
<1> SUFFICES ASSUME NEW e \in Executors PROVE active'[e] = Cardinality(AwakeIn(e)')
  BY DEF ActiveCounts
<1>1. CASE e = Exec(w)
  <2>1. AwakeIn(e)' = AwakeIn(e) \cup {w} /\ w \notin AwakeIn(e)
    BY <1>1 DEF AwakeIn
  <2>2. Cardinality(AwakeIn(e) \cup {w}) = Cardinality(AwakeIn(e)) + 1
    BY <2>1, AwakeSize, FS_AddElement
  <2> QED
    BY <1>1, <2>1, <2>2 DEF ActiveCounts
<1>2. CASE e # Exec(w)
  <2>1. AwakeIn(e)' = AwakeIn(e)
    BY <1>2 DEF AwakeIn
  <2> QED
    BY <1>2, <2>1 DEF ActiveCounts
<1> QED
  BY <1>1, <1>2

-----------------------------------------------------------------------------
(* The inductive invariant                                                 *)

\* What is queued, and what a worker runs, was submitted; a thread inside
\* submit() still has the task it submits.
Held == /\ \A e \in Executors : queue[e] \in Seq(submitted)
        /\ \A w \in Workers : pc[w] \in {"run", "activate", "notify"}
                                => task[w] \in submitted
        /\ \A t \in Threads : pc[t] \in {"activate", "notify"} => todo[t] # <<>>

\* A worker steals, and may fail once more, only below the threshold.
Patient == \A w \in Workers : At(w, "steal") => failures[w] < FailThreshold

PoolInv == TypeOK /\ Held /\ Patient /\ ActiveCounts

LEMMA PoolInit == Init => PoolInv
<1> SUFFICES ASSUME Init PROVE PoolInv
  OBVIOUS
<1>1. Len(<<>>) = 0 /\ (\A S : <<>> \in Seq(S))
  BY EmptySeq
<1>2. TypeOK
  <2>1. 0 \in Executors
    BY SettingsAssumption DEF Executors
  <2>2. /\ queue \in [Executors -> Seq(Tasks)]
        /\ \A e \in Executors : Len(queue[e]) <= QueueLimit
        /\ scan \in [Workers -> Seq(Executors)] /\ todo \in [Threads -> Seq(Tasks)]
    BY <1>1, SettingsAssumption DEF Init
  <2>3. /\ state \in [Executors -> BOOLEAN] /\ quit \in [Executors -> BOOLEAN]
        /\ active \in [Executors -> 0..NumWorkers]
        /\ failures \in [Workers -> 0..FailThreshold]
        /\ task \in [Workers -> Tasks \cup {None}]
        /\ target \in [Threads -> Executors]
    BY <2>1, SettingsAssumption DEF Init
  <2>4. /\ pc \in [Threads -> WorkerLabels \cup OwnerLabels]
        /\ (\A w \in Workers : pc[w] \in WorkerLabels) /\ pc[Owner] \in OwnerLabels
    BY OwnerIsNoWorker DEF Init, Threads, WorkerLabels, OwnerLabels
  <2>5. /\ phase \in {"alive", "shutdown", "members"} /\ shutdowns \in 0..MaxShutdowns
        /\ submitted \subseteq Tasks /\ finished \subseteq submitted
    BY BoundAssumption DEF Init
  <2>6. awaited \in {"nothing", "tasks", "shutdown"}
    BY Zenon DEF Init
  <2> QED
    BY <2>2, <2>3, <2>4, <2>5, <2>6 DEF TypeOK
<1>3. Held /\ Patient
  BY <1>1, OwnerIsNoWorker DEF Init, Held, Patient, At, Threads
<1>4. ASSUME NEW e \in Executors PROVE active[e] = Cardinality(AwakeIn(e))
  <2>1. AwakeIn(e) = Team(e)
    BY OwnerIsNoWorker DEF Init, AwakeIn, Team, Sleeping, Threads
  <2> QED
    BY <2>1, TeamSize DEF Init
<1> QED
  BY <1>2, <1>3, <1>4 DEF PoolInv, ActiveCounts

\* A step that changes the label of w alone, and leaves it as busy as it was.
LEMMA BusyAsBefore ==
  ASSUME PoolInv, NEW t \in Threads, NEW label, Goto(t, label), active' = active,
         t \in Workers => (Sleeping(t) <=> Sleeping(t)')
  PROVE  ActiveCounts'
<1>1. ASSUME NEW w \in Workers PROVE Sleeping(w)' = Sleeping(w)
  BY <1>1 DEF PoolInv, TypeOK, Goto, Sleeping, Threads
<1> QED
  BY <1>1, CountsStay DEF PoolInv

\* A notification lets sleeping workers go on, which remain uncounted.
LEMMA BusyWhenNotified ==
  ASSUME PoolInv, NEW t \in Threads, NEW e, NEW label, active' = active,
         NotifyInactive(e, t, label), t \in Workers => ~Sleeping(t) /\ label = "run"
  PROVE  ActiveCounts'
<1>1. ASSUME NEW w \in Workers PROVE Sleeping(w)' = Sleeping(w)
  BY <1>1, OwnerIsNoWorker DEF PoolInv, TypeOK, NotifyInactive, Sleeping, Threads, At
<1> QED
  BY <1>1, CountsStay DEF PoolInv

LEMMA CountsSubmit ==
  ASSUME PoolInv, NEW c \in Threads, Submit(c), c \in Workers \/ c = Owner
  PROVE  ActiveCounts'
<1>1. CASE \E e \in Executors : Push(c, e)
  BY <1>1, BusyAsBefore DEF Push, Sleeping, Goto, PoolInv, TypeOK
<1>2. CASE Activate(c)
  BY <1>2, BusyAsBefore DEF Activate, Sleeping, Goto, At, PoolInv, TypeOK
<1>3. CASE Notify(c)
  BY <1>3, BusyWhenNotified, OwnerIsNoWorker DEF Notify, Sleeping, At
<1> QED
  BY <1>1, <1>2, <1>3 DEF Submit

LEMMA CountsWorker ==
  ASSUME PoolInv, NEW w \in Workers, Worker(w) \/ SpuriousWake(w)
  PROVE  ActiveCounts'
<1> USE WorkersExecute DEF At, Goto, Sleeping
<1>b. pc \in [Threads -> WorkerLabels \cup OwnerLabels]
  BY DEF PoolInv, TypeOK
<1>a. active \in [Executors -> Nat]
  BY SettingsAssumption DEF PoolInv, TypeOK
<1>1. CASE TryPop(w)
  BY <1>b, <1>1, BusyAsBefore DEF TryPop, Run
<1>2. CASE CheckEmpty(w)
  BY <1>b, <1>2, BusyAsBefore DEF CheckEmpty
<1>3. CASE ReadState(w)
  BY <1>b, <1>3, BusyAsBefore DEF ReadState
<1>4. CASE Steal(w)
  <2>1. CASE UNCHANGED pc
    BY <1>4, <2>1, CountsStay DEF PoolInv, Steal
  <2>2. CASE Goto(w, "run")
    BY <1>b, <1>4, <2>2, BusyAsBefore DEF Steal
  <2> QED
    BY <1>4, <2>1, <2>2 DEF Steal, Run
<1>5. CASE StealFailed(w)
  BY <1>b, <1>5, BusyAsBefore DEF StealFailed
<1>6. CASE GoIdle(w)
  <2>1. ~Sleeping(w) /\ Sleeping(w)' /\ \A v \in Workers \ {w} : Sleeping(v)' = Sleeping(v)
    BY <1>b, <1>6, OwnerIsNoWorker DEF GoIdle, Threads
  <2>2. active' = [active EXCEPT ![Exec(w)] = @ - 1]
    BY <1>6 DEF GoIdle
  <2> QED
    BY <2>1, <2>2, <1>a, CountsDown DEF PoolInv
<1>7. CASE Predicate(w)
  BY <1>b, <1>7, BusyAsBefore DEF Predicate
<1>8. CASE Block(w)
  BY <1>b, <1>8, BusyAsBefore DEF Block
<1>9. CASE Leave(w)
  <2>1. CASE quit[Exec(w)]
    BY <1>b, <1>9, <2>1, BusyAsBefore DEF Leave
  <2>2. CASE ~quit[Exec(w)]
    <3>1. Sleeping(w) /\ ~Sleeping(w)' /\ \A v \in Workers \ {w} : Sleeping(v)' = Sleeping(v)
      BY <1>b, <1>9, <2>2 DEF Leave, Threads
    <3>2. active' = [active EXCEPT ![Exec(w)] = @ + 1]
      BY <1>9, <2>2 DEF Leave
    <3> QED
      BY <3>1, <3>2, <1>a, CountsUp DEF PoolInv
  <2> QED
    BY <2>1, <2>2
<1>10. CASE Wake(w)
  BY <1>b, <1>10, BusyAsBefore DEF Wake
<1>11. CASE EndBody(w)
  BY <1>b, <1>11, BusyAsBefore DEF EndBody
<1>12. CASE ReturnFromRun(w)
  BY <1>b, <1>12, BusyAsBefore DEF ReturnFromRun
<1>13. CASE Submit(w)
  BY <1>13, CountsSubmit
<1>14. CASE SpuriousWake(w)
  BY <1>b, <1>14, BusyAsBefore DEF SpuriousWake
<1> QED
  BY <1>1, <1>2, <1>3, <1>4, <1>5, <1>6, <1>7, <1>8, <1>9, <1>10, <1>11, <1>12, <1>13,
     <1>14 DEF Worker

LEMMA CountsOwner ==
  ASSUME PoolInv,
         \/ OwnerStep \/ OwnerSpuriousWake \/ (\E t \in Roots : CallSubmit(t))
         \/ AwaitLatch \/ CallShutdown \/ CallDestructor
  PROVE  ActiveCounts'
<1>a. Owner \in Threads /\ Owner \notin Workers
  BY OwnerIsNoWorker DEF Threads
<1>1. ASSUME NEW label, Goto(Owner, label), active' = active PROVE ActiveCounts'
  BY <1>a, <1>1, BusyAsBefore
<1>2. CASE UNCHANGED <<pc, active>>
  BY <1>2, CountsStay DEF PoolInv, Sleeping
<1>3. ASSUME WaitReturns, active' = active PROVE ActiveCounts'
  BY <1>1, <1>3 DEF WaitReturns
<1>4. CASE Submit(Owner)
  BY <1>a, <1>4, CountsSubmit
<1>5. CASE WaitAllDone
  BY <1>1, <1>3, <1>5 DEF WaitAllDone
<1>6. CASE WaitWakes
  BY <1>1, <1>3, <1>6 DEF WaitWakes
<1>7. CASE SetQuit
  BY <1>1, <1>7 DEF SetQuit
<1>8. CASE QuitNotify
  BY <1>a, <1>8, BusyWhenNotified DEF QuitNotify
<1>9. CASE Join
  BY <1>1, <1>9 DEF Join
<1>10. CASE OwnerSpuriousWake
  BY <1>1, <1>10 DEF OwnerSpuriousWake
<1>11. CASE (\E t \in Roots : CallSubmit(t)) \/ AwaitLatch
  BY <1>2, <1>11 DEF CallSubmit, AwaitLatch
<1>12. CASE CallShutdown \/ CallDestructor
  BY <1>1, <1>12 DEF CallShutdown, CallDestructor, BeginShutdown
<1> QED
  BY <1>4, <1>5, <1>6, <1>7, <1>8, <1>9, <1>10, <1>11, <1>12 DEF OwnerStep

LEMMA CountsStep == ASSUME PoolInv, [Next]_vars PROVE ActiveCounts'
<1>1. CASE UNCHANGED vars
  BY <1>1, CountsStay DEF vars, PoolInv, Sleeping
<1>2. CASE Next
  BY <1>2, CountsWorker, CountsOwner DEF Next
<1> QED
  BY <1>1, <1>2

-----------------------------------------------------------------------------
(* Types, what is held, and the threshold                                  *)

LEMMA TaskIsSubmitted ==
  ASSUME PoolInv, NEW e \in Executors, queue[e] # <<>>
  PROVE  /\ Head(queue[e]) \in Tasks /\ Head(queue[e]) \in submitted
         /\ Tail(queue[e]) \in Seq(Tasks) /\ Tail(queue[e]) \in Seq(submitted)
         /\ Len(Tail(queue[e])) <= QueueLimit
<1>1. /\ queue[e] \in Seq(Tasks) /\ queue[e] \in Seq(submitted)
      /\ Len(queue[e]) <= QueueLimit
  BY DEF PoolInv, TypeOK, Held
<1>2. Len(queue[e]) \in Nat /\ QueueLimit \in Nat
  BY <1>1, LenProperties, SettingsAssumption
<1> QED
  BY <1>1, <1>2, HeadTailProperties

LEMMA ScanIsRound ==
  ASSUME NEW s \in Executors PROVE ScanFrom(s) \in Seq(Executors)
<1>1. NumExecutors - 1 \in Nat
  BY SettingsAssumption
<1>2. ASSUME NEW k \in 1..(NumExecutors - 1)
      PROVE  (s + k - 1) % NumExecutors \in Executors
  <2>1. NumExecutors \in Nat /\ NumExecutors > 0 /\ s + k - 1 \in Nat
    BY SettingsAssumption DEF Executors
  <2>2. (s + k - 1) % NumExecutors \in 0..(NumExecutors - 1)
    BY <2>1, SMT
  <2> QED
    BY <2>2 DEF Executors
<1>3. ScanFrom(s) \in [1..(NumExecutors - 1) -> Executors]
  BY <1>2 DEF ScanFrom
<1> QED
  BY <1>1, <1>3, SeqDef

LEMMA SubmitTypes ==
  ASSUME PoolInv, NEW c \in Threads, Submit(c),
         At(c, "notify") => (c \in Workers <=> c # Owner)
  PROVE  TypeOK'
<1> USE DEF At, Goto, workerVars, ownerVars
<1>a. TypeOK
  BY DEF PoolInv
<1>1. ASSUME NEW e \in Executors, Push(c, e) PROVE TypeOK'
  <2>1. todo[c] \in Seq(Tasks) /\ todo[c] # <<>> /\ queue[e] \in Seq(Tasks)
    BY <1>a, <1>1 DEF Push, TypeOK
  <2>2. Head(todo[c]) \in Tasks
    BY <2>1, HeadTailProperties
  <2>3. /\ Append(queue[e], Head(todo[c])) \in Seq(Tasks)
        /\ Len(Append(queue[e], Head(todo[c]))) = Len(queue[e]) + 1
        /\ Len(queue[e]) \in Nat
    BY <2>1, <2>2, AppendProperties, LenProperties
  <2>4. Len(queue[e]) + 1 <= QueueLimit
    BY <1>1, <2>3, SettingsAssumption DEF Push
  <2>5. /\ queue' \in [Executors -> Seq(Tasks)]
        /\ \A f \in Executors : Len(queue'[f]) <= QueueLimit
    BY <1>a, <1>1, <2>3, <2>4 DEF Push, TypeOK
  <2>6. /\ pc' \in [Threads -> WorkerLabels \cup OwnerLabels]
        /\ (\A w \in Workers : pc'[w] \in WorkerLabels) /\ pc'[Owner] \in OwnerLabels
    BY <1>a, <1>1 DEF Push, TypeOK, WorkerLabels, OwnerLabels, Threads
  <2>7. submitted' \subseteq Tasks /\ finished' \subseteq submitted'
    BY <1>a, <1>1, <2>2 DEF Push, TypeOK
  <2> QED
    BY <1>a, <1>1, <2>5, <2>6, <2>7 DEF Push, TypeOK
<1>2. CASE Activate(c)
  BY <1>a, <1>2 DEF Activate, TypeOK, WorkerLabels, OwnerLabels, Threads
<1>3. CASE Notify(c)
  <2>1. todo[c] \in Seq(Tasks) /\ todo[c] # <<>>
    BY <1>a, <1>3 DEF Notify, PoolInv, Held, TypeOK
  <2>2. Tail(todo[c]) \in Seq(Tasks)
    BY <2>1, HeadTailProperties
  <2>3. todo' \in [Threads -> Seq(Tasks)]
    BY <1>a, <1>3, <2>2 DEF Notify, TypeOK
  <2>4. /\ pc' \in [Threads -> WorkerLabels \cup OwnerLabels]
        /\ (\A w \in Workers : pc'[w] \in WorkerLabels) /\ pc'[Owner] \in OwnerLabels
    BY <1>a, <1>3, OwnerIsNoWorker
       DEF Notify, NotifyInactive, TypeOK, WorkerLabels, OwnerLabels, Threads
  <2>5. target' \in [Threads -> Executors]
    BY <1>a, <1>3, SettingsAssumption DEF Notify, TypeOK, Executors
  <2> QED
    BY <1>a, <1>3, <2>3, <2>4, <2>5 DEF Notify, TypeOK
<1> QED
  BY <1>1, <1>2, <1>3 DEF Submit

LEMMA ActiveRange ==
  ASSUME ActiveCounts', active' \in [Executors -> Int]
  PROVE  active' \in [Executors -> 0..NumWorkers]
<1>1. ASSUME NEW e \in Executors PROVE active'[e] \in 0..NumWorkers
  <2>1. AwakeIn(e)' \subseteq Team(e)
    BY DEF AwakeIn, Team
  <2>2. active'[e] = Cardinality(AwakeIn(e)')
    BY DEF ActiveCounts
  <2> QED
    BY <2>1, <2>2, TeamSize, FS_Subset, FS_CardinalityType, SettingsAssumption
<1> QED
  BY <1>1

LEMMA WorkerTypes ==
  ASSUME PoolInv, ActiveCounts', NEW w \in Workers, Worker(w) \/ SpuriousWake(w)
  PROVE  TypeOK'
<1> USE WorkersExecute DEF At, Goto, workerVars, ownerVars
<1>a. TypeOK
  BY DEF PoolInv
<1>b. w \in Threads /\ Exec(w) \in Executors /\ w # Owner
  BY OwnerIsNoWorker
<1>c. \A l \in WorkerLabels : Goto(w, l) =>
        /\ pc' \in [Threads -> WorkerLabels \cup OwnerLabels]
        /\ (\A v \in Workers : pc'[v] \in WorkerLabels) /\ pc'[Owner] \in OwnerLabels
  BY <1>a, <1>b, OwnerIsNoWorker DEF TypeOK, Threads
<1>d. ASSUME NEW e \in Executors, queue[e] # <<>>, Run(w, Head(queue[e]))
      PROVE  /\ task' \in [Workers -> Tasks \cup {None}]
             /\ todo' \in [Threads -> Seq(Tasks)]
             /\ [queue EXCEPT ![e] = Tail(@)] \in [Executors -> Seq(Tasks)]
             /\ \A f \in Executors :
                  Len([queue EXCEPT ![e] = Tail(@)][f]) <= QueueLimit
  <2>1. Head(queue[e]) \in Tasks /\ Children[Head(queue[e])] \in Seq(Tasks)
    BY <1>d, TaskIsSubmitted, TaskAssumption
  <2>2. Tail(queue[e]) \in Seq(Tasks) /\ Len(Tail(queue[e])) <= QueueLimit
    BY <1>d, TaskIsSubmitted
  <2> QED
    BY <1>a, <1>b, <1>d, <2>1, <2>2 DEF Run, TypeOK
<1>1. CASE TryPop(w)
  <2>1. CASE queue[Exec(w)] # <<>>
    <3>1. Run(w, Head(queue[Exec(w)]))
      BY <1>1, <2>1 DEF TryPop
    <3>2. Goto(w, "run") /\ queue' = [queue EXCEPT ![Exec(w)] = Tail(@)]
      BY <1>1, <2>1, <3>1 DEF TryPop, Run
    <3> QED
      BY <1>a, <1>b, <1>c, <1>d, <1>1, <2>1, <3>1, <3>2 DEF TryPop, TypeOK, WorkerLabels
  <2>2. CASE queue[Exec(w)] = <<>>
    BY <1>a, <1>c, <1>1, <2>2 DEF TryPop, TypeOK, WorkerLabels
  <2> QED
    BY <2>1, <2>2
<1>2. CASE CheckEmpty(w)
  BY <1>a, <1>c, <1>2 DEF CheckEmpty, TypeOK, WorkerLabels
<1>3. CASE ReadState(w)
  <2>1. CASE Goto(w, "idle")
    <3>1. failures' \in [Workers -> 0..FailThreshold] /\ UNCHANGED scan
      <4>1. UNCHANGED scan /\ failures' = [failures EXCEPT ![w] = 0]
        BY <1>a, <1>3, <2>1 DEF ReadState, TypeOK
      <4> QED
        BY <1>a, <4>1, SettingsAssumption DEF TypeOK
    <3> QED
      BY <1>a, <1>c, <1>3, <2>1, <3>1 DEF ReadState, TypeOK, WorkerLabels
  <2>2. CASE Goto(w, "steal")
    <3>1. UNCHANGED failures /\ \E s \in Executors : scan' = [scan EXCEPT ![w] = ScanFrom(s)]
      BY <1>a, <1>3, <2>2 DEF ReadState, TypeOK
    <3>2. scan' \in [Workers -> Seq(Executors)]
      BY <1>a, <3>1, ScanIsRound DEF TypeOK
    <3> QED
      BY <1>a, <1>c, <1>3, <2>2, <3>1, <3>2 DEF ReadState, TypeOK, WorkerLabels
  <2> QED
    BY <1>3, <2>1, <2>2 DEF ReadState
<1>4. CASE Steal(w)
  <2> DEFINE e == Head(scan[w])
  <2>1. e \in Executors /\ Tail(scan[w]) \in Seq(Executors)
    BY <1>a, <1>4, HeadTailProperties DEF Steal, TypeOK
  <2>2. <<>> \in Seq(Executors)
    BY EmptySeq
  <2>3. scan' \in [Workers -> Seq(Executors)]
    BY <1>a, <1>4, <2>1, <2>2 DEF Steal, TypeOK
  <2>4. CASE queue[e] # <<>>
    <3>1. Run(w, Head(queue[e])) /\ queue' = [queue EXCEPT ![e] = Tail(@)]
      BY <1>4, <2>4 DEF Steal
    <3>2. Goto(w, "run")
      BY <3>1 DEF Run
    <3> QED
      BY <1>a, <1>c, <1>d, <1>4, <2>1, <2>3, <2>4, <3>1, <3>2
         DEF Steal, TypeOK, WorkerLabels
  <2>5. CASE queue[e] = <<>>
    BY <1>a, <1>4, <2>3, <2>5 DEF Steal, TypeOK
  <2> QED
    BY <2>4, <2>5
<1>5. CASE StealFailed(w)
  BY <1>a, <1>b, <1>c, <1>5, SettingsAssumption
     DEF StealFailed, PoolInv, Patient, TypeOK, WorkerLabels
<1>6. CASE GoIdle(w)
  <2>1. active' \in [Executors -> 0..NumWorkers]
    BY <1>a, <1>6, ActiveRange, SettingsAssumption DEF GoIdle, TypeOK
  <2>2. /\ pc' \in [Threads -> WorkerLabels \cup OwnerLabels]
        /\ (\A v \in Workers : pc'[v] \in WorkerLabels) /\ pc'[Owner] \in OwnerLabels
    BY <1>a, <1>b, <1>6, OwnerIsNoWorker DEF GoIdle, TypeOK, WorkerLabels, OwnerLabels, Threads
  <2> QED
    BY <1>a, <1>6, <2>1, <2>2 DEF GoIdle, TypeOK
<1>7. CASE Predicate(w)
  BY <1>a, <1>c, <1>7 DEF Predicate, TypeOK, WorkerLabels
<1>8. CASE Block(w)
  BY <1>a, <1>c, <1>8 DEF Block, TypeOK, WorkerLabels
<1>9. CASE Leave(w)
  <2>1. active' \in [Executors -> 0..NumWorkers]
    BY <1>a, <1>9, ActiveRange, SettingsAssumption DEF Leave, TypeOK
  <2> QED
    BY <1>a, <1>c, <1>9, <2>1 DEF Leave, TypeOK, WorkerLabels
<1>10. CASE Wake(w)
  BY <1>a, <1>c, <1>10 DEF Wake, TypeOK, WorkerLabels
<1>11. CASE EndBody(w)
  BY <1>a, <1>c, <1>11 DEF EndBody, PoolInv, Held, TypeOK, WorkerLabels
<1>12. CASE ReturnFromRun(w)
  BY <1>a, <1>c, <1>12 DEF ReturnFromRun, TypeOK, WorkerLabels
<1>13. CASE Submit(w)
  BY <1>b, <1>13, SubmitTypes
<1>14. CASE SpuriousWake(w)
  BY <1>a, <1>c, <1>14 DEF SpuriousWake, TypeOK, WorkerLabels
<1> QED
  BY <1>1, <1>2, <1>3, <1>4, <1>5, <1>6, <1>7, <1>8, <1>9, <1>10, <1>11, <1>12, <1>13,
     <1>14 DEF Worker

LEMMA OwnerTypes ==
  ASSUME PoolInv,
         \/ OwnerStep \/ OwnerSpuriousWake \/ (\E t \in Roots : CallSubmit(t))
         \/ AwaitLatch \/ CallShutdown \/ CallDestructor
  PROVE  TypeOK'
<1> USE DEF At, Goto, workerVars, ownerVars
<1>a. TypeOK
  BY DEF PoolInv
<1>b. Owner \in Threads /\ Owner \notin Workers /\ target[Owner] \in Executors
  BY <1>a, OwnerIsNoWorker DEF Threads, TypeOK
<1>c. \A l \in OwnerLabels : Goto(Owner, l) =>
        /\ pc' \in [Threads -> WorkerLabels \cup OwnerLabels]
        /\ (\A v \in Workers : pc'[v] \in WorkerLabels) /\ pc'[Owner] \in OwnerLabels
  BY <1>a, <1>b DEF TypeOK, Threads
<1>d. 0 \in Executors
  BY SettingsAssumption DEF Executors
<1>e. ASSUME WaitReturns
      PROVE  /\ \E l \in OwnerLabels : Goto(Owner, l)
             /\ target' \in [Threads -> Executors]
             /\ phase' \in {"alive", "shutdown", "members"}
             /\ awaited' \in {"nothing", "tasks", "shutdown"}
  <2>1. target[Owner] + 1 # NumExecutors => target[Owner] + 1 \in Executors
    BY <1>b, SettingsAssumption DEF Executors
  <2> QED
    BY <1>a, <1>b, <1>d, <1>e, <2>1 DEF WaitReturns, TypeOK, OwnerLabels
<1>1. CASE Submit(Owner)
  BY <1>b, <1>1, SubmitTypes
<1>2. CASE WaitAllDone
  <2>1. state' \in [Executors -> BOOLEAN]
    BY <1>a, <1>2 DEF WaitAllDone, TypeOK
  <2>2. CASE WaitReturns
    BY <1>a, <1>c, <1>e, <1>2, <2>1, <2>2 DEF WaitAllDone, TypeOK
  <2>3. CASE Goto(Owner, "waiting") /\ UNCHANGED <<target, phase, awaited>>
    BY <1>a, <1>c, <1>2, <2>1, <2>3 DEF WaitAllDone, TypeOK, OwnerLabels
  <2> QED
    BY <1>2, <2>2, <2>3 DEF WaitAllDone
<1>3. CASE WaitWakes
  <2>1. CASE WaitReturns
    BY <1>a, <1>c, <1>e, <1>3, <2>1 DEF WaitWakes, TypeOK
  <2>2. CASE Goto(Owner, "waiting") /\ UNCHANGED <<target, phase, awaited>>
    BY <1>a, <1>c, <1>3, <2>2 DEF WaitWakes, TypeOK, OwnerLabels
  <2> QED
    BY <1>3, <2>1, <2>2 DEF WaitWakes
<1>4. CASE SetQuit
  BY <1>a, <1>c, <1>4 DEF SetQuit, TypeOK, OwnerLabels
<1>5. CASE QuitNotify
  BY <1>a, <1>b, <1>5
     DEF QuitNotify, NotifyInactive, TypeOK, WorkerLabels, OwnerLabels, Threads
<1>6. CASE Join
  <2>0. target[Owner] + 1 < NumExecutors => target[Owner] + 1 \in Executors
    BY <1>b, SettingsAssumption DEF Executors
  <2>1. target' \in [Threads -> Executors]
    BY <1>a, <1>6, <2>0 DEF Join, TypeOK
  <2> QED
    BY <1>a, <1>c, <1>6, <2>1 DEF Join, TypeOK, OwnerLabels
<1>7. CASE OwnerSpuriousWake
  BY <1>a, <1>c, <1>7 DEF OwnerSpuriousWake, TypeOK, OwnerLabels
<1>8. ASSUME NEW t \in Roots, CallSubmit(t) PROVE TypeOK'
  <2>1. t \in Tasks /\ <<t>> \in Seq(Tasks)
    BY TaskAssumption
  <2>2. todo' \in [Threads -> Seq(Tasks)]
    BY <1>a, <1>8, <2>1 DEF CallSubmit, TypeOK
  <2> QED
    BY <1>a, <1>8, <2>2 DEF CallSubmit, TypeOK
<1>9. CASE AwaitLatch
  BY <1>a, <1>9 DEF AwaitLatch, TypeOK
<1>10. CASE CallShutdown
  <2>1. shutdowns' \in 0..MaxShutdowns
    BY <1>a, <1>10, BoundAssumption DEF CallShutdown, TypeOK
  <2>2. target' \in [Threads -> Executors]
    BY <1>a, <1>d, <1>10 DEF CallShutdown, BeginShutdown, TypeOK
  <2> QED
    BY <1>a, <1>c, <1>10, <2>1, <2>2 DEF CallShutdown, BeginShutdown, TypeOK, OwnerLabels
<1>11. CASE CallDestructor
  <2>1. target' \in [Threads -> Executors]
    BY <1>a, <1>d, <1>11 DEF CallDestructor, BeginShutdown, TypeOK
  <2> QED
    BY <1>a, <1>c, <1>11, <2>1 DEF CallDestructor, BeginShutdown, TypeOK, OwnerLabels
<1> QED
  BY <1>1, <1>2, <1>3, <1>4, <1>5, <1>6, <1>7, <1>8, <1>9, <1>10, <1>11 DEF OwnerStep

LEMMA HeldSubmit ==
  ASSUME PoolInv, NEW c \in Threads, Submit(c)
  PROVE  Held' /\ Patient'
<1> USE DEF At, Goto, workerVars, ownerVars
<1>a. TypeOK /\ Held /\ Patient
  BY DEF PoolInv
<1>1. ASSUME NEW e \in Executors, Push(c, e) PROVE Held' /\ Patient'
  <2>1. /\ \A f \in Executors : queue[f] \in Seq(submitted')
        /\ Head(todo[c]) \in submitted'
    BY <1>a, <1>1, SeqMonotonic DEF Push, Held
  <2>2. \A f \in Executors : queue'[f] \in Seq(submitted')
    BY <1>a, <1>1, <2>1, AppendProperties DEF Push, TypeOK
  <2>3. \A t \in Threads : /\ pc'[t] = IF t = c THEN "activate" ELSE pc[t]
                           /\ pc[c] \in {"calling", "run"} /\ todo[c] # <<>>
    BY <1>a, <1>1 DEF Push, TypeOK
  <2> QED
    BY <1>a, <1>1, <2>2, <2>3, WorkersExecute, OwnerIsNoWorker
       DEF Push, Held, Patient, TypeOK, OwnerLabels, WorkerLabels, Threads
<1>2. CASE Activate(c)
  BY <1>a, <1>2, WorkersExecute DEF Activate, Held, Patient, TypeOK
<1>3. CASE Notify(c)
  <2>1. \A t \in Threads : pc'[t] \in {"run", "activate", "notify", "steal"}
          => \/ t = c /\ pc'[t] = (IF c = Owner THEN "calling" ELSE "run")
             \/ t # c /\ pc'[t] = pc[t]
    <3>1. pc'[c] = IF c = Owner THEN "calling" ELSE "run"
      BY <1>3 DEF Notify, NotifyInactive
    <3>2. ASSUME NEW t \in Threads, t # c, pc'[t] # "woken" PROVE pc'[t] = pc[t]
      BY <1>3, <3>2 DEF Notify, NotifyInactive
    <3>3. ASSUME NEW t \in Threads, pc'[t] \in {"run", "activate", "notify", "steal"}
          PROVE  \/ t = c /\ pc'[t] = (IF c = Owner THEN "calling" ELSE "run")
                 \/ t # c /\ pc'[t] = pc[t]
      <4>1. pc'[t] # "woken"
        BY <3>3
      <4> QED
        BY <3>1, <3>2, <4>1
    <3> QED
      BY <3>3
  <2> QED
    BY <1>a, <1>3, <2>1, WorkersExecute, OwnerIsNoWorker
       DEF Notify, Held, Patient, TypeOK, Threads
<1> QED
  BY <1>1, <1>2, <1>3 DEF Submit

LEMMA HeldWorker ==
  ASSUME PoolInv, NEW w \in Workers, Worker(w) \/ SpuriousWake(w)
  PROVE  Held' /\ Patient'
<1> USE DEF At, Goto, workerVars, ownerVars
<1>a. TypeOK /\ Held /\ Patient
  BY DEF PoolInv
<1>b. w \in Threads /\ Exec(w) \in Executors /\ w # Owner
  BY OwnerIsNoWorker, WorkersExecute
<1>c. Workers \subseteq Threads
  BY DEF Threads
<1>d. ASSUME NEW e \in Executors, queue[e] # <<>>, Run(w, Head(queue[e])),
             queue' = [queue EXCEPT ![e] = Tail(@)],
             UNCHANGED <<failures, submitted>>
      PROVE  Held' /\ Patient'
  <2>1. Head(queue[e]) \in submitted /\ Tail(queue[e]) \in Seq(submitted)
    BY <1>d, TaskIsSubmitted
  <2> QED
    BY <1>a, <1>b, <1>c, <1>d, <2>1 DEF Run, Held, Patient, TypeOK
<1>e. ASSUME NEW label, Goto(w, label), UNCHANGED <<queue, submitted, task, todo>>,
             label \notin {"run", "activate", "notify"},
             failures' \in [Workers -> 0..FailThreshold],
             \A v \in Workers \ {w} : failures'[v] = failures[v],
             label = "steal" => failures'[w] < FailThreshold
      PROVE  Held' /\ Patient'
  BY <1>a, <1>b, <1>c, <1>e DEF Held, Patient, TypeOK
<1>f. failures \in [Workers -> 0..FailThreshold]
  BY <1>a DEF TypeOK
<1>1. CASE TryPop(w)
  <2>1. CASE queue[Exec(w)] # <<>>
    BY <1>b, <1>d, <1>1, <2>1 DEF TryPop, Run
  <2>2. CASE queue[Exec(w)] = <<>>
    BY <1>e, <1>f, <1>1, <2>2 DEF TryPop
  <2> QED
    BY <2>1, <2>2
<1>2. CASE CheckEmpty(w)
  BY <1>e, <1>f, <1>2 DEF CheckEmpty
<1>3. CASE ReadState(w)
  <2>1. CASE Goto(w, "idle") /\ failures' = [failures EXCEPT ![w] = 0]
    <3>1. failures' \in [Workers -> 0..FailThreshold]
      BY <1>f, <2>1, SettingsAssumption
    <3> QED
      BY <1>e, <1>f, <1>3, <2>1, <3>1 DEF ReadState
  <2>2. CASE Goto(w, "steal") /\ failures[w] < FailThreshold /\ UNCHANGED failures
    BY <1>e, <1>f, <1>3, <2>2 DEF ReadState
  <2> QED
    BY <1>3, <2>1, <2>2 DEF ReadState
<1>4. CASE Steal(w)
  <2> DEFINE e == Head(scan[w])
  <2>1. e \in Executors
    BY <1>a, <1>4, HeadTailProperties DEF Steal, TypeOK
  <2>2. CASE queue[e] # <<>>
    BY <1>d, <1>4, <2>1, <2>2 DEF Steal
  <2>3. CASE queue[e] = <<>>
    BY <1>a, <1>4, <2>3 DEF Steal, Held, Patient
  <2> QED
    BY <2>2, <2>3
<1>5. CASE StealFailed(w)
  <2>1. failures' \in [Workers -> 0..FailThreshold]
    BY <1>a, <1>f, <1>5, SettingsAssumption DEF StealFailed, Patient
  <2> QED
    BY <1>e, <1>f, <1>5, <2>1 DEF StealFailed
<1>6. CASE GoIdle(w)
  BY <1>a, <1>b, <1>6, OwnerIsNoWorker DEF GoIdle, Held, Patient, TypeOK, Threads
<1>7. CASE Predicate(w) \/ Block(w) \/ Wake(w) \/ SpuriousWake(w) \/ Leave(w)
  BY <1>e, <1>f, <1>7 DEF Predicate, Block, Wake, SpuriousWake, Leave
<1>8. CASE EndBody(w)
  BY <1>e, <1>f, <1>8 DEF EndBody
<1>9. CASE ReturnFromRun(w)
  BY <1>a, <1>b, <1>c, <1>9 DEF ReturnFromRun, Held, Patient, TypeOK
<1>10. CASE Submit(w)
  BY <1>b, <1>10, HeldSubmit
<1> QED
  BY <1>1, <1>2, <1>3, <1>4, <1>5, <1>6, <1>7, <1>8, <1>9, <1>10 DEF Worker

LEMMA HeldOwner ==
  ASSUME PoolInv,
         \/ OwnerStep \/ OwnerSpuriousWake \/ (\E t \in Roots : CallSubmit(t))
         \/ AwaitLatch \/ CallShutdown \/ CallDestructor
  PROVE  Held' /\ Patient'
<1> USE DEF At, Goto, workerVars, ownerVars
<1>a. TypeOK /\ Held /\ Patient
  BY DEF PoolInv
<1>b. Owner \in Threads /\ Owner \notin Workers /\ Workers \subseteq Threads
  BY OwnerIsNoWorker DEF Threads
<1>c. ASSUME NEW label, Goto(Owner, label), label \notin {"activate", "notify"},
             UNCHANGED <<queue, submitted, task, todo, failures>>
      PROVE  Held' /\ Patient'
  BY <1>a, <1>b, <1>c DEF Held, Patient, TypeOK
<1>d. WaitReturns => \E l \in {"quit", "calling", "lock"} : Goto(Owner, l)
  BY DEF WaitReturns
<1>1. CASE Submit(Owner)
  BY <1>b, <1>1, HeldSubmit
<1>2. CASE WaitAllDone \/ WaitWakes
  BY <1>c, <1>d, <1>2 DEF WaitAllDone, WaitWakes
<1>3. CASE SetQuit \/ Join \/ OwnerSpuriousWake
  BY <1>c, <1>3 DEF SetQuit, Join, OwnerSpuriousWake
<1>4. CASE QuitNotify
  <2>1. \A t \in Threads : pc'[t] \in {"run", "activate", "notify", "steal"}
          => pc'[t] = pc[t]
    BY <1>a, <1>4 DEF QuitNotify, NotifyInactive
  <2> QED
    BY <1>a, <1>b, <1>4, <2>1 DEF QuitNotify, Held, Patient, TypeOK
<1>5. ASSUME NEW t \in Roots, CallSubmit(t) PROVE Held' /\ Patient'
  BY <1>a, <1>b, <1>5 DEF CallSubmit, Idle, Held, Patient, TypeOK
<1>6. CASE AwaitLatch
  BY <1>a, <1>6 DEF AwaitLatch, Held, Patient
<1>7. CASE CallShutdown \/ CallDestructor
  BY <1>c, <1>7 DEF CallShutdown, CallDestructor, BeginShutdown
<1> QED
  BY <1>1, <1>2, <1>3, <1>4, <1>5, <1>6, <1>7 DEF OwnerStep

LEMMA PoolStep == ASSUME PoolInv, [Next]_vars PROVE PoolInv'
<1>1. ActiveCounts'
  BY CountsStep
<1>2. CASE UNCHANGED vars
  BY <1>1, <1>2 DEF vars, PoolInv, TypeOK, Held, Patient, At
<1>3. CASE \E w \in Workers : Worker(w) \/ SpuriousWake(w)
  BY <1>1, <1>3, WorkerTypes, HeldWorker DEF PoolInv
<1>4. CASE \/ OwnerStep \/ OwnerSpuriousWake \/ (\E t \in Roots : CallSubmit(t))
           \/ AwaitLatch \/ CallShutdown \/ CallDestructor
  BY <1>1, <1>4, OwnerTypes, HeldOwner DEF PoolInv
<1> QED
  BY <1>2, <1>3, <1>4 DEF Next

LEMMA PoolInvariant == Spec => []PoolInv
BY PoolInit, PoolStep, PTL DEF Spec

-----------------------------------------------------------------------------
\* Every variable of the pool keeps its type, and no queue exceeds its capacity,
\* for every program of tasks: the failure counts stop at the threshold, and
\* active_workers, a signed counter that workers decrement and increment
\* (lines 37 and 47), never leaves 0..num_workers.
THEOREM PoolTypes == Spec => []TypeOK
BY PoolInvariant, PTL DEF PoolInv

\* wait_all_done() (lines 83-88) returns only while every worker of its executor
\* is between its decrement of active_workers and the next increment.
THEOREM QuietWhenWaitReturns == Spec => WaitAllDoneIsQuiet
<1> DEFINE Quiet == \A w \in Workers :
      pc[Owner] \in {"lock", "notified"} /\ pc'[Owner] # "waiting"
        /\ <<pc[Owner], target[Owner], phase>>' # <<pc[Owner], target[Owner], phase>>
        /\ Exec(w) = target[Owner]
      => Sleeping(w)
<1>1. ASSUME PoolInv, [Next]_vars, NEW w \in Workers,
             pc[Owner] \in {"lock", "notified"}, pc'[Owner] # "waiting",
             <<pc[Owner], target[Owner], phase>>' # <<pc[Owner], target[Owner], phase>>,
             Exec(w) = target[Owner]
      PROVE  Sleeping(w)
  <2>1. active[target[Owner]] = 0
    <3>1. WaitAllDone \/ WaitWakes
      <4>1. ASSUME NEW v \in Workers, Worker(v) \/ SpuriousWake(v) PROVE FALSE
        BY <1>1, <4>1, OwnerIsNoWorker
           DEF Worker, SpuriousWake, TryPop, Run, CheckEmpty, ReadState, Steal, StealFailed,
               GoIdle, Predicate, Block, Leave, Wake, EndBody, ReturnFromRun, Submit, Push,
               Activate, Notify, NotifyInactive, At, Goto, PoolInv, TypeOK, Threads, ownerVars
      <4>2. ~(Submit(Owner) \/ SetQuit \/ QuitNotify \/ Join \/ OwnerSpuriousWake)
        BY <1>1 DEF Submit, Push, Activate, Notify, SetQuit, QuitNotify, Join, OwnerSpuriousWake, At
      <4>3. ~((\E t \in Roots : CallSubmit(t)) \/ AwaitLatch \/ CallShutdown \/ CallDestructor)
        BY <1>1 DEF CallSubmit, AwaitLatch, CallShutdown, CallDestructor, Idle, At
      <4> QED
        BY <1>1, <4>1, <4>2, <4>3 DEF Next, OwnerStep, vars
    <3> QED
      BY <1>1, <3>1 DEF WaitAllDone, WaitWakes, Goto, PoolInv, TypeOK
  <2>2. Exec(w) \in Executors /\ Cardinality(AwakeIn(Exec(w))) = 0
    BY <1>1, <2>1, WorkersExecute DEF PoolInv, ActiveCounts
  <2>3. AwakeIn(Exec(w)) = {}
    <3>1. AwakeIn(Exec(w)) \subseteq Team(Exec(w))
      BY DEF AwakeIn, Team
    <3>2. IsFiniteSet(AwakeIn(Exec(w)))
      BY <2>2, <3>1, TeamSize, FS_Subset
    <3> QED
      BY <2>2, <3>2, FS_EmptySet
  <2> QED
    BY <2>3 DEF AwakeIn
<1>2. PoolInv /\ [Next]_vars => [Quiet]_vars
  BY <1>1
<1> QED
  BY <1>2, PoolInvariant, PTL DEF Spec, WaitAllDoneIsQuiet

-----------------------------------------------------------------------------
(* What callers may rely on: each task runs once, and who awaits the tasks *)
(* before a shutdown may free what they refer to.                          *)

(* Where a task is: queued, in the hands of a worker, or finished.         *)

Queued(t, e, i) == e \in Executors /\ i \in 1..Len(queue[e]) /\ queue[e][i] = t
Runs(w, t) == task[w] = t /\ ~At(w, "return")
InBody(w) == pc[w] \in {"run", "activate", "notify"}

Once(t) ==
  /\ \A e, f \in Executors : \A i, j \in Nat : Queued(t, e, i) /\ Queued(t, f, j) => e = f /\ i = j
  /\ \A v, w \in Workers : Runs(v, t) /\ Runs(w, t) => v = w
  /\ \A w \in Workers : \A e \in Executors : \A i \in Nat : ~(Runs(w, t) /\ Queued(t, e, i))
  /\ t \in finished => /\ \A w \in Workers : ~Runs(w, t)
                       /\ \A e \in Executors : \A i \in Nat : ~Queued(t, e, i)
  /\ t \in submitted => \/ t \in finished
                        \/ \E e \in Executors : \E i \in Nat : Queued(t, e, i)
                        \/ \E w \in Workers : Runs(w, t)

\* A worker holds a task only inside a body and on the way out of it.
EmptyHanded ==
  \A w \in Workers : ~InBody(w) => todo[w] = <<>> /\ (~At(w, "return") => task[w] = None)

(* What is still to be submitted, and by whom.                             *)

\* The first of todo is already in a queue while submit() activates it.
Pending(c) == IF pc[c] \in {"activate", "notify"} THEN 2..Len(todo[c]) ELSE 1..Len(todo[c])

\* The body of a task submits the children of this task, the owner roots.
Descends(w) ==
  \E k \in Nat : /\ k + Len(todo[w]) = Len(Children[task[w]])
                 /\ \A i \in 1..Len(todo[w]) : todo[w][i] = Children[task[w]][k + i]

Lineage ==
  /\ \A w \in Workers : InBody(w) => Descends(w)
  /\ Len(todo[Owner]) <= 1 /\ \A i \in 1..Len(todo[Owner]) : todo[Owner][i] \in Roots

\* What is to be submitted has not been, nor the children of what has not run.
Unborn ==
  /\ \A c \in Threads : \A i \in Pending(c) : todo[c][i] \notin submitted
  /\ \A t \in Tasks : t \notin submitted \/ (\E e \in Executors : \E i \in Nat : Queued(t, e, i))
       => \A i \in 1..Len(Children[t]) : Children[t][i] \notin submitted

OnceInv == (\A t \in Tasks : Once(t)) /\ EmptyHanded /\ Lineage /\ Unborn

(* What follows from a wait that has seen every task do its work.          *)

\* Nothing is queued or still to be submitted.
Drained == /\ \A e \in Executors : queue[e] = <<>>
           /\ todo[Owner] = <<>>
           /\ \A w \in Workers : WorkIsDone(w)

\* No worker of e is inside a task.
Rests(e) == \A w \in Workers : Exec(w) = e => ~Busy(w)

\* The workers of e sleep, and nothing will send them back to work.
Settled(e) ==
  /\ ~state[e]
  /\ \A w \in Workers : Exec(w) = e => Sleeping(w) /\ (At(w, "leave") => quit[e])

InWait == pc[Owner] \in {"lock", "waiting", "notified"}

\* After the wait: the executors that shutdown() has passed rest.
TasksAwaited ==
  /\ Drained
  /\ pc[Owner] \in {"quit", "quitNotify", "join"} => phase = "members"
  /\ InWait /\ phase # "members" => \A e \in Executors : e < target[Owner] => Rests(e)

\* After the first shutdown() all of them rest, so nobody is left to activate an
\* executor that the next call has passed.
ShutdownAwaited ==
  /\ \A e \in Executors : Rests(e)
  /\ pc[Owner] \in {"waiting", "notified"} => ~state[target[Owner]]
  /\ InWait => \A e \in Executors : e < target[Owner] => Settled(e)
  /\ phase = "members" => \A e \in Executors : Settled(e)

AwaitInv == /\ awaited # "nothing" => TasksAwaited
            /\ awaited = "shutdown" => ShutdownAwaited

-----------------------------------------------------------------------------
(* Each task once                                                          *)

LEMMA OnceInit == Init => OnceInv
<1> SUFFICES ASSUME Init PROVE OnceInv
  OBVIOUS
<1>1. Len(<<>>) = 0 /\ Owner \notin Workers /\ Owner \in Threads
      /\ \A w \in Workers : w \in Threads
  BY EmptySeq, OwnerIsNoWorker, WorkersExecute DEF Threads
<1>2. \A e \in Executors : \A i : ~(i \in 1..Len(queue[e]))
  BY <1>1 DEF Init
<1>3. \A t, e, i : ~Queued(t, e, i)
  BY <1>2 DEF Queued
<1>4. \A t \in Tasks : \A w \in Workers : ~Runs(w, t)
  BY TaskAssumption DEF Init, Runs
<1>5. \A t \in Tasks : Once(t)
  BY <1>3, <1>4 DEF Once, Init
<1>6. \A w \in Workers : ~InBody(w)
  BY <1>1 DEF Init, InBody
<1>7. EmptyHanded /\ Lineage
  BY <1>1, <1>6 DEF EmptyHanded, Lineage, Init
<1>8. Unborn
  BY <1>1 DEF Unborn, Pending, Init
<1> QED
  BY <1>5, <1>7, <1>8 DEF OnceInv

LEMMA DescendsOn ==
  ASSUME NEW w, Descends(w), todo'[w] = todo[w], task'[w] = task[w]
  PROVE  Descends(w)'
<1>1. PICK k \in Nat : /\ k + Len(todo[w]) = Len(Children[task[w]])
                       /\ \A i \in 1..Len(todo[w]) : todo[w][i] = Children[task[w]][k + i]
  BY DEF Descends
<1> QED
  BY <1>1 DEF Descends

\* What a step that moves no task from where it is leaves true.
LEMMA StayOnce ==
  ASSUME NEW t, Once(t),
         \A e \in Executors : \A i \in Nat : Queued(t, e, i)' <=> Queued(t, e, i),
         \A w \in Workers : Runs(w, t)' <=> Runs(w, t),
         t \in finished' <=> t \in finished, t \in submitted' <=> t \in submitted
  PROVE  Once(t)'
BY DEF Once

LEMMA ElsewhereOnce ==
  ASSUME OnceInv, UNCHANGED <<queue, task, todo, submitted, finished>>,
         \A w \in Workers : /\ InBody(w)' <=> InBody(w)
                            /\ At(w, "return")' <=> At(w, "return"),
         \A c \in Threads : Pending(c)' = Pending(c)
  PROVE  OnceInv'
<1>1. \A t, e, i : Queued(t, e, i)' <=> Queued(t, e, i)
  BY DEF Queued
<1>2. \A w \in Workers : \A t : Runs(w, t)' <=> Runs(w, t)
  BY DEF Runs, At
<1>3. ASSUME NEW t \in Tasks PROVE Once(t)'
  BY <1>1, <1>2, StayOnce DEF OnceInv
<1>4. EmptyHanded'
  BY DEF OnceInv, EmptyHanded, InBody, At
<1>6. Lineage'
  BY DescendsOn DEF OnceInv, Lineage, InBody, At
<1>5. Unborn'
  BY <1>1 DEF OnceInv, Unborn
<1> QED
  BY <1>3, <1>4, <1>5, <1>6 DEF OnceInv

\* A worker takes the first task of a queue: its own queue or another one.
LEMMA TakeQueue ==
  ASSUME TypeOK, NEW e \in Executors, queue[e] # <<>>,
         queue' = [queue EXCEPT ![e] = Tail(@)], NEW t
  PROVE  /\ \A f \in Executors : \A i \in Nat :
              Queued(t, f, i)' <=> i >= 1 /\ Queued(t, f, IF f = e THEN i + 1 ELSE i)
         /\ Queued(t, e, 1) <=> t = Head(queue[e])
<1>1. queue[e] \in Seq(Tasks) /\ queue \in [Executors -> Seq(Tasks)]
  BY DEF TypeOK
<1>2. /\ Tail(queue[e]) \in Seq(Tasks) /\ Len(queue[e]) \in Nat /\ Len(queue[e]) >= 1
      /\ Len(Tail(queue[e])) = Len(queue[e]) - 1
      /\ \A i \in 1..Len(Tail(queue[e])) : Tail(queue[e])[i] = queue[e][i + 1]
      /\ Head(queue[e]) = queue[e][1]
  BY <1>1, HeadTailProperties, LenProperties, EmptySeq
<1>3. ASSUME NEW f \in Executors, NEW i \in Nat
      PROVE  Queued(t, f, i)' <=> i >= 1 /\ Queued(t, f, IF f = e THEN i + 1 ELSE i)
  <2>1. CASE f = e
    BY <1>1, <1>2, <2>1 DEF Queued
  <2>2. CASE f # e
    <3>1. queue'[f] = queue[f] /\ Len(queue[f]) \in Nat
      BY <1>1, <2>2, LenProperties
    <3> QED
      BY <2>2, <3>1 DEF Queued
  <2> QED
    BY <2>1, <2>2
<1> QED
  BY <1>2, <1>3 DEF Queued

LEMMA TakeOnce ==
  ASSUME PoolInv, OnceInv, NEW w \in Workers, ~InBody(w), ~At(w, "return"),
         NEW e \in Executors, queue[e] # <<>>, Run(w, Head(queue[e])),
         queue' = [queue EXCEPT ![e] = Tail(@)], UNCHANGED <<submitted, finished>>
  PROVE  OnceInv'
<1> DEFINE h == Head(queue[e])
<1>0. /\ TypeOK /\ h \in Tasks /\ h \in submitted /\ task[w] = None
      /\ w \in Threads /\ w # Owner /\ Owner \in Threads /\ \A v \in Workers : v \in Threads
  BY TaskIsSubmitted, WorkersExecute, OwnerIsNoWorker DEF PoolInv, OnceInv, EmptyHanded, Threads
<1>1. \A v \in Workers : /\ task'[v] = IF v = w THEN h ELSE task[v]
                         /\ pc'[v] = IF v = w THEN "run" ELSE pc[v]
                         /\ todo'[v] = IF v = w THEN Children[h] ELSE todo[v]
  BY <1>0 DEF Run, Goto, TypeOK
<1>2. pc'[Owner] = pc[Owner] /\ todo'[Owner] = todo[Owner]
  BY <1>0 DEF Run, Goto, TypeOK
<1>3. \A t \in Tasks : \A v \in Workers :
        Runs(v, t)' <=> IF v = w THEN t = h ELSE Runs(v, t)
  BY <1>1 DEF Runs, At
<1>4. \A t : /\ \A f \in Executors : \A i \in Nat :
                  Queued(t, f, i)' <=> i >= 1 /\ Queued(t, f, IF f = e THEN i + 1 ELSE i)
             /\ Queued(t, e, 1) <=> t = h
  BY <1>0, TakeQueue
<1> HIDE DEF h
<1>5. ASSUME NEW t \in Tasks PROVE Once(t)'
  <2>0. Once(t) /\ ~Runs(w, t) /\ \A f : \A i : Queued(t, f, i) => f \in Executors /\ i >= 1
    BY <1>0, TaskAssumption DEF OnceInv, Runs, Queued
  <2>1. ASSUME NEW f \in Executors, NEW g \in Executors, NEW i \in Nat, NEW j \in Nat,
               Queued(t, f, i)', Queued(t, g, j)'
        PROVE  f = g /\ i = j
    <3>1. Queued(t, f, IF f = e THEN i + 1 ELSE i) /\ Queued(t, g, IF g = e THEN j + 1 ELSE j)
      BY <1>4, <2>1
    <3> QED
      BY <2>0, <3>1 DEF Once
  <2>2. CASE t = h
    <3>1. Queued(t, e, 1)
      BY <1>4, <2>2
    <3>2. \A v \in Workers : ~Runs(v, t)
      BY <2>0, <3>1 DEF Once
    <3>3. t \notin finished
      BY <2>0, <3>1 DEF Once
    <3>4. ASSUME NEW f \in Executors, NEW i \in Nat, Queued(t, f, i)' PROVE FALSE
      <4>1. i >= 1 /\ Queued(t, f, IF f = e THEN i + 1 ELSE i)
        BY <1>4, <3>4
      <4> QED
        BY <2>0, <3>1, <4>1 DEF Once
    <3> QED
      BY <1>3, <2>2, <3>2, <3>3, <3>4 DEF Once
  <2>3. CASE t # h
    <3>1. \A v \in Workers : Runs(v, t)' <=> Runs(v, t)
      BY <1>3, <2>0, <2>3
    <3>2. ASSUME NEW f \in Executors, NEW i \in Nat, Queued(t, f, i)'
          PROVE  \E j \in Nat : Queued(t, f, j)
      <4>1. Queued(t, f, IF f = e THEN i + 1 ELSE i)
        BY <1>4, <3>2
      <4>2. (IF f = e THEN i + 1 ELSE i) \in Nat
        OBVIOUS
      <4> QED
        BY <4>1, <4>2, Zenon
    <3>3. ASSUME NEW f \in Executors, NEW i \in Nat, Queued(t, f, i)
          PROVE  \E j \in Nat : Queued(t, f, j)'
      <4>1. i >= 1 /\ (f = e => i # 1)
        BY <1>4, <2>0, <2>3, <3>3
      <4>2. CASE f = e
        <5>1. i - 1 \in Nat /\ i - 1 >= 1 /\ (i - 1) + 1 = i
          BY <4>1, <4>2
        <5> QED
          BY <1>4, <3>3, <4>2, <5>1
      <4> QED
        BY <1>4, <3>3, <4>1, <4>2
    <3>4. \A v, u \in Workers : Runs(v, t)' /\ Runs(u, t)' => v = u
      BY <2>0, <3>1 DEF Once
    <3>5. \A v \in Workers : \A f \in Executors : \A i \in Nat : ~(Runs(v, t)' /\ Queued(t, f, i)')
      BY <2>0, <3>1, <3>2 DEF Once
    <3>6. t \in finished => /\ \A v \in Workers : ~Runs(v, t)'
                            /\ \A f \in Executors : \A i \in Nat : ~Queued(t, f, i)'
      BY <2>0, <3>1, <3>2 DEF Once
    <3>7. t \in submitted => \/ t \in finished
                             \/ \E f \in Executors : \E i \in Nat : Queued(t, f, i)'
                             \/ \E v \in Workers : Runs(v, t)'
      BY <2>0, <3>1, <3>3 DEF Once
    <3> QED
      BY <2>1, <3>4, <3>5, <3>6, <3>7 DEF Once
  <2> QED
    BY <2>2, <2>3
<1>6. EmptyHanded'
  BY <1>1 DEF OnceInv, EmptyHanded, InBody, At
<1>7. Children[h] \in Seq(Tasks) /\ Len(Children[h]) \in Nat
  BY <1>0, TaskAssumption, LenProperties
<1>8. Lineage'
  <2>1. ASSUME NEW v \in Workers, InBody(v)' PROVE Descends(v)'
    <3>1. CASE v = w
      <4>1. PICK k \in Nat : k = 0
        OBVIOUS
      <4>2. /\ k + Len(todo'[v]) = Len(Children[task'[v]])
            /\ \A i \in 1..Len(todo'[v]) : todo'[v][i] = Children[task'[v]][k + i]
        BY <1>1, <1>7, <3>1, <4>1
      <4> QED
        BY <4>2 DEF Descends
    <3>2. CASE v # w
      <4>1. todo'[v] = todo[v] /\ task'[v] = task[v] /\ InBody(v)
        BY <1>1, <2>1, <3>2 DEF InBody
      <4> QED
        BY <4>1, DescendsOn DEF OnceInv, Lineage
    <3> QED
      BY <3>1, <3>2
  <2>2. Len(todo'[Owner]) <= 1 /\ \A i \in 1..Len(todo'[Owner]) : todo'[Owner][i] \in Roots
    BY <1>2 DEF OnceInv, Lineage
  <2> QED
    BY <2>1, <2>2 DEF Lineage
<1>9. Unborn'
  <2>1. \A i \in 1..Len(Children[h]) : Children[h][i] \notin submitted
    BY <1>0, <1>4 DEF OnceInv, Unborn
  <2>2. ASSUME NEW c \in Threads, NEW i \in Pending(c)' PROVE todo'[c][i] \notin submitted'
    <3>1. CASE c = w
      BY <1>0, <1>1, <2>1, <2>2, <3>1 DEF Pending
    <3>2. CASE c # w
      BY <1>0, <1>1, <1>2, <2>2, <3>2, ThreadCases DEF OnceInv, Unborn, Pending
    <3> QED
      BY <3>1, <3>2
  <2>3. ASSUME NEW t \in Tasks,
               t \notin submitted' \/ (\E f \in Executors : \E i \in Nat : Queued(t, f, i)')
        PROVE  \A i \in 1..Len(Children[t]) : Children[t][i] \notin submitted'
    <3>1. t \notin submitted \/ (\E f \in Executors : \E i \in Nat : Queued(t, f, i))
      BY <1>4, <2>3
    <3> QED
      BY <3>1 DEF OnceInv, Unborn
  <2> QED
    BY <2>2, <2>3 DEF Unborn
<1> QED
  BY <1>5, <1>6, <1>8, <1>9 DEF OnceInv

\* No two submissions that are still to be made are of one task, and none is of
\* a child of a task that has yet to run.
LEMMA SubmittedByOne ==
  ASSUME PoolInv, OnceInv, NEW c \in Threads, pc[c] \in {"calling", "run"}, todo[c] # <<>>
  PROVE  /\ todo[c][1] \in Tasks /\ todo[c][1] \notin submitted
         /\ \A d \in Threads : \A i \in Pending(d) : d # c \/ i # 1 => todo[d][i] # todo[c][1]
         /\ \A t \in Tasks : t \notin submitted \/ (\E e \in Executors : \E i \in Nat : Queued(t, e, i))
              => \A i \in 1..Len(Children[t]) : Children[t][i] # todo[c][1]
<1> DEFINE x == todo[c][1]
<1>0. /\ TypeOK /\ Owner \in Threads /\ Owner \notin Workers
      /\ \A t \in Threads : todo[t] \in Seq(Tasks) /\ Len(todo[t]) \in Nat
      /\ \A t \in Tasks : Children[t] \in Seq(Tasks) /\ DOMAIN Children[t] = 1..Len(Children[t])
  BY OwnerIsNoWorker, TaskAssumption, LenProperties DEF PoolInv, TypeOK, Threads
<1>1. todo[c][1] \in Tasks /\ Len(todo[c]) >= 1 /\ 1 \in Pending(c)
  <2>1. Len(todo[c]) # 0
    BY <1>0, EmptySeq
  <2>2. 1 \in 1..Len(todo[c])
    BY <1>0, <2>1
  <2> QED
    BY <1>0, <2>2, ElementOfSeq DEF Pending
<1>2. x \notin submitted
  BY <1>1 DEF OnceInv, Unborn
<1>3. \A d \in Threads : \A i \in Pending(d) : i \in 1..Len(todo[d])
  BY <1>0 DEF Pending
<1>4. \A d \in Workers : InBody(d) => task[d] \in submitted /\ task[d] \in Tasks /\ Runs(d, task[d])
  BY <1>0 DEF PoolInv, Held, InBody, Runs, TypeOK, At
<1>5. \A d \in Workers : todo[d] # <<>> => InBody(d)
  BY DEF OnceInv, EmptyHanded
<1>6. \A d \in Workers : InBody(d) =>
        \E k \in Nat : /\ k + Len(todo[d]) = Len(Children[task[d]])
                       /\ \A i \in 1..Len(todo[d]) : k + i \in 1..Len(Children[task[d]])
                                                     /\ todo[d][i] = Children[task[d]][k + i]
  <2> SUFFICES ASSUME NEW d \in Workers, InBody(d)
               PROVE  \E k \in Nat : /\ k + Len(todo[d]) = Len(Children[task[d]])
                        /\ \A i \in 1..Len(todo[d]) : k + i \in 1..Len(Children[task[d]])
                                                      /\ todo[d][i] = Children[task[d]][k + i]
    OBVIOUS
  <2>1. PICK k \in Nat : /\ k + Len(todo[d]) = Len(Children[task[d]])
                         /\ \A i \in 1..Len(todo[d]) : todo[d][i] = Children[task[d]][k + i]
    BY DEF OnceInv, Lineage, Descends
  <2>2. Len(todo[d]) \in Nat
    BY <1>0, WorkersExecute
  <2>3. \A i \in 1..Len(todo[d]) : k + i \in 1..Len(Children[task[d]])
    BY <2>1, <2>2
  <2> QED
    BY <2>1, <2>3
<1>7. \A i \in 1..Len(todo[Owner]) : i = 1 /\ todo[Owner][i] \in Roots
  BY <1>0 DEF OnceInv, Lineage
<1>8. \A t \in Tasks : \A i \in 1..Len(Children[t]) :
        /\ Children[t][i] \notin Roots
        /\ \A u \in Tasks : \A j \in 1..Len(Children[u]) :
             Children[t][i] = Children[u][j] => t = u /\ i = j
  BY <1>0, SubmissionAssumption
<1> HIDE DEF x
<1>9. CASE c = Owner
  <2>1. x \in Roots
    BY <1>0, <1>1, <1>3, <1>7, <1>9 DEF x
  <2>2. ASSUME NEW d \in Threads, NEW i \in Pending(d), d # c \/ i # 1 PROVE todo[d][i] # x
    <3>1. CASE d = Owner
      BY <1>3, <1>7, <1>9, <2>2, <3>1
    <3>2. CASE d \in Workers
      <4>1. i \in 1..Len(todo[d]) /\ todo[d] # <<>>
        BY <1>3, EmptySeq
      <4>2. InBody(d)
        BY <1>5, <3>2, <4>1
      <4>3. PICK k \in Nat : k + i \in 1..Len(Children[task[d]])
                             /\ todo[d][i] = Children[task[d]][k + i]
        BY <1>6, <3>2, <4>1, <4>2
      <4> QED
        BY <1>4, <1>8, <2>1, <3>2, <4>2, <4>3
    <3> QED
      BY <3>1, <3>2, ThreadCases
  <2> QED
    BY <1>1, <1>2, <1>8, <2>1, <2>2 DEF x
<1>10. CASE c \in Workers
  <2>1. InBody(c)
    BY <1>5, <1>10
  <2>2. PICK k \in Nat : /\ k + Len(todo[c]) = Len(Children[task[c]])
                         /\ \A i \in 1..Len(todo[c]) : k + i \in 1..Len(Children[task[c]])
                                                       /\ todo[c][i] = Children[task[c]][k + i]
    BY <1>6, <1>10, <2>1
  <2>3. x = Children[task[c]][k + 1] /\ k + 1 \in 1..Len(Children[task[c]])
    BY <1>0, <1>1, <2>2 DEF x
  <2>4. task[c] \in Tasks /\ Runs(c, task[c]) /\ task[c] \in submitted /\ Once(task[c])
    BY <1>4, <1>10, <2>1 DEF OnceInv
  <2>5. ASSUME NEW d \in Threads, NEW i \in Pending(d), d # c \/ i # 1 PROVE todo[d][i] # x
    <3>1. CASE d = Owner
      BY <1>3, <1>7, <1>8, <2>3, <2>4, <3>1
    <3>2. CASE d \in Workers
      <4>1. i \in 1..Len(todo[d]) /\ todo[d] # <<>>
        BY <1>3, EmptySeq
      <4>2. InBody(d)
        BY <1>5, <3>2, <4>1
      <4>3. PICK l \in Nat : /\ l + Len(todo[d]) = Len(Children[task[d]])
                             /\ l + i \in 1..Len(Children[task[d]])
                             /\ todo[d][i] = Children[task[d]][l + i]
        BY <1>6, <3>2, <4>1, <4>2
      <4>4. task[d] \in Tasks /\ Runs(d, task[d])
        BY <1>4, <3>2, <4>2
      <4>5. SUFFICES ASSUME todo[d][i] = x PROVE FALSE
        OBVIOUS
      <4>6. task[d] = task[c] /\ l + i = k + 1
        <5>1. Children[task[d]][l + i] = Children[task[c]][k + 1]
          BY <2>3, <4>3, <4>5
        <5>2. \A j \in 1..Len(Children[task[c]]) :
                Children[task[d]][l + i] = Children[task[c]][j] => task[d] = task[c] /\ l + i = j
          BY <1>8, <2>4, <4>3, <4>4
        <5> QED
          BY <2>3, <5>1, <5>2
      <4>7. d = c
        BY <1>10, <2>4, <3>2, <4>4, <4>6 DEF Once
      <4>8. i = 1
        BY <1>0, <2>2, <4>1, <4>3, <4>6, <4>7
      <4> QED
        BY <2>5, <4>7, <4>8
    <3> QED
      BY <3>1, <3>2, ThreadCases
  <2>6. ASSUME NEW t \in Tasks, NEW i \in 1..Len(Children[t]), Children[t][i] = x,
               t \notin submitted \/ (\E e \in Executors : \E j \in Nat : Queued(t, e, j))
        PROVE  FALSE
    <3>1. t = task[c]
      BY <1>8, <2>3, <2>4, <2>6
    <3> QED
      BY <1>10, <2>4, <2>6, <3>1 DEF Once
  <2> QED
    BY <1>1, <1>2, <2>5, <2>6 DEF x
<1> QED
  BY <1>9, <1>10, ThreadCases

LEMMA PushOnce ==
  ASSUME PoolInv, OnceInv, NEW c \in Threads, NEW e \in Executors, Push(c, e)
  PROVE  OnceInv'
<1> DEFINE x == todo[c][1]
<1>0. /\ TypeOK /\ Owner \in Threads /\ Owner \notin Workers /\ Workers \subseteq Threads
      /\ pc[c] \in {"calling", "run"} /\ todo[c] # <<>>
  BY OwnerIsNoWorker DEF PoolInv, Threads, Push
<1>1. /\ x \in Tasks /\ x \notin submitted /\ Head(todo[c]) = x
      /\ \A d \in Threads : \A i \in Pending(d) : d # c \/ i # 1 => todo[d][i] # x
      /\ \A t \in Tasks : t \notin submitted \/ (\E f \in Executors : \E i \in Nat : Queued(t, f, i))
           => \A i \in 1..Len(Children[t]) : Children[t][i] # x
  <2>1. todo[c] \in Seq(Tasks)
    BY <1>0 DEF TypeOK
  <2>2. Head(todo[c]) = x
    BY <1>0, <2>1, HeadTailProperties
  <2> QED
    BY <1>0, <2>2, SubmittedByOne
<1>2. /\ queue' = [queue EXCEPT ![e] = Append(@, x)] /\ submitted' = submitted \cup {x}
      /\ UNCHANGED <<task, todo, finished>>
      /\ \A t \in Threads : pc'[t] = IF t = c THEN "activate" ELSE pc[t]
  BY <1>0, <1>1 DEF Push, workerVars, ownerVars, Goto, TypeOK
<1>3. queue[e] \in Seq(Tasks) /\ Len(queue[e]) \in Nat /\ queue \in [Executors -> Seq(Tasks)]
  BY <1>0, LenProperties DEF TypeOK
<1> HIDE DEF x
<1>4. ASSUME NEW t \in Tasks, NEW f \in Executors, NEW i \in Nat
      PROVE  Queued(t, f, i)' <=> Queued(t, f, i) \/ (t = x /\ f = e /\ i = Len(queue[e]) + 1)
  <2>1. CASE f = e
    <3>1. /\ queue'[e] = Append(queue[e], x) /\ Len(queue'[e]) = Len(queue[e]) + 1
          /\ \A j \in 1..Len(queue[e]) : queue'[e][j] = queue[e][j]
          /\ queue'[e][Len(queue[e]) + 1] = x
      BY <1>1, <1>2, <1>3, AppendProperties
    <3> QED
      BY <1>3, <2>1, <3>1 DEF Queued
  <2>2. CASE f # e
    BY <1>2, <1>3, <2>2 DEF Queued
  <2> QED
    BY <2>1, <2>2
<1>5. \A t \in Tasks : \A w \in Workers : Runs(w, t)' <=> Runs(w, t)
  BY <1>0, <1>2 DEF Runs, At
<1>6. (\A f \in Executors : \A i \in Nat : ~Queued(x, f, i)) /\ \A w \in Workers : ~Runs(w, x)
  <2>1. ASSUME NEW f \in Executors, NEW i \in Nat, Queued(x, f, i) PROVE FALSE
    BY <1>1, <2>1, ElementOfSeq DEF PoolInv, Held, Queued
  <2>2. ASSUME NEW w \in Workers, Runs(w, x) PROVE FALSE
    BY <1>1, <2>2, TaskAssumption DEF OnceInv, EmptyHanded, PoolInv, Held, InBody, Runs, At
  <2> QED
    BY <2>1, <2>2
<1>7. ASSUME NEW t \in Tasks PROVE Once(t)'
  <2>1. CASE t = x
    <3>1. x \notin finished
      BY <1>0, <1>1 DEF TypeOK
    <3>2. \E n \in Nat : Queued(t, e, n)'
      <4>1. PICK n \in Nat : n = Len(queue[e]) + 1
        BY <1>3
      <4>2. Queued(t, e, n)' <=> Queued(t, e, n) \/ (t = x /\ e = e /\ n = Len(queue[e]) + 1)
        BY <1>4
      <4> QED
        BY <2>1, <4>1, <4>2
    <3>3. \A f \in Executors : \A i \in Nat : Queued(t, f, i)' => f = e /\ i = Len(queue[e]) + 1
      BY <1>4, <1>6, <2>1
    <3>4. \A w \in Workers : ~Runs(w, t)'
      BY <1>5, <1>6, <2>1
    <3> QED
      BY <1>2, <2>1, <3>1, <3>2, <3>3, <3>4 DEF Once
  <2>2. CASE t # x
    BY <1>2, <1>4, <1>5, <2>2, StayOnce DEF OnceInv
  <2> QED
    BY <2>1, <2>2
<1>8. EmptyHanded' /\ Lineage'
  <2>1. ASSUME NEW w \in Workers
        PROVE  (InBody(w)' <=> InBody(w)) /\ (At(w, "return")' <=> At(w, "return"))
    <3>1. CASE w = c
      <4>1. pc[w] = "run" /\ pc'[w] = "activate"
        BY <1>0, <1>2, <3>1 DEF TypeOK, WorkerLabels
      <4> QED
        BY <4>1 DEF InBody, At
    <3>2. CASE w # c
      <4>1. pc'[w] = pc[w]
        BY <1>0, <1>2, <3>2
      <4> QED
        BY <4>1 DEF InBody, At
    <3> QED
      BY <3>1, <3>2
  <2>2. EmptyHanded'
    BY <1>2, <2>1 DEF OnceInv, EmptyHanded
  <2>3. Lineage'
    BY <1>2, <2>1, DescendsOn DEF OnceInv, Lineage
  <2> QED
    BY <2>2, <2>3
<1>9. Unborn'
  <2>1. ASSUME NEW d \in Threads, NEW i \in Pending(d)' PROVE todo'[d][i] \notin submitted'
    <3>1. i \in Pending(d) /\ (d # c \/ i # 1)
      BY <1>0, <1>2, <2>1 DEF Pending
    <3> QED
      BY <1>1, <1>2, <3>1 DEF OnceInv, Unborn
  <2>2. ASSUME NEW t \in Tasks,
               t \notin submitted' \/ (\E f \in Executors : \E i \in Nat : Queued(t, f, i)')
        PROVE  \A i \in 1..Len(Children[t]) : Children[t][i] \notin submitted'
    <3>1. t \notin submitted \/ (\E f \in Executors : \E i \in Nat : Queued(t, f, i))
      BY <1>1, <1>2, <1>4, <2>2
    <3> QED
      BY <1>1, <1>2, <3>1 DEF OnceInv, Unborn
  <2> QED
    BY <2>1, <2>2 DEF Unborn
<1> QED
  BY <1>7, <1>8, <1>9 DEF OnceInv

\* submit() returns: what it submitted is no longer to be submitted.
LEMMA NotifyOnce ==
  ASSUME PoolInv, OnceInv, NEW c \in Threads, Notify(c)
  PROVE  OnceInv'
<1>0. /\ TypeOK /\ Owner \in Threads /\ Owner \notin Workers /\ Workers \subseteq Threads
      /\ pc[c] = "notify" /\ todo[c] # <<>> /\ todo[c] \in Seq(Tasks)
      /\ UNCHANGED <<queue, task, submitted, finished>>
  BY OwnerIsNoWorker DEF PoolInv, Held, TypeOK, Threads, Notify, At, workerVars, ownerVars
<1>1. /\ Len(todo[c]) \in Nat /\ Len(todo[c]) >= 1 /\ Len(Tail(todo[c])) = Len(todo[c]) - 1
      /\ \A i \in 1..(Len(todo[c]) - 1) : Tail(todo[c])[i] = todo[c][i + 1]
  BY <1>0, HeadTailProperties, LenProperties, EmptySeq
<1>2. \A d \in Threads : todo'[d] = IF d = c THEN Tail(todo[c]) ELSE todo[d]
  BY <1>0 DEF Notify, TypeOK
<1>3. /\ pc'[c] = IF c = Owner THEN "calling" ELSE "run"
      /\ \A d \in Threads : d # c => pc'[d] = pc[d] \/ (pc[d] = "asleep" /\ pc'[d] = "woken")
  BY <1>0 DEF Notify, NotifyInactive, At
<1>9. /\ todo'[c] = Tail(todo[c]) /\ Len(todo'[c]) = Len(todo[c]) - 1
      /\ \A i \in 1..(Len(todo[c]) - 1) : todo'[c][i] = todo[c][i + 1]
  BY <1>1, <1>2
<1>a. PICK n \in Nat : Len(todo[c]) = n /\ n >= 1 /\ Len(todo'[c]) = n - 1
  BY <1>1, <1>9
<1>4. /\ \A w \in Workers : InBody(w)' <=> InBody(w)
      /\ \A w \in Workers : At(w, "return")' <=> At(w, "return")
  BY <1>0, <1>3 DEF InBody, At
<1>5. \A t \in Tasks : Once(t)'
  <2>1. \A t, e, i : Queued(t, e, i)' <=> Queued(t, e, i)
    BY <1>0 DEF Queued
  <2>2. \A w \in Workers : \A t : Runs(w, t)' <=> Runs(w, t)
    BY <1>0, <1>4 DEF Runs
  <2> QED
    BY <1>0, <2>1, <2>2, StayOnce DEF OnceInv
<1>6. EmptyHanded'
  <2>1. ASSUME NEW w \in Workers, ~InBody(w)'
        PROVE  todo'[w] = <<>> /\ (~At(w, "return")' => task'[w] = None)
    <3>1. w # c /\ ~InBody(w)
      BY <1>0, <1>4, <2>1 DEF InBody
    <3> QED
      BY <1>0, <1>2, <1>4, <3>1 DEF OnceInv, EmptyHanded
  <2> QED
    BY <2>1 DEF EmptyHanded
<1>7. Lineage'
  <2>1. ASSUME NEW w \in Workers, InBody(w)' PROVE Descends(w)'
    <3>0. Descends(w) /\ task'[w] = task[w]
      BY <1>0, <1>4, <2>1 DEF OnceInv, Lineage
    <3>1. CASE w = c
      <4>1. PICK k \in Nat : /\ k + Len(todo[c]) = Len(Children[task[c]])
                             /\ \A i \in 1..Len(todo[c]) : todo[c][i] = Children[task[c]][k + i]
        BY <3>0, <3>1 DEF Descends
      <4>2. PICK l \in Nat : l = k + 1
        OBVIOUS
      <4>3. l + Len(todo'[c]) = Len(Children[task[c]])
        <5>1. k + Len(todo[c]) = Len(Children[task[c]])
          BY <4>1
        <5>2. l + Len(todo'[c]) = k + Len(todo[c])
          BY <1>a, <4>2
        <5> QED
          BY <5>1, <5>2
      <4>4. ASSUME NEW i \in 1..Len(todo'[c]) PROVE todo'[c][i] = Children[task[c]][l + i]
        <5>1. i \in 1..(Len(todo[c]) - 1) /\ i + 1 \in 1..Len(todo[c]) /\ k + (i + 1) = l + i
          BY <1>1, <1>9, <4>2
        <5>2. todo[c][i + 1] = Children[task[c]][k + (i + 1)]
          BY <4>1, <5>1
        <5> QED
          BY <1>9, <5>1, <5>2
      <4> QED
        BY <3>0, <3>1, <4>3, <4>4 DEF Descends
    <3>2. CASE w # c
      BY <1>0, <1>2, <3>0, <3>2, DescendsOn
    <3> QED
      BY <3>1, <3>2
  <2>2. Len(todo'[Owner]) <= 1 /\ \A i \in 1..Len(todo'[Owner]) : todo'[Owner][i] \in Roots
    <3>1. CASE c = Owner
      <4>1. Len(todo[c]) <= 1
        BY <3>1 DEF OnceInv, Lineage
      <4>2. Len(todo'[c]) = 0
        BY <1>a, <4>1
      <4> QED
        BY <3>1, <4>2
    <3>2. CASE c # Owner
      BY <1>0, <1>2, <3>2 DEF OnceInv, Lineage
    <3> QED
      BY <3>1, <3>2
  <2> QED
    BY <2>1, <2>2 DEF Lineage
<1>8. Unborn'
  <2>1. ASSUME NEW d \in Threads, NEW i \in Pending(d)' PROVE todo'[d][i] \notin submitted'
    <3>1. CASE d = c
      <4>0. Pending(c)' = 1..Len(todo'[c]) /\ Pending(c) = 2..Len(todo[c])
        BY <1>0, <1>3 DEF Pending
      <4>1. i \in 1..(Len(todo[c]) - 1) /\ i + 1 \in Pending(c)
        BY <1>1, <1>9, <2>1, <3>1, <4>0
      <4>2. todo'[d][i] = todo[c][i + 1]
        BY <1>9, <3>1, <4>1
      <4> QED
        BY <1>0, <4>1, <4>2 DEF OnceInv, Unborn
    <3>2. CASE d # c
      <4>1. i \in Pending(d) /\ todo'[d] = todo[d]
        BY <1>0, <1>2, <1>3, <2>1, <3>2 DEF Pending
      <4> QED
        BY <1>0, <4>1 DEF OnceInv, Unborn
    <3> QED
      BY <3>1, <3>2
  <2>2. \A t, e, i : Queued(t, e, i)' <=> Queued(t, e, i)
    BY <1>0 DEF Queued
  <2> QED
    BY <1>0, <2>1, <2>2 DEF OnceInv, Unborn
<1> QED
  BY <1>5, <1>6, <1>7, <1>8 DEF OnceInv

LEMMA EndBodyOnce ==
  ASSUME PoolInv, OnceInv, NEW w \in Workers, EndBody(w)
  PROVE  OnceInv'
<1>0. /\ TypeOK /\ w \in Threads /\ w # Owner /\ Workers \subseteq Threads
      /\ pc[w] = "run" /\ todo[w] = <<>> /\ Len(todo[w]) = 0 /\ task[w] \in submitted
      /\ UNCHANGED <<queue, task, todo, submitted>> /\ finished' = finished \cup {task[w]}
      /\ \A t \in Threads : pc'[t] = IF t = w THEN "return" ELSE pc[t]
  BY OwnerIsNoWorker, WorkersExecute, EmptySeq
     DEF EndBody, At, Goto, PoolInv, Held, TypeOK, Threads, workerVars, ownerVars
<1>1. \A t, e, i : Queued(t, e, i)' <=> Queued(t, e, i)
  BY <1>0 DEF Queued
<1>2. ASSUME NEW t \in Tasks PROVE Once(t)'
  <2>1. CASE t = task[w]
    <3>1. Runs(w, t) /\ Once(t)
      BY <1>0, <2>1 DEF Runs, At, OnceInv
    <3>2. ASSUME NEW v \in Workers PROVE ~Runs(v, t)'
      <4>1. CASE v = w
        BY <1>0, <4>1 DEF Runs, At
      <4>2. CASE v # w
        <5>1. ~Runs(v, t)
          BY <3>1, <4>2 DEF Once
        <5> QED
          BY <1>0, <4>2, <5>1 DEF Runs, At
      <4> QED
        BY <4>1, <4>2
    <3>3. \A e \in Executors : \A i \in Nat : ~Queued(t, e, i)'
      BY <1>1, <3>1 DEF Once
    <3> QED
      BY <1>0, <2>1, <3>2, <3>3 DEF Once
  <2>2. CASE t # task[w]
    <3>1. ASSUME NEW v \in Workers PROVE Runs(v, t)' <=> Runs(v, t)
      BY <1>0, <2>2 DEF Runs, At
    <3> QED
      BY <1>0, <1>1, <2>2, <3>1, StayOnce DEF OnceInv
  <2> QED
    BY <2>1, <2>2
<1>3. EmptyHanded'
  BY <1>0 DEF OnceInv, EmptyHanded, InBody, At
<1>5. Lineage'
  <2>1. ASSUME NEW v \in Workers, InBody(v)' PROVE Descends(v)'
    <3>1. v # w /\ InBody(v) /\ todo'[v] = todo[v] /\ task'[v] = task[v]
      BY <1>0, <2>1 DEF InBody
    <3> QED
      BY <3>1, DescendsOn DEF OnceInv, Lineage
  <2> QED
    BY <1>0, <2>1 DEF OnceInv, Lineage
<1>4. Unborn'
  <2>1. \A c \in Threads : Pending(c)' = Pending(c)
    BY <1>0 DEF Pending
  <2> QED
    BY <1>0, <1>1, <2>1 DEF OnceInv, Unborn
<1> QED
  BY <1>2, <1>3, <1>4, <1>5 DEF OnceInv

LEMMA ReturnOnce ==
  ASSUME PoolInv, OnceInv, NEW w \in Workers, ReturnFromRun(w)
  PROVE  OnceInv'
<1>0. /\ TypeOK /\ w \in Threads /\ w # Owner /\ Workers \subseteq Threads
      /\ pc[w] = "return" /\ UNCHANGED <<queue, todo, submitted, finished>>
      /\ \A t \in Threads : pc'[t] = IF t = w THEN "pop" ELSE pc[t]
      /\ \A v \in Workers : task'[v] = IF v = w THEN None ELSE task[v]
  BY OwnerIsNoWorker, WorkersExecute
     DEF ReturnFromRun, At, Goto, PoolInv, TypeOK, Threads, ownerVars
<1>1. \A t, e, i : Queued(t, e, i)' <=> Queued(t, e, i)
  BY <1>0 DEF Queued
<1>2. ASSUME NEW t \in Tasks PROVE Once(t)'
  <2>1. ASSUME NEW v \in Workers PROVE Runs(v, t)' <=> Runs(v, t)
    BY <1>0, TaskAssumption DEF Runs, At
  <2> QED
    BY <1>0, <1>1, <2>1, StayOnce DEF OnceInv
<1>3. EmptyHanded'
  BY <1>0 DEF OnceInv, EmptyHanded, InBody, At
<1>5. Lineage'
  <2>1. ASSUME NEW v \in Workers, InBody(v)' PROVE Descends(v)'
    <3>1. v # w /\ InBody(v) /\ todo'[v] = todo[v] /\ task'[v] = task[v]
      BY <1>0, <2>1 DEF InBody
    <3> QED
      BY <3>1, DescendsOn DEF OnceInv, Lineage
  <2> QED
    BY <1>0, <2>1 DEF OnceInv, Lineage
<1>4. Unborn'
  <2>1. \A c \in Threads : Pending(c)' = Pending(c)
    BY <1>0 DEF Pending
  <2> QED
    BY <1>0, <1>1, <2>1 DEF OnceInv, Unborn
<1> QED
  BY <1>2, <1>3, <1>4, <1>5 DEF OnceInv

LEMMA CallSubmitOnce ==
  ASSUME PoolInv, OnceInv, NEW r \in Roots, CallSubmit(r)
  PROVE  OnceInv'
<1>0. /\ TypeOK /\ Owner \in Threads /\ Owner \notin Workers /\ Workers \subseteq Threads
      /\ pc[Owner] = "calling" /\ r \notin submitted
      /\ UNCHANGED <<queue, task, pc, submitted, finished>>
      /\ \A t \in Threads : todo'[t] = IF t = Owner THEN <<r>> ELSE todo[t]
  BY OwnerIsNoWorker
     DEF CallSubmit, Idle, At, PoolInv, TypeOK, Threads, workerVars
<1>a. Len(<<r>>) = 1 /\ <<r>>[1] = r
  OBVIOUS
<1>1. \A t, e, i : Queued(t, e, i)' <=> Queued(t, e, i)
  BY <1>0 DEF Queued
<1>2. ASSUME NEW t \in Tasks PROVE Once(t)'
  <2>1. ASSUME NEW v \in Workers PROVE Runs(v, t)' <=> Runs(v, t)
    BY <1>0 DEF Runs, At
  <2> QED
    BY <1>0, <1>1, <2>1, StayOnce DEF OnceInv
<1>3. EmptyHanded'
  BY <1>0 DEF OnceInv, EmptyHanded, InBody, At
<1>5. Lineage'
  <2>1. ASSUME NEW v \in Workers, InBody(v)' PROVE Descends(v)'
    <3>1. InBody(v) /\ todo'[v] = todo[v] /\ task'[v] = task[v]
      BY <1>0, <2>1 DEF InBody
    <3> QED
      BY <3>1, DescendsOn DEF OnceInv, Lineage
  <2>2. todo'[Owner] = <<r>> /\ r \in Roots
    BY <1>0
  <2>3. Len(todo'[Owner]) <= 1 /\ \A i \in 1..Len(todo'[Owner]) : todo'[Owner][i] \in Roots
    BY <2>2
  <2> QED
    BY <2>1, <2>3 DEF Lineage
<1>4. Unborn'
  <2>1. ASSUME NEW c \in Threads, NEW i \in Pending(c)' PROVE todo'[c][i] \notin submitted'
    <3>1. CASE c = Owner
      BY <1>0, <1>a, <2>1, <3>1 DEF Pending
    <3>2. CASE c # Owner
      BY <1>0, <2>1, <3>2 DEF Pending, OnceInv, Unborn
    <3> QED
      BY <3>1, <3>2
  <2> QED
    BY <1>0, <1>1, <2>1 DEF OnceInv, Unborn
<1> QED
  BY <1>2, <1>3, <1>4, <1>5 DEF OnceInv

\* A thread that goes from one label to another, outside submit() and bodies.
LEMMA RelabelOnce ==
  ASSUME PoolInv, OnceInv, UNCHANGED <<queue, task, todo, submitted, finished>>,
         \A t \in Threads :
           \/ pc'[t] = pc[t]
           \/ /\ pc[t] \notin {"run", "activate", "notify", "return"}
              /\ pc'[t] \notin {"run", "activate", "notify", "return"}
  PROVE  OnceInv'
<1>1. \A w \in Workers : InBody(w)' <=> InBody(w)
  BY WorkersExecute DEF InBody
<1>2. \A w \in Workers : At(w, "return")' <=> At(w, "return")
  BY WorkersExecute DEF At
<1>3. \A c \in Threads : Pending(c)' = Pending(c)
  BY DEF Pending
<1> QED
  BY <1>1, <1>2, <1>3, ElsewhereOnce

LEMMA ActivateOnce ==
  ASSUME PoolInv, OnceInv, NEW c \in Threads, Activate(c)
  PROVE  OnceInv'
<1>0. /\ pc[c] = "activate" /\ UNCHANGED <<queue, task, todo, submitted, finished>>
      /\ \A t \in Threads : pc'[t] = IF t = c THEN "notify" ELSE pc[t]
  BY DEF Activate, At, Goto, PoolInv, TypeOK, workerVars, ownerVars
<1>1. \A w \in Workers : InBody(w)' <=> InBody(w)
  BY <1>0, WorkersExecute DEF InBody
<1>2. \A w \in Workers : At(w, "return")' <=> At(w, "return")
  BY <1>0, WorkersExecute DEF At
<1>3. \A d \in Threads : Pending(d)' = Pending(d)
  BY <1>0 DEF Pending
<1> QED
  BY <1>0, <1>1, <1>2, <1>3, ElsewhereOnce

LEMMA WorkerOnce ==
  ASSUME PoolInv, OnceInv, NEW w \in Workers, Worker(w) \/ SpuriousWake(w)
  PROVE  OnceInv'
<1> USE DEF workerVars, ownerVars
<1>0. TypeOK /\ w \in Threads /\ Exec(w) \in Executors
  BY WorkersExecute DEF PoolInv
<1>a. ASSUME NEW label, Goto(w, label), UNCHANGED <<queue, task, todo, submitted, finished>>,
             pc[w] \notin {"run", "activate", "notify", "return"},
             label \notin {"run", "activate", "notify", "return"}
      PROVE  OnceInv'
  BY <1>0, <1>a, RelabelOnce DEF Goto, TypeOK
<1>1. CASE TryPop(w)
  <2>1. CASE queue[Exec(w)] # <<>>
    BY <1>0, <1>1, <2>1, TakeOnce DEF TryPop, At, InBody
  <2>2. CASE queue[Exec(w)] = <<>>
    BY <1>a, <1>1, <2>2 DEF TryPop, At
  <2> QED
    BY <2>1, <2>2
<1>2. CASE Steal(w)
  <2> DEFINE e == Head(scan[w])
  <2>0. e \in Executors
    BY <1>0, <1>2, HeadTailProperties DEF Steal, TypeOK
  <2>1. CASE queue[e] # <<>>
    BY <1>2, <2>0, <2>1, TakeOnce DEF Steal, At, InBody
  <2>2. CASE queue[e] = <<>>
    BY <1>2, <2>2, RelabelOnce DEF Steal
  <2> QED
    BY <2>1, <2>2
<1>3. CASE CheckEmpty(w) \/ ReadState(w) \/ StealFailed(w) \/ Predicate(w) \/ Block(w)
           \/ Leave(w) \/ Wake(w) \/ SpuriousWake(w)
  BY <1>a, <1>3 DEF CheckEmpty, ReadState, StealFailed, Predicate, Block, Leave, Wake,
     SpuriousWake, At
<1>4. CASE GoIdle(w)
  BY <1>0, <1>4, RelabelOnce, OwnerIsNoWorker DEF GoIdle, At, TypeOK
<1>5. CASE EndBody(w) \/ ReturnFromRun(w)
  BY <1>5, EndBodyOnce, ReturnOnce
<1>6. CASE Submit(w)
  BY <1>0, <1>6, PushOnce, ActivateOnce, NotifyOnce DEF Submit
<1> QED
  BY <1>1, <1>2, <1>3, <1>4, <1>5, <1>6 DEF Worker

LEMMA OwnerOnce ==
  ASSUME PoolInv, OnceInv,
         \/ OwnerStep \/ OwnerSpuriousWake \/ (\E t \in Roots : CallSubmit(t))
         \/ AwaitLatch \/ CallShutdown \/ CallDestructor
  PROVE  OnceInv'
<1> USE DEF workerVars, ownerVars
<1>0. TypeOK /\ Owner \in Threads /\ pc[Owner] \in OwnerLabels
  BY DEF PoolInv, Threads, TypeOK
<1>a. ASSUME NEW label, Goto(Owner, label), UNCHANGED <<queue, task, todo, submitted, finished>>,
             pc[Owner] \notin {"run", "activate", "notify", "return"},
             label \notin {"run", "activate", "notify", "return"}
      PROVE  OnceInv'
  BY <1>0, <1>a, RelabelOnce DEF Goto, TypeOK
<1>b. WaitReturns => \E l \in {"quit", "calling", "lock"} : Goto(Owner, l)
  BY DEF WaitReturns
<1>1. CASE Submit(Owner)
  BY <1>0, <1>1, PushOnce, ActivateOnce, NotifyOnce DEF Submit
<1>2. CASE WaitAllDone \/ WaitWakes
  BY <1>a, <1>b, <1>2 DEF WaitAllDone, WaitWakes, At
<1>3. CASE SetQuit \/ Join \/ OwnerSpuriousWake
  BY <1>a, <1>3 DEF SetQuit, Join, OwnerSpuriousWake, At
<1>4. CASE QuitNotify
  <2>1. \A t \in Threads :
          \/ pc'[t] = pc[t]
          \/ /\ pc[t] \notin {"run", "activate", "notify", "return"}
             /\ pc'[t] \notin {"run", "activate", "notify", "return"}
    BY <1>4 DEF QuitNotify, NotifyInactive, At
  <2> QED
    BY <1>4, <2>1, RelabelOnce DEF QuitNotify
<1>5. CASE \E t \in Roots : CallSubmit(t)
  BY <1>5, CallSubmitOnce
<1>6. CASE AwaitLatch
  BY <1>6, RelabelOnce DEF AwaitLatch
<1>7. CASE CallShutdown \/ CallDestructor
  BY <1>a, <1>7 DEF CallShutdown, CallDestructor, BeginShutdown, Idle, At
<1> QED
  BY <1>1, <1>2, <1>3, <1>4, <1>5, <1>6, <1>7 DEF OwnerStep

LEMMA OnceStep == PoolInv /\ OnceInv /\ [Next]_vars => OnceInv'
<1> SUFFICES ASSUME PoolInv, OnceInv, [Next]_vars PROVE OnceInv'
  OBVIOUS
<1>1. CASE UNCHANGED vars
  BY <1>1, RelabelOnce DEF vars
<1> QED
  BY <1>1, WorkerOnce, OwnerOnce DEF Next

LEMMA OnceInvariant == Spec => []OnceInv
<1>1. PoolInv /\ [Next]_vars => PoolInv'
  BY PoolStep
<1> QED
  BY <1>1, PoolInit, OnceInit, OnceStep, PTL DEF Spec

LEMMA PlacesAre ==
  ASSUME TypeOK, NEW t
  PROVE  \A p : p \in Places(t) <=> \E e \in Executors : \E i \in Nat : p = <<e, i>> /\ Queued(t, e, i)
<1>1. ASSUME NEW e \in Executors, NEW i \in Nat, Queued(t, e, i)
      PROVE  <<e, i>> \in Places(t)
  <2>1. Len(queue[e]) \in Nat /\ Len(queue[e]) <= QueueLimit /\ QueueLimit \in Nat
    BY LenProperties, SettingsAssumption DEF TypeOK
  <2> QED
    BY <1>1, <2>1 DEF Queued, Places
<1>2. ASSUME NEW p \in Places(t)
      PROVE  \E e \in Executors : \E i \in Nat : p = <<e, i>> /\ Queued(t, e, i)
  <2>1. /\ p = <<p[1], p[2]>> /\ p[1] \in Executors /\ p[2] \in Nat
        /\ p[2] \in 1..QueueLimit /\ p[2] <= Len(queue[p[1]]) /\ queue[p[1]][p[2]] = t
    BY SettingsAssumption DEF Places
  <2>2. Len(queue[p[1]]) \in Nat
    BY <2>1, LenProperties DEF TypeOK
  <2>3. Queued(t, p[1], p[2])
    BY <2>1, <2>2, SettingsAssumption DEF Queued
  <2> QED
    BY <2>1, <2>3
<1> QED
  BY <1>1, <1>2

\* Each submitted task is in one queue, in the hands of one worker, or done, and
\* only one of them, for every program of tasks and any number of workers that
\* pop and steal, whatever is shut down in between.
THEOREM TasksRunOnce == Spec => []EachTaskOnce
<1>1. PoolInv /\ OnceInv => EachTaskOnce
  <2> SUFFICES ASSUME PoolInv, OnceInv, NEW t \in submitted
               PROVE  Cardinality(Places(t)) + Cardinality(Hands(t))
                        + (IF t \in finished THEN 1 ELSE 0) = 1
    BY DEF EachTaskOnce
  <2>0. TypeOK /\ t \in Tasks /\ Once(t)
    BY DEF PoolInv, OnceInv, TypeOK
  <2>a. \A w : w \in Hands(t) <=> w \in Workers /\ Runs(w, t)
    BY DEF Hands, Runs
  <2>b. Cardinality({}) = 0 /\ \A x : Cardinality({x}) = 1
    BY FS_EmptySet, FS_Singleton
  <2>1. CASE t \in finished
    <3>1. Hands(t) = {}
      BY <2>0, <2>1, <2>a DEF Once
    <3>2. Places(t) = {}
      BY <2>0, <2>1, PlacesAre DEF Once
    <3> QED
      BY <2>b, <2>1, <3>1, <3>2
  <2>2. ASSUME NEW e \in Executors, NEW i \in Nat, Queued(t, e, i)
        PROVE  Cardinality(Places(t)) + Cardinality(Hands(t))
                 + (IF t \in finished THEN 1 ELSE 0) = 1
    <3>1. Hands(t) = {} /\ t \notin finished
      BY <2>0, <2>2, <2>a DEF Once
    <3>2. Places(t) = {<<e, i>>}
      <4>1. \A p : p \in Places(t) => p = <<e, i>>
        BY <2>0, <2>2, PlacesAre DEF Once
      <4>2. <<e, i>> \in Places(t)
        BY <2>0, <2>2, PlacesAre
      <4> QED
        BY <4>1, <4>2
    <3>3. Cardinality(Places(t)) = 1
      <4>1. PICK x : x = <<e, i>>
        OBVIOUS
      <4> QED
        BY <2>b, <3>2, <4>1
    <3>4. Cardinality(Hands(t)) = 0
      BY <2>b, <3>1
    <3> QED
      BY <3>1, <3>3, <3>4
  <2>3. ASSUME NEW w \in Workers, Runs(w, t)
        PROVE  Cardinality(Places(t)) + Cardinality(Hands(t))
                 + (IF t \in finished THEN 1 ELSE 0) = 1
    <3>1. Hands(t) = {w} /\ t \notin finished
      BY <2>0, <2>3, <2>a DEF Once
    <3>2. Places(t) = {}
      BY <2>0, <2>3, PlacesAre DEF Once
    <3> QED
      BY <2>b, <3>1, <3>2
  <2> QED
    BY <2>0, <2>1, <2>2, <2>3 DEF Once
<1> QED
  BY <1>1, PoolInvariant, OnceInvariant, PTL

-----------------------------------------------------------------------------
(* After the wait                                                          *)

\* active_workers = 0 means that every worker of the executor sleeps.
LEMMA NobodyActive ==
  ASSUME PoolInv, NEW w \in Workers, active[Exec(w)] = 0
  PROVE  Sleeping(w)
<1>1. Exec(w) \in Executors /\ Cardinality(AwakeIn(Exec(w))) = 0
  BY WorkersExecute DEF PoolInv, ActiveCounts
<1>2. IsFiniteSet(AwakeIn(Exec(w)))
  BY <1>1, AwakeSize
<1>3. AwakeIn(Exec(w)) = {}
  BY <1>1, <1>2, FS_EmptySet
<1> QED
  BY <1>3 DEF AwakeIn

\* A step of a worker that has no task, and finds none.
StillWorker(w) ==
  \/ TryPop(w) \/ CheckEmpty(w) \/ ReadState(w) \/ Steal(w) \/ StealFailed(w)
  \/ GoIdle(w) \/ Predicate(w) \/ Block(w) \/ Leave(w) \/ Wake(w) \/ SpuriousWake(w)

\* One of a worker on its way out of a task.
EndingWorker(w) == Activate(w) \/ Notify(w) \/ EndBody(w) \/ ReturnFromRun(w)

\* Once nothing is queued or to be submitted no other step is possible, and no
\* worker has anything to do that it has not begun.
LEMMA DrainedSteps ==
  ASSUME PoolInv, Drained, NEW w \in Workers, Worker(w) \/ SpuriousWake(w)
  PROVE  /\ StillWorker(w) \/ EndingWorker(w)
         /\ StillWorker(w) => UNCHANGED <<queue, state, quit, todo, target, phase, awaited>>
         /\ StillWorker(w) => \A v \in Workers : v # w => pc'[v] = pc[v]
         /\ EndingWorker(w) => Busy(w)
<1>0. /\ w \in Threads /\ w # Owner /\ pc \in [Threads -> WorkerLabels \cup OwnerLabels]
      /\ \A v \in Workers : v \in Threads /\ v # Owner
  BY WorkersExecute, OwnerIsNoWorker DEF PoolInv, TypeOK
<1>1. ASSUME NEW e \in Executors, Push(w, e) PROVE FALSE
  BY <1>0, <1>1 DEF Drained, WorkIsDone, Push, PoolInv, TypeOK, WorkerLabels
<1>2. StillWorker(w) \/ EndingWorker(w)
  BY <1>1 DEF Worker, Submit, StillWorker, EndingWorker
<1>3. EndingWorker(w) => Busy(w)
  BY DEF EndingWorker, Activate, Notify, EndBody, ReturnFromRun, At, Busy
<1>4. CASE TryPop(w)
  BY <1>0, <1>2, <1>3, <1>4, WorkersExecute
     DEF TryPop, Drained, Goto, EndingWorker, Busy, At, ownerVars
<1>5. CASE Steal(w)
  <2>1. Head(scan[w]) \in Executors
    BY <1>5, HeadTailProperties DEF Steal, PoolInv, TypeOK
  <2> QED
    BY <1>0, <1>2, <1>3, <1>5, <2>1 DEF Steal, Drained, Goto, Busy, At, ownerVars
<1>6. CASE ~TryPop(w) /\ ~Steal(w)
  <2>1. StillWorker(w) => /\ UNCHANGED <<queue, state, quit, todo, target, phase, awaited>>
                          /\ \A v \in Workers : v # w => pc'[v] = pc[v]
    BY <1>0, <1>6 DEF StillWorker, CheckEmpty, ReadState, StealFailed, GoIdle, Predicate, Block,
       Leave, Wake, SpuriousWake, Goto, ownerVars
  <2> QED
    BY <1>2, <1>3, <2>1
<1> QED
  BY <1>4, <1>5, <1>6

\* What a worker without a task does next, it does without one.
LEMMA RestGoesOn ==
  ASSUME PoolInv, Drained, NEW w \in Workers, StillWorker(w)
  PROVE  ~Busy(w)'
<1>0. w \in Threads /\ pc \in [Threads -> WorkerLabels \cup OwnerLabels] /\ w # Owner
  BY WorkersExecute, OwnerIsNoWorker DEF PoolInv, TypeOK
<1>1. CASE TryPop(w)
  BY <1>0, <1>1, WorkersExecute DEF TryPop, Drained, Goto, Busy
<1>2. CASE Steal(w)
  <2>1. Head(scan[w]) \in Executors
    BY <1>2, HeadTailProperties DEF Steal, PoolInv, TypeOK
  <2> QED
    BY <1>0, <1>2, <2>1 DEF Steal, Drained, At, Busy
<1>3. CASE ~TryPop(w) /\ ~Steal(w)
  BY <1>0, <1>3 DEF StillWorker, CheckEmpty, ReadState, StealFailed, GoIdle, Predicate, Block,
     Leave, Wake, SpuriousWake, Goto, Busy
<1> QED
  BY <1>1, <1>2, <1>3

LEMMA DrainedStays ==
  ASSUME PoolInv, Drained, NEW w \in Workers, Worker(w) \/ SpuriousWake(w)
  PROVE  /\ Drained'
         /\ target'[Owner] = target[Owner] /\ UNCHANGED <<phase, awaited>>
         /\ \A v \in Workers : Busy(v)' => Busy(v)
         /\ pc'[Owner] = pc[Owner] \/ (pc[Owner] = "waiting" /\ pc'[Owner] = "notified")
<1>0. /\ w \in Threads /\ w # Owner /\ pc \in [Threads -> WorkerLabels \cup OwnerLabels]
      /\ Owner \in Threads /\ target \in [Threads -> Executors]
      /\ todo \in [Threads -> Seq(Tasks)] /\ pc[w] \in WorkerLabels
      /\ \A v \in Workers : v \in Threads /\ v # Owner
  BY WorkersExecute, OwnerIsNoWorker DEF PoolInv, TypeOK, Threads
<1>a. /\ (\A e \in Executors : queue[e] = <<>>) /\ todo[Owner] = <<>>
      /\ \A v \in Workers : WorkIsDone(v)
  BY DEF Drained
<1>1. CASE StillWorker(w)
  <2>1. /\ UNCHANGED <<queue, todo, target, phase, awaited>>
        /\ \A v \in Workers : v # w => pc'[v] = pc[v]
    BY <1>1, DrainedSteps
  <2>2. pc[w] \notin {"activate", "notify"}
    BY <1>1 DEF StillWorker, TryPop, CheckEmpty, ReadState, Steal, StealFailed, GoIdle,
       Predicate, Block, Leave, Wake, SpuriousWake, At
  <2>3. \A v \in Workers : WorkIsDone(v)'
    BY <1>a, <2>1, <2>2 DEF WorkIsDone
  <2>4. \A v \in Workers : Busy(v)' => Busy(v)
    <3>1. ~Busy(w)'
      BY <1>1, RestGoesOn
    <3> QED
      BY <2>1, <3>1 DEF Busy
  <2>5. pc'[Owner] = pc[Owner] \/ (pc[Owner] = "waiting" /\ pc'[Owner] = "notified")
    BY <1>0, <1>1 DEF StillWorker, TryPop, Run, CheckEmpty, ReadState, Steal, StealFailed,
       GoIdle, Predicate, Block, Leave, Wake, SpuriousWake, Goto
  <2> QED
    BY <1>a, <2>1, <2>3, <2>4, <2>5 DEF Drained
<1>2. CASE EndBody(w) \/ ReturnFromRun(w) \/ Activate(w)
  <2>1. UNCHANGED <<queue, todo, target, phase, awaited>>
    BY <1>2 DEF EndBody, ReturnFromRun, Activate, ownerVars
  <2>2. /\ pc'[w] \in {"return", "pop", "notify"} /\ (pc'[w] # "notify" => pc[w] \notin {"activate", "notify"})
        /\ \A t \in Threads : t # w => pc'[t] = pc[t]
    BY <1>0, <1>2 DEF EndBody, ReturnFromRun, Activate, Goto, At
  <2>3. \A v \in Workers : WorkIsDone(v)'
    BY <1>0, <1>a, <2>1, <2>2 DEF WorkIsDone
  <2>4. Busy(w)
    BY <1>2 DEF EndBody, ReturnFromRun, Activate, At, Busy
  <2> QED
    BY <1>0, <1>a, <2>1, <2>2, <2>3, <2>4 DEF Drained, Busy
<1>3. CASE Notify(w)
  <2>1. /\ UNCHANGED <<queue, phase, awaited>> /\ target'[Owner] = target[Owner]
        /\ todo' = [todo EXCEPT ![w] = Tail(@)]
    BY <1>0, <1>3 DEF Notify, ownerVars
  <2>2. /\ pc'[w] = "run" /\ pc[w] = "notify" /\ pc'[Owner] = pc[Owner]
        /\ \A v \in Workers : v # w => pc'[v] = pc[v] \/ (pc[v] = "asleep" /\ pc'[v] = "woken")
    BY <1>0, <1>3 DEF Notify, NotifyInactive, At
  <2>3. todo'[w] = <<>>
    <3>1. Len(todo[w]) = 1 /\ todo[w] \in Seq(Tasks) /\ todo[w] # <<>>
      BY <1>0, <1>a, <2>2 DEF WorkIsDone, PoolInv, Held
    <3>2. Tail(todo[w]) \in Seq(Tasks) /\ Len(Tail(todo[w])) = 0
      BY <3>1, HeadTailProperties
    <3> QED
      BY <1>0, <2>1, <3>2, EmptySeq
  <2>4. \A v \in Workers : WorkIsDone(v)'
    BY <1>0, <1>a, <2>1, <2>2, <2>3 DEF WorkIsDone
  <2> QED
    BY <1>0, <1>a, <2>1, <2>2, <2>4 DEF Drained, Busy
<1> QED
  BY <1>1, <1>2, <1>3, DrainedSteps DEF EndingWorker

\* A settled executor stays settled, whatever wakes its workers.
LEMMA SettledStays ==
  ASSUME PoolInv, NEW e \in Executors, Settled(e),
         state'[e] = FALSE, quit[e] => quit'[e],
         \A w \in Workers : Exec(w) = e =>
           \/ pc'[w] = pc[w]
           \/ Predicate(w) \/ Block(w) \/ Leave(w) \/ Wake(w)
           \/ pc[w] = "asleep" /\ pc'[w] = "woken"
  PROVE  Settled(e)'
<1> SUFFICES ASSUME NEW w \in Workers, Exec(w) = e
             PROVE  Sleeping(w)' /\ (At(w, "leave")' => quit'[e])
  BY DEF Settled
<1>0. w \in Threads /\ pc \in [Threads -> WorkerLabels \cup OwnerLabels]
      /\ ~state[e] /\ Sleeping(w) /\ (At(w, "leave") => quit[e])
  BY WorkersExecute DEF PoolInv, TypeOK, Settled
<1>1. CASE pc'[w] = pc[w]
  BY <1>0, <1>1 DEF Sleeping, At
<1>2. CASE Predicate(w)
  BY <1>0, <1>2 DEF Predicate, Goto, Sleeping, At
<1>3. CASE Block(w) \/ Wake(w)
  BY <1>0, <1>3 DEF Block, Wake, Goto, Sleeping, At
<1>4. CASE Leave(w)
  BY <1>0, <1>4 DEF Leave, Goto, Sleeping, At
<1>5. CASE pc[w] = "asleep" /\ pc'[w] = "woken"
  BY <1>5 DEF Sleeping, At
<1> QED
  BY <1>1, <1>2, <1>3, <1>4, <1>5

\* After a shutdown() nobody is inside a task, so a worker finds its executor as
\* settled as before.
LEMMA SettledByWorker ==
  ASSUME PoolInv, Drained, \A e \in Executors : Rests(e), NEW e \in Executors, Settled(e),
         NEW w \in Workers, Worker(w) \/ SpuriousWake(w)
  PROVE  Settled(e)' /\ UNCHANGED <<state, quit>>
<1>0. /\ w \in Threads /\ pc \in [Threads -> WorkerLabels \cup OwnerLabels]
      /\ Exec(w) \in Executors /\ w # Owner /\ ~state[e]
      /\ state \in [Executors -> BOOLEAN]
  BY WorkersExecute, OwnerIsNoWorker DEF PoolInv, TypeOK, Settled
<1>1. ~Busy(w)
  BY <1>0 DEF Rests
<1>2. /\ StillWorker(w) /\ UNCHANGED <<state, quit>>
      /\ \A v \in Workers : v # w => pc'[v] = pc[v]
  BY <1>1, DrainedSteps
<1>3. ASSUME NEW v \in Workers, Exec(v) = e
      PROVE  \/ pc'[v] = pc[v]
             \/ Predicate(v) \/ Block(v) \/ Leave(v) \/ Wake(v)
             \/ pc[v] = "asleep" /\ pc'[v] = "woken"
  <2>1. CASE v = w
    <3>1. Sleeping(w)
      BY <1>3, <2>1 DEF Settled
    <3>2. Predicate(w) \/ Block(w) \/ Leave(w) \/ Wake(w) \/ SpuriousWake(w)
      BY <1>2, <3>1 DEF StillWorker, Sleeping, TryPop, CheckEmpty, ReadState, Steal,
         StealFailed, GoIdle, At
    <3>3. SpuriousWake(w) => pc[w] = "asleep" /\ pc'[w] = "woken"
      BY <1>0 DEF SpuriousWake, At, Goto
    <3> QED
      BY <2>1, <3>2, <3>3
  <2>2. CASE v # w
    BY <1>2, <2>2
  <2> QED
    BY <2>1, <2>2
<1>4. state'[e] = FALSE /\ (quit[e] => quit'[e])
  BY <1>0, <1>2
<1> QED
  BY <1>2, <1>3, <1>4, SettledStays

LEMMA AwaitWorker ==
  ASSUME PoolInv, AwaitInv, NEW w \in Workers, Worker(w) \/ SpuriousWake(w)
  PROVE  AwaitInv'
<1>a. awaited' = awaited
  BY DEF Worker, SpuriousWake, TryPop, CheckEmpty, ReadState, Steal, StealFailed, GoIdle,
     Predicate, Block, Leave, Wake, EndBody, ReturnFromRun, Submit, Push, Activate, Notify,
     ownerVars
<1> SUFFICES ASSUME awaited # "nothing" PROVE AwaitInv'
  BY <1>a DEF AwaitInv
<1>0. TasksAwaited /\ Drained /\ target[Owner] \in Executors
  BY DEF AwaitInv, TasksAwaited, PoolInv, TypeOK, Threads
<1>1. /\ Drained' /\ target'[Owner] = target[Owner] /\ phase' = phase
      /\ \A v \in Workers : Busy(v)' => Busy(v)
      /\ pc'[Owner] = pc[Owner] \/ (pc[Owner] = "waiting" /\ pc'[Owner] = "notified")
  BY <1>0, DrainedStays
<1>2. ASSUME NEW e \in Executors, Rests(e) PROVE Rests(e)'
  BY <1>1, <1>2 DEF Rests
<1>3. TasksAwaited'
  BY <1>0, <1>1, <1>2 DEF TasksAwaited, InWait
<1>4. ASSUME ShutdownAwaited PROVE ShutdownAwaited'
  <2>1. \A e \in Executors : Rests(e)
    BY <1>4 DEF ShutdownAwaited
  <2>2. \A e \in Executors : Settled(e) => Settled(e)'
    BY <1>0, <2>1, SettledByWorker
  <2>3. state' = state
    <3>1. ~Busy(w)
      BY <2>1, WorkersExecute DEF Rests
    <3> QED
      BY <1>0, <3>1, DrainedSteps
  <2> QED
    BY <1>1, <1>2, <1>4, <2>1, <2>2, <2>3 DEF ShutdownAwaited, InWait
<1> QED
  BY <1>a, <1>3, <1>4 DEF AwaitInv

\* When wait_all_done() returns, its executor is settled.
LEMMA WaitSettles ==
  ASSUME PoolInv, NEW e \in Executors, e = target[Owner], LockFree(e), active[e] = 0,
         state'[e] = FALSE, quit' = quit, \A w \in Workers : pc'[w] = pc[w]
  PROVE  Settled(e)'
<1>1. ASSUME NEW w \in Workers, Exec(w) = e PROVE Sleeping(w)' /\ ~At(w, "leave")'
  <2>1. Sleeping(w) /\ pc[w] # "leave"
    BY <1>1, NobodyActive DEF LockFree
  <2> QED
    BY <2>1 DEF Sleeping, At
<1> QED
  BY <1>1 DEF Settled

\* What is settled stays settled when the owner takes a step.
LEMMA OwnerKeepsSettled ==
  ASSUME PoolInv, NEW e \in Executors, Settled(e), state'[e] = FALSE, quit[e] => quit'[e],
         \A w \in Workers : pc'[w] = pc[w] \/ (pc[w] = "asleep" /\ pc'[w] = "woken")
  PROVE  Settled(e)'
BY SettledStays

\* Nor does a step of the owner, which touches no task, disturb those that rest.
LEMMA OwnerKeepsRest ==
  ASSUME NEW e \in Executors, Rests(e),
         \A w \in Workers : pc'[w] = pc[w] \/ (pc[w] = "asleep" /\ pc'[w] = "woken")
  PROVE  Rests(e)'
BY DEF Rests, Busy

LEMMA OwnerKeepsDrained ==
  ASSUME Drained, UNCHANGED <<queue, todo>>,
         \A w \in Workers : pc'[w] = pc[w] \/ (pc[w] = "asleep" /\ pc'[w] = "woken")
  PROVE  Drained'
BY DEF Drained, WorkIsDone

\* wait_all_done() returns: what it has waited for rests, and so does every
\* executor once it was the last one.
LEMMA AwaitReturn ==
  ASSUME PoolInv, AwaitInv, awaited # "nothing", WaitAllDone \/ WaitWakes
  PROVE  /\ AwaitInv' /\ Drained'
         /\ phase' # phase \/ pc'[Owner] = "calling" => \A e \in Executors : Rests(e)'
<1>e. PICK e \in Executors : e = target[Owner]
  BY DEF PoolInv, TypeOK, Threads
<1>0. /\ e \in Executors /\ Owner \in Threads /\ Owner \notin Workers
      /\ pc \in [Threads -> WorkerLabels \cup OwnerLabels] /\ state \in [Executors -> BOOLEAN]
      /\ target \in [Threads -> Executors] /\ Workers \subseteq Threads
      /\ pc[Owner] \in {"lock", "notified"} /\ phase \in {"alive", "shutdown", "members"}
      /\ awaited \in {"nothing", "tasks", "shutdown"}
  BY OwnerIsNoWorker DEF PoolInv, TypeOK, Threads, WaitAllDone, WaitWakes, At
<1>a. TasksAwaited /\ (awaited = "shutdown" => ShutdownAwaited)
  BY DEF AwaitInv
<1>1. UNCHANGED <<todo, queue, quit>> /\ LockFree(e)
  BY <1>e DEF WaitAllDone, WaitWakes
<1>2. \/ active[e] = 0 /\ WaitReturns
      \/ Goto(Owner, "waiting") /\ UNCHANGED <<target, phase, awaited>>
  BY <1>e DEF WaitAllDone, WaitWakes
<1>3. \A w \in Workers : pc'[w] = pc[w]
  BY <1>0, <1>2 DEF WaitReturns, Goto
<1>4. Drained'
  BY <1>1, <1>3, <1>a, OwnerKeepsDrained DEF TasksAwaited
<1>5. \A f \in Executors : Rests(f) => Rests(f)'
  BY <1>3, OwnerKeepsRest
<1>6. active[e] = 0 => Rests(e)'
  <2>1. ASSUME active[e] = 0, NEW w \in Workers, Exec(w) = e PROVE ~Busy(w)'
    <3>1. Sleeping(w)
      BY <2>1, NobodyActive
    <3> QED
      BY <1>3, <3>1 DEF Sleeping, Busy
  <2> QED
    BY <2>1 DEF Rests
<1>7. ASSUME awaited = "shutdown"
      PROVE  /\ \A f \in Executors : Rests(f)' /\ (Settled(f) => Settled(f)')
             /\ active[e] = 0 => Settled(e)'
             /\ state'[e] = FALSE
  <2>0. /\ state'[e] = FALSE /\ \A f \in Executors : state'[f] = TRUE => state[f] = TRUE
    BY <1>e, <1>0, <1>7, <1>a DEF WaitAllDone, WaitWakes, ShutdownAwaited, At
  <2>1. ASSUME NEW f \in Executors, Settled(f) PROVE Settled(f)'
    <3>1. state'[f] = FALSE /\ (quit[f] => quit'[f])
      BY <1>0, <1>1, <2>0, <2>1 DEF Settled, WaitAllDone, WaitWakes
    <3> QED
      BY <1>3, <2>1, <3>1, OwnerKeepsSettled
  <2>2. active[e] = 0 => Settled(e)'
    BY <1>e, <1>0, <1>1, <1>3, <2>0, WaitSettles
  <2> QED
    BY <1>5, <1>7, <1>a, <2>0, <2>1, <2>2 DEF ShutdownAwaited
<1>8. CASE active[e] = 0 /\ WaitReturns /\ phase = "members"
  <2>1. /\ pc'[Owner] = "quit" /\ target' = target /\ phase' = phase /\ awaited' = awaited
    BY <1>e, <1>0, <1>8 DEF WaitReturns, Goto
  <2>2. TasksAwaited'
    BY <1>4, <1>8, <2>1 DEF TasksAwaited, InWait
  <2>3. awaited = "shutdown" => ShutdownAwaited'
    BY <1>7, <1>8, <1>a, <2>1 DEF ShutdownAwaited, InWait
  <2> QED
    BY <1>4, <2>1, <2>2, <2>3 DEF AwaitInv
<1>9. CASE active[e] = 0 /\ WaitReturns /\ phase # "members" /\ e + 1 = NumExecutors
  <2>1. /\ pc'[Owner] \in {"calling", "lock"} /\ target'[Owner] = 0
        /\ phase' \in {"alive", "members"} /\ (phase' = "alive" <=> pc'[Owner] = "calling")
        /\ phase' = "members" => awaited' = awaited
    BY <1>e, <1>0, <1>9 DEF WaitReturns, Goto
  <2>2. \A f \in Executors : f # e => f < e
    BY <1>0, <1>9, SettingsAssumption DEF Executors
  <2>3. \A f \in Executors : Rests(f)'
    BY <1>e, <1>0, <1>5, <1>6, <1>9, <1>a, <2>2 DEF TasksAwaited, InWait
  <2>4. TasksAwaited'
    BY <1>4, <2>1, <2>3 DEF TasksAwaited, InWait
  <2>5. \A f \in Executors : ~(f < 0)
    BY SettingsAssumption DEF Executors
  <2>6. CASE awaited = "shutdown"
    <3>1. \A f \in Executors : Settled(f)'
      BY <1>e, <1>0, <1>7, <1>9, <1>a, <2>2, <2>6 DEF ShutdownAwaited, InWait
    <3>2. ShutdownAwaited'
      BY <2>1, <2>3, <3>1 DEF ShutdownAwaited, InWait
    <3> QED
      BY <1>4, <2>3, <2>4, <3>2 DEF AwaitInv
  <2>7. CASE awaited # "shutdown"
    <3>1. awaited' = "shutdown" => phase' = "alive"
      BY <2>1, <2>7, <1>0
    <3>2. phase' = "alive" => ShutdownAwaited'
      BY <2>1, <2>3 DEF ShutdownAwaited, InWait
    <3> QED
      BY <1>4, <2>3, <2>4, <3>1, <3>2 DEF AwaitInv
  <2> QED
    BY <2>6, <2>7
<1>10. CASE active[e] = 0 /\ WaitReturns /\ phase # "members" /\ e + 1 # NumExecutors
  <2>1. pc'[Owner] = "lock" /\ target'[Owner] = e + 1 /\ phase' = phase /\ awaited' = awaited
    BY <1>e, <1>0, <1>10 DEF WaitReturns, Goto
  <2>2. \A f \in Executors : f < e + 1 => f < e \/ f = e
    BY <1>0 DEF Executors
  <2>3. \A f \in Executors : f < e + 1 => Rests(f)'
    BY <1>e, <1>0, <1>5, <1>6, <1>10, <1>a, <2>2 DEF TasksAwaited, InWait
  <2>4. TasksAwaited'
    BY <1>4, <2>1, <2>3 DEF TasksAwaited, InWait
  <2>5. awaited = "shutdown" => ShutdownAwaited'
    BY <1>e, <1>0, <1>7, <1>10, <1>a, <2>1, <2>2 DEF ShutdownAwaited, InWait
  <2> QED
    BY <1>4, <1>10, <2>1, <2>4, <2>5 DEF AwaitInv
<1>11. CASE Goto(Owner, "waiting") /\ UNCHANGED <<target, phase, awaited>>
  <2>1. pc'[Owner] = "waiting" /\ target'[Owner] = e
    BY <1>e, <1>0, <1>11 DEF Goto
  <2>2. TasksAwaited'
    BY <1>e, <1>0, <1>4, <1>5, <1>11, <1>a, <2>1 DEF TasksAwaited, InWait
  <2>3. awaited = "shutdown" => ShutdownAwaited'
    BY <1>e, <1>0, <1>7, <1>11, <1>a, <2>1 DEF ShutdownAwaited, InWait
  <2> QED
    BY <1>4, <1>11, <2>1, <2>2, <2>3 DEF AwaitInv
<1> QED
  BY <1>2, <1>8, <1>9, <1>10, <1>11

LEMMA AwaitOwner ==
  ASSUME PoolInv, AwaitInv,
         \/ OwnerStep \/ OwnerSpuriousWake \/ (\E t \in Roots : CallSubmit(t))
         \/ AwaitLatch \/ CallShutdown \/ CallDestructor
  PROVE  AwaitInv'
<1> USE DEF ownerVars, workerVars
<1>0. /\ Owner \in Threads /\ Owner \notin Workers /\ target[Owner] \in Executors
      /\ pc \in [Threads -> WorkerLabels \cup OwnerLabels] /\ state \in [Executors -> BOOLEAN]
      /\ target \in [Threads -> Executors] /\ quit \in [Executors -> BOOLEAN]
      /\ Workers \subseteq Threads
  BY OwnerIsNoWorker DEF PoolInv, TypeOK, Threads
<1>a. ASSUME UNCHANGED state, \A e \in Executors : quit[e] => quit'[e],
             \A w \in Workers : pc'[w] = pc[w] \/ (pc[w] = "asleep" /\ pc'[w] = "woken"),
             NEW e \in Executors, Settled(e)
      PROVE  Settled(e)'
  <2>1. state'[e] = FALSE
    BY <1>0, <1>a DEF Settled
  <2> QED
    BY <1>a, <2>1, OwnerKeepsSettled
<1>1. CASE Submit(Owner)
  <2>1. awaited' = awaited
    BY <1>1 DEF Submit, Push, Activate, Notify
  <2>2. awaited = "nothing"
    BY <1>0, <1>1 DEF AwaitInv, TasksAwaited, Drained, PoolInv, Held, Submit, Push, Activate,
       Notify, At
  <2> QED
    BY <2>1, <2>2 DEF AwaitInv
<1>2. CASE WaitAllDone \/ WaitWakes
  <2>1. CASE awaited # "nothing"
    BY <1>2, <2>1, AwaitReturn
  <2>2. CASE awaited = "nothing"
    BY <1>2, <2>2 DEF WaitAllDone, WaitWakes, WaitReturns, AwaitInv
  <2> QED
    BY <2>1, <2>2
<1>3. CASE \E t \in Roots : CallSubmit(t)
  BY <1>3 DEF CallSubmit, AwaitInv
<1>4. CASE AwaitLatch
  <2>1. /\ awaited' = "tasks" /\ UNCHANGED <<queue, todo, pc, phase>> /\ pc[Owner] = "calling"
        /\ Drained
    BY <1>4 DEF AwaitLatch, Idle, At, Drained
  <2>2. Drained'
    BY <2>1, OwnerKeepsDrained
  <2> QED
    BY <2>1, <2>2 DEF AwaitInv, TasksAwaited, InWait
<1>5. CASE CallShutdown \/ CallDestructor
  <2>1. /\ pc'[Owner] = "lock" /\ target'[Owner] = 0 /\ phase' # "members" /\ awaited' = awaited
        /\ UNCHANGED <<queue, todo>> /\ \A w \in Workers : pc'[w] = pc[w]
    BY <1>0, <1>5 DEF CallShutdown, CallDestructor, BeginShutdown, Goto, Idle
  <2>2. \A e \in Executors : ~(e < 0)
    BY SettingsAssumption DEF Executors
  <2>3. Drained => Drained'
    BY <2>1, OwnerKeepsDrained
  <2>4. \A e \in Executors : Rests(e) => Rests(e)'
    BY <2>1, OwnerKeepsRest
  <2>5. TasksAwaited => TasksAwaited'
    BY <2>1, <2>2, <2>3 DEF TasksAwaited, InWait
  <2>6. ShutdownAwaited => ShutdownAwaited'
    BY <2>1, <2>2, <2>4 DEF ShutdownAwaited, InWait
  <2> QED
    BY <2>1, <2>5, <2>6 DEF AwaitInv
<1>6. CASE SetQuit \/ QuitNotify \/ OwnerSpuriousWake \/ Join
  <2>1. /\ UNCHANGED <<queue, state, todo, phase, awaited>>
        /\ \A e \in Executors : quit[e] => quit'[e]
        /\ \A w \in Workers : pc'[w] = pc[w] \/ (pc[w] = "asleep" /\ pc'[w] = "woken")
    BY <1>0, <1>6 DEF SetQuit, QuitNotify, OwnerSpuriousWake, Join, NotifyInactive, Goto, At
  <2>2. \/ pc[Owner] = "waiting" /\ pc'[Owner] = "notified" /\ target' = target
        \/ pc[Owner] \in {"quit", "quitNotify"} /\ pc'[Owner] \in {"quitNotify", "join"}
        \/ pc[Owner] = "join" /\ pc'[Owner] \in {"lock", "gone"}
    BY <1>0, <1>6 DEF SetQuit, QuitNotify, OwnerSpuriousWake, Join, NotifyInactive, Goto, At
  <2>3. Drained => Drained'
    BY <2>1, OwnerKeepsDrained
  <2>4. \A e \in Executors : Rests(e) => Rests(e)'
    BY <2>1, OwnerKeepsRest
  <2>5. \A e \in Executors : Settled(e) => Settled(e)'
    BY <1>a, <2>1
  <2>6. TasksAwaited => TasksAwaited'
    BY <2>1, <2>2, <2>3, <2>4 DEF TasksAwaited, InWait
  <2>7. TasksAwaited /\ ShutdownAwaited => ShutdownAwaited'
    BY <2>1, <2>2, <2>4, <2>5 DEF TasksAwaited, ShutdownAwaited, InWait
  <2> QED
    BY <2>1, <2>6, <2>7 DEF AwaitInv
<1> QED
  BY <1>1, <1>2, <1>3, <1>4, <1>5, <1>6 DEF OwnerStep

LEMMA AwaitStep == PoolInv /\ AwaitInv /\ [Next]_vars => AwaitInv'
<1> SUFFICES ASSUME PoolInv, AwaitInv, [Next]_vars PROVE AwaitInv'
  OBVIOUS
<1>1. CASE UNCHANGED vars
  BY <1>1 DEF vars, AwaitInv, TasksAwaited, ShutdownAwaited, InWait, Drained, WorkIsDone, Rests,
     Busy, Settled, Sleeping, At
<1> QED
  BY <1>1, AwaitWorker, AwaitOwner DEF Next

LEMMA AwaitInvariant == Spec => []AwaitInv
<1>1. Init => AwaitInv
  BY DEF Init, AwaitInv
<1> QED
  BY <1>1, PoolInvariant, AwaitStep, PTL DEF Spec

\* Once ~ThreadPool is past shutdown() it frees its members one by one: after a
\* wait for the tasks and one shutdown() no worker ever reads them again.
THEOREM TeardownSafe == Spec => []TeardownIsSafe
<1>1. AwaitInv => TeardownIsSafe
  BY DEF AwaitInv, ShutdownAwaited, TeardownIsSafe, Settled, Workers, Exec
<1> QED
  BY <1>1, AwaitInvariant, PTL

\* A caller that waited for its tasks may free what they refer to when shutdown()
\* returns: nothing is queued, and no worker is inside a task or inside activate().
THEOREM QuietOnReturn == Spec => QuietAfterAwait
<1> DEFINE Quiet == pc[Owner] \in {"lock", "notified"} /\ awaited # "nothing"
                      /\ (pc'[Owner] = "calling" \/ phase' # phase)
                    => /\ \A e \in Executors : queue'[e] = <<>>
                       /\ \A w \in Workers : ~Busy(w)'
<1>1. ASSUME PoolInv, AwaitInv, [Next]_vars,
             pc[Owner] \in {"lock", "notified"}, awaited # "nothing",
             pc'[Owner] = "calling" \/ phase' # phase
      PROVE  /\ \A e \in Executors : queue'[e] = <<>>
             /\ \A w \in Workers : ~Busy(w)'
  <2>0. Owner \in Threads /\ pc \in [Threads -> WorkerLabels \cup OwnerLabels]
    BY <1>1 DEF Threads, PoolInv, TypeOK
  <2>1. WaitAllDone \/ WaitWakes
    <3>1. ASSUME NEW w \in Workers, Worker(w) \/ SpuriousWake(w) PROVE FALSE
      <4>1. Drained
        BY <1>1 DEF AwaitInv, TasksAwaited
      <4> QED
        BY <1>1, <3>1, <4>1, DrainedStays
    <3>2. ~(Submit(Owner) \/ SetQuit \/ QuitNotify \/ Join \/ OwnerSpuriousWake)
      BY <1>1 DEF Submit, Push, Activate, Notify, SetQuit, QuitNotify, Join, OwnerSpuriousWake, At
    <3>3. ~((\E t \in Roots : CallSubmit(t)) \/ AwaitLatch \/ CallShutdown \/ CallDestructor)
      BY <1>1 DEF CallSubmit, AwaitLatch, CallShutdown, CallDestructor, Idle, At
    <3>4. ~UNCHANGED vars
      BY <1>1 DEF vars
    <3> QED
      BY <1>1, <3>1, <3>2, <3>3, <3>4 DEF Next, OwnerStep
  <2>2. Drained' /\ \A e \in Executors : Rests(e)'
    BY <1>1, <2>1, AwaitReturn
  <2> QED
    BY <2>2, WorkersExecute DEF Rests, Drained
<1>2. PoolInv /\ AwaitInv /\ [Next]_vars => [Quiet]_vars
  BY <1>1
<1> QED
  BY <1>2, PoolInvariant, AwaitInvariant, PTL DEF Spec, QuietAfterAwait
=============================================================================
