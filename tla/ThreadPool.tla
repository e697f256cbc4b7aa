------------------------------ MODULE ThreadPool ------------------------------
(***************************************************************************)
(* putils::ThreadPool and its executors, putils::TaskHandler               *)
(* (src/putils/src/TaskHandler.cpp): workers that pop tasks from a queue   *)
(* of their own, steal from the other queues, and sleep on a condition     *)
(* variable while their executor is inactive; callers, outside the pool or *)
(* inside a task, that push a task to a random executor and activate it;   *)
(* and one thread that owns the pool, shuts it down and destroys it.       *)
(*                                                                         *)
(* A queue is the atomic FIFO that LockFreeQueue implements.  Tasks submit *)
(* other tasks while they run, as the compute units of the engine do.      *)
(*                                                                         *)
(* The predicate of cv_inactive reads state and quit, which are written    *)
(* without cv_lock: evaluating the predicate and blocking are two steps.   *)
(* What only the holder of cv_lock reads or writes is one step with it.    *)
(***************************************************************************)
EXTENDS Integers, Sequences, FiniteSets

CONSTANTS NumExecutors,   \* num_executors
          NumWorkers,     \* num_workers_per_executor
          QueueLimit,     \* executor_capacity - 1, what a queue can hold
          FailThreshold,  \* fail_block_threshold
          Tasks,          \* every task of the program
          Roots,          \* those the owner submits itself
          Children,       \* Children[t]: the tasks that t submits, in order
          MaxShutdowns,   \* bound: calls of shutdown()
          Owner,          \* the thread that owns the pool
          None            \* no task

\* set_global_threadpool refuses anything else.
ASSUME SettingsAssumption ==
  /\ NumExecutors \in Nat \ {0} /\ NumWorkers \in Nat \ {0}
  /\ FailThreshold \in Nat \ {0} /\ QueueLimit \in Nat \ {0}

ASSUME TaskAssumption == /\ Roots \subseteq Tasks /\ None \notin Tasks
                         /\ Children \in [Tasks -> Seq(Tasks)]

\* A task is one submission: no two calls of submit() submit the same.
ASSUME SubmissionAssumption ==
  \A t \in Tasks : \A i \in DOMAIN Children[t] :
    /\ Children[t][i] \notin Roots
    /\ \A u \in Tasks : \A j \in DOMAIN Children[u] :
         Children[t][i] = Children[u][j] => t = u /\ i = j

ASSUME BoundAssumption == MaxShutdowns \in Nat

ASSUME OwnerAssumption == Owner \notin (0..(NumExecutors - 1)) \X (1..NumWorkers)

VARIABLES
  queue,     \* task_queue of each executor
  state,     \* TRUE for ACTIVE
  quit,
  active,    \* active_workers
  pc,        \* the next step of each thread
  failures,  \* failure_cnt of each worker
  scan,      \* the executors a stealing worker has yet to visit
  task,      \* the task a worker runs
  todo,      \* the tasks a thread has yet to submit
  target,    \* the executor a thread submits to, or the owner waits for
  phase,     \* of the pool's life: "alive", or which part of ~ThreadPool runs
  shutdowns,   \* Ghosts: the calls of shutdown() begun,
  submitted,   \* the tasks pushed to a queue,
  finished,    \* those whose body has ended,
  awaited      \* and what the owner knows of them: nothing, "tasks" when it has
               \* waited for all of them, "shutdown" when shutdown() returned since

workerVars == <<failures, scan, task>>
ownerVars == <<phase, shutdowns, awaited>>
vars == <<queue, state, quit, active, pc, failures, scan, task, todo, target,
          phase, shutdowns, submitted, finished, awaited>>

Executors == 0..(NumExecutors - 1)
Workers == Executors \X (1..NumWorkers)
Threads == Workers \cup {Owner}
Exec(w) == w[1]

Init == /\ queue = [e \in Executors |-> <<>>]
        /\ state = [e \in Executors |-> FALSE]
        /\ quit = [e \in Executors |-> FALSE]
        /\ active = [e \in Executors |-> NumWorkers]
        /\ pc = [t \in Threads |-> IF t = Owner THEN "calling" ELSE "pop"]
        /\ failures = [w \in Workers |-> 0]
        /\ scan = [w \in Workers |-> <<>>]
        /\ task = [w \in Workers |-> None]
        /\ todo = [t \in Threads |-> <<>>]
        /\ target = [t \in Threads |-> 0]
        /\ phase = "alive" /\ shutdowns = 0
        /\ submitted = {} /\ finished = {} /\ awaited = "nothing"

At(t, label) == pc[t] = label
Goto(t, label) == pc' = [pc EXCEPT ![t] = label]

\* A worker holds cv_lock from the end of its wait or its decision to sleep
\* until it blocks or goes on; the owner never holds it between two steps.
LockFree(e) == \A w \in Workers :
                 Exec(w) = e => pc[w] \notin {"predicate", "block", "leave"}

\* cv_inactive.notify_all(), called by t, which goes on at label.
NotifyInactive(e, t, label) ==
  pc' = [u \in Threads |-> IF u = t THEN label
                           ELSE IF u # Owner /\ At(u, "asleep") /\ Exec(u) = e
                             THEN "woken" ELSE pc[u]]

-----------------------------------------------------------------------------
(* The loop of a worker *)

Run(w, t) == /\ task' = [task EXCEPT ![w] = t]
             /\ todo' = [todo EXCEPT ![w] = Children[t]]
             /\ Goto(w, "run")

TryPop(w) ==
  LET e == Exec(w) IN
  /\ At(w, "pop")
  /\ \/ /\ queue[e] # <<>>
        /\ Run(w, Head(queue[e]))
        /\ queue' = [queue EXCEPT ![e] = Tail(@)]
     \/ queue[e] = <<>> /\ Goto(w, "empty") /\ UNCHANGED <<queue, task, todo>>
  /\ UNCHANGED <<state, quit, active, failures, scan, target, ownerVars,
                 submitted, finished>>

\* Slip: the queue is not looked at again after the failed pop.
CheckNothing(w) ==
  /\ At(w, "empty") /\ Goto(w, "state")
  /\ UNCHANGED <<queue, state, quit, active, workerVars, todo, target,
                 ownerVars, submitted, finished>>

\* Not empty after all: the worker pops again.
CheckEmpty(w) ==
  /\ At(w, "empty")
  /\ Goto(w, IF queue[Exec(w)] = <<>> THEN "state" ELSE "pop")
  /\ UNCHANGED <<queue, state, quit, active, workerVars, todo, target,
                 ownerVars, submitted, finished>>

\* work_stealing() goes round from a random executor, and stops before the one
\* that precedes it.
ScanFrom(s) == [k \in 1..(NumExecutors - 1) |-> (s + k - 1) % NumExecutors]

ReadState(w) ==
  /\ At(w, "state")
  /\ \/ /\ ~state[Exec(w)] \/ failures[w] >= FailThreshold
        /\ failures' = [failures EXCEPT ![w] = 0]
        /\ Goto(w, "idle")
        /\ UNCHANGED scan
     \/ /\ state[Exec(w)] /\ failures[w] < FailThreshold
        /\ \E s \in Executors : scan' = [scan EXCEPT ![w] = ScanFrom(s)]
        /\ Goto(w, "steal")
        /\ UNCHANGED failures
  /\ UNCHANGED <<queue, state, quit, active, task, todo, target, ownerVars,
                 submitted, finished>>

\* Slip: the thief runs the task, and leaves it where it was.
StealCopies(w) ==
  /\ At(w, "steal") /\ scan[w] # <<>>
  /\ LET e == Head(scan[w]) IN
       \/ /\ queue[e] # <<>>
          /\ Run(w, Head(queue[e]))
          /\ scan' = [scan EXCEPT ![w] = <<>>]
          /\ UNCHANGED queue
       \/ /\ queue[e] = <<>>
          /\ scan' = [scan EXCEPT ![w] = Tail(@)]
          /\ UNCHANGED <<queue, pc, task, todo>>
  /\ UNCHANGED <<state, quit, active, failures, target, ownerVars, submitted,
                 finished>>

Steal(w) ==
  /\ At(w, "steal") /\ scan[w] # <<>>
  /\ LET e == Head(scan[w]) IN
       \/ /\ queue[e] # <<>>
          /\ Run(w, Head(queue[e]))
          /\ queue' = [queue EXCEPT ![e] = Tail(@)]
          /\ scan' = [scan EXCEPT ![w] = <<>>]
       \/ /\ queue[e] = <<>>
          /\ scan' = [scan EXCEPT ![w] = Tail(@)]
          /\ UNCHANGED <<queue, pc, task, todo>>
  /\ UNCHANGED <<state, quit, active, failures, target, ownerVars, submitted,
                 finished>>

StealFailed(w) ==
  /\ At(w, "steal") /\ scan[w] = <<>> /\ Goto(w, "pop")
  /\ failures' = [failures EXCEPT ![w] = @ + 1]
  /\ UNCHANGED <<queue, state, quit, active, scan, task, todo, target,
                 ownerVars, submitted, finished>>

\* Slip: nobody tells the thread in wait_all_done().
GoIdleSilently(w) ==
  /\ At(w, "idle") /\ LockFree(Exec(w)) /\ Goto(w, "predicate")
  /\ active' = [active EXCEPT ![Exec(w)] = @ - 1]
  /\ UNCHANGED <<queue, state, quit, workerVars, todo, target, ownerVars,
                 submitted, finished>>

\* Under cv_lock: active_workers-- and cv_all_done.notify_all().
GoIdle(w) ==
  LET e == Exec(w) IN
  /\ At(w, "idle") /\ LockFree(e)
  /\ active' = [active EXCEPT ![e] = @ - 1]
  /\ pc' = [pc EXCEPT ![w] = "predicate",
                      ![Owner] = IF @ = "waiting" /\ target[Owner] = e
                                   THEN "notified" ELSE @]
  /\ UNCHANGED <<queue, state, quit, workerVars, todo, target, ownerVars,
                 submitted, finished>>

Predicate(w) ==
  /\ At(w, "predicate")
  /\ Goto(w, IF state[Exec(w)] \/ quit[Exec(w)] THEN "leave" ELSE "block")
  /\ UNCHANGED <<queue, state, quit, active, workerVars, todo, target,
                 ownerVars, submitted, finished>>

\* Releases cv_lock and starts to listen to notifications.
Block(w) ==
  /\ At(w, "block") /\ Goto(w, "asleep")
  /\ UNCHANGED <<queue, state, quit, active, workerVars, todo, target,
                 ownerVars, submitted, finished>>

\* Slip: the worker that goes back to work is not counted again.
LeaveUncounted(w) ==
  /\ At(w, "leave") /\ Goto(w, IF quit[Exec(w)] THEN "exited" ELSE "pop")
  /\ UNCHANGED <<queue, state, quit, active, workerVars, todo, target,
                 ownerVars, submitted, finished>>

Leave(w) ==
  /\ At(w, "leave")
  /\ \/ quit[Exec(w)] /\ Goto(w, "exited") /\ UNCHANGED active
     \/ /\ ~quit[Exec(w)] /\ Goto(w, "pop")
        /\ active' = [active EXCEPT ![Exec(w)] = @ + 1]
  /\ UNCHANGED <<queue, state, quit, workerVars, todo, target, ownerVars,
                 submitted, finished>>

\* wait() takes cv_lock again before it evaluates the predicate.
Wake(w) ==
  /\ At(w, "woken") /\ LockFree(Exec(w)) /\ Goto(w, "predicate")
  /\ UNCHANGED <<queue, state, quit, active, workerVars, todo, target,
                 ownerVars, submitted, finished>>

SpuriousWake(w) ==
  /\ At(w, "asleep") /\ Goto(w, "woken")
  /\ UNCHANGED <<queue, state, quit, active, workerVars, todo, target,
                 ownerVars, submitted, finished>>

\* A body that throws ends here too: the worker logs the exception.
EndBody(w) ==
  /\ At(w, "run") /\ todo[w] = <<>> /\ Goto(w, "return")
  /\ finished' = finished \cup {task[w]}
  /\ UNCHANGED <<queue, state, quit, active, workerVars, todo, target,
                 ownerVars, submitted>>

ReturnFromRun(w) ==
  /\ At(w, "return") /\ Goto(w, "pop")
  /\ task' = [task EXCEPT ![w] = None]
  /\ UNCHANGED <<queue, state, quit, active, failures, scan, todo, target,
                 ownerVars, submitted, finished>>

-----------------------------------------------------------------------------
(* submit(), called by the owner or by the body of a task.  A full queue is *)
(* left for another random executor, for as long as it takes.               *)

\* Slip: the lap of a full queue is not refused.
PushNext(c, e) ==
  /\ pc[c] \in {"calling", "run"} /\ todo[c] # <<>>
  /\ queue' = [queue EXCEPT ![e] = Append(@, Head(todo[c]))]
  /\ submitted' = submitted \cup {Head(todo[c])}
  /\ target' = [target EXCEPT ![c] = e]
  /\ Goto(c, "activate")
  /\ UNCHANGED <<state, quit, active, workerVars, todo, ownerVars, finished>>

Push(c, e) ==
  /\ pc[c] \in {"calling", "run"} /\ todo[c] # <<>>
  /\ Len(queue[e]) < QueueLimit
  /\ queue' = [queue EXCEPT ![e] = Append(@, Head(todo[c]))]
  /\ submitted' = submitted \cup {Head(todo[c])}
  /\ target' = [target EXCEPT ![c] = e]
  /\ Goto(c, "activate")
  /\ UNCHANGED <<state, quit, active, workerVars, todo, ownerVars, finished>>

\* activate(): the state first, then the notification, neither under cv_lock.
Activate(c) ==
  /\ At(c, "activate") /\ Goto(c, "notify")
  /\ state' = [state EXCEPT ![target[c]] = TRUE]
  /\ UNCHANGED <<queue, quit, active, workerVars, todo, target, ownerVars,
                 submitted, finished>>

Notify(c) ==
  /\ At(c, "notify")
  /\ NotifyInactive(target[c], c, IF c = Owner THEN "calling" ELSE "run")
  /\ todo' = [todo EXCEPT ![c] = Tail(@)]
  /\ target' = [target EXCEPT ![c] = 0]
  /\ UNCHANGED <<queue, state, quit, active, workerVars, ownerVars, submitted,
                 finished>>

-----------------------------------------------------------------------------
(* The owner: it submits tasks, may wait until every task has done its      *)
(* work, shuts the pool down, and at last destroys it.                      *)

Idle == phase = "alive" /\ At(Owner, "calling") /\ todo[Owner] = <<>>

CallSubmit(t) ==
  /\ Idle /\ t \in Roots \ submitted
  /\ todo' = [todo EXCEPT ![Owner] = <<t>>]
  /\ awaited' = "nothing"
  /\ UNCHANGED <<queue, state, quit, active, pc, workerVars, target, phase,
                 shutdowns, submitted, finished>>

\* A task whose body is at its end, or has pushed the last task it submits and
\* is in activate() still.
WorkIsDone(w) == \/ todo[w] = <<>>
                 \/ pc[w] \in {"activate", "notify"} /\ Len(todo[w]) = 1

\* await_pipeline_accomplish() has seen its counter at zero: every task was taken
\* from its queue and has counted down or pushed its successors, one of which
\* may have run before the worker that pushed it activates its executor. (In
\* Pipeline, OnlyNoticesLeft says that zero means this.)
AwaitLatch ==
  /\ Idle /\ submitted # {}
  /\ \A e \in Executors : queue[e] = <<>>
  /\ \A w \in Workers : WorkIsDone(w)
  /\ awaited' = "tasks"
  /\ UNCHANGED <<queue, state, quit, active, pc, workerVars, todo, target,
                 phase, shutdowns, submitted, finished>>

\* Slip: the first executor is not waited for.
BeginShutdownLate == /\ Goto(Owner, "lock")
                     /\ target' = [target EXCEPT ![Owner] = NumExecutors - 1]

BeginShutdown == /\ Goto(Owner, "lock")
                 /\ target' = [target EXCEPT ![Owner] = 0]

CallShutdown ==
  /\ Idle /\ shutdowns < MaxShutdowns /\ BeginShutdown
  /\ shutdowns' = shutdowns + 1
  /\ UNCHANGED <<queue, state, quit, active, workerVars, todo, phase, awaited,
                 submitted, finished>>

\* Slip: ~ThreadPool leaves it to each executor to wait for its workers.
CallDestructorOnly ==
  /\ Idle /\ BeginShutdown
  /\ phase' = "members"
  /\ UNCHANGED <<queue, state, quit, active, workerVars, todo, shutdowns,
                 awaited, submitted, finished>>

CallDestructor ==
  /\ Idle /\ BeginShutdown
  /\ phase' = "shutdown"
  /\ UNCHANGED <<queue, state, quit, active, workerVars, todo, shutdowns,
                 awaited, submitted, finished>>

\* wait_all_done() has returned: shutdown() goes on with the next executor,
\* ~TaskHandler with its flag, and ~ThreadPool destroys the executors in order.
WaitReturns ==
  LET last == target[Owner] + 1 = NumExecutors
      returns == last /\ phase = "alive"
  IN
  IF phase = "members"
  THEN Goto(Owner, "quit") /\ UNCHANGED <<target, phase, awaited>>
  ELSE /\ target' = [target EXCEPT ![Owner] = IF last THEN 0 ELSE @ + 1]
       /\ Goto(Owner, IF returns THEN "calling" ELSE "lock")
       /\ phase' = IF last /\ phase = "shutdown" THEN "members" ELSE phase
       /\ awaited' = IF returns /\ awaited = "tasks" THEN "shutdown" ELSE awaited

WaitAllDone ==
  LET e == target[Owner] IN
  /\ At(Owner, "lock") /\ LockFree(e)
  /\ state' = [state EXCEPT ![e] = FALSE]
  /\ \/ active[e] = 0 /\ WaitReturns
     \/ active[e] # 0 /\ Goto(Owner, "waiting") /\ UNCHANGED <<target, phase, awaited>>
  /\ UNCHANGED <<queue, quit, active, workerVars, todo, shutdowns, submitted,
                 finished>>

WaitWakes ==
  LET e == target[Owner] IN
  /\ At(Owner, "notified") /\ LockFree(e)
  /\ \/ active[e] = 0 /\ WaitReturns
     \/ active[e] # 0 /\ Goto(Owner, "waiting") /\ UNCHANGED <<target, phase, awaited>>
  /\ UNCHANGED <<queue, state, quit, active, workerVars, todo, shutdowns,
                 submitted, finished>>

OwnerSpuriousWake ==
  /\ At(Owner, "waiting") /\ Goto(Owner, "notified")
  /\ UNCHANGED <<queue, state, quit, active, workerVars, todo, target,
                 ownerVars, submitted, finished>>

SetQuit ==
  /\ At(Owner, "quit") /\ Goto(Owner, "quitNotify")
  /\ quit' = [quit EXCEPT ![target[Owner]] = TRUE]
  /\ UNCHANGED <<queue, state, active, workerVars, todo, target, ownerVars,
                 submitted, finished>>

QuitNotify ==
  /\ At(Owner, "quitNotify") /\ NotifyInactive(target[Owner], Owner, "join")
  /\ UNCHANGED <<queue, state, quit, active, workerVars, todo, target,
                 ownerVars, submitted, finished>>

Join ==
  LET e == target[Owner] IN
  /\ At(Owner, "join")
  /\ \A w \in Workers : Exec(w) = e => At(w, "exited")
  /\ \/ /\ e + 1 < NumExecutors /\ Goto(Owner, "lock")
        /\ target' = [target EXCEPT ![Owner] = e + 1]
     \/ e + 1 = NumExecutors /\ Goto(Owner, "gone") /\ UNCHANGED target
  /\ UNCHANGED <<queue, state, quit, active, workerVars, todo, ownerVars,
                 submitted, finished>>

-----------------------------------------------------------------------------
Submit(c) == \/ \E e \in Executors : Push(c, e)
             \/ Activate(c)
             \/ Notify(c)

Worker(w) == \/ TryPop(w) \/ CheckEmpty(w) \/ ReadState(w) \/ Steal(w)
             \/ StealFailed(w) \/ GoIdle(w) \/ Predicate(w) \/ Block(w)
             \/ Leave(w) \/ Wake(w) \/ EndBody(w) \/ ReturnFromRun(w)
             \/ Submit(w)

\* What the owner does inside a call, as opposed to making one.
OwnerStep == \/ Submit(Owner) \/ WaitAllDone \/ WaitWakes \/ SetQuit
             \/ QuitNotify \/ Join

Next == \/ \E w \in Workers : Worker(w) \/ SpuriousWake(w)
        \/ OwnerStep \/ OwnerSpuriousWake
        \/ \E t \in Roots : CallSubmit(t)
        \/ AwaitLatch \/ CallShutdown \/ CallDestructor

Spec == Init /\ [][Next]_vars

\* The scheduler runs every thread, and a thread that waits for cv_lock gets it
\* if the lock is released again and again.  Spurious wakeups are never owed.
FairSpec == /\ Spec
            /\ \A w \in Workers : SF_vars(Worker(w))
            /\ SF_vars(OwnerStep)

-----------------------------------------------------------------------------
WorkerLabels == {"pop", "empty", "state", "steal", "idle", "predicate", "block",
                 "asleep", "woken", "leave", "exited", "run", "activate",
                 "notify", "return"}
OwnerLabels == {"calling", "activate", "notify", "lock", "waiting", "notified",
                "quit", "quitNotify", "join", "gone"}

\* Every variable stays in its type; no queue exceeds its capacity.
TypeOK ==
  /\ queue \in [Executors -> Seq(Tasks)]
  /\ \A e \in Executors : Len(queue[e]) <= QueueLimit
  /\ state \in [Executors -> BOOLEAN] /\ quit \in [Executors -> BOOLEAN]
  /\ active \in [Executors -> 0..NumWorkers]
  /\ pc \in [Threads -> WorkerLabels \cup OwnerLabels]
  /\ \A w \in Workers : pc[w] \in WorkerLabels
  /\ pc[Owner] \in OwnerLabels
  /\ failures \in [Workers -> 0..FailThreshold]
  /\ scan \in [Workers -> Seq(Executors)]
  /\ task \in [Workers -> Tasks \cup {None}]
  /\ todo \in [Threads -> Seq(Tasks)]
  /\ target \in [Threads -> Executors]
  /\ phase \in {"alive", "shutdown", "members"}
  /\ shutdowns \in 0..MaxShutdowns
  /\ submitted \subseteq Tasks /\ finished \subseteq submitted
  /\ awaited \in {"nothing", "tasks", "shutdown"}

\* A worker in one of these states executes no task and touches no queue.
Sleeping(w) == pc[w] \in {"predicate", "block", "asleep", "woken", "leave",
                          "exited"}

\* The positions at which a task is queued, and the workers that run it.
Places(t) == {p \in Executors \X (1..QueueLimit) :
                p[2] <= Len(queue[p[1]]) /\ queue[p[1]][p[2]] = t}
Hands(t) == {w \in Workers : task[w] = t /\ ~At(w, "return")}

\* A task that was submitted is in one queue, in the hands of one worker, or
\* done, and only one of them: stealing, the pops of the owners of a queue and
\* a shutdown in between neither run it twice nor drop it (lines 20, 51, 200).
EachTaskOnce ==
  \A t \in submitted :
    Cardinality(Places(t)) + Cardinality(Hands(t))
      + (IF t \in finished THEN 1 ELSE 0) = 1

\* When wait_all_done() returns, every worker of that executor has given up the
\* processor for cv_inactive: the count under cv_lock never misses a worker that
\* was woken, went back to work and has not slept again (lines 37, 47, 86).
WaitAllDoneIsQuiet ==
  [][\A w \in Workers :
       pc[Owner] \in {"lock", "notified"} /\ pc'[Owner] # "waiting"
         /\ <<pc[Owner], target[Owner], phase>>' # <<pc[Owner], target[Owner], phase>>
         /\ Exec(w) = target[Owner]
       => Sleeping(w)]_vars

\* A worker in one of these states has a task, or is about to be done with it.
Busy(w) == pc[w] \in {"run", "activate", "notify", "return"}

\* A caller that waits for its tasks, by what they count down themselves, and then
\* calls shutdown() may destroy what they refer to: when shutdown() returns,
\* nothing is queued and no worker of any executor is inside a task or inside
\* activate(), although the wait may end while a worker is, and that worker may
\* activate an executor that shutdown() has passed. (The workers of that one may
\* be awake still, looking for tasks that nobody submits. integer.cpp relies on
\* it for the lock, counter and condition variable on its stack, lines 156-177.)
QuietAfterAwait ==
  [][pc[Owner] \in {"lock", "notified"} /\ awaited # "nothing"
       /\ (pc'[Owner] = "calling" \/ phase' # phase)
       => /\ \A e \in Executors : queue'[e] = <<>>
          /\ \A w \in Workers : ~Busy(w)']_vars

\* Once ~ThreadPool has passed shutdown(), its members are freed while workers
\* still sleep: if an earlier shutdown() had returned after the owner's wait, as
\* await_pipeline_accomplish() makes sure, no worker of any executor reads them
\* again, whatever wakes it up, though that call may have left workers awake.
TeardownIsSafe ==
  phase = "members" /\ awaited = "shutdown" => \A w \in Workers : Sleeping(w)

InShutdown == phase # "members" /\ pc[Owner] \in {"lock", "waiting", "notified"}

\* shutdown() returns unless a running task activates the executor it waits for
\* again: the last worker of an executor that runs out of work tells the thread
\* in wait_all_done(), no matter how that thread's wait and the worker's way to
\* sleep interleave, or how often the worker was woken before (lines 37-47, 86).
ShutdownReturnsIfQuiet == InShutdown ~> (~InShutdown \/ state[target[Owner]])

\* A worker of e that has yet to pop, or look at its queue, before it may sleep.
LooksFirst(w) == pc[w] \in {"pop", "empty", "steal", "run", "activate", "notify", "return"}

\* One on its way to sleep or awake from it, or that somebody is about to wake.
LooksIfActive(w) ==
  \/ pc[w] \in {"state", "idle", "predicate", "woken", "leave"}
  \/ At(w, "asleep") /\ \E c \in Threads : At(c, "notify") /\ target[c] = Exec(w)

\* No task is left in a queue by a worker that could have seen it. A worker that
\* runs, steals or found its queue empty just now looks at it once more and
\* empties it, an inactivation in between or not. One that has looked and goes to
\* sleep, or wakes up, empties it too as long as the executor is ACTIVE. What is
\* left are the tasks of an executor that is INACTIVE, and the worker that has
\* evaluated its predicate and is not yet asleep: the notification that misses it
\* is SleepersAreNotified (lines 17-50, 90-94, 171-182). (As long as the queues have
\* room for what the bodies submit: all workers may spin in submit() otherwise.)
QueueIsServed ==
  \A e \in Executors :
    /\ (queue[e] # <<>> /\ \E w \in Workers : Exec(w) = e /\ LooksFirst(w))
         ~> queue[e] = <<>>
    /\ (queue[e] # <<>> /\ state[e] /\ \E w \in Workers : Exec(w) = e /\ LooksIfActive(w))
         ~> queue[e] = <<>> \/ ~state[e] \/ quit[e]

-----------------------------------------------------------------------------
(* What the documentation says and the code does not do.                   *)

\* "Waiting threads will be notified when activate() is called or during
\* destruction" (TaskHandler.cpp, line 41): no worker stays blocked although its
\* predicate is true and whoever made it true has already notified.
SleepersAreNotified ==
  \A w \in Workers :
    At(w, "asleep") /\ (state[Exec(w)] \/ quit[Exec(w)])
      => \E c \in Threads : pc[c] \in {"notify", "quitNotify"} /\ target[c] = Exec(w)

\* "Call shutdown() to gracefully stop all workers" (TaskHandler.h, line 128):
\* shutdown() returns.  A task that submits another one to the executor it waits
\* for sets its state back to ACTIVE for good, and the worker then leaves cv_lock
\* only with active_workers > 0.
ShutdownReturns == InShutdown ~> ~InShutdown
=============================================================================
