------------------------------- MODULE Pipeline -------------------------------
(***************************************************************************)
(* One update of an expression graph: the compute units of its nodes       *)
(* (src/core/include/Basics.h), which count down the predecessors they     *)
(* wait for, run as tasks of the thread pool and forward to their          *)
(* successors, and the thread that generates them, starts the first ones   *)
(* and waits on a condition variable for the last ones                     *)
(* (IntegerDAGContext in src/core/src/integer.cpp).                        *)
(*                                                                         *)
(* A node of the graph has one unit.  Binary operations have a MonoUnit;   *)
(* the graphs checked here may also have a ParallelizableUnit in its       *)
(* place, of Parts tasks.  The thread pool is a bag of tasks: submit()     *)
(* puts one in, which any worker may take before the caller has activated  *)
(* the executor, and shutdown() passes the workers one by one.             *)
(***************************************************************************)
EXTENDS Integers, Sequences, FiniteSets

CONSTANTS NumNodes,    \* length of the node list
          Kinds,       \* of the units of operations: "mono", "para"
          Parts,       \* tasks of a ParallelizableUnit
          Workers,     \* the pool's workers
          Main,        \* the thread that calls update()
          MaxLosses    \* bound: tasks that throw

Nodes == 1..NumNodes
Threads == Workers \cup {Main}

\* Among the forward calls of a unit, the one that tells the waiting thread.
Final == 0

ASSUME PipelineAssumption ==
  /\ NumNodes \in Nat \ {0} /\ Parts \in Nat \ {0} /\ MaxLosses \in Nat
  /\ Kinds \subseteq {"mono", "para"} /\ Main \notin Workers

VARIABLES
  operands,      \* of each node, in the order in which nodes are created
  kind,          \* of each node's unit; "basic" for that of a constant
  forwards,      \* forward_calls of each unit
  dependencies,  \* dependency_synchronizer of each unit
  unfinished,    \* forward_synchronizer of each unit
  synchronizer,  \* what the waiting thread waits for to be 0
  initial,       \* initial_calls
  queued,        \* how many tasks of each unit the pool has
  stack,         \* what each thread is in the middle of, innermost first
  pc, pos,       \* of Main: its next step, and the node it has come to
  passed,        \* the workers that shutdown() has found idle
  ended, lost    \* ghosts: tasks of each unit that ended, units that lost one

graph == <<operands, kind>>
units == <<forwards, dependencies, unfinished>>
main == <<initial, pc, pos, passed>>
vars == <<operands, kind, forwards, dependencies, unfinished, synchronizer,
          initial, queued, stack, pc, pos, passed, ended, lost>>

Constant(n) == operands[n] = <<>>
NumTasks(n) == CASE kind[n] = "basic" -> 0
                 [] kind[n] = "mono" -> 1
                 [] kind[n] = "para" -> Parts

\* An operation is created after its operands, and may have one of them twice.
Graphs == {g \in [Nodes -> {<<>>} \cup (Nodes \X Nodes)] :
             \A n \in Nodes : g[n] # <<>> => g[n][1] < n /\ g[n][2] < n}

Init == /\ operands \in Graphs
        /\ kind \in [Nodes -> Kinds \cup {"basic"}]
        /\ \A n \in Nodes : kind[n] = "basic" <=> Constant(n)
        /\ forwards = [n \in Nodes |-> <<>>]
        /\ dependencies = [n \in Nodes |-> 0]
        /\ unfinished = [n \in Nodes |-> 0]
        /\ synchronizer = 0 /\ initial = <<>>
        /\ queued = [n \in Nodes |-> 0]
        /\ stack = [t \in Threads |-> <<>>]
        /\ pc = "generate" /\ pos = 1 /\ passed = {}
        /\ ended = [n \in Nodes |-> 0] /\ lost = {}

-----------------------------------------------------------------------------
(* Main builds the units, before any other thread knows of them            *)

Advance(label) == IF pos = NumNodes THEN pc' = label /\ pos' = 1
                  ELSE pos' = pos + 1 /\ UNCHANGED pc

\* generate_procedure() of a node, and add_dependency() on its operands.
Generate ==
  LET uses(n) == {i \in DOMAIN operands[pos] : operands[pos][i] = n} IN
  /\ pc = "generate" /\ Advance("collect")
  /\ forwards' = [n \in Nodes |->
                    forwards[n] \o [i \in 1..Cardinality(uses(n)) |-> pos]]
  /\ dependencies' = [dependencies EXCEPT ![pos] = Len(operands[pos])]
  /\ unfinished' = [unfinished EXCEPT ![pos] = NumTasks(pos)]
  /\ UNCHANGED <<graph, synchronizer, initial, queued, stack, passed, ended, lost>>

\* Slip: the counter is not incremented for the calls added to it.
CollectUncounted ==
  /\ pc = "collect" /\ Advance("start")
  /\ forwards' = IF forwards[pos] = <<>> THEN [forwards EXCEPT ![pos] = <<Final>>]
                 ELSE forwards
  /\ initial' = IF Constant(pos) THEN initial \o forwards'[pos] ELSE initial
  /\ UNCHANGED <<graph, dependencies, unfinished, synchronizer, queued, stack,
                 passed, ended, lost>>

\* A unit without a successor is made to count down the synchronizer, and the
\* calls of a constant's unit, which never runs, are left to Main.
Collect ==
  /\ pc = "collect" /\ Advance("start")
  /\ \/ /\ forwards[pos] = <<>>
        /\ forwards' = [forwards EXCEPT ![pos] = <<Final>>]
        /\ synchronizer' = synchronizer + 1
     \/ forwards[pos] # <<>> /\ UNCHANGED <<forwards, synchronizer>>
  /\ initial' = IF Constant(pos) THEN initial \o forwards'[pos] ELSE initial
  /\ UNCHANGED <<graph, dependencies, unfinished, queued, stack, passed, ended,
                 lost>>

-----------------------------------------------------------------------------
(* What a thread may be in the middle of.  A unit that serializes runs its  *)
(* successor's task inside its own.                                         *)

Body(u) == [op |-> "body", unit |-> u]
Forwarding(u) == [op |-> "forward", unit |-> u]
Submitting(u, n) == [op |-> "submit", unit |-> u, tasks |-> n]
Activating(u, n) == [op |-> "activate", unit |-> u, tasks |-> n]
Calling(calls, serialize) ==
  [op |-> "call", calls |-> calls, serialize |-> serialize]
Notice == [op |-> "notify"]

IsAt(t, op) == stack[t] # <<>> /\ Head(stack[t]).op = op
Top(t) == Head(stack[t])
Replace(t, frames) == stack' = [stack EXCEPT ![t] = frames \o Tail(@)]

\* Calls left to make, if any.
Rest(calls, serialize) ==
  IF calls = <<>> THEN <<>> ELSE <<Calling(calls, serialize)>>

Start ==
  /\ pc = "start" /\ pc' = "calls"
  /\ stack' = [stack EXCEPT ![Main] = Rest(initial, FALSE)]
  /\ initial' = <<>>
  /\ UNCHANGED <<graph, units, synchronizer, queued, pos, passed, ended, lost>>

\* Slip: the task is given to the pool as well as run.
LaunchTwice(u, serialize) ==
  IF kind[u] = "mono" /\ serialize THEN <<Submitting(u, 1), Body(u)>>
  ELSE <<Submitting(u, NumTasks(u))>>

Launch(u, serialize) ==
  IF kind[u] = "mono" /\ serialize THEN <<Body(u)>>
  ELSE <<Submitting(u, NumTasks(u))>>

\* Slip: the unit does not wait for its other operand.
NoticeDependencyEagerly(t) ==
  LET calls == Top(t).calls
      u == Head(calls)
      rest == Rest(Tail(calls), Top(t).serialize)
  IN
  /\ IsAt(t, "call") /\ u # Final
  /\ dependencies' = [dependencies EXCEPT ![u] = @ - 1]
  /\ Replace(t, (IF dependencies[u] = Len(operands[u])
                   THEN Launch(u, Top(t).serialize) ELSE <<>>) \o rest)
  /\ UNCHANGED <<graph, forwards, unfinished, synchronizer, queued, main, ended,
                 lost>>

\* dependency_notice() of the next successor, whose task is run or submitted
\* when its last predecessor calls.
NoticeDependency(t) ==
  LET calls == Top(t).calls
      u == Head(calls)
      rest == Rest(Tail(calls), Top(t).serialize)
  IN
  /\ IsAt(t, "call") /\ u # Final
  /\ dependencies' = [dependencies EXCEPT ![u] = @ - 1]
  /\ Replace(t, (IF dependencies[u] = 1 THEN Launch(u, Top(t).serialize)
                 ELSE <<>>) \o rest)
  /\ UNCHANGED <<graph, forwards, unfinished, synchronizer, queued, main, ended,
                 lost>>

\* The call that add_dependency() adds for the thread that waits: the count
\* first, then the notification.
CountDown(t) ==
  LET calls == Top(t).calls
      rest == Rest(Tail(calls), Top(t).serialize)
  IN
  /\ IsAt(t, "call") /\ Head(calls) = Final
  /\ synchronizer' = synchronizer - 1
  /\ Replace(t, (IF synchronizer = 1 THEN <<Notice>> ELSE <<>>) \o rest)
  /\ UNCHANGED <<graph, units, queued, main, ended, lost>>

\* cv_lock is not taken.
NotifyMain(t) ==
  /\ IsAt(t, "notify") /\ Replace(t, <<>>)
  /\ pc' = IF pc = "asleep" THEN "predicate" ELSE pc
  /\ UNCHANGED <<graph, units, synchronizer, initial, queued, pos, passed, ended,
                 lost>>

\* submit() of the next of n tasks: it is in a queue, and may be run, before
\* activate() is called.
Submit(t) ==
  LET u == Top(t).unit
      n == Top(t).tasks
  IN
  /\ IsAt(t, "submit")
  /\ queued' = [queued EXCEPT ![u] = @ + 1]
  /\ Replace(t, <<Activating(u, n - 1)>>)
  /\ UNCHANGED <<graph, units, synchronizer, main, ended, lost>>

Activate(t) ==
  LET n == Top(t).tasks IN
  /\ IsAt(t, "activate")
  /\ Replace(t, IF n > 0 THEN <<Submitting(Top(t).unit, n)>> ELSE <<>>)
  /\ UNCHANGED <<graph, units, synchronizer, queued, main, ended, lost>>

Take(w, u) ==
  /\ stack[w] = <<>> /\ queued[u] > 0
  /\ queued' = [queued EXCEPT ![u] = @ - 1]
  /\ stack' = [stack EXCEPT ![w] = <<Body(u)>>]
  /\ UNCHANGED <<graph, units, synchronizer, main, ended, lost>>

\* The task has computed its result, and calls forward() of its unit.
EndBody(t) ==
  LET u == Top(t).unit IN
  /\ IsAt(t, "body") /\ Replace(t, <<Forwarding(u)>>)
  /\ ended' = [ended EXCEPT ![u] = @ + 1]
  /\ UNCHANGED <<graph, units, synchronizer, queued, main, lost>>

\* The result has no memory: the exception goes up to the worker, which logs
\* that the task is lost.
Throw(t) ==
  /\ IsAt(t, "body") /\ Cardinality(lost) < MaxLosses
  /\ stack' = [stack EXCEPT ![t] = <<>>]
  /\ lost' = lost \cup {Top(t).unit}
  /\ UNCHANGED <<graph, units, synchronizer, queued, main, ended>>

\* A single successor may run on this thread.
Successors(u) == Rest(forwards[u], Len(forwards[u]) = 1)

ForwardMono(t) ==
  LET u == Top(t).unit IN
  /\ IsAt(t, "forward") /\ kind[u] = "mono"
  /\ Replace(t, Successors(u))
  /\ UNCHANGED <<graph, units, synchronizer, queued, main, ended, lost>>

\* Slip: fetch_sub is taken to return the new value.
ForwardParaOffByOne(t) ==
  LET u == Top(t).unit IN
  /\ IsAt(t, "forward") /\ kind[u] = "para"
  /\ unfinished' = [unfinished EXCEPT ![u] = @ - 1]
  /\ Replace(t, IF unfinished[u] = 0 THEN Successors(u) ELSE <<>>)
  /\ UNCHANGED <<graph, forwards, dependencies, synchronizer, queued, main,
                 ended, lost>>

ForwardPara(t) ==
  LET u == Top(t).unit IN
  /\ IsAt(t, "forward") /\ kind[u] = "para"
  /\ unfinished' = [unfinished EXCEPT ![u] = @ - 1]
  /\ Replace(t, IF unfinished[u] = 1 THEN Successors(u) ELSE <<>>)
  /\ UNCHANGED <<graph, forwards, dependencies, synchronizer, queued, main,
                 ended, lost>>

-----------------------------------------------------------------------------
(* Main waits                                                              *)

Goto(from, to) ==
  /\ pc = from /\ pc' = to
  /\ UNCHANGED <<graph, units, synchronizer, initial, queued, stack, pos, passed,
                 ended, lost>>

CallsMade == stack[Main] = <<>> /\ Goto("calls", "predicate")
Predicate == Goto("predicate", IF synchronizer = 0 THEN "shutdown" ELSE "block")
Block == Goto("block", "asleep")
SpuriousWake == Goto("asleep", "predicate")

\* Slip: the pool is not shut down.
ShutdownSkipped == Goto("shutdown", "done")

\* wait_all_done() has found the worker idle.  Nothing keeps one that was passed
\* from taking a task.
Pass(w) ==
  /\ pc = "shutdown" /\ stack[w] = <<>>
  /\ passed' = passed \cup {w}
  /\ UNCHANGED <<graph, units, synchronizer, initial, queued, stack, pc, pos,
                 ended, lost>>

\* shutdown() returns; then the locals of this function, and soon the units, are
\* destroyed.
Shutdown == passed = Workers /\ Goto("shutdown", "done")

-----------------------------------------------------------------------------
\* What a thread does once it has a task, but for submit(), which may find no
\* room in any queue.
Run(t) == \/ NoticeDependency(t) \/ CountDown(t) \/ NotifyMain(t) \/ Activate(t)
          \/ EndBody(t) \/ ForwardMono(t) \/ ForwardPara(t)

\* What it waits for the pool to let it do.
Served(w) == Submit(w) \/ Pass(w) \/ \E u \in Nodes : Take(w, u)

MainStep == \/ Generate \/ Collect \/ Start \/ Run(Main) \/ CallsMade
            \/ Predicate \/ Block \/ Shutdown

Next == \/ \E w \in Workers : Run(w) \/ Served(w) \/ Throw(w)
        \/ MainStep \/ Submit(Main) \/ SpuriousWake

Spec == Init /\ [][Next]_vars

\* Every thread is scheduled.  The pool owes nothing here: it may leave a task in
\* its queue, since notifications get lost (SleepersAreNotified in ThreadPool).
FairSpec == /\ Spec
            /\ WF_vars(MainStep)
            /\ \A w \in Workers : WF_vars(Run(w))

\* A pool that has room for every task, runs it, and can be shut down.
ServedSpec == /\ FairSpec
              /\ WF_vars(Submit(Main))
              /\ \A w \in Workers : WF_vars(Served(w))

-----------------------------------------------------------------------------
Frames == [op : {"body", "forward"}, unit : Nodes]
          \cup [op : {"submit"}, unit : Nodes, tasks : 1..Parts]
          \cup [op : {"call"}, calls : Seq(Nodes \cup {Final}), serialize : BOOLEAN]
          \cup [op : {"activate"}, unit : Nodes, tasks : 0..(Parts - 1)]
          \cup {Notice}

\* Every variable stays in its type: no counter of the units is decremented more
\* often than it was incremented, which would wrap it.
TypeOK ==
  /\ operands \in Graphs
  /\ kind \in [Nodes -> {"basic", "mono", "para"}]
  /\ forwards \in [Nodes -> Seq(Nodes \cup {Final})]
  /\ dependencies \in [Nodes -> Nat] /\ unfinished \in [Nodes -> Nat]
  /\ synchronizer \in Nat
  /\ initial \in Seq(Nodes \cup {Final})
  /\ queued \in [Nodes -> Nat] /\ ended \in [Nodes -> Nat]
  /\ stack \in [Threads -> Seq(Frames)]
  /\ pc \in {"generate", "collect", "start", "calls", "predicate", "block",
             "asleep", "shutdown", "done"}
  /\ pos \in Nodes /\ passed \subseteq Workers /\ lost \subseteq Nodes

\* The tasks of a unit come to life together, when the last predecessor calls,
\* and each is run once: none is submitted twice, and none is both submitted and
\* run on its predecessor's thread (lines 163-166, 254-260).
InHands(u, op) ==
  Cardinality({p \in Threads \X (1..NumNodes + 1) :
                 /\ p[2] <= Len(stack[p[1]])
                 /\ stack[p[1]][p[2]].op = op /\ stack[p[1]][p[2]].unit = u})

TasksRunOnce ==
  \A u \in Nodes : /\ queued[u] + InHands(u, "body") + ended[u] <= NumTasks(u)
                   /\ dependencies[u] > 0 =>
                        queued[u] + InHands(u, "body") + ended[u] = 0

\* What a thread may be in the middle of when the counter is zero: nothing, the
\* notification, or activate() after the push of a unit's last task, which another
\* thread has run meanwhile (TaskHandler.cpp, lines 174-176).
Leftover == {<<>>, <<Notice>>} \cup {<<Activating(u, 0)>> : u \in Nodes}

\* When the wait has ended, every task was taken and run, and no thread will make
\* a call to a unit or to the counter any more, although shutdown() may still be
\* overtaken by an activation. When shutdown() returns, nobody is in the middle of
\* anything, although the workers were passed one after the other: the locals of
\* await_pipeline_accomplish() and the units can be destroyed (integer.cpp, lines
\* 176-193). An executor activated late may stay awake, with nothing to run.
OnlyNoticesLeft ==
  /\ pc \in {"shutdown", "done"} => /\ \A u \in Nodes : queued[u] = 0
                                   /\ \A t \in Threads : stack[t] \in Leftover
  /\ pc = "done" => \A t \in Threads : stack[t] = <<>>

\* The pool has a task in a queue, or somebody waits for room in one.
PoolOwes == \/ \E u \in Nodes : queued[u] > 0
            \/ \E t \in Threads : IsAt(t, "submit")

\* Once Main has begun to wait the counter comes to zero, in every graph, unless a
\* task was lost or the pool leaves one waiting for ever: every unit is called by
\* all of its predecessors, and the ones nobody follows are exactly those that were
\* counted.
Waits == pc \notin {"generate", "collect", "start", "calls"}
CounterDrains ==
  <>((Waits /\ synchronizer = 0) \/ lost # {}) \/ <>[]PoolOwes

\* Every update computes the graph in order (Dataflow).
Flow == INSTANCE Dataflow WITH
          complete <- {n \in Nodes : ended[n] = NumTasks(n)},
          returned <- pc \in {"shutdown", "done"}
KeepsOrder == Flow!GraphSpec

-----------------------------------------------------------------------------
\* The update returns, as the test that prints a sum of 20000 terms expects
\* (integertest.cpp, line 19), if the pool does its part (ServedSpec): the lost
\* notification is one of this module's own.
AwaitReturns == pc = "predicate" ~> pc = "done" \/ lost # {}
=============================================================================
