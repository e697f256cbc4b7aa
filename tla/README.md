# Formal models of pmplib

This directory holds TLA+ models of the library in `src/`, the TLC
configurations that check them on small instances, and theorems that TLAPS
checks for every instance. `PROJECT.json` is the machine-readable index: it
maps each definition to the lines it stands for.

## 1. The system

pmplib computes with long integers. An expression builds a graph of nodes; an
update of the graph generates compute units for the nodes, which run as tasks
of a thread pool; digits live in blocks of a shared memory pool; everything
logs into one log.

| Component | State | Operations | Meets |
|---|---|---|---|
| `LockFreeQueue` (putils) | ring of nodes (pointer, ready flag); `head`, `tail`, `qlen` | `try_push`, `try_enqueue`, `try_pop`, `empty`, `size` | queue of every executor, buffer of the log |
| `TaskHandler`, `ThreadPool` (putils) | per executor a queue, `state`, `quit`, `active_workers`, a lock and two condition variables | worker loop, `submit`, `activate`, `wait_all_done`, `work_stealing`, `shutdown`, destructors | runs the compute units; a running unit submits its successors |
| `MemoryPool`, `MetaBlock`, `MemBlock` (putils) | per shard a list of blocks, an index by length, the total, a lock | `allocate`, `release`, `report` | stores of the nodes, from any worker |
| `RuntimeLog`, `TerminateCalls` (putils) | queue of entries, flushing flag, settings, callbacks | `add`, `flush`, `set_global_log`, terminate hook, destructor | called by everything |
| Compute units, synchronizers (core, `Basics`) | predecessor counters, forward calls | `dependency_notice`, `forward`, `add_dependency` | tasks of the pool; count down what `await` waits for |
| `AddNode`, digit kernels (core, `Arithmetic`), digit I/O | stores of digits | add, subtract, compare, multiply; read and print | bodies of the compute units; reading and printing of integers |
| `IntegerVarReference`, `IntegerDAGContext` (core, `integer.cpp`) | signatures, nodes, `need_update` | construct, copy, assign, operators, `update` | build the graph, shut the pool down after it |
| `FiniteStateMachine`, `GlobalConfig`, `ConfigParser` (core) | transition tables; tree of settings | `step`, `read_from`, `insert`, `export_all`, `get_or_else` | read once at start |
| text output, exceptions, `AlignedMem`, visualiser | - | formatting and system calls | - |

What is hard about it, and therefore what the models aim at:

- the queue is lock-free: two counters and a flag per node are read at
  different moments, and the ring wraps;
- a worker decides to sleep from an emptiness test, a state and a failure
  count that other threads change meanwhile, and the waker does not take the
  lock of the condition variable;
- shutdown waits for sleeping workers while tasks still submit tasks;
- the allocator's index is deliberately out of date, and blocks that were
  merged away still exist while it mentions them;
- the engine awaits a counter whose last decrement is notified without the
  lock;
- the log's flush, its settings and the terminate hook race, and files fail to
  open;
- an update is lazy: between the operator and the update an integer is copied,
  moved, assigned and destroyed, shares its node with others, and an update may
  throw half way;
- the settings are parsed by an automaton that sees one character twice, from
  files that may be cut short.

The properties that make each component correct: *queue* - one owner per node,
FIFO, nothing lost or made up, an honest emptiness test; *pool* - each task once,
a quiet shutdown, no lost wakeup; *allocator* - the list tiles the memory, regions
in use are disjoint and stable, free memory is found and coalesced; *log* - each
entry in one place and in order, also over the end of the process, and nobody
spins for ever; *units* - a unit runs after its predecessors, once, and the
waiter wakes; *integers* - lazily computed values are those of an eager program;
*digits* - they stand for these values; *settings* - what is written is read back,
an insertion is atomic.

## 2. Modules

| Module | What it is |
|---|---|
| `BoundedFifo` | what the queue promises: a FIFO of at most `Capacity - 1` items |
| `LockFreeQueue` | `try_push`/`try_pop` access by access; its properties and the refinement mapping to `BoundedFifo` |
| `LockFreeQueueProofs` | theorems about `LockFreeQueue`: types, exclusive access, order; the refinement, the counter, honest reports of emptiness |
| `ThreadPool` | executors, workers, submitters, the owner; uses the queue as the atomic FIFO of `BoundedFifo` |
| `ThreadPoolProofs` | theorems about `ThreadPool`: types, `wait_all_done()`, each task once, teardown, quiet after a wait for the tasks |
| `AllocatedRegions` | what a shard of the memory pool promises: each call gets a region as long as it asked for, to itself, or none |
| `MetaBlock` | one shard, list, index and calls; refines `AllocatedRegions` |
| `MetaBlockProofs` | theorems about `MetaBlock`: types, handles, the refinement; the search, what a refusal means, free memory in one piece, the list as the memory |
| `Dataflow` | what an update of a graph promises: each node once, after its operands, and a return when all are done |
| `Pipeline` | compute units, `generate_procedures` and `await_pipeline_accomplish`; refines `Dataflow` |
| `PipelineProofs` | theorems about `Pipeline`: its invariants and the refinement |
| `RuntimeLog` | the log, its settings, the terminate hook and the end of the process |
| `RuntimeLogProofs` | theorems about `RuntimeLog`: all its invariants |
| `EagerIntegers` | what the integers of a context promise: a value from the moment they are made |
| `IntegerContext` | signatures, nodes, `update()`, printing and sorting; refines `EagerIntegers` |
| `IntegerContextProofs` | theorems about `IntegerContext`: its invariants, the topological sort, the refinement |
| `Digits` | kernels, addition of stores, reading and printing as operators, compared with the integers |
| `DigitsProofs` | theorems about `Digits`: sums, products, printing and reading, for every length and base |
| `ConfigParser` | the automaton and its one chart, from text to tokens |
| `GlobalConfig` | the tree of settings: insertion, export, reading, construction |
| `GlobalConfigProofs` | theorems about `GlobalConfig` and `ConfigParser` |
| `MC...` | instances for TLC: symmetry sets, the children of tasks, the files a program may find; `MCIntegerContext` composes `IntegerContext` with `Digits` |

Definitions called *Slip* in a comment stand beside the action they resemble:
each is a plausible mistake in that piece of code, is used by no specification,
and makes one property fail when it takes the action's place.

### LockFreeQueue

| Model | Code (`LockFreeQueue.hpp`) |
|---|---|
| `ready`, `data`, `head`, `tail`, `qlen` | the members of the same names |
| `index[t]` | `current_tail` or `current_head` in thread `t` |
| `arg[t]` | the caller's `data_ptr` |
| `PushLoad`, `PushFull`, `PushReady`, `PushSwap`/`PushRetry`, `PushCount`, `PushStore`, `PushPublish` | lines 144, 145-148, 154, 155-159, 166, 167, 168 |
| `PopLoad` ... `PopClear` | lines 183-203 likewise |

`log`, `taken` and `ticket` are ghosts that count without the modulus. A weak
exchange may fail although the index is the expected one (`PushRetry`,
`PopRetry`). Memory is sequentially consistent: the flag is stored with release
and loaded with acquire, and the exchanges are acquire-release, so a thread
that claims a node sees what its former owner wrote; what is not modelled is
the reordering of accesses to different atomics.

`Spec` lets a thread be overtaken by a full lap of the ring; `LapFreeSpec` adds
what the comment in lines 160-163 takes for granted, that this does not happen
between the load of an index and the exchange. Safety is checked and proved
under `LapFreeSpec`; `lfq_lap` shows that it is needed.

### ThreadPool

| Model | Code (`TaskHandler.cpp`) |
|---|---|
| `TryPop`, `CheckEmpty`, `ReadState` | lines 20, 30, 31 |
| `Steal`, `StealFailed` | `work_stealing` 192-205, and line 61 |
| `GoIdle`, `Predicate`, `Block`, `Wake`, `Leave` | the wait under `cv_lock`, lines 36-47 |
| `Push`, `Activate`, `Notify` | `submit` 171-181 and `activate` 90-94 |
| `WaitAllDone`, `WaitWakes` | `wait_all_done` 83-88, once per executor of `shutdown` |
| `SetQuit`, `QuitNotify`, `Join` | `~TaskHandler` 74-81 |
| `AwaitLatch`, `WorkIsDone` | the wait of `await_pipeline_accomplish` (`integer.cpp` 155-178) for a counter that its tasks count down |
| `CallShutdown`, `CallDestructor` | `shutdown` 207-212, `~ThreadPool` 123 |

The predicate of the condition variable and the sleep are two steps because
`state` and `quit` are written without the lock; what is only touched under the
lock is one step with it. Spurious wakeups are possible and never owed. Tasks
may submit tasks (`Children`), the owner submits `Roots`. Work stealing is
compiled in, the default of the build. The pool's random choices are any choice.

The owner may call `shutdown()` and the destructor at any time. `awaited` says what
it knows: `"tasks"` once a counter that the tasks themselves count down has come to
zero, and `"shutdown"` once a `shutdown()` after that has returned, which is what
`integer.cpp` does. The counter says that every task was taken and its body is over
but for what follows its last submission: a worker may still stand between `try_push`
and `activate()`, or in its notification (`WorkIsDone`), and activate an executor that
`shutdown()` has passed already. So `QuietAfterAwait` is about the return of `shutdown()`
and does not say that all workers sleep: those of that executor may be awake, looking
for tasks that nobody submits.

`QueueIsServed` has two halves. A worker that has yet to look at its queue before it
may sleep (`LooksFirst`: it runs, steals, or is at the test for emptiness) leads to an
empty queue, an inactivation in between or not; one that has looked, on its way to
sleep or awake from it (`LooksIfActive`), does as long as the executor is ACTIVE. Left
out is the worker between its predicate and its sleep, which a notification misses:
that is `SleepersAreNotified`, and `pool_wakeup` shows it violated.

After `~ThreadPool` has passed `shutdown()`, a worker that still runs a task
nobody awaited touches freed memory in the code; the model goes on as if the
memory were intact, and `TeardownIsSafe` says for which callers this never happens.

### MetaBlock

A block is `<<segment, offset, copy>>` and keeps the fields of `MemBlock`;
an invalid block stays in `block` while `index` refers to it, as the
`shared_ptr` does. `index` is the multimap in its order: a new entry goes behind
those with its key. `try_assign` and `extend_and_assign` hold `list_lock` from
`Allocate`/`Extend` until they return, one iteration of the search or of the
compaction per step; the lock is free in between (`"extend"`). The operating
system refuses a segment at any time (`ExtendThrows`), and always after
`MaxSegments`. Requests are positive, as every caller's are. There may be no
memory either for a `MemBlock` or for an entry of the index (`Throw`): the call
throws between two of its assignments, after the entry of the block was erased
(`SplitThrows`, `ReindexThrows`), after the next block was relinked
(`SplitHalfDone`), or after the segment was linked (`ExtendHalfDone`). In
`release()`, which is `noexcept`, the process ends; no state follows.

In `AllocatedRegions` every thread has its request (`asked`), from the call of
`allocate` to its answer, and only a region of at least that length answers it.

### Pipeline

| Model | Code |
|---|---|
| `operands`, `kind` | the node list: constants, and operations on earlier nodes |
| `forwards`, `dependencies`, `unfinished` | `forward_calls`, `dependency_synchronizer`, `forward_synchronizer` of each unit (`Basics.h`) |
| `Generate` | `generate_procedure` of a node with `add_dependency` on its operands (`Arithmetic.cpp` 94-103) |
| `Collect`, `Start` | the walk that counts the units without successor and collects the calls of constants (`integer.cpp` 160-174) |
| `NoticeDependency`, `Launch` | `dependency_notice`, which runs or submits the task |
| `Submit`, `Activate` | `submit`: the push, and then `activate()`, for one task after the other (`TaskHandler.cpp` 171-181) |
| `ForwardMono`, `ForwardPara` | `forward` of the two kinds of unit |
| `CountDown`, `NotifyMain` | the call added for the waiting thread (`Basics.h` 367-376) |
| `Predicate`, `Block`, `Pass`, `Shutdown` | the wait (`integer.cpp` 175-176); `shutdown()` finds the workers idle one after the other, and returns (177) |
| `Take`, `EndBody`, `Throw` | a worker gets a task; its body succeeds, or throws and is logged |

`stack[t]` is the call stack of a thread as far as it matters: a unit with one
successor runs that successor inside its own task (the thread binding the build
enables), one with several submits them. The graph is fixed by the initial
state, and every graph of `NumNodes` nodes is one. The engine's only operation
has a `MonoUnit`; the runs also give operations a `ParallelizableUnit` of two
tasks, as the test of the compute units does. The pool is reduced to what
`ThreadPool` shows of it: tasks are taken once, in any order, and `shutdown()` passes
the workers one by one when it finds them idle (`passed`), without keeping those it has
passed from working. A task may be taken, run and finished between its push and the
`activate()` of the thread that pushed it, so the counter may be zero while that
thread has still to activate an executor (`Leftover`); the call of `shutdown()` may
then never return, as `pool_hang` shows of the pool, but if it does, nobody is inside
anything (`OnlyNoticesLeft`). `FairSpec` says nothing in favour of the pool, which may
leave a task in its queue for ever (`pool_wakeup`) or have no room: `CounterDrains` is
the engine's half, that the counter comes to zero unless the pool owes something for
ever. `ServedSpec` adds a pool without fault; only `pipe_wait` uses it, to show that
the lost notification is the engine's own. Loads and stores of data are not part of this module.

### RuntimeLog

| Model | Code (`RuntimeLog.cpp`) |
|---|---|
| `setup` | the static settings; `capacity` is that of the queue once the log exists |
| `BeginSetting`, `SetGlobalLog`, `Construct` | `set_global_log` 97-114, from the lock to the assignments; the constructor 71-78 |
| `BeginAdd`, `Enqueue`, `EnqueueFails`, `CheckSize` | `add` 171-182 |
| `Swap`, `CopySettings`, `Open`, `Pop`/`PopFails`, `Write`, `Close` | `flush` 121-169, the guard included |
| `OpenFails`, `OpenKills`, `OpenCrashes` | the file does not open and the exception is caught, or not caught; the path is read while it is assigned, and the process crashes |
| `Terminate`, `Exit`, `CheckEmpty`, `End` | the terminate hook 5-63, the end of `main`, the destructor 80-89 |

The buffer is the FIFO that `LockFreeQueue` is shown to implement, and an entry
is its number in the order of acceptance with its level. `flush` copies path and
level under the lock and then opens the static path without it
(`Open` reads `setup.path` again; the header calls it protected, line 118), so
that path and level of one flush may belong to different settings. While
`set_global_log` is assigning, that read is a data race: `Open` gets any path, or the
process crashes (`OpenCrashes`). Files fail to open any number of times. If nobody
catches the exception of `flush`, the process terminates (`OpenKills`), and the guard
runs first only if the stack is unwound on the way, so the flag may stay set with no
thread inside (`Abandoned`). A length the
queue refuses ends the process inside the `noexcept` accessor (`"refused"`).
A second thread that terminates aborts at once while the first still flushes
(`"cut"`); nothing is promised then. Between the destructor in the hook and
`abort()` other threads may touch the freed buffer; the process ends either way,
so the model has no state in between. What a flushing thread has taken out and not yet
written is lost at `abort()`: `EndKeepsLog` says that nothing else is, of what was accepted before
the destructor saw the buffer empty.

### IntegerContext and Digits

| Model | Code (`integer.cpp`) |
|---|---|
| `nodes`, `signatures`, `need_update` | the fields of a context; a node names its operands by their place in the list |
| `ref[v]` | the node handle of integer `v` |
| `Make`, `Copy`, `MoveConstruct`, `Assign`, `MoveAssign`, `Destroy`, `Add` | 207-288 and 569-581 |
| `AssignReleased`, `AddReleased`, `ShowReleased` | the calls that do not ask whether an integer was moved from: lines 258 and 285, 570, 298 |
| `Update`, `UpdateThrows`, `UpdateSpoils`, `UpdateNever` | the ways `update` 195-205 can end |
| `Kept`, `Results`, `Succeeds` | the flags and data of `generate_procedures` 144-151, `clean_up` 181-193 |
| `Show`, `ShowThrows` | `operator<<` 297-301, which is `noexcept` |
| `Sort`, `Sorted`, `Visit`, `Relax` | `nodes_sort` 125-134, `nodes_topological_sort` 533-567 |

The update itself is what `Pipeline` shows of it: every node once, after its
operands. An attempt that throws leaves the units it has generated; the next
attempt then waits for units that nobody calls, or follows a unit that was
destroyed (`Hangs`). A refused text leaves a signature without an integer
(`Dangling`), which the next update follows. An integer that was moved from
(`released`) is a null pointer: copying or moving it throws and changes nothing,
assigning to it and adding it follow the pointer, and printing it throws inside
`noexcept`. An attempt that finds no memory after the units are generated, in
`await_pipeline_accomplish` or in `clean_up`, leaves constants with units, nodes
without data, and some integers with nodes that no list holds; no later update of
that context returns (`UpdateSpoils`), and the model does not follow what it still
holds. All these are in the model as ends of the
run, and `KeepsValues` says that until then no integer changes its value.

In `IntegerContext` data are numbers and sums are cut off at `Modulus`. `Digits`
has the stores: `Addition`, `Subtraction`, `Compare` and `Multiplication` are the
loops of `ArithmeticFunctions.hpp`, `Sum` the body of the task, `Parses`/`Parsed`
and `Printed` the reading and printing in `Basics.cpp`. `MCIntegerContext` sets
`Modulus` to that power of `Base`, and `DigitsAreExact` says that the numbers in the nodes
have the digits and the text the kernels make. It also assumes, and TLC
evaluates, that the topological sort of every list of four nodes, in whatever
order the hash table gives the roots, puts operands first and keeps the nodes.
`SortsWell` is the proof for lists of any length.

### ConfigParser and GlobalConfig

| Model | Code |
|---|---|
| `Edges`, `Act` | the transitions and their actions, `GlobalConfig.h` 246-264 |
| `Step`, `Advance`, `Start`, `Accepted` | `FiniteStateMachine.hpp` 49-63, 242-258, 225-231, 265-270 |
| `Tokens` | `parse_and_get_tokens`, `GlobalConfig.h` 272-283 |
| `Take` with `Brace`, `Member`; `Built` | one turn of the loop of `parse_and_set`; the whole of it, `GlobalConfig.cpp` 239-290 |
| `Descend`, `Inserted`, `Insert` | one turn of the loop of `insert`; the whole of it, 134-172 |
| `Written`, `Export` | `recursive_write` 174-213, `export_all` 215-237 |
| `Load`, `Read`, `Construct...` | `read_from` 292-316, the constructor 87-101 |

A tree is a function from paths to values or `Domain`. A character of the model
stands for a class: a word of letters, digits, signs and dots, one punctuation
mark, a run of white space; quotes, backslashes, braces, commas and colons are
themselves. Words and punctuation are apart (`CharsAssumption`), as the character sets of
the automaton are; `Odd` are the control characters and the bytes outside ASCII that are
in none of its sets, and make it throw. A value is what the program gives (`Proper`): a
string of any characters, an integer or a truth value that is printed as one word, a
real, or the empty value of a default-constructed `ConfigType`. A real is printed with
six digits (`Printed`), so what is read back is what these say, perhaps an integer
(`Reread`). A string is quoted and escaped; the automaton knows no escapes, and throws at
an odd byte, so that the whole file is not read. The operator that writes an empty
value calls itself for ever (`ExportCrashes`). The children of a domain are written in the order of `Names`, any order that
is always the same; the code's is that of `std::map`. All calls hold `config_lock`, so each is
a step. What reaches a file is any prefix of the text, since nobody looks at the
stream.

## 3. Runs

| Run | Instance | Shows |
|---|---|---|
| `lfq` | ring of 4, two producers and two consumers of which one thread is both, 5 pushes (a lap and a node more), 2 items | types; `SlotExclusive`; `DeliversInOrder`; `SizeInRange`; `EmptyIsHonest`; `FailedPopSawEmpty`; refinement of `BoundedFifo` |
| `lfq_live` | two threads doing both, 5 pushes, fairness | every call returns |
| `lfq_lap` | `Spec` without the assumption | `OnlyReadyNodes` fails: a full lap hides an index that moved |
| `pool` | 2 executors of 1 worker, queues of 1, 3 tasks, one submits another, one `shutdown`, then the destructor, fairness | `EachTaskOnce`, `WaitAllDoneIsQuiet`, `QuietAfterAwait`, `TeardownIsSafe`; `ShutdownReturnsIfQuiet`, `QueueIsServed` |
| `pool_hang` | 2 executors, a task that submits during shutdown, fairness | `ShutdownReturns` fails: a livelock |
| `pool_wakeup` | 2 executors | `SleepersAreNotified` fails: a lost wakeup |
| `alloc` | 2 threads, segments of 4 and 8, 2 segments, requests of 1, 6 and 20, 1 exception for want of memory | `Tiled`, `HandlesAreBlocks`, `Coalesced`, `SearchShrinks`, `FailedTrySawNoFit`, `NullIsTooLarge`, refinement of `AllocatedRegions` |
| `pipe` | all graphs of 4 nodes, units of 1 or 2 tasks, 2 workers, at most 1 lost task, fairness of the threads, none of the pool | `TasksRunOnce`, `OnlyNoticesLeft`, `CounterDrains`, refinement of `Dataflow` |
| `pipe_wait` | 3 nodes, 1 worker, fairness, a pool without fault | `AwaitReturns` fails: the notification is lost |
| `log` | 2 threads, ring of 4 or refused (6), 2 levels, calls of `add` until 3 entries are accepted, 1 change of the settings, files that fail to open at any time, 1 path, fairness | `EachEntryOnce`, `WrittenInOrder`, `EndKeepsLog`, `CallsReturn` |
| `ctx` | 3 integers, released ones included, 3 nodes, 2 updates, 1 failure, 1 sort, stores of 2 digits in base 4 | `GraphIsSound`, `DigitsAreExact`, refinement of `EagerIntegers` |
| `config` | 2 names, keys `a`, `a/b`, `b`, a real whose six digits are a whole number, a string with an odd byte, an empty value, all files of up to 4 of 7 pieces, 1 export | `SettingsSurviveExport`, `ParserReturns`, `InsertIsAtomic` |

Bounds, and why they are enough:

- `MaxPushes` is one more than the ring has nodes, so a node is used again while
  a slow consumer may still be clearing it. `Capacity = 4` is the smallest the
  constructor accepts. The proofs need neither bound.
- `QueueLimit = 1` makes a submission find a full queue and go elsewhere; two
  executors are the fewest with stealing and with an order in `shutdown()`.
  `MaxShutdowns` bounds the calls of `shutdown()` before the destructor.
- `MaxLog = 3` stands for 32 and `MinLog = 2` for 12, `Alignment = 2` for 64: a
  segment holds up to four blocks, enough for a released block with free
  neighbours on both sides; 20 bytes fit in no segment. `MaxSegments = 2` has
  one border between segments. `MaxIndex = 3` lets the index hold a stale, a
  duplicate and a live entry when a call begins; calls stop there, which is why
  this run does not check deadlock. That a search ends is `SearchShrinks`, a
  measure that every turn of the loop lowers, instead of a liveness property.
  `MaxFailures = 1` lets each place throw; the exception counts as an entry in
  `MaxIndex`, since it erased one.
- Four nodes give every shape that matters to the counters: a node used twice by
  one operation, by two operations, a diamond, a chain, an unused constant, two
  sinks. `Parts = 2` lets two tasks of a unit end together, two workers let two
  predecessors call at once. `MaxLosses = 1` bounds the tasks that throw.
- The run of the pool does not check deadlock either: the program ends when the
  owner is gone, and a lost wakeup really stops it before.
- `MaxAdds = 3` fills the ring of four, which holds three entries; an `add` may
  begin as long as fewer were accepted, so that a second adder already inside
  finds the ring full and spins while the other flushes. A file
  may fail to open at any time, in `add`, in `flush` or in the destructor, caught or
  not. There is one path: changes of file are covered by the theorems alone. `MaxSettings = 1` changes the level
  or, before construction, the capacity, at every point.
- Three nodes hold a constant, a sum, and a sum of sums or of one node twice;
  three integers let two share a node and the third hold another. `MaxUpdates = 2`
  allows an update after one that failed or succeeded. Digits in base 4 of two
  binary digits of text each have every carry and group; the run compares all
  stores with each other. The calls stop at the bounds: no check for deadlock.
- Four pieces of text give nested, repeated, unbalanced and unaccepted files.
  One export suffices, since what is read back is what an export wrote. Calls stop
  only when the process has undefined behaviour, so deadlock is not checked.

Fairness. *Queue*: every thread inside a call runs, and an exchange that is tried
again and again with an unmoved index does not fail spuriously for ever.
*Pool*: every worker and the owner are scheduled, strongly, because a mutex
that is released again and again is eventually obtained; calls of the owner and
spurious wakeups are not fair. *Allocator*: none, since
`SearchShrinks` bounds the only loop that could fail to end.
*Pipeline*: weak fairness for the calling thread and for each worker inside a task,
none for the pool (what it takes from its queues, room in them, `shutdown()`), spurious
wakeups and exceptions; `pipe_wait` has it for the pool too. *Log*: weak fairness for
each thread inside a call and for the assignment of settings under its lock; since the entries are
bounded a thread that spins in `add` is not overtaken for ever: the code gives no such
guarantee. `CallsReturn` allows two things in which the code really never returns:
files that from some time on never open, and an abandoned flag.
*Integers* and *settings*: none.

## 4. Proofs

`LockFreeQueueProofs` proves, for every power of two `Capacity >= 4`, every set of
producers and consumers, finite or not, and every number of pushes:

- `TypeCorrect`: `Spec => []TypeOK`, laps or not;
- `NoDataRace`: `LapFreeSpec => []SlotExclusive`;
- `DeliveryInOrder`: `LapFreeSpec => []DeliversInOrder`;
- `EmptyReports`: `LapFreeSpec => FailedPopSawEmpty`.

None of these invariants is inductive. `RingInv` strengthens them by relating
the reduced indices to the ghost counts: `head` and `tail` are `taken` and
`Len(log)` modulo the capacity and less than a ring apart (`Window`); a thread
that has loaded an index has seen a count not beyond the present one
(`Loaded`); a thread that fills or clears a node holds the ticket of that node,
within one lap (`Producing`, `Consuming`); what was stored is the item of the
ticket, and a node's flag tells which kind of thread may claim it
(`Stored`); and two owners never have tickets a lap apart (`Unshared`). The
arithmetic lemmas (`SlotUnique`, `SlotNext`, `SlotWrap`) say that two counts less
than a ring apart have different slots; one lemma per action shows that it
keeps `RingInv`. The assumptions used are those of the module, which TLC
evaluates on each run.

The second half of the module builds on `RingInv` and proves, under the same assumptions:

- `RingImplementsFifo`: `LapFreeSpec => ImplementsFifo`, the refinement of
  `BoundedFifo`: a push that stores and a pop that takes are its steps, and every
  other access is a stutter;
- `CounterInRange`: `LapFreeSpec => []SizeInRange`;
- `EmptyAnswerIsHonest`: `LapFreeSpec => []EmptyIsHonest`.

`SizeInRange` needs `CounterInv`: `qlen` is the number of items in the ring, less
the pushes between their exchange and their count, plus the pops between theirs.
Each such push holds the ticket of an item of its own in the ring, and each such
pop one of the tickets that precede the ring's items by less than a lap; these
are injections, so the pigeonhole principle bounds the counter on both sides,
and a counter of zero means that every item belongs to an uncounted push.

`ThreadPoolProofs` proves, for every number of executors and workers, every set of
tasks and whatever they submit, every capacity and threshold:

- `PoolTypes`: `Spec => []TypeOK`, with queues within their capacity, failure
  counts within the threshold, and `active_workers` within `0..NumWorkers`;
- `QuietWhenWaitReturns`: `Spec => WaitAllDoneIsQuiet`.

Neither is inductive. `PoolInv` adds that what is queued or run was submitted,
that a thread inside `submit` has a task (`Held`), that a worker steals only below
the threshold (`Patient`), and, the heart of it, that `active[e]` is the number of
workers of `e` that are not between their decrement and the next increment
(`ActiveCounts`). The lemmas `CountsStay`, `CountsDown` and `CountsUp` carry this
cardinality through a step that changes the state of one worker, or notifies
several; then a count of zero means an empty set, and only the steps that
test the count let `wait_all_done()` return.

The second half of the module proves, with the one further assumption that a task is one
submission (`SubmissionAssumption`: what two tasks submit is disjoint, and nobody
submits the owner's tasks again; the run that lets tasks submit satisfies it):

- `TasksRunOnce`: `Spec => []EachTaskOnce`;
- `TeardownSafe`: `Spec => []TeardownIsSafe`;
- `QuietOnReturn`: `Spec => QuietAfterAwait`.

`OnceInv` says where a task may be (in one place of one queue, in the hands of one
worker, or finished, and these exclude each other, `Once`), what a body has left
to submit (a final piece of the children of its task, `Lineage`), and that neither
that nor the children of what has not run were ever submitted (`Unborn`), which
is why a submission is always of a new task. `AwaitInv` says what holds once the
owner has waited for its tasks. Nothing is queued and no body has anything left to do
but the end of its last submission (`Drained`), which no step undoes, since only a body
submits. In the `shutdown()` that follows (`TasksAwaited`), no worker of an
executor that was passed is inside a task or `activate()` (`Rests`): all slept when it was passed,
and one that wakes finds no task. Once that call has returned nobody is left who could
activate anything, so that in the next one, the destructor's (`ShutdownAwaited`), an
executor that was passed stays inactive and asleep for good (`Settled`).

`RuntimeLogProofs` proves, for every number of threads, entries, files and every
buffer size, all invariants of the log:

- `LogTypesAlways`, `EntriesInOnePlace`, `FilesInOrder`, `LogSurvivesTheEnd`:
  `Spec => []TypeOK`, `[]EachEntryOnce`, `[]WrittenInOrder`, `[]EndKeepsLog`.

They rest on one invariant, `LogInv`, which TLC also checked: at most one thread
is inside `flush` past its flag, and the flag is set while it is (`OneFlusher`); who
holds entries stands between taking them out and writing them (`HandsEmpty`); in
`exit()` only the thread of the destructor is left in the log (`LastOne`); entries
are numbered as they were accepted, each is in one place (`Numbered`, `OnePlace`), and
what is on file precedes what is in hand, which precedes what is in the
buffer. The order alone is not inductive: a second thread that flushes could write
its younger entries first. For the end of the process, the destructor leaves its loop when the
buffer is empty; an entry accepted before that is then in a file, filtered, or in the
hands of a thread past the flag, and by `OneFlusher` there is only one.

`MetaBlockProofs` proves, for every number of threads, every set of positive
requests, every alignment that divides the smallest segment, and all limits of
growth, segments and failures:

- `ShardTypes`: `Spec => []TypeOK`; `HandlesStay`: `Spec => []HandlesAreBlocks`;
- `ShardImplementsRegions`: `Spec => KeepsPromise`, the refinement of
  `AllocatedRegions`: a call is its call, a search that hands out a block its allocation,
  of at least the length that very call asked for, a refusal or an exception
  that ends the call its refusal, a release its release; extension, compaction and the
  turns of the search are stutters.

They rest on `ShardInv`, checked by TLC first. Its heart is `Layout`: blocks
lie inside their segments (`Inside`) and apart (`Apart`), each begins where the one
before it ends or with the next segment (`Chained`), and a block that points back
points to the block that points to it (`Returning`). With it go `Kept`, that an
object exists only while the list or the index refers to it, and `Control`, that
one thread holds the lock and a compaction stands at a free block of the list. Each
of splitting, linking and merging has a lemma that says what becomes of the fields
and one that says that `Layout` survives. That a new object has a name (`NewIs`) is
a pigeonhole argument: of the objects at one address at most one is in the list, the
others are in the index, so that one more than the index has entries suffices.

The second half of the module builds on `ShardInv` and proves, for the same instances,
all other properties of the shard:

- `SearchEnds`: `Spec => SearchShrinks`;
- `FailureMeansNoFit`, `OnlyTooLargeIsRefused`: `Spec => FailedTrySawNoFit`,
  `Spec => NullIsTooLarge`;
- `FreeMemoryIsWhole`: `Spec => []Coalesced`;
- `ListTilesMemory`: `Spec => []Tiled`.

What a failed search says is true because of `Findable`: a free block of the list
has an entry of at least its length (no entry is too short, many are too long),
except for `lost` blocks and except, while a release is under way, for the
block released, which is the last to be merged, and the block merged into, which will
be indexed (`HiddenAtEnds`). That exception is what makes it hard: the compaction first
moves back along the run, merging then shortens it, and nothing but free blocks of
one segment may ever lie between the two (`Spans`).
`Coalesced` needs `Together`: without exceptions two free neighbours exist only
where a compaction under way has yet to go back or is about to merge; and it needs
that a block has lost the one before it only if there was an exception
(`TornAreFew`, an injection of such blocks into exceptions by counting). The bytes in
`Tiled` are folds over a set and a sequence. `SumOf` is the recursive function the
library's folds choose; its laws (a sum does not depend on the order, an element
can be added, removed or divided) are proved by induction on the subsets of a finite
set, from the least element of a set of numbers, without the library's induction
theorems. Then `Bytes`, that the blocks are as long together as the segments, is one
line for each action that cuts, joins or adds a block.

`PipelineProofs` proves, for graphs of every size and shape, any number of workers and
of tasks to a unit, and however many tasks are lost:

- `PipelineTypes`: `Spec => []TypeOK`, so no counter goes below zero;
- `UnitTasksRunOnce`: `Spec => []TasksRunOnce`;
- `NoticesOnly`: `Spec => []OnlyNoticesLeft`;
- `OrderKept`: `Spec => KeepsOrder`, the refinement of `Dataflow`: the last task of a
  unit completes its result, the end of the wait is the return, and every other
  step is a stutter.

They rest on `FlowInv`, checked by TLC first. Its heart is `Counted`: the calls that a
counter waits for are in lists, each in one place (`Waiting`). A unit keeps its calls
until its last task is through `forward()` (`Passed`); then a thread has them, and
makes them one by one; those of a constant go to Main's list. Each counter is the
number of calls of its unit in all these lists, and `synchronizer` that of calls
for Main. `CallMade`, `CallAdded` and `CallsMoved` say, by bijections between the
calls, what becomes of these numbers when a list loses its first element, gains one,
or passes to another place. With it go `Shape` (what a stack may look like), `Once` (a
unit has tasks only when no call for it is left, and as many as it should),
`Forwarded` (the counter of a unit of several tasks) and `Linked` (units call later
ones, those of the nodes that use them). The argument that makes the end safe is
`AllPassed`: if the counter is zero and some unit has not passed, take the last one
in the list; it still keeps a call, for a later unit, which then has no tasks and has
not passed either, or for Main, which then has something to count.
A push and the `activate()` after it are two steps, and for `Once` and `Counted` the
second is what is left of the first: `Stage` says that a thread with more tasks to push
stands at its submission also while it activates. `AllPassed` leaves of a thread at most a
notification or an activation (`Leftover`); a worker that `shutdown()` has passed had none,
and can take no task, for there is none: so none is left when all were passed.

`IntegerContextProofs` proves, for any number of integers, nodes, updates and failures,
and every size of a store:

- `ContextTypes`, `GraphStaysSound`: `Spec => []TypeOK`, `Spec => []GraphIsSound`;
- `ValuesKept`: `Spec => KeepsValues`, the refinement of `EagerIntegers`: making,
  adding, copying, moving and destroying are its steps; an update, a failed one and a
  sort are stutters, although they replace every node;
- `SortsWell`: `nodes_topological_sort()` keeps each node once and puts operands first,
  for every list of nodes and every order of the roots.

The invariant is `IInv`. `SoundList` says that operands stand before their operation
and only constants have data (`Ordered`); `Roomy`, that the list exceeds the room
there is for new nodes only if it consists of constants, since an update gives
each signature a node of its own; without it the types of operands would not survive.
`Signed` counts how often an integer stands among the signatures, `Referring` says
that without an update to do every integer refers to a constant. The sort rests on
`Kahn`, the invariant of its loop: after `j` turns the degree of a node is the number of its
operands that are not sorted, and sorted or in the queue is exactly who has none;
the first node of the list that is not sorted has no open operands, so that the queue
does not run empty early (`QueueLasts`). The refinement needs only one fact: if the
nodes of one list stand somewhere in another with the same operands (`Matches`),
they have the same values there (`SameValues`); an update, a new node and a sort are
three such maps. The assumptions are that numbers fit into a store and that
`Pending` and `Gone` are none (`ContextAssumption`).

`GlobalConfigProofs` proves, for every set of names, keys of any depth, values and files:

- `SettingsSurvive`: `Spec => []SettingsSurviveExport`, for trees of any depth and width;
- `InsertionsAreAtomic`: `Spec => InsertIsAtomic`;
- `ParserAlwaysReturns`: `Spec => []ParserReturns`;
- `TreeStaysRooted`: every path of the tree leads from the root through domains.

An insertion is a fold over the names of the key. `Halfway` is its loop invariant:
nothing has changed, or the domain of the last name is new, and then no
later turn can fail, because there is nothing yet where it looks. The parser returns
because of what the chart of the automaton makes of a text (`Lexed`): a value comes
only after a key, and no two keys follow each other; the stations `Keyed` are those
where the last token is a key. So the loop never stands at a value without a key,
where it would not advance, and the number of open braces is the height of the
stack (`Counted`) if the text begins with one. `GInv` is inductive: the tree is rooted,
the file holds a text, and the last reading returned. Keys are not empty and a value
is not a domain (`ConfigAssumption`).

That settings survive needs a second invariant on top of it, `SInv`: the tree is
`Writable` (finite, of bounded depth, its names of any characters and its values
`Proper`), and the file is the first part of what a writable tree without empty values, or
none, is written as. Insertions
keep it (`SetIsWritable`), and so does whatever the parser builds of any text
(`BuiltIsWritable`), because the automaton lets nothing through as a value but a quoted
text or a word (`TokensAreGood`). What a value comes back as is the conversion of its text (`ReadBack`); for a
`Clean` tree, with plain names and strings and no empty value, this is what `Reread` says
(`TreeComesBack`): quotes are taken off again, an integer or truth value converts to
itself, and only a real to what its six digits are.
For one tree the argument goes by the height of a path
above the deepest one (`PathsAreReadBack`): the text of a domain is the texts of its
children with brackets and commas between, the automaton makes of these pieces the tokens of the
children, one after the other (`LexConcat` and the lemmas on the writer's pieces),
and the parser, standing at the domain above, adds the part of the tree below the path and
stands there again (`RunConcat`, `Join`). For a file cut short, the tokens of the first
part of a text are the first of its tokens (`LexAdds`), a text that is not accepted has none,
and the parser only adds paths and never changes one (`RunGrows`), so what it builds
of the first tokens is within what it builds of all (`FirstTokens`).

`DigitsProofs` proves, for every length, base of the text up to 36, group and precision:

- `StoresAreExact`: any two stores are added to the sum of their values, cut off at
  the length of a store, and multiplied to the full product, and each is
  printed as text that is read as itself;
- `TextsAreRead`: a text of the precision that was asked for is taken and means what it says;
- `DigitsStayExact`: `Spec => []DigitsAreExact`, if `Modulus` is the one of these stores.

What digits stand for is taken as the sequence of its partial sums (`Sums`). A carry
telescopes: if each place of the result is that of the operands, plus the carry into
it, less the base times the carry out of it, the sums differ by the last carry only (`CarriesAdd`);
addition, subtraction and a row of the multiplication are three cases of it, and
`RowAdds` is the invariant of the rows: after `i` of them the digits stand for the
product with the first `i` digits, and nothing is above place `i + Length`. The
highest digit that differs decides a comparison (`HigherDigit`), so the subtraction
leaves no carry. A text is described from its end: the digit at place `t` of group `k`
is digit `t` of the store's digit `k` (`Prints`), which is what reading collects
(`GroupIsRead`); for a text that was not printed, zeros above its digits
change nothing (`PaddedMeans`) and digits taken in groups are digits in a larger base
(`GroupsMean`). Width is no issue in these proofs: numbers are unbounded, as in the
code products of two digits below `2^28` and their carries are below `2^64`.

Inductions in these three modules are over numbers, from the least number of a set
(`LeastNumber`, `StepByStep`), because the library's induction theorems take an
operator as a parameter. A fold or recursive function is unrolled into the run of its
values, a function on `0..n`, whose existence is proved first (`Folds`, `Runs`).

Model-checked only: liveness and whatever rests on `ENABLED`, which are out of the
prover's reach: `CallsReturn`, `ShutdownReturnsIfQuiet`, `QueueIsServed`,
`CounterDrains`. Every other property of a passing run has a theorem.

## 5. Disagreements found

- `lfq_lap`: the class comment promises that only ready nodes are consumed (line
  59); the index comparison can be fooled by a lap. (It also promises operations
  without spinning, line 95, and the loops spin: `CallsReturn` needs every thread
  to be scheduled.)
- `pool_wakeup`: `activate()` and the destructor notify without the lock.
- `pool_hang`: a task that submits during `shutdown()` makes it wait for ever.
- `pipe_wait`: the last unit notifies the waiting thread without the lock.

Met while modelling, shown in the models by an end of the run or stated by a
weaker property, without a run of their own:

- too large a request is not clamped, as `MemoryAllocator.h` line 44 says, but
  refused with a null handle after the pool has grown (`NullIsTooLarge`);
- a split that throws at the insertion into the index (`MemoryAllocator.cpp` 119)
  has made the next block point back to a block that then dies, so that its
  release does not "search backward to find the earliest free block" (line 140)
  and free memory stays in pieces (`LinkedBack` counts such blocks, `Coalesced`
  excepts them); the block to split, or a segment just obtained (line 179), is
  free but in no entry until a neighbour's release (`lost`);
- an `update()` that throws can never be repeated: the second one does not
  return (`UpdateNever`), and printing turns the exception into `terminate`;
- a refused text leaves its signature behind (`integer.cpp` 210), which the next
  update follows into nothing;
- digits are compared with the base of the store (`Basics.cpp` 164), so the text
  of an octal integer may contain a 9;
- assignment does not compare contexts, as the sum does (`integer.cpp` 258);
- if the default file is absent or not readable, the constructor of
  `GlobalConfig` waits for an exception that `read_from`, being `noexcept`, never
  passes on: there is no root, and every insertion fails
  (`ConstructWithoutFile`);
- a text the automaton does not accept silently empties the tree, since
  `successful` is ignored (`GlobalConfig.cpp` 243);
- a text without an opening brace may take the parser below the bottom of its
  stack (status `"undefined"`; `ParserReturns` excludes the texts with one);
- a real is written with six digits: it comes back rounded, or as an integer if they
  say a whole number (`GlobalConfig.cpp` 67, `Reread`); a string or name with a quote or
  a backslash is written so that it is not read back, and one with a control
  character or a byte outside ASCII makes the automaton throw, so that nothing of the
  file is (`Plain`);
- a value that was default-constructed and inserted makes `export_all` recurse without
  end (`GlobalConfig.cpp` 61-70, `ExportCrashes`);
- `flush` clears its flag in a guard that an exception nobody catches does not reach:
  the destructor in the terminate hook, which swallows exceptions and tries again,
  then calls a `flush` that returns at once, for ever (`RuntimeLog.cpp` 80-89, 122,
  138-145; `Abandoned`), as it tries for ever if the file never opens;
- `flush` copies the path under the lock and opens the one outside it (line 137);
- `update()` may be undefined, hang or throw for ever after it found no memory in
  `clean_up`, where some integers have their new nodes already (`UpdateSpoils`);
- assignment to a moved-from integer, and its use in a sum, follow a null pointer, while
  copies of it throw (`AssignReleased`, `AddReleased`); printing it terminates;
- a worker may activate an executor after the counter it was counted in is zero, and
  then keep the `shutdown()` that follows from returning (`integer.cpp` 176-177,
  `TaskHandler.cpp` 174-176; `pool_hang`);
- comments in a file, which the header of `GlobalConfig` mentions, are not in the
  automaton.

## 6. Not modelled, and the plan

Not modelled for good: formatting of logs, exceptions and tables, the export of
a graph as text, system calls of `AlignedMem`, the visualiser, the build.

Not modelled because nothing in the program uses it: `MonoSynchronizer`, the
latch of a unit, `remove_callback`, error transitions and `step()` of the state
machine (whose local variable hides the state, line 238, so that it would not
advance).

Left out, with the reason:

- two contexts at once, and the handles of a context: a context's state is shared
  by nothing but its handles; what happens through a handle that was moved from;
- exceptions for want of memory inside `add` and `flush` of the log;
- what a context holds after `update()` found no memory (`UpdateSpoils`);
- a text with digits beyond its base, which the code accepts and whose meaning
  nothing defines;
- `set_global_...` of the pool, the memory pool and the settings, which choose
  constants of the models;
- two calls of `export_all` at once, which share the lock and may write one file.
