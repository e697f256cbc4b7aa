------------------------------ MODULE RuntimeLog ------------------------------
(***************************************************************************)
(* The global log (RuntimeLog) and the terminate hook (TerminateCalls):    *)
(* any thread adds entries to a bounded queue, one thread at a time moves  *)
(* them to the file, settings change meanwhile, and the process ends by    *)
(* exit() or by std::terminate().  The queue is the FIFO of BoundedFifo.   *)
(***************************************************************************)
EXTENDS Integers, FiniteSets, Sequences

CONSTANTS Threads, Levels, Paths, Capacities, InitSetup, None,
          MaxAdds, MaxSettings

Setups == [path : Paths, level : Levels, capacity : Capacities]

ASSUME SetupAssumption ==
  /\ Levels \subseteq Nat /\ Capacities \subseteq Nat /\ None \notin Paths
  /\ InitSetup \in Setups

VARIABLES
  setup,                  \* log_filepath, log_level, log_capacity
  assigning,              \* set_global_log is assigning them
  initialized, executing, \* the flags of RuntimeLog and TerminateCalls
  buffer, flushing,       \* log_buffer and its flag
  files,                  \* what each file contains
  status,                 \* how far the process has come
  th,                     \* of each thread: its next step, the place flush()
                          \* returns to, the level of the entry it adds, and
                          \* flush()'s copied level, file and text
  seen,                   \* ghosts: the entries accepted so far, those
                          \* filtered, and how many had been accepted when
                          \* ~RuntimeLog saw the buffer empty
  world                   \* how often the settings were changed, and whether
                          \* flush() threw the last time and was caught

vars == <<setup, assigning, initialized, executing, buffer, flushing, files,
          status, th, seen, world>>

Entries == [n : Nat \ {0}, level : Levels]
Alive == status \in {"running", "exiting"}

\* The locals of a thread outside the log.
Outside == [pc |-> "idle", caller |-> "idle", arg |-> InitSetup.level,
            level |-> InitSetup.level, out |-> None, ss |-> <<>>]

Init ==
  /\ setup = InitSetup /\ assigning = FALSE
  /\ initialized = FALSE /\ executing = FALSE
  /\ buffer = <<>> /\ flushing = FALSE
  /\ files = [p \in Paths |-> <<>>]
  /\ status = "running"
  /\ th = [t \in Threads |-> Outside]
  /\ seen = [accepted |-> 0, dropped |-> {}, tested |-> 0]
  /\ world = [settings |-> 0, failed |-> FALSE]

At(t, label) == Alive /\ th[t].pc = label
Goto(t, label) == th' = [th EXCEPT ![t].pc = label]
\* A call returns to label; only add() still knows its entry there.
Return(t, label) ==
  th' = [th EXCEPT ![t] = [Outside EXCEPT !.pc = label,
           !.arg = IF label = "enqueue" THEN th[t].arg ELSE @]]
\* A thread outside the log, in a process that has one.
Free(t) == status = "running" /\ initialized /\ th[t].pc = "idle"

-----------------------------------------------------------------------------
(* Settings and construction. *)

\* set_global_log takes setting_lock ...
BeginSetting ==
  /\ status = "running" /\ ~assigning /\ world.settings < MaxSettings
  /\ assigning' = TRUE
  /\ world' = [world EXCEPT !.settings = @ + 1]
  /\ UNCHANGED <<setup, initialized, executing, buffer, flushing, files, status,
                 th, seen>>

\* ... and assigns; the capacity only counts before the log exists.
SetGlobalLog(s) ==
  /\ status = "running" /\ assigning
  /\ setup' = IF initialized THEN [s EXCEPT !.capacity = setup.capacity] ELSE s
  /\ assigning' = FALSE
  /\ UNCHANGED <<initialized, executing, buffer, flushing, files, status, th,
                 seen, world>>

\* The lengths the queue accepts.
Acceptable(c) == c >= 4 /\ \E k \in 0..c : c = 2^k

\* The first get_global_log: it is noexcept, so a length the queue refuses
\* ends the process, before the terminate hook exists.
Construct ==
  /\ status = "running" /\ ~initialized /\ ~assigning
  /\ initialized' = TRUE
  /\ status' = IF Acceptable(setup.capacity) THEN "running" ELSE "refused"
  /\ UNCHANGED <<setup, assigning, executing, buffer, flushing, files, th, seen,
                 world>>

-----------------------------------------------------------------------------
(* add() *)

BeginAdd(t, l) ==
  /\ Free(t) /\ seen.accepted < MaxAdds
  /\ th' = [th EXCEPT ![t].pc = "enqueue", ![t].arg = l]
  /\ UNCHANGED <<setup, assigning, initialized, executing, buffer, flushing,
                 files, status, seen, world>>

Full == Len(buffer) = setup.capacity - 1
\* Slip: the threshold is the whole ring.
TooFullAtCapacity == Len(buffer) >= setup.capacity
TooFull == Len(buffer) > setup.capacity \div 2

\* Slip: the ring is taken to have one more place.
EnqueueUnchecked(t) ==
  /\ At(t, "enqueue")
  /\ seen' = [seen EXCEPT !.accepted = @ + 1]
  /\ buffer' = Append(buffer, [n |-> seen'.accepted, level |-> th[t].arg])
  /\ Return(t, "idle")
  /\ UNCHANGED <<setup, assigning, initialized, executing, flushing, files,
                 status, world>>

Enqueue(t) ==
  /\ At(t, "enqueue") /\ ~Full
  /\ seen' = [seen EXCEPT !.accepted = @ + 1]
  /\ buffer' = Append(buffer, [n |-> seen'.accepted, level |-> th[t].arg])
  /\ Return(t, "idle")
  /\ UNCHANGED <<setup, assigning, initialized, executing, flushing, files,
                 status, world>>

EnqueueFails(t) == At(t, "enqueue") /\ Full /\ Goto(t, "size")

CheckSize(t) ==
  /\ At(t, "size")
  /\ IF TooFull THEN th' = [th EXCEPT ![t].pc = "swap", ![t].caller = "enqueue"]
                ELSE Goto(t, "enqueue")

-----------------------------------------------------------------------------
(* flush() *)

BeginFlush(t) ==
  /\ Free(t)
  /\ th' = [th EXCEPT ![t].pc = "swap", ![t].caller = "idle"]
  /\ UNCHANGED <<setup, assigning, initialized, executing, buffer, flushing,
                 files, status, seen, world>>

\* Slip: the flag is set without looking at what it was.
SwapUnchecked(t) ==
  /\ At(t, "swap")
  /\ flushing' = TRUE
  /\ Goto(t, "copy")
  /\ UNCHANGED <<buffer, files, seen, world>>

\* flushing.exchange(true): all but one return at once.
Swap(t) ==
  /\ At(t, "swap")
  /\ flushing' = TRUE
  /\ IF flushing THEN Return(t, th[t].caller) ELSE Goto(t, "copy")
  /\ UNCHANGED <<buffer, files, seen, world>>

\* The settings are copied under setting_lock, the path in vain ...
CopySettings(t) ==
  /\ At(t, "copy") /\ ~assigning
  /\ th' = [th EXCEPT ![t].pc = "open", ![t].level = setup.level]
  /\ UNCHANGED <<buffer, flushing, files, seen, world>>

\* ... since the file opened is that of log_filepath, read without the lock:
\* while it is assigned, what is read may be any path.
Open(t) ==
  /\ At(t, "open")
  /\ \E p \in IF assigning THEN Paths ELSE {setup.path} :
       th' = [th EXCEPT ![t].pc = "pop", ![t].out = p]
  /\ world' = [world EXCEPT !.failed = FALSE]
  /\ UNCHANGED <<buffer, flushing, files, seen>>

\* flush() throws and is caught; the guard clears the flag.  add() passes the
\* exception on without its entry, the destructor swallows it.
OpenFails(t) ==
  /\ At(t, "open")
  /\ world' = [world EXCEPT !.failed = TRUE]
  /\ flushing' = FALSE
  /\ Return(t, IF th[t].caller = "empty" THEN "empty" ELSE "idle")
  /\ UNCHANGED <<buffer, files, seen>>

Pop(t) ==
  /\ At(t, "pop") /\ buffer # <<>>
  /\ buffer' = Tail(buffer)
  /\ IF Head(buffer).level >= th[t].level
       THEN /\ th' = [th EXCEPT ![t].ss = Append(@, Head(buffer))]
            /\ UNCHANGED seen
       ELSE /\ seen' = [seen EXCEPT !.dropped = @ \cup {Head(buffer).n}]
            /\ UNCHANGED th
  /\ UNCHANGED <<flushing, files, world>>

PopFails(t) ==
  /\ At(t, "pop") /\ buffer = <<>>
  /\ Goto(t, "write")
  /\ UNCHANGED <<buffer, flushing, files, seen, world>>

\* Slip: the text is kept from one flush to the next.
WriteKeeping(t) ==
  /\ At(t, "write")
  /\ files' = [files EXCEPT ![th[t].out] = @ \o th[t].ss]
  /\ Goto(t, "close")
  /\ UNCHANGED <<buffer, flushing, seen, world>>

Write(t) ==
  /\ At(t, "write")
  /\ files' = [files EXCEPT ![th[t].out] = @ \o th[t].ss]
  /\ th' = [th EXCEPT ![t].pc = "close", ![t].ss = <<>>]
  /\ UNCHANGED <<buffer, flushing, seen, world>>

\* The guard closes the file and clears the flag.
Close(t) ==
  /\ At(t, "close")
  /\ flushing' = FALSE
  /\ Return(t, th[t].caller)
  /\ UNCHANGED <<buffer, files, seen, world>>

Flush(t) ==
  /\ Swap(t) \/ CopySettings(t) \/ Open(t) \/ OpenFails(t) \/ Pop(t)
     \/ PopFails(t) \/ Write(t) \/ Close(t)
  /\ UNCHANGED <<setup, assigning, initialized, executing, status>>

-----------------------------------------------------------------------------
(* The end of the process. *)

\* std::terminate(): the first thread runs the callbacks, of which the log's
\* calls its destructor; any other aborts at once.
HandleTerminate(t) ==
  /\ executing' = TRUE
  /\ status' = IF executing THEN "cut" ELSE status
  /\ Return(t, IF executing THEN "idle" ELSE "empty")

\* An exception of the program that nobody catches.
Terminate(t) ==
  /\ Free(t)
  /\ HandleTerminate(t)
  /\ UNCHANGED <<setup, assigning, initialized, buffer, flushing, files, seen,
                 world>>

\* Nobody catches the exception of flush().  Its guard runs first only where the
\* stack is unwound, as up to a noexcept function: else the flag stays set.
OpenKills(t) ==
  /\ At(t, "open") /\ th[t].caller # "empty"
  /\ flushing' \in BOOLEAN
  /\ HandleTerminate(t)
  /\ UNCHANGED <<setup, assigning, initialized, buffer, files, seen, world>>

\* The path read while it is assigned may also crash the process.
OpenCrashes(t) ==
  /\ At(t, "open") /\ assigning
  /\ status' = "cut"
  /\ UNCHANGED <<setup, assigning, initialized, executing, buffer, flushing,
                 files, th, seen, world>>

\* main returns when its threads are joined; the static log is destroyed.
Exit(t) ==
  /\ ~assigning /\ \A u \in Threads : Free(u)
  /\ status' = "exiting"
  /\ Goto(t, "empty")
  /\ UNCHANGED <<setup, assigning, initialized, executing, buffer, flushing,
                 files, seen, world>>

\* Slip: the destructor flushes once and leaves.
CheckEmptyOnce(t) ==
  /\ At(t, "empty")
  /\ seen' = [seen EXCEPT !.tested = seen.accepted]
  /\ IF buffer = <<>> \/ world.failed
       THEN Goto(t, "end")
       ELSE th' = [th EXCEPT ![t].pc = "swap", ![t].caller = "empty"]
  /\ UNCHANGED status

\* The loop of ~RuntimeLog.
CheckEmpty(t) ==
  /\ At(t, "empty")
  /\ IF buffer = <<>>
       THEN Goto(t, "end") /\ seen' = [seen EXCEPT !.tested = seen.accepted]
       ELSE /\ th' = [th EXCEPT ![t].pc = "swap", ![t].caller = "empty"]
            /\ UNCHANGED seen
  /\ UNCHANGED status

\* The buffer is freed and the process ends.  A thread that uses the freed
\* buffer before abort() crashes it a moment earlier: no state in between.
End(t) ==
  /\ At(t, "end")
  /\ status' = IF status = "exiting" THEN "exited" ELSE "aborted"
  /\ Return(t, "idle")
  /\ UNCHANGED seen

-----------------------------------------------------------------------------
\* What a thread does by itself once it is inside a call.
Step(t) ==
  \/ Enqueue(t)
  \/ Flush(t) \/ OpenKills(t) \/ OpenCrashes(t)
  \/ /\ EnqueueFails(t) \/ CheckSize(t)
     /\ UNCHANGED <<setup, assigning, initialized, executing, buffer, flushing,
                    files, status, seen, world>>
  \/ /\ CheckEmpty(t) \/ End(t)
     /\ UNCHANGED <<setup, assigning, initialized, executing, buffer, flushing,
                    files, world>>

Call(t) ==
  \/ \E l \in Levels : BeginAdd(t, l)
  \/ BeginFlush(t) \/ Terminate(t) \/ Exit(t)

Setting == \E s \in Setups : SetGlobalLog(s)

Ended == ~Alive /\ UNCHANGED vars

Next ==
  \/ BeginSetting \/ Setting \/ Construct
  \/ \E t \in Threads : Step(t) \/ Call(t)
  \/ Ended

Spec == Init /\ [][Next]_vars

\* Every thread inside a call is scheduled.
FairSpec == Spec /\ WF_vars(Setting) /\ \A t \in Threads : WF_vars(Step(t))

-----------------------------------------------------------------------------
(* Properties. *)

Labels == {"idle", "enqueue", "size", "swap", "copy", "open", "pop", "write",
           "close", "empty", "end"}

\* The state of the log has its types, and the buffer never outgrows its ring.
TypeOK ==
  /\ setup \in Setups /\ {assigning, initialized, executing, flushing} \subseteq BOOLEAN
  /\ buffer \in Seq(Entries) /\ (initialized /\ Alive => Len(buffer) < setup.capacity)
  /\ files \in [Paths -> Seq(Entries)]
  /\ status \in {"running", "exiting", "exited", "aborted", "cut", "refused"}
  /\ th \in [Threads ->
       [pc : Labels, caller : {"idle", "enqueue", "empty"}, arg : Levels,
        level : Levels, out : Paths \cup {None}, ss : Seq(Entries)]]
  /\ seen \in [accepted : Nat, dropped : SUBSET (Nat \ {0}), tested : Nat]
  /\ world \in [settings : Nat, failed : BOOLEAN]

Numbers(s) == {s[i].n : i \in DOMAIN s}

\* Where the n-th entry can be found.
Places(n) ==
       {<<"dropped">> : x \in seen.dropped \cap {n}}
  \cup {<<"buffer">> : x \in Numbers(buffer) \cap {n}}
  \cup {<<"ss", t>> : t \in {u \in Threads : n \in Numbers(th[u].ss)}}
  \cup {<<"file", p>> : p \in {q \in Paths : n \in Numbers(files[q])}}

\* Whatever threads add, flush and reconfigure at once, and however often a
\* file cannot be opened, an entry that add() accepted is in exactly one place:
\* still buffered, in the hands of one flushing thread, filtered, or in a file.
EachEntryOnce == \A n \in 1..seen.accepted : Cardinality(Places(n)) = 1

Ascending(s) == \A i, j \in DOMAIN s : i < j => s[i].n < s[j].n
Before(s, u) == \A i \in DOMAIN s, j \in DOMAIN u : s[i].n < u[j].n

\* Each file holds its entries in the order add() accepted them, and what is
\* written or being written is older than what waits, although any thread may
\* flush.
WrittenInOrder ==
  /\ Ascending(buffer)
  /\ \A p \in Paths : Ascending(files[p]) /\ Before(files[p], buffer)
  /\ \A t \in Threads : /\ Ascending(th[t].ss) /\ Before(th[t].ss, buffer)
                        /\ \A p \in Paths : Before(files[p], th[t].ss)

Filed == {<<"dropped">>} \cup {<<"file", p>> : p \in Paths}

\* Who is in flush(), past its flag.
Moving == {"copy", "open", "pop", "write", "close"}
Flushers == {t \in Threads : th[t].pc \in Moving}

\* The end of the process keeps the log: a normal exit leaves every entry in a
\* file or filtered.  A termination leaves unwritten, of the entries accepted
\* before the destructor saw the buffer empty, only those in the hands of the one
\* thread that was flushing.  A process that is cut off, by a second thread that
\* terminates or by a crash, promises nothing.
EndKeepsLog ==
  /\ status = "exited" =>
       \A n \in 1..seen.accepted : Places(n) \subseteq Filed
  /\ status = "aborted" =>
       \A n \in 1..seen.tested :
         \/ Places(n) \subseteq Filed
         \/ \E t \in Threads : Places(n) = {<<"ss", t>>} /\ Flushers = {t}

\* flush()'s flag is set although no thread is inside: after an exception that
\* nobody caught.
Abandoned == executing /\ flushing /\ Flushers = {}

\* add() and flush() return or throw, and the destructor ends, although every
\* thread that finds the ring full spins until another has flushed: unless every
\* file fails to open from some time on, which the destructor tries for ever, or
\* the flag was abandoned, when nobody can flush any more.
CallsReturn ==
  \/ <>[]world.failed
  \/ \A t \in Threads :
       th[t].pc # "idle" ~> th[t].pc = "idle" \/ ~Alive \/ Abandoned
=============================================================================
