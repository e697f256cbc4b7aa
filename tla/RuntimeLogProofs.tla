--------------------------- MODULE RuntimeLogProofs ---------------------------
(***************************************************************************)
(* What RuntimeLog guarantees for every number of threads, levels, files   *)
(* and lengths of the ring, and whatever the bounds.                       *)
(***************************************************************************)
EXTENDS RuntimeLog, FiniteSetTheorems, TLAPS

Locals == [pc : Labels, caller : {"idle", "enqueue", "empty"}, arg : Levels,
           level : Levels, out : Paths \cup {None}, ss : Seq(Entries)]

\* Before the log exists nobody is inside it, and its buffer is empty.
NothingYet == ~initialized => buffer = <<>> /\ \A t \in Threads : th[t].pc = "idle"

LogTypes == TypeOK /\ NothingYet

-----------------------------------------------------------------------------
(* What a step does to the thread that takes it.                           *)

LEMMA OutsideType == Outside \in Locals
BY SetupAssumption DEF Outside, Locals, Labels, Setups

LEMMA GotoOnly ==
  ASSUME TypeOK, NEW t \in Threads, NEW label \in Labels, Goto(t, label)
  PROVE  /\ th' \in [Threads -> Locals]
         /\ th'[t].pc = label /\ th'[t].ss = th[t].ss
         /\ th'[t].caller = th[t].caller /\ th'[t].out = th[t].out
         /\ \A u \in Threads : u # t => th'[u] = th[u]
BY DEF TypeOK, Goto, Locals

LEMMA ReturnOnly ==
  ASSUME TypeOK, NEW t \in Threads, NEW label \in Labels, Return(t, label)
  PROVE  /\ th' \in [Threads -> Locals]
         /\ th'[t].pc = label /\ th'[t].ss = <<>>
         /\ \A u \in Threads : u # t => th'[u] = th[u]
<1>1. th \in [Threads -> Locals]
  BY DEF TypeOK, Locals
<1>2. th[t].arg \in Levels
  BY <1>1 DEF Locals
<1> DEFINE after == [Outside EXCEPT !.pc = label,
                       !.arg = IF label = "enqueue" THEN th[t].arg ELSE @]
<1>3. after \in Locals /\ after.pc = label /\ after.ss = <<>>
  BY <1>2, OutsideType DEF Locals, Outside
<1>4. th' = [th EXCEPT ![t] = after]
  BY DEF Return
<1> QED
  BY <1>1, <1>3, <1>4

LEMMA Becomes ==
  ASSUME TypeOK, NEW t \in Threads, NEW after \in Locals, th' = [th EXCEPT ![t] = after]
  PROVE  /\ th' \in [Threads -> Locals] /\ th'[t] = after
         /\ \A u \in Threads : u # t => th'[u] = th[u]
BY DEF TypeOK, Locals

\* The ways of going on to another label without returning.
LEMMA CalledOnly ==
  ASSUME TypeOK, NEW t \in Threads, NEW label \in Labels,
         NEW back \in {"idle", "enqueue", "empty"},
         th' = [th EXCEPT ![t].pc = label, ![t].caller = back]
  PROVE  /\ th' \in [Threads -> Locals]
         /\ th'[t].pc = label /\ th'[t].ss = th[t].ss
         /\ th'[t].caller = back
         /\ \A u \in Threads : u # t => th'[u] = th[u]
<1>1. th \in [Threads -> Locals]
  BY DEF TypeOK, Locals
<1> DEFINE after == [th[t] EXCEPT !.pc = label, !.caller = back]
<1>2. after \in Locals /\ after.pc = label /\ after.ss = th[t].ss /\ after.caller = back
  BY <1>1 DEF Locals
<1>3. th' = [th EXCEPT ![t] = after]
  BY <1>1
<1> QED
  BY <1>1, <1>2, <1>3

-----------------------------------------------------------------------------
(* Types                                                                   *)

LEMMA InitTypes == Init => LogTypes
<1> SUFFICES ASSUME Init PROVE LogTypes
  OBVIOUS
<1>1. th \in [Threads -> Locals] /\ \A t \in Threads : th[t].pc = "idle"
  BY OutsideType DEF Init, Outside
<1>2. buffer = <<>> /\ buffer \in Seq(Entries) /\ files \in [Paths -> Seq(Entries)]
  BY DEF Init
<1>3. seen \in [accepted : Nat, dropped : SUBSET (Nat \ {0}), tested : Nat]
  BY DEF Init
<1>4. world \in [settings : Nat, failed : BOOLEAN]
  BY DEF Init
<1> QED
  BY <1>1, <1>2, <1>3, <1>4, SetupAssumption DEF Init, LogTypes, TypeOK, NothingYet, Locals

LEMMA SetGlobalLogTypes ==
  ASSUME LogTypes, NEW s \in Setups, SetGlobalLog(s) PROVE LogTypes'
<1>1. setup' \in Setups /\ (initialized => setup'.capacity = setup.capacity)
  BY DEF LogTypes, TypeOK, SetGlobalLog, Setups
<1>2. world' \in [settings : Nat, failed : BOOLEAN]
  BY DEF LogTypes, TypeOK, SetGlobalLog
<1> QED
  BY <1>1, <1>2 DEF LogTypes, TypeOK, NothingYet, SetGlobalLog, Alive

LEMMA BeginSettingTypes == ASSUME LogTypes, BeginSetting PROVE LogTypes'
<1>1. world' \in [settings : Nat, failed : BOOLEAN]
  BY DEF LogTypes, TypeOK, BeginSetting
<1> QED
  BY <1>1 DEF LogTypes, TypeOK, NothingYet, BeginSetting, Alive

LEMMA ConstructTypes == ASSUME LogTypes, Construct PROVE LogTypes'
<1>1. Alive' => Len(buffer') < setup'.capacity
  BY DEF LogTypes, TypeOK, NothingYet, Construct, Alive, Acceptable, Setups
<1> QED
  BY <1>1 DEF LogTypes, TypeOK, NothingYet, Construct

LEMMA Fields ==
  ASSUME TypeOK
  PROVE  /\ th \in [Threads -> Locals] /\ files \in [Paths -> Seq(Entries)]
         /\ buffer \in Seq(Entries) /\ Len(buffer) \in Nat /\ Len(buffer) <= Len(buffer)
         /\ setup \in Setups /\ setup.path \in Paths /\ setup.level \in Levels
         /\ setup.capacity \in Nat
         /\ executing \in BOOLEAN /\ flushing \in BOOLEAN
         /\ status \in {"running", "exiting", "exited", "aborted", "cut", "refused"}
         /\ seen \in [accepted : Nat, dropped : SUBSET (Nat \ {0}), tested : Nat]
         /\ world \in [settings : Nat, failed : BOOLEAN]
<1>1. setup \in Setups /\ setup.path \in Paths /\ setup.level \in Levels
      /\ setup.capacity \in Nat
  BY SetupAssumption DEF TypeOK, Setups
<1>2. buffer \in Seq(Entries)
  BY Zenon DEF TypeOK
<1>3. Len(buffer) \in Nat /\ Len(buffer) <= Len(buffer)
  BY <1>2
<1>4. executing \in BOOLEAN /\ flushing \in BOOLEAN
  BY Zenon DEF TypeOK
<1> QED
  BY <1>1, <1>2, <1>3, <1>4, Zenon DEF TypeOK, Locals

LEMMA LocalFields ==
  ASSUME TypeOK, NEW t \in Threads
  PROVE  /\ th[t] \in Locals
         /\ th[t].pc \in Labels /\ th[t].caller \in Labels
         /\ th[t].caller \in {"idle", "enqueue", "empty"}
         /\ th[t].arg \in Levels /\ th[t].level \in Levels
         /\ th[t].out \in Paths \cup {None} /\ th[t].ss \in Seq(Entries)
<1>1. th[t] \in Locals
  BY DEF TypeOK, Locals
<1> QED
  BY <1>1 DEF Locals, Labels

\* The file that is opened, while the settings rest and while they change.
LEMMA OpenOnly ==
  ASSUME TypeOK, NEW t \in Threads, Open(t)
  PROVE  /\ th' \in [Threads -> Locals]
         /\ th'[t].pc = "pop" /\ th'[t].ss = th[t].ss /\ th'[t].out \in Paths
         /\ th'[t].caller = th[t].caller
         /\ \A u \in Threads : u # t => th'[u] = th[u]
<1>1. setup.path \in Paths /\ th \in [Threads -> Locals] /\ th[t] \in Locals
  BY Fields, LocalFields
<1>2. PICK p \in Paths : th' = [th EXCEPT ![t].pc = "pop", ![t].out = p]
  BY <1>1 DEF Open
<1> DEFINE after == [th[t] EXCEPT !.pc = "pop", !.out = p]
<1>3. /\ after \in Locals /\ after.pc = "pop" /\ after.ss = th[t].ss
      /\ after.out = p /\ after.caller = th[t].caller
  BY <1>1 DEF Locals, Labels
<1>4. th' = [th EXCEPT ![t] = after]
  BY <1>1, <1>2
<1> QED
  BY <1>1, <1>3, <1>4

\* std::terminate() takes a thread out of the log, or into the destructor.
LEMMA HandleTerminateOnly ==
  ASSUME TypeOK, NEW t \in Threads, HandleTerminate(t)
  PROVE  /\ th' \in [Threads -> Locals]
         /\ th'[t].pc \in {"idle", "empty"} /\ th'[t].ss = <<>>
         /\ \A u \in Threads : u # t => th'[u] = th[u]
         /\ executing' \in BOOLEAN /\ status' \in {status, "cut"}
<1> DEFINE label == IF executing THEN "idle" ELSE "empty"
<1>1. label \in Labels /\ label \in {"idle", "empty"}
  BY DEF Labels
<1>2. Return(t, label)
  BY DEF HandleTerminate
<1> QED
  BY <1>1, <1>2, ReturnOnly DEF HandleTerminate

\* A step inside the log, which leaves the buffer no longer than it was.
LEMMA InsideTypes ==
  ASSUME LogTypes, initialized, UNCHANGED <<setup, assigning, initialized>>,
         executing' \in BOOLEAN, flushing' \in BOOLEAN,
         buffer' \in Seq(Entries), Len(buffer') <= Len(buffer),
         files' \in [Paths -> Seq(Entries)], th' \in [Threads -> Locals],
         status' \in {"running", "exiting", "exited", "aborted", "cut", "refused"},
         Alive' => Alive,
         seen' \in [accepted : Nat, dropped : SUBSET (Nat \ {0}), tested : Nat],
         world' \in [settings : Nat, failed : BOOLEAN]
  PROVE  LogTypes'
<1>1. Alive => Len(buffer) < setup.capacity
  BY Zenon DEF LogTypes, TypeOK
<1>2. setup.capacity \in Nat /\ Len(buffer) \in Nat /\ setup \in Setups
  BY Fields DEF LogTypes
<1>3. Alive' => Len(buffer') < setup'.capacity
  <2>1. Len(buffer') \in Nat
    OBVIOUS
  <2> QED
    BY <1>1, <1>2, <2>1
<1>4. {assigning', initialized', executing', flushing'} \subseteq BOOLEAN
  BY DEF LogTypes, TypeOK
<1>5. NothingYet'
  BY DEF NothingYet
<1>6. TypeOK'
  BY <1>2, <1>3, <1>4, Zenon DEF TypeOK, Locals
<1> QED
  BY <1>5, <1>6, Zenon DEF LogTypes

LEMMA InsideIsInitialized ==
  ASSUME LogTypes, NEW t \in Threads, th[t].pc # "idle" PROVE initialized
BY DEF LogTypes, NothingYet

LEMMA EnqueueTypes == ASSUME LogTypes, NEW t \in Threads, Enqueue(t) PROVE LogTypes'
<1> DEFINE entry == [n |-> seen'.accepted, level |-> th[t].arg]
<1>1. initialized
  BY InsideIsInitialized DEF Enqueue, At
<1>2. th \in [Threads -> Locals] /\ buffer \in Seq(Entries)
  BY Fields DEF LogTypes
<1>3. seen' \in [accepted : Nat, dropped : SUBSET (Nat \ {0}), tested : Nat]
      /\ seen'.accepted \in Nat \ {0}
  <2>1. seen \in [accepted : Nat, dropped : SUBSET (Nat \ {0}), tested : Nat]
    BY Fields DEF LogTypes
  <2>2. seen' = [seen EXCEPT !.accepted = seen.accepted + 1]
    BY DEF Enqueue
  <2> QED
    BY <2>1, <2>2
<1>4. entry \in Entries
  BY <1>2, <1>3 DEF Locals, Entries
<1>5. buffer' \in Seq(Entries) /\ Len(buffer') = Len(buffer) + 1
  BY <1>2, <1>4 DEF Enqueue
<1>6. th' \in [Threads -> Locals]
  BY ReturnOnly DEF Enqueue, LogTypes, Labels
<1>7. Alive' => Len(buffer') < setup'.capacity
  <2>1. Alive /\ ~Full /\ setup' = setup
    BY DEF Enqueue, At
  <2>2. Len(buffer) < setup.capacity
    BY <1>1, <2>1, Zenon DEF LogTypes, TypeOK
  <2>3. setup.capacity \in Nat /\ Len(buffer) \in Nat
    BY Fields DEF LogTypes
  <2> QED
    BY <1>5, <2>1, <2>2, <2>3 DEF Full
<1>8. TypeOK'
  BY <1>3, <1>5, <1>6, <1>7, Zenon DEF LogTypes, TypeOK, Enqueue, Locals
<1>9. NothingYet'
  BY <1>1 DEF NothingYet, Enqueue
<1> QED
  BY <1>8, <1>9, Zenon DEF LogTypes

\* flush() keeps the types of what it works on.
LEMMA FlushTypes == ASSUME LogTypes, NEW t \in Threads, Flush(t) PROVE LogTypes'
<1>1. initialized /\ UNCHANGED <<setup, assigning, initialized, executing, status>>
  BY InsideIsInitialized DEF Flush, Swap, CopySettings, Open, OpenFails, Pop, PopFails,
     Write, Close, At
<1>2. Alive' => Alive
  BY <1>1 DEF Alive
<1>3. /\ TypeOK
      /\ th \in [Threads -> Locals] /\ files \in [Paths -> Seq(Entries)]
      /\ buffer \in Seq(Entries) /\ Len(buffer) <= Len(buffer)
      /\ setup.path \in Paths /\ setup.level \in Levels
      /\ executing \in BOOLEAN /\ flushing \in BOOLEAN
      /\ status \in {"running", "exiting", "exited", "aborted", "cut", "refused"}
      /\ seen \in [accepted : Nat, dropped : SUBSET (Nat \ {0}), tested : Nat]
      /\ world \in [settings : Nat, failed : BOOLEAN]
  BY Fields, Zenon DEF LogTypes
<1>4. /\ th[t] \in Locals /\ th[t].caller \in Labels /\ th[t].out \in Paths \cup {None}
      /\ th[t].ss \in Seq(Entries)
  BY <1>3, LocalFields
<1>5. TRUE \in BOOLEAN /\ FALSE \in BOOLEAN
  OBVIOUS
<1>6. ASSUME flushing' \in BOOLEAN,
             buffer' \in Seq(Entries), Len(buffer') <= Len(buffer),
             files' \in [Paths -> Seq(Entries)], th' \in [Threads -> Locals],
             seen' \in [accepted : Nat, dropped : SUBSET (Nat \ {0}), tested : Nat],
             world' \in [settings : Nat, failed : BOOLEAN]
      PROVE  LogTypes'
  BY <1>1, <1>2, <1>3, <1>6, InsideTypes, Zenon
<1>7. CASE Swap(t)
  <2>1. th' \in [Threads -> Locals]
    <3>1. CASE flushing
      BY <1>3, <1>4, <1>7, <3>1, ReturnOnly DEF Swap
    <3>2. CASE ~flushing
      BY <1>3, <1>7, <3>2, GotoOnly DEF Swap, Labels
    <3> QED
      BY <3>1, <3>2
  <2>2. flushing' = TRUE /\ UNCHANGED <<buffer, files, seen, world>>
    BY <1>7 DEF Swap
  <2> QED
    BY <1>3, <1>5, <1>6, <2>1, <2>2, Zenon
<1>8. CASE CopySettings(t)
  <2>1. [th[t] EXCEPT !.pc = "open", !.level = setup.level] \in Locals
    BY <1>3, <1>4 DEF Locals, Labels
  <2>2. th' = [th EXCEPT ![t] = [th[t] EXCEPT !.pc = "open", !.level = setup.level]]
    BY <1>3, <1>8 DEF CopySettings
  <2>3. th' \in [Threads -> Locals]
    BY <1>3, <2>1, <2>2, Becomes
  <2>4. UNCHANGED <<buffer, flushing, files, seen, world>>
    BY <1>8 DEF CopySettings
  <2> QED
    BY <1>3, <1>6, <2>3, <2>4, Zenon
<1>9. CASE Open(t)
  <2>1. th' \in [Threads -> Locals]
    BY <1>3, <1>9, OpenOnly
  <2>2. world' \in [settings : Nat, failed : BOOLEAN]
    BY <1>3, <1>9 DEF Open
  <2>3. UNCHANGED <<buffer, flushing, files, seen>>
    BY <1>9 DEF Open
  <2> QED
    BY <1>3, <1>6, <2>1, <2>2, <2>3, Zenon
<1>10. CASE OpenFails(t)
  <2>1. (IF th[t].caller = "empty" THEN "empty" ELSE "idle") \in Labels
    BY DEF Labels
  <2>2. th' \in [Threads -> Locals]
    BY <1>3, <1>10, <2>1, ReturnOnly DEF OpenFails
  <2>3. world' \in [settings : Nat, failed : BOOLEAN]
    BY <1>3, <1>10 DEF OpenFails
  <2>4. flushing' = FALSE /\ UNCHANGED <<buffer, files, seen>>
    BY <1>10 DEF OpenFails
  <2> QED
    BY <1>3, <1>5, <1>6, <2>2, <2>3, <2>4, Zenon
<1>11. CASE Pop(t)
  <2>1. Head(buffer) \in Entries /\ Head(buffer).n \in Nat \ {0}
    <3>1. Head(buffer) \in Entries
      BY <1>3, <1>11 DEF Pop
    <3> QED
      BY <3>1 DEF Entries
  <2>2. buffer' \in Seq(Entries) /\ Len(buffer') <= Len(buffer)
    BY <1>3, <1>11 DEF Pop
  <2>3. UNCHANGED <<flushing, files, world>>
    BY <1>11 DEF Pop
  <2>4. CASE Head(buffer).level >= th[t].level
    <3>1. Append(th[t].ss, Head(buffer)) \in Seq(Entries)
      BY <1>4, <2>1
    <3>2. [th[t] EXCEPT !.ss = Append(th[t].ss, Head(buffer))] \in Locals
      BY <1>4, <3>1 DEF Locals
    <3>3. th' = [th EXCEPT ![t] = [th[t] EXCEPT !.ss = Append(th[t].ss, Head(buffer))]]
          /\ seen' = seen
      BY <1>3, <1>11, <2>4 DEF Pop
    <3>4. th' \in [Threads -> Locals]
      BY <1>3, <3>2, <3>3, Becomes
    <3> QED
      BY <1>3, <1>6, <2>2, <2>3, <3>3, <3>4, Zenon
  <2>5. CASE ~(Head(buffer).level >= th[t].level)
    <3>1. seen' = [seen EXCEPT !.dropped = seen.dropped \cup {Head(buffer).n}]
          /\ th' = th
      BY <1>11, <2>5 DEF Pop
    <3>2. seen' \in [accepted : Nat, dropped : SUBSET (Nat \ {0}), tested : Nat]
      BY <1>3, <2>1, <3>1
    <3> QED
      BY <1>3, <1>6, <2>2, <2>3, <3>1, <3>2, Zenon
  <2> QED
    BY <2>4, <2>5
<1>12. CASE PopFails(t)
  <2>1. th' \in [Threads -> Locals]
    BY <1>3, <1>12, GotoOnly DEF PopFails, Labels
  <2>2. UNCHANGED <<buffer, flushing, files, seen, world>>
    BY <1>12 DEF PopFails
  <2> QED
    BY <1>3, <1>6, <2>1, <2>2, Zenon
<1>13. CASE Write(t)
  <2>1. files' = [files EXCEPT ![th[t].out] = files[th[t].out] \o th[t].ss]
        /\ UNCHANGED <<buffer, flushing, seen, world>>
    BY <1>13 DEF Write
  <2>2. files' \in [Paths -> Seq(Entries)]
    <3>1. CASE th[t].out \in Paths
      <4>1. files[th[t].out] \o th[t].ss \in Seq(Entries)
        BY <1>3, <1>4, <3>1
      <4> QED
        BY <1>3, <2>1, <4>1
    <3>2. CASE th[t].out \notin Paths
      BY <1>3, <2>1, <3>2
    <3> QED
      BY <3>1, <3>2
  <2>3. [th[t] EXCEPT !.pc = "close", !.ss = <<>>] \in Locals
    <3>1. <<>> \in Seq(Entries)
      OBVIOUS
    <3> QED
      BY <1>4, <3>1 DEF Locals, Labels
  <2>4. th' = [th EXCEPT ![t] = [th[t] EXCEPT !.pc = "close", !.ss = <<>>]]
    BY <1>3, <1>13 DEF Write
  <2>5. th' \in [Threads -> Locals]
    BY <1>3, <2>3, <2>4, Becomes
  <2> QED
    BY <1>3, <1>6, <2>1, <2>2, <2>5, Zenon
<1>14. CASE Close(t)
  <2>1. th' \in [Threads -> Locals]
    BY <1>3, <1>4, <1>14, ReturnOnly DEF Close
  <2>2. flushing' = FALSE /\ UNCHANGED <<buffer, files, seen, world>>
    BY <1>14 DEF Close
  <2> QED
    BY <1>3, <1>5, <1>6, <2>1, <2>2, Zenon
<1> QED
  BY <1>7, <1>8, <1>9, <1>10, <1>11, <1>12, <1>13, <1>14 DEF Flush

\* A step outside flush() that leaves the contents of the log alone.
LEMMA StillTypes ==
  ASSUME LogTypes, initialized,
         UNCHANGED <<setup, assigning, initialized, buffer, flushing, files>>,
         executing' \in BOOLEAN, th' \in [Threads -> Locals],
         status' \in {"running", "exiting", "exited", "aborted", "cut", "refused"},
         Alive' => Alive,
         seen' \in [accepted : Nat, dropped : SUBSET (Nat \ {0}), tested : Nat],
         world' = world
  PROVE  LogTypes'
<1>1. TypeOK
  BY DEF LogTypes
<1> QED
  BY <1>1, Fields, InsideTypes, Zenon

LEMMA StepTypes == ASSUME LogTypes, NEW t \in Threads, Step(t) PROVE LogTypes'
<1>1. TypeOK /\ seen \in [accepted : Nat, dropped : SUBSET (Nat \ {0}), tested : Nat]
      /\ executing \in BOOLEAN
      /\ status \in {"running", "exiting", "exited", "aborted", "cut", "refused"}
  BY Fields, Zenon DEF LogTypes
<1>2. CASE /\ EnqueueFails(t) \/ CheckSize(t)
           /\ UNCHANGED <<setup, assigning, initialized, executing, buffer, flushing, files,
                          status, seen, world>>
  <2>1. initialized
    BY <1>2, InsideIsInitialized DEF EnqueueFails, CheckSize, At
  <2>2. th' \in [Threads -> Locals]
    <3>1. CASE EnqueueFails(t)
      BY <1>1, <3>1, GotoOnly DEF EnqueueFails, Labels
    <3>2. CASE CheckSize(t) /\ TooFull
      BY <1>1, <3>2, CalledOnly DEF CheckSize, Labels
    <3>3. CASE CheckSize(t) /\ ~TooFull
      BY <1>1, <3>3, GotoOnly DEF CheckSize, Labels
    <3> QED
      BY <1>2, <3>1, <3>2, <3>3
  <2>3. Alive' => Alive
    BY <1>2 DEF Alive
  <2> QED
    BY <1>1, <1>2, <2>1, <2>2, <2>3, StillTypes, Zenon
<1>3. CASE /\ CheckEmpty(t) \/ End(t)
           /\ UNCHANGED <<setup, assigning, initialized, executing, buffer, flushing, files,
                          world>>
  <2>1. initialized /\ Alive
    BY <1>3, InsideIsInitialized DEF CheckEmpty, End, At
  <2>2. CASE CheckEmpty(t) /\ buffer = <<>>
    <3>1. th' \in [Threads -> Locals]
      BY <1>1, <2>2, GotoOnly DEF CheckEmpty, Labels
    <3>2. status' = status /\ seen' = [seen EXCEPT !.tested = seen.accepted]
      BY <2>2 DEF CheckEmpty
    <3>3. seen' \in [accepted : Nat, dropped : SUBSET (Nat \ {0}), tested : Nat]
      BY <1>1, <3>2
    <3> QED
      BY <1>1, <1>3, <2>1, <3>1, <3>2, <3>3, StillTypes, Zenon
  <2>3. CASE CheckEmpty(t) /\ buffer # <<>>
    <3>1. th' \in [Threads -> Locals]
      BY <1>1, <2>3, CalledOnly DEF CheckEmpty, Labels
    <3>2. status' = status /\ seen' = seen
      BY <2>3 DEF CheckEmpty
    <3> QED
      BY <1>1, <1>3, <2>1, <3>1, <3>2, StillTypes, Zenon
  <2>4. CASE End(t)
    <3>1. th' \in [Threads -> Locals]
      BY <1>1, <2>4, ReturnOnly DEF End, Labels
    <3>2. status' \in {"running", "exiting", "exited", "aborted", "cut", "refused"}
          /\ seen' = seen
      BY <2>4 DEF End
    <3> QED
      BY <1>1, <1>3, <2>1, <3>1, <3>2, StillTypes, Zenon
  <2> QED
    BY <1>3, <2>2, <2>3, <2>4
<1>4. CASE OpenKills(t)
  <2>1. initialized
    BY <1>4, InsideIsInitialized DEF OpenKills, At
  <2>2. /\ HandleTerminate(t) /\ flushing' \in BOOLEAN
        /\ UNCHANGED <<setup, assigning, initialized, buffer, files, seen, world>>
        /\ Alive
    BY <1>4 DEF OpenKills, At
  <2>3. th' \in [Threads -> Locals] /\ executing' \in BOOLEAN /\ status' \in {status, "cut"}
    BY <1>1, <2>2, HandleTerminateOnly
  <2>4. status' \in {"running", "exiting", "exited", "aborted", "cut", "refused"}
    BY <1>1, <2>3
  <2> QED
    BY <1>1, <2>1, <2>2, <2>3, <2>4, Fields, InsideTypes, Zenon
<1>5. CASE OpenCrashes(t)
  <2>1. initialized /\ Alive
    BY <1>5, InsideIsInitialized DEF OpenCrashes, At
  <2>2. /\ status' = "cut"
        /\ UNCHANGED <<setup, assigning, initialized, executing, buffer, flushing, files, th,
                       seen, world>>
    BY <1>5 DEF OpenCrashes
  <2>3. status' \in {"running", "exiting", "exited", "aborted", "cut", "refused"}
    BY <2>2
  <2>4. th' \in [Threads -> Locals]
    BY <1>1, <2>2, Fields
  <2> QED
    BY <1>1, <2>1, <2>2, <2>3, <2>4, StillTypes, Zenon
<1> QED
  BY <1>2, <1>3, <1>4, <1>5, EnqueueTypes, FlushTypes DEF Step

LEMMA CallTypes == ASSUME LogTypes, NEW t \in Threads, Call(t) PROVE LogTypes'
<1>1. TypeOK /\ seen \in [accepted : Nat, dropped : SUBSET (Nat \ {0}), tested : Nat]
      /\ executing \in BOOLEAN
      /\ status \in {"running", "exiting", "exited", "aborted", "cut", "refused"}
  BY Fields, Zenon DEF LogTypes
<1>2. initialized /\ Alive
  BY DEF Call, BeginAdd, BeginFlush, Terminate, Exit, Free, Alive
<1>3. ASSUME NEW l \in Levels, BeginAdd(t, l) PROVE LogTypes'
  <2>1. [th[t] EXCEPT !.pc = "enqueue", !.arg = l] \in Locals
    BY <1>1, LocalFields DEF Locals, Labels
  <2>2. th' = [th EXCEPT ![t] = [th[t] EXCEPT !.pc = "enqueue", !.arg = l]]
    BY <1>1, <1>3 DEF BeginAdd, TypeOK
  <2>3. th' \in [Threads -> Locals]
    BY <1>1, <2>1, <2>2, Becomes
  <2>4. UNCHANGED <<setup, assigning, initialized, executing, buffer, flushing, files, status,
                    seen, world>>
    BY <1>3 DEF BeginAdd
  <2> QED
    BY <1>1, <1>2, <2>3, <2>4, StillTypes, Zenon
<1>4. CASE BeginFlush(t)
  <2>1. th' \in [Threads -> Locals]
    BY <1>1, <1>4, CalledOnly DEF BeginFlush, Labels
  <2>2. UNCHANGED <<setup, assigning, initialized, executing, buffer, flushing, files, status,
                    seen, world>>
    BY <1>4 DEF BeginFlush
  <2> QED
    BY <1>1, <1>2, <2>1, <2>2, StillTypes, Zenon
<1>5. CASE Terminate(t)
  <2>1. th' \in [Threads -> Locals]
    BY <1>1, <1>5, HandleTerminateOnly DEF Terminate
  <2>2. executing' \in BOOLEAN
    BY <1>1, <1>5, HandleTerminateOnly DEF Terminate
  <2>3. status' \in {"running", "exiting", "exited", "aborted", "cut", "refused"}
    BY <1>1, <1>5, HandleTerminateOnly DEF Terminate
  <2>4. UNCHANGED <<setup, assigning, initialized, buffer, flushing, files, seen, world>>
    BY <1>5 DEF Terminate
  <2> QED
    BY <1>1, <1>2, <2>1, <2>2, <2>3, <2>4, StillTypes, Zenon
<1>6. CASE Exit(t)
  <2>1. th' \in [Threads -> Locals]
    BY <1>1, <1>6, GotoOnly DEF Exit, Labels
  <2>2. status' \in {"running", "exiting", "exited", "aborted", "cut", "refused"}
    BY <1>6 DEF Exit
  <2>3. UNCHANGED <<setup, assigning, initialized, executing, buffer, flushing, files, seen, world>>
    BY <1>6 DEF Exit
  <2> QED
    BY <1>1, <1>2, <2>1, <2>2, <2>3, StillTypes, Zenon
<1> QED
  BY <1>3, <1>4, <1>5, <1>6 DEF Call

LEMMA StutterTypes == ASSUME LogTypes, UNCHANGED vars PROVE LogTypes'
BY DEF LogTypes, TypeOK, NothingYet, vars, Alive

LEMMA NextTypes == ASSUME LogTypes, [Next]_vars PROVE LogTypes'
BY BeginSettingTypes, SetGlobalLogTypes, ConstructTypes, StepTypes, CallTypes, StutterTypes
   DEF Next, Setting, Ended

\* The log never leaves its types, and its buffer never outgrows the ring, for
\* every number of threads, every length and whatever the settings become
\* (RuntimeLog.cpp lines 156-176).
THEOREM LogTypesAlways == Spec => []TypeOK
<1>1. LogTypes /\ [Next]_vars => LogTypes'
  BY NextTypes
<1>2. LogTypes => TypeOK
  BY DEF LogTypes
<1> QED
  BY <1>1, <1>2, InitTypes, PTL DEF Spec

-----------------------------------------------------------------------------
(* Who is where: one thread at a time moves entries, with empty hands       *)
(* before and after, and in the end only the destructor is left.            *)

OneFlusher ==
  \A t \in Threads : th[t].pc \in Moving =>
    flushing /\ \A u \in Threads : th[u].pc \in Moving => u = t

HandsEmpty ==
  \A t \in Threads : /\ th[t].pc \notin {"pop", "write"} => th[t].ss = <<>>
                     /\ th[t].pc \in {"pop", "write"} => th[t].out \in Paths

\* In exit() one thread is left, inside the destructor.
Destroying(t) ==
  /\ th[t].pc \in Moving \cup {"empty", "swap", "end"}
  /\ th[t].pc \notin {"empty", "end"} => th[t].caller = "empty"
  /\ th[t].pc = "end" => buffer = <<>>

LastOne ==
  /\ status = "exiting" =>
       \A t \in Threads : th[t].pc # "idle" =>
         Destroying(t) /\ \A u \in Threads : th[u].pc # "idle" => u = t
  /\ status = "exited" => buffer = <<>> /\ \A t \in Threads : th[t].pc = "idle"

Control == OneFlusher /\ HandsEmpty /\ LastOne

LEMMA InitControl == Init => Control
BY DEF Init, Outside, Control, OneFlusher, HandsEmpty, LastOne, Moving

LEMMA FlusherStays ==
  ASSUME OneFlusher, NEW t \in Threads, flushing' <=> flushing,
         th'[t].pc \in Moving => th[t].pc \in Moving,
         \A u \in Threads : u # t => th'[u] = th[u]
  PROVE  OneFlusher'
BY DEF OneFlusher

LEMMA FlusherLeaves ==
  ASSUME OneFlusher, NEW t \in Threads, th[t].pc \in Moving, th'[t].pc \notin Moving,
         \A u \in Threads : u # t => th'[u] = th[u]
  PROVE  OneFlusher'
BY DEF OneFlusher

LEMMA FlusherComes ==
  ASSUME OneFlusher, NEW t \in Threads, ~flushing, flushing',
         \A u \in Threads : u # t => th'[u] = th[u]
  PROVE  OneFlusher'
BY DEF OneFlusher

LEMMA HandsStay ==
  ASSUME HandsEmpty, NEW t \in Threads,
         th'[t].pc \notin {"pop", "write"} => th'[t].ss = <<>>,
         th'[t].pc \in {"pop", "write"} => th'[t].out \in Paths,
         \A u \in Threads : u # t => th'[u] = th[u]
  PROVE  HandsEmpty'
BY DEF HandsEmpty

LEMMA LastStays ==
  ASSUME LastOne, NEW t \in Threads, th[t].pc # "idle", status' = status,
         status # "exited",
         status = "exiting" /\ Destroying(t) => Destroying(t)',
         \A u \in Threads : u # t => th'[u] = th[u]
  PROVE  LastOne'
BY DEF LastOne, Destroying

\* Where a step of flush() takes its thread.
LEMMA FlushControl ==
  ASSUME LogTypes, Control, NEW t \in Threads, Flush(t)
  PROVE  Control'
<1>1. /\ TypeOK /\ OneFlusher /\ HandsEmpty /\ LastOne
      /\ th \in [Threads -> Locals] /\ th[t] \in Locals /\ setup.path \in Paths
      /\ th[t].caller \in {"idle", "enqueue", "empty"}
  BY Fields, LocalFields DEF LogTypes, Control
<1>2. status' = status /\ status # "exited" /\ th[t].pc # "idle"
  BY DEF Flush, Swap, CopySettings, Open, OpenFails, Pop, PopFails, Write, Close, At,
     Alive
<1>3. th[t].pc \notin {"pop", "write"} => th[t].ss = <<>>
  BY <1>1 DEF HandsEmpty
<1>4. th[t].pc \in {"pop", "write"} => th[t].out \in Paths
  BY <1>1 DEF HandsEmpty
<1>5. CASE Swap(t) /\ flushing
  <2>1. /\ th'[t].pc = th[t].caller /\ th'[t].ss = <<>>
        /\ \A u \in Threads : u # t => th'[u] = th[u]
    BY <1>1, <1>5, ReturnOnly DEF Swap, Labels
  <2>2. th[t].pc = "swap" /\ flushing'
    BY <1>5 DEF Swap, At
  <2>3. OneFlusher'
    BY <1>1, <1>5, <2>1, <2>2, FlusherStays DEF Moving
  <2>4. HandsEmpty'
    BY <1>1, <2>1, HandsStay
  <2>5. LastOne'
    BY <1>1, <1>2, <2>1, <2>2, LastStays DEF Destroying, Moving
  <2> QED
    BY <2>3, <2>4, <2>5 DEF Control
<1>6. CASE Swap(t) /\ ~flushing
  <2>1. /\ th'[t].pc = "copy" /\ th'[t].ss = th[t].ss /\ th'[t].caller = th[t].caller
        /\ \A u \in Threads : u # t => th'[u] = th[u]
    BY <1>1, <1>6, GotoOnly DEF Swap, Labels
  <2>2. th[t].pc = "swap" /\ flushing'
    BY <1>6 DEF Swap, At
  <2>3. OneFlusher'
    BY <1>1, <1>6, <2>1, <2>2, FlusherComes
  <2>4. HandsEmpty'
    BY <1>1, <1>3, <2>1, <2>2, HandsStay
  <2>5. LastOne'
    BY <1>1, <1>2, <2>1, <2>2, LastStays DEF Destroying, Moving
  <2> QED
    BY <2>3, <2>4, <2>5 DEF Control
<1>7. CASE CopySettings(t)
  <2>1. /\ th'[t].pc = "open" /\ th'[t].ss = th[t].ss /\ th'[t].caller = th[t].caller
        /\ \A u \in Threads : u # t => th'[u] = th[u]
    BY <1>1, <1>7 DEF CopySettings, Locals
  <2>2. th[t].pc = "copy" /\ flushing' = flushing
    BY <1>7 DEF CopySettings, At
  <2>3. OneFlusher'
    BY <1>1, <2>1, <2>2, FlusherStays DEF Moving
  <2>4. HandsEmpty'
    BY <1>1, <1>3, <2>1, <2>2, HandsStay
  <2>5. LastOne'
    BY <1>1, <1>2, <2>1, <2>2, LastStays DEF Destroying, Moving
  <2> QED
    BY <2>3, <2>4, <2>5 DEF Control
<1>8. CASE Open(t)
  <2>1. /\ th'[t].pc = "pop" /\ th'[t].out \in Paths /\ th'[t].caller = th[t].caller
        /\ \A u \in Threads : u # t => th'[u] = th[u]
    BY <1>1, <1>8, OpenOnly
  <2>2. th[t].pc = "open" /\ flushing' = flushing
    BY <1>8 DEF Open, At
  <2>3. OneFlusher'
    BY <1>1, <2>1, <2>2, FlusherStays DEF Moving
  <2>4. HandsEmpty'
    BY <1>1, <2>1, HandsStay
  <2>5. LastOne'
    BY <1>1, <1>2, <2>1, <2>2, LastStays DEF Destroying, Moving
  <2> QED
    BY <2>3, <2>4, <2>5 DEF Control
<1>9. CASE OpenFails(t)
  <2> DEFINE label == IF th[t].caller = "empty" THEN "empty" ELSE "idle"
  <2>1. /\ th'[t].pc = label /\ th'[t].ss = <<>>
        /\ \A u \in Threads : u # t => th'[u] = th[u]
    <3>1. label \in Labels
      BY DEF Labels
    <3> QED
      BY <1>1, <1>9, <3>1, ReturnOnly DEF OpenFails
  <2>2. th[t].pc = "open"
    BY <1>9 DEF OpenFails, At
  <2>3. OneFlusher'
    BY <1>1, <2>1, <2>2, FlusherLeaves DEF Moving
  <2>4. HandsEmpty'
    BY <1>1, <2>1, HandsStay
  <2>5. LastOne'
    BY <1>1, <1>2, <2>1, <2>2, LastStays DEF Destroying, Moving
  <2> QED
    BY <2>3, <2>4, <2>5 DEF Control
<1>10. CASE Pop(t)
  <2>1. /\ th'[t].pc = "pop" /\ th'[t].out = th[t].out /\ th'[t].caller = th[t].caller
        /\ \A u \in Threads : u # t => th'[u] = th[u]
    BY <1>1, <1>10 DEF Pop, At, Locals
  <2>2. th[t].pc = "pop" /\ flushing' = flushing
    BY <1>10 DEF Pop, At
  <2>3. OneFlusher'
    BY <1>1, <2>1, <2>2, FlusherStays DEF Moving
  <2>4. HandsEmpty'
    BY <1>1, <1>4, <2>1, <2>2, HandsStay
  <2>5. LastOne'
    BY <1>1, <1>2, <2>1, <2>2, LastStays DEF Destroying, Moving
  <2> QED
    BY <2>3, <2>4, <2>5 DEF Control
<1>11. CASE PopFails(t)
  <2>1. /\ th'[t].pc = "write" /\ th'[t].out = th[t].out /\ th'[t].caller = th[t].caller
        /\ \A u \in Threads : u # t => th'[u] = th[u]
    BY <1>1, <1>11, GotoOnly DEF PopFails, Labels
  <2>2. th[t].pc = "pop" /\ flushing' = flushing
    BY <1>11 DEF PopFails, At
  <2>3. OneFlusher'
    BY <1>1, <2>1, <2>2, FlusherStays DEF Moving
  <2>4. HandsEmpty'
    BY <1>1, <1>4, <2>1, <2>2, HandsStay
  <2>5. LastOne'
    BY <1>1, <1>2, <2>1, <2>2, LastStays DEF Destroying, Moving
  <2> QED
    BY <2>3, <2>4, <2>5 DEF Control
<1>12. CASE Write(t)
  <2>1. /\ th'[t].pc = "close" /\ th'[t].ss = <<>> /\ th'[t].caller = th[t].caller
        /\ \A u \in Threads : u # t => th'[u] = th[u]
    BY <1>1, <1>12 DEF Write, Locals
  <2>2. th[t].pc = "write" /\ flushing' = flushing
    BY <1>12 DEF Write, At
  <2>3. OneFlusher'
    BY <1>1, <2>1, <2>2, FlusherStays DEF Moving
  <2>4. HandsEmpty'
    BY <1>1, <2>1, HandsStay
  <2>5. LastOne'
    BY <1>1, <1>2, <2>1, <2>2, LastStays DEF Destroying, Moving
  <2> QED
    BY <2>3, <2>4, <2>5 DEF Control
<1>13. CASE Close(t)
  <2>1. /\ th'[t].pc = th[t].caller /\ th'[t].ss = <<>>
        /\ \A u \in Threads : u # t => th'[u] = th[u]
    BY <1>1, <1>13, ReturnOnly DEF Close, Labels
  <2>2. th[t].pc = "close"
    BY <1>13 DEF Close, At
  <2>3. OneFlusher'
    BY <1>1, <2>1, <2>2, FlusherLeaves DEF Moving
  <2>4. HandsEmpty'
    BY <1>1, <2>1, HandsStay
  <2>5. LastOne'
    BY <1>1, <1>2, <2>1, <2>2, LastStays DEF Destroying, Moving
  <2> QED
    BY <2>3, <2>4, <2>5 DEF Control
<1> QED
  BY <1>5, <1>6, <1>7, <1>8, <1>9, <1>10, <1>11, <1>12, <1>13 DEF Flush

LEMMA StepControl == ASSUME LogTypes, Control, NEW t \in Threads, Step(t) PROVE Control'
<1>1. /\ TypeOK /\ OneFlusher /\ HandsEmpty /\ LastOne
      /\ th \in [Threads -> Locals]
  BY Fields DEF LogTypes, Control
<1>2. CASE Enqueue(t)
  <2>1. /\ th'[t].pc = "idle" /\ th'[t].ss = <<>>
        /\ \A u \in Threads : u # t => th'[u] = th[u]
    BY <1>1, <1>2, ReturnOnly DEF Enqueue, Labels
  <2>2. /\ th[t].pc = "enqueue" /\ flushing' = flushing /\ status' = status
        /\ status # "exited"
    BY <1>2 DEF Enqueue, At, Alive
  <2>3. OneFlusher'
    BY <1>1, <2>1, <2>2, FlusherStays DEF Moving
  <2>4. HandsEmpty'
    BY <1>1, <2>1, HandsStay
  <2>5. LastOne'
    BY <1>1, <2>1, <2>2, LastStays DEF Destroying, Moving
  <2> QED
    BY <2>3, <2>4, <2>5 DEF Control
<1>3. CASE (EnqueueFails(t) \/ CheckSize(t)) /\ UNCHANGED <<flushing, status>>
  <2>1. /\ th'[t].pc \in {"size", "swap", "enqueue"} /\ th'[t].ss = th[t].ss
        /\ \A u \in Threads : u # t => th'[u] = th[u]
    <3>1. CASE EnqueueFails(t)
      BY <1>1, <3>1, GotoOnly DEF EnqueueFails, Labels
    <3>2. CASE CheckSize(t) /\ TooFull
      BY <1>1, <3>2, CalledOnly DEF CheckSize, Labels
    <3>3. CASE CheckSize(t) /\ ~TooFull
      BY <1>1, <3>3, GotoOnly DEF CheckSize, Labels
    <3> QED
      BY <1>3, <3>1, <3>2, <3>3
  <2>2. th[t].pc \in {"enqueue", "size"} /\ status # "exited"
    BY <1>3 DEF EnqueueFails, CheckSize, At, Alive
  <2>3. OneFlusher'
    BY <1>1, <1>3, <2>1, <2>2, FlusherStays DEF Moving
  <2>4. HandsEmpty'
    <3>1. th[t].ss = <<>>
      BY <1>1, <2>2 DEF HandsEmpty
    <3> QED
      BY <1>1, <2>1, <3>1, HandsStay
  <2>5. LastOne'
    BY <1>1, <1>3, <2>1, <2>2, LastStays DEF Destroying, Moving
  <2> QED
    BY <2>3, <2>4, <2>5 DEF Control
<1>4. CASE CheckEmpty(t) /\ UNCHANGED <<flushing, buffer>>
  <2>1. /\ buffer = <<>> => th'[t].pc = "end"
        /\ buffer # <<>> => th'[t].pc = "swap" /\ th'[t].caller = "empty"
        /\ th'[t].ss = th[t].ss
        /\ \A u \in Threads : u # t => th'[u] = th[u]
    <3>1. CASE buffer = <<>>
      BY <1>1, <1>4, <3>1, GotoOnly DEF CheckEmpty, Labels
    <3>2. CASE buffer # <<>>
      BY <1>1, <1>4, <3>2, CalledOnly DEF CheckEmpty, Labels
    <3> QED
      BY <3>1, <3>2
  <2>2. th[t].pc = "empty" /\ status' = status /\ status # "exited"
    BY <1>4 DEF CheckEmpty, At, Alive
  <2>3. OneFlusher'
    BY <1>1, <1>4, <2>1, <2>2, FlusherStays DEF Moving
  <2>4. HandsEmpty'
    <3>1. th[t].ss = <<>>
      BY <1>1, <2>2 DEF HandsEmpty
    <3> QED
      BY <1>1, <2>1, <3>1, HandsStay
  <2>5. LastOne'
    BY <1>1, <1>4, <2>1, <2>2, LastStays DEF Destroying, Moving
  <2> QED
    BY <2>3, <2>4, <2>5 DEF Control
<1>5. CASE End(t) /\ UNCHANGED <<flushing, buffer>>
  <2>1. /\ th'[t].pc = "idle" /\ th'[t].ss = <<>>
        /\ \A u \in Threads : u # t => th'[u] = th[u]
    BY <1>1, <1>5, ReturnOnly DEF End, Labels
  <2>2. th[t].pc = "end"
    BY <1>5 DEF End, At
  <2>3. OneFlusher'
    BY <1>1, <1>5, <2>1, <2>2, FlusherStays DEF Moving
  <2>4. HandsEmpty'
    BY <1>1, <2>1, HandsStay
  <2>5. LastOne'
    BY <1>1, <1>5, <2>1, <2>2 DEF LastOne, Destroying, End
  <2> QED
    BY <2>3, <2>4, <2>5 DEF Control
<1>6. CASE OpenKills(t)
  <2>1. th[t].pc = "open" /\ th[t].caller # "empty" /\ HandleTerminate(t) /\ Alive
    BY <1>6 DEF OpenKills, At
  <2>2. /\ th'[t].pc \in {"idle", "empty"} /\ th'[t].ss = <<>>
        /\ \A u \in Threads : u # t => th'[u] = th[u]
        /\ status' \in {status, "cut"}
    BY <1>1, <2>1, HandleTerminateOnly
  <2>3. OneFlusher'
    BY <1>1, <2>1, <2>2, FlusherLeaves DEF Moving
  <2>4. HandsEmpty'
    BY <1>1, <2>2, HandsStay
  <2>5. status = "running"
    BY <1>1, <2>1 DEF Alive, LastOne, Destroying
  <2>6. LastOne'
    BY <2>2, <2>5 DEF LastOne
  <2> QED
    BY <2>3, <2>4, <2>6 DEF Control
<1>7. CASE OpenCrashes(t)
  BY <1>1, <1>7 DEF OpenCrashes, Control, OneFlusher, HandsEmpty, LastOne
<1> QED
  BY <1>2, <1>3, <1>4, <1>5, <1>6, <1>7, FlushControl DEF Step

LEMMA CallControl == ASSUME LogTypes, Control, NEW t \in Threads, Call(t) PROVE Control'
<1>1. /\ TypeOK /\ OneFlusher /\ HandsEmpty /\ LastOne
      /\ th \in [Threads -> Locals]
  BY Fields DEF LogTypes, Control
<1>2. th[t].pc = "idle" /\ status = "running" /\ th[t].ss = <<>>
  BY <1>1 DEF HandsEmpty, Call, BeginAdd, BeginFlush, Terminate, Exit, Free
<1>3. /\ th'[t].pc \in {"idle", "enqueue", "swap", "empty"} /\ th'[t].ss = th[t].ss
      /\ \A u \in Threads : u # t => th'[u] = th[u]
      /\ flushing' = flushing
  <2>1. ASSUME NEW l \in Levels, BeginAdd(t, l)
        PROVE  /\ th'[t].pc = "enqueue" /\ th'[t].ss = th[t].ss
               /\ \A u \in Threads : u # t => th'[u] = th[u]
               /\ flushing' = flushing
    BY <1>1, <2>1 DEF BeginAdd, Locals
  <2>2. CASE BeginFlush(t)
    BY <1>1, <2>2, CalledOnly DEF BeginFlush, Labels
  <2>3. CASE Terminate(t)
    BY <1>1, <1>2, <2>3, HandleTerminateOnly DEF Terminate
  <2>4. CASE Exit(t)
    BY <1>1, <2>4, GotoOnly DEF Exit, Labels
  <2> QED
    BY <2>1, <2>2, <2>3, <2>4 DEF Call
<1>4. OneFlusher'
  BY <1>1, <1>3, FlusherStays DEF Moving
<1>5. HandsEmpty'
  BY <1>1, <1>2, <1>3, HandsStay
<1>6. LastOne'
  <2>1. CASE Exit(t)
    <3>1. status' = "exiting" /\ th'[t].pc = "empty" /\ \A u \in Threads : th[u].pc = "idle"
      BY <1>1, <2>1, GotoOnly DEF Exit, Free, Labels
    <3> QED
      BY <1>3, <3>1 DEF LastOne, Destroying
  <2>2. CASE ~Exit(t)
    <3>1. status' \in {"running", "cut"}
      BY <1>2, <2>2 DEF Call, BeginAdd, BeginFlush, Terminate, HandleTerminate
    <3> QED
      BY <3>1 DEF LastOne
  <2> QED
    BY <2>1, <2>2
<1> QED
  BY <1>4, <1>5, <1>6 DEF Control

LEMMA NextControl == ASSUME LogTypes, Control, [Next]_vars PROVE Control'
<1>1. ASSUME NEW s \in Setups, SetGlobalLog(s) PROVE Control'
  BY <1>1 DEF Control, OneFlusher, HandsEmpty, LastOne, Destroying, SetGlobalLog
<1>2. CASE Construct
  BY <1>2 DEF Control, OneFlusher, HandsEmpty, LastOne, Destroying, Construct
<1>3. CASE UNCHANGED vars
  BY <1>3 DEF Control, OneFlusher, HandsEmpty, LastOne, Destroying, vars
<1>4. CASE BeginSetting
  BY <1>4 DEF Control, OneFlusher, HandsEmpty, LastOne, Destroying, BeginSetting
<1> QED
  BY <1>1, <1>2, <1>3, <1>4, StepControl, CallControl DEF Next, Setting, Ended

-----------------------------------------------------------------------------
(* What the log contains: the numbers of the entries, and where they are.   *)

LEMMA NumbersAreNats == ASSUME NEW s \in Seq(Entries) PROVE Numbers(s) \subseteq Nat \ {0}
<1>1. \A i \in DOMAIN s : s[i] \in Entries
  OBVIOUS
<1>2. \A e \in Entries : e.n \in Nat \ {0}
  BY DEF Entries
<1> QED
  BY <1>1, <1>2 DEF Numbers

LEMMA NumbersEmpty == Numbers(<<>>) = {}
BY DEF Numbers

LEMMA NumbersAppend ==
  ASSUME NEW s \in Seq(Entries), NEW e \in Entries
  PROVE  Numbers(Append(s, e)) = Numbers(s) \cup {e.n}
BY DEF Numbers

LEMMA NumbersTail ==
  ASSUME NEW s \in Seq(Entries), s # <<>>
  PROVE  Numbers(s) = Numbers(Tail(s)) \cup {Head(s).n}
<1> DEFINE r == Tail(s)
<1>1. /\ Len(s) \in Nat /\ Len(s) >= 1 /\ Len(r) = Len(s) - 1
      /\ DOMAIN s = 1..Len(s) /\ DOMAIN r = 1..Len(r) /\ Head(s) = s[1]
      /\ \A i \in 1..Len(r) : r[i] = s[i + 1]
  OBVIOUS
<1>2. ASSUME NEW i \in DOMAIN s PROVE s[i].n \in Numbers(r) \cup {Head(s).n}
  <2>1. CASE i = 1
    BY <1>1, <2>1
  <2>2. CASE i # 1
    <3>1. i - 1 \in DOMAIN r /\ r[i - 1] = s[i]
      BY <1>1, <2>2
    <3> QED
      BY <3>1 DEF Numbers
  <2> QED
    BY <2>1, <2>2
<1>3. ASSUME NEW i \in DOMAIN r PROVE r[i].n \in Numbers(s)
  <2>1. i + 1 \in DOMAIN s /\ s[i + 1] = r[i]
    BY <1>1
  <2> QED
    BY <2>1 DEF Numbers
<1>4. Head(s).n \in Numbers(s)
  BY <1>1 DEF Numbers
<1> QED
  BY <1>2, <1>3, <1>4 DEF Numbers

LEMMA NumbersConcat ==
  ASSUME NEW s \in Seq(Entries), NEW u \in Seq(Entries)
  PROVE  Numbers(s \o u) = Numbers(s) \cup Numbers(u)
<1> DEFINE r == s \o u
<1>1. /\ Len(s) \in Nat /\ Len(u) \in Nat /\ Len(r) = Len(s) + Len(u)
      /\ DOMAIN s = 1..Len(s) /\ DOMAIN u = 1..Len(u) /\ DOMAIN r = 1..Len(r)
      /\ \A i \in 1..Len(r) : r[i] = IF i <= Len(s) THEN s[i] ELSE u[i - Len(s)]
  OBVIOUS
<1>2. ASSUME NEW i \in DOMAIN r PROVE r[i].n \in Numbers(s) \cup Numbers(u)
  <2>1. CASE i <= Len(s)
    BY <1>1, <2>1 DEF Numbers
  <2>2. CASE ~(i <= Len(s))
    <3>1. i - Len(s) \in DOMAIN u /\ r[i] = u[i - Len(s)]
      BY <1>1, <2>2
    <3> QED
      BY <3>1 DEF Numbers
  <2> QED
    BY <2>1, <2>2
<1>3. ASSUME NEW i \in DOMAIN s PROVE s[i].n \in Numbers(r)
  <2>1. i \in DOMAIN r /\ r[i] = s[i]
    BY <1>1
  <2> QED
    BY <2>1 DEF Numbers
<1>4. ASSUME NEW i \in DOMAIN u PROVE u[i].n \in Numbers(r)
  <2>1. i + Len(s) \in DOMAIN r /\ r[i + Len(s)] = u[i]
    BY <1>1
  <2> QED
    BY <2>1 DEF Numbers
<1> QED
  BY <1>2, <1>3, <1>4 DEF Numbers

\* The orders between and in sequences, by the numbers in them.
LEMMA BeforeIsBelow ==
  ASSUME NEW s, NEW u
  PROVE  Before(s, u) <=> \A a \in Numbers(s), b \in Numbers(u) : a < b
BY DEF Before, Numbers

LEMMA AscendingAppend ==
  ASSUME NEW s \in Seq(Entries), NEW e \in Entries, Ascending(s),
         \A a \in Numbers(s) : a < e.n
  PROVE  Ascending(Append(s, e))
BY DEF Ascending, Numbers

LEMMA AscendingTail ==
  ASSUME NEW s \in Seq(Entries), s # <<>>, Ascending(s)
  PROVE  /\ Ascending(Tail(s))
         /\ \A b \in Numbers(Tail(s)) : Head(s).n < b
<1> DEFINE r == Tail(s)
<1>1. /\ Len(s) \in Nat /\ Len(s) >= 1 /\ Len(r) = Len(s) - 1
      /\ DOMAIN s = 1..Len(s) /\ DOMAIN r = 1..Len(r) /\ Head(s) = s[1]
      /\ \A i \in 1..Len(r) : r[i] = s[i + 1]
  OBVIOUS
<1>2. ASSUME NEW i \in DOMAIN r, NEW j \in DOMAIN r, i < j PROVE r[i].n < r[j].n
  <2>1. i + 1 \in DOMAIN s /\ j + 1 \in DOMAIN s /\ i + 1 < j + 1
    BY <1>1, <1>2
  <2> QED
    BY <1>1, <2>1 DEF Ascending
<1>3. ASSUME NEW i \in DOMAIN r PROVE Head(s).n < r[i].n
  <2>1. i + 1 \in DOMAIN s /\ 1 \in DOMAIN s /\ 1 < i + 1
    BY <1>1
  <2> QED
    BY <1>1, <2>1 DEF Ascending
<1> QED
  BY <1>2, <1>3 DEF Ascending, Numbers

LEMMA AscendingConcat ==
  ASSUME NEW s \in Seq(Entries), NEW u \in Seq(Entries), Ascending(s), Ascending(u),
         Before(s, u)
  PROVE  Ascending(s \o u)
<1> DEFINE r == s \o u
<1>1. /\ Len(s) \in Nat /\ Len(u) \in Nat /\ Len(r) = Len(s) + Len(u)
      /\ DOMAIN s = 1..Len(s) /\ DOMAIN u = 1..Len(u) /\ DOMAIN r = 1..Len(r)
      /\ \A i \in 1..Len(r) : r[i] = IF i <= Len(s) THEN s[i] ELSE u[i - Len(s)]
  OBVIOUS
<1>2. ASSUME NEW i \in DOMAIN r, NEW j \in DOMAIN r, i < j PROVE r[i].n < r[j].n
  <2>1. CASE j <= Len(s)
    <3>1. i \in DOMAIN s /\ j \in DOMAIN s /\ r[i] = s[i] /\ r[j] = s[j]
      BY <1>1, <1>2, <2>1
    <3> QED
      BY <1>2, <3>1 DEF Ascending
  <2>2. CASE i <= Len(s) /\ ~(j <= Len(s))
    <3>1. i \in DOMAIN s /\ j - Len(s) \in DOMAIN u /\ r[i] = s[i] /\ r[j] = u[j - Len(s)]
      BY <1>1, <2>2
    <3> QED
      BY <3>1 DEF Before
  <2>3. CASE ~(i <= Len(s))
    <3>1. /\ i - Len(s) \in DOMAIN u /\ j - Len(s) \in DOMAIN u /\ i - Len(s) < j - Len(s)
          /\ r[i] = u[i - Len(s)] /\ r[j] = u[j - Len(s)]
      BY <1>1, <1>2, <2>3
    <3> QED
      BY <3>1 DEF Ascending
  <2> QED
    BY <1>1, <2>1, <2>2, <2>3
<1> QED
  BY <1>2 DEF Ascending

-----------------------------------------------------------------------------
(* Every entry is numbered when it is accepted, and is in one place.         *)

Numbered ==
  /\ \A n \in Numbers(buffer) : seen.tested < n /\ n <= seen.accepted
  /\ \A p \in Paths : \A n \in Numbers(files[p]) : n <= seen.accepted
  /\ \A t \in Threads : \A n \in Numbers(th[t].ss) : n <= seen.accepted
  /\ \A n \in seen.dropped : n <= seen.accepted
  /\ seen.tested <= seen.accepted

OnePlace == \A n \in 1..seen.accepted : \E x : Places(n) = {x}

Contents == Numbered /\ OnePlace /\ WrittenInOrder

LEMMA Counts ==
  ASSUME TypeOK
  PROVE  /\ seen.accepted \in Nat /\ seen.tested \in Nat /\ seen.dropped \subseteq Nat \ {0}
         /\ Numbers(buffer) \subseteq Nat \ {0}
         /\ \A p \in Paths : files[p] \in Seq(Entries) /\ Numbers(files[p]) \subseteq Nat \ {0}
         /\ \A t \in Threads : th[t].ss \in Seq(Entries) /\ Numbers(th[t].ss) \subseteq Nat \ {0}
<1>1. buffer \in Seq(Entries) /\ files \in [Paths -> Seq(Entries)]
      /\ seen \in [accepted : Nat, dropped : SUBSET (Nat \ {0}), tested : Nat]
  BY Fields
<1>2. \A p \in Paths : files[p] \in Seq(Entries)
  BY <1>1
<1>3. \A t \in Threads : th[t].ss \in Seq(Entries)
  BY LocalFields
<1> QED
  BY <1>1, <1>2, <1>3, NumbersAreNats

LEMMA Bounded ==
  ASSUME TypeOK, Numbered
  PROVE  /\ seen.accepted \in Nat /\ seen.tested \in Nat /\ seen.tested <= seen.accepted
         /\ \A n \in Numbers(buffer) : n \in 1..seen.accepted /\ seen.tested < n
         /\ \A p \in Paths : \A n \in Numbers(files[p]) : n \in 1..seen.accepted
         /\ \A t \in Threads : \A n \in Numbers(th[t].ss) : n \in 1..seen.accepted
         /\ \A n \in seen.dropped : n \in 1..seen.accepted
<1>1. seen.accepted \in Nat /\ seen.tested \in Nat /\ seen.tested <= seen.accepted
  BY Counts DEF Numbered
<1>2. \A n \in Nat \ {0} : n <= seen.accepted => n \in 1..seen.accepted
  BY <1>1
<1>3. ASSUME NEW n \in Numbers(buffer) PROVE n \in 1..seen.accepted /\ seen.tested < n
  <2>1. n \in Nat \ {0} /\ n <= seen.accepted /\ seen.tested < n
    BY Counts DEF Numbered
  <2> QED
    BY <1>2, <2>1
<1>4. ASSUME NEW p \in Paths, NEW n \in Numbers(files[p]) PROVE n \in 1..seen.accepted
  <2>1. n \in Nat \ {0} /\ n <= seen.accepted
    BY Counts DEF Numbered
  <2> QED
    BY <1>2, <2>1
<1>5. ASSUME NEW t \in Threads, NEW n \in Numbers(th[t].ss) PROVE n \in 1..seen.accepted
  <2>1. n \in Nat \ {0} /\ n <= seen.accepted
    BY Counts DEF Numbered
  <2> QED
    BY <1>2, <2>1
<1>6. ASSUME NEW n \in seen.dropped PROVE n \in 1..seen.accepted
  <2>1. n \in Nat \ {0} /\ n <= seen.accepted
    BY Counts DEF Numbered
  <2> QED
    BY <1>2, <2>1
<1> QED
  BY <1>1, <1>3, <1>4, <1>5, <1>6

LEMMA InitContents == Init => Contents
<1> SUFFICES ASSUME Init PROVE Contents
  OBVIOUS
<1>1. /\ buffer = <<>> /\ seen = [accepted |-> 0, dropped |-> {}, tested |-> 0]
      /\ \A p \in Paths : files[p] = <<>>
      /\ \A t \in Threads : th[t].ss = <<>>
  BY DEF Init, Outside
<1>2. Numbered
  BY <1>1, NumbersEmpty DEF Numbered
<1>3. OnePlace
  BY <1>1 DEF OnePlace
<1>4. WrittenInOrder
  BY <1>1, NumbersEmpty DEF WrittenInOrder, Ascending, Before
<1> QED
  BY <1>2, <1>3, <1>4 DEF Contents

\* A step that moves no entry.
LEMMA ContentsStay ==
  ASSUME Contents, UNCHANGED <<buffer, files>>,
         seen'.accepted = seen.accepted, seen'.dropped = seen.dropped,
         seen'.tested <= seen.accepted,
         \A n \in Numbers(buffer) : seen'.tested < n,
         \A t \in Threads : th'[t].ss = th[t].ss
  PROVE  Contents'
<1>1. Numbered'
  BY DEF Contents, Numbered
<1>2. \A n : Places(n)' = Places(n)
  BY DEF Places
<1>3. OnePlace'
  BY <1>2 DEF Contents, OnePlace
<1>4. WrittenInOrder'
  BY DEF Contents, WrittenInOrder
<1> QED
  BY <1>1, <1>3, <1>4 DEF Contents

LEMMA PlaceSets ==
  ASSUME NEW n
  PROVE  \A x : x \in Places(n) <=>
            \/ n \in seen.dropped /\ x = <<"dropped">>
            \/ n \in Numbers(buffer) /\ x = <<"buffer">>
            \/ \E t \in Threads : n \in Numbers(th[t].ss) /\ x = <<"ss", t>>
            \/ \E p \in Paths : n \in Numbers(files[p]) /\ x = <<"file", p>>
BY DEF Places

LEMMA Distinct ==
  /\ <<"dropped">> # <<"buffer">>
  /\ \A t : <<"ss", t>> # <<"buffer">> /\ <<"ss", t>> # <<"dropped">>
  /\ \A t, p : <<"ss", t>> # <<"file", p>>
  /\ \A p : <<"file", p>> # <<"buffer">> /\ <<"file", p>> # <<"dropped">>
  /\ \A t, u : <<"ss", t>> = <<"ss", u>> => t = u
<1>1. <<"dropped">> # <<"buffer">>
  OBVIOUS
<1>2. ASSUME NEW t PROVE <<"ss", t>> # <<"buffer">> /\ <<"ss", t>> # <<"dropped">>
  OBVIOUS
<1>3. ASSUME NEW t, NEW p PROVE <<"ss", t>> # <<"file", p>>
  OBVIOUS
<1>4. ASSUME NEW p PROVE <<"file", p>> # <<"buffer">> /\ <<"file", p>> # <<"dropped">>
  OBVIOUS
<1>5. ASSUME NEW t, NEW u, <<"ss", t>> = <<"ss", u>> PROVE t = u
  BY <1>5
<1> QED
  BY <1>1, <1>2, <1>3, <1>4, <1>5

\* What is in the buffer is nowhere else.
LEMMA OnlyBuffered ==
  ASSUME OnePlace, NEW n \in 1..seen.accepted, n \in Numbers(buffer)
  PROVE  /\ n \notin seen.dropped
         /\ \A t \in Threads : n \notin Numbers(th[t].ss)
         /\ \A p \in Paths : n \notin Numbers(files[p])
<1>1. PICK x : Places(n) = {x}
  BY DEF OnePlace
<1>2. \A y : y \in Places(n) => y = <<"buffer">>
  BY <1>1, PlaceSets
<1> QED
  BY <1>2, PlaceSets, Distinct

\* What is in the hands of one thread is nowhere else.
LEMMA OnlyHeld ==
  ASSUME OnePlace, NEW n \in 1..seen.accepted, NEW t \in Threads, n \in Numbers(th[t].ss)
  PROVE  /\ n \notin seen.dropped /\ n \notin Numbers(buffer)
         /\ \A u \in Threads : u # t => n \notin Numbers(th[u].ss)
         /\ \A p \in Paths : n \notin Numbers(files[p])
<1>1. PICK x : Places(n) = {x}
  BY DEF OnePlace
<1>2. \A y : y \in Places(n) => y = <<"ss", t>>
  BY <1>1, PlaceSets
<1> QED
  BY <1>2, PlaceSets, Distinct

LEMMA EnqueueContents ==
  ASSUME LogTypes, Contents, NEW t \in Threads, th[t].ss = <<>>, Enqueue(t)
  PROVE  Contents'
<1>1. TypeOK /\ buffer \in Seq(Entries) /\ seen.accepted \in Nat
  BY Fields, Counts DEF LogTypes
<1> PICK k \in Nat \ {0} : k = seen.accepted + 1
  BY <1>1
<1> PICK entry \in Entries : entry = [n |-> k, level |-> th[t].arg]
  BY <1>1, LocalFields DEF Entries
<1>2. entry.n = k
  OBVIOUS
<1>3. /\ seen' = [seen EXCEPT !.accepted = k] /\ files' = files
      /\ buffer' = Append(buffer, entry)
  <2>1. seen' = [seen EXCEPT !.accepted = k] /\ files' = files
        /\ buffer' = Append(buffer, [n |-> seen'.accepted, level |-> th[t].arg])
    BY DEF Enqueue
  <2>2. seen'.accepted = k
    BY <1>1, <2>1, Fields
  <2> QED
    BY <2>1, <2>2
<1>4. seen'.accepted = k /\ seen'.dropped = seen.dropped /\ seen'.tested = seen.tested
  BY <1>1, <1>3, Fields
<1>5. \A u \in Threads : th'[u].ss = th[u].ss
  BY <1>1, ReturnOnly DEF Enqueue, Labels
<1>6. Numbers(buffer') = Numbers(buffer) \cup {k}
  BY <1>1, <1>2, <1>3, NumbersAppend
<1>7. /\ seen.tested \in Nat /\ seen.tested <= seen.accepted
      /\ \A n \in Numbers(buffer) : n \in 1..seen.accepted /\ seen.tested < n
      /\ \A p \in Paths : \A n \in Numbers(files[p]) : n \in 1..seen.accepted
      /\ \A u \in Threads : \A n \in Numbers(th[u].ss) : n \in 1..seen.accepted
      /\ \A n \in seen.dropped : n \in 1..seen.accepted
  BY <1>1, Bounded DEF Contents
<1>8. k \notin 1..seen.accepted /\ seen.tested < k /\ k <= k
      /\ \A n \in 1..seen.accepted : n \in Nat /\ n < k /\ n <= k
  BY <1>7, <1>1
<1>9. Numbered'
  <2>1. \A n \in Numbers(buffer') : seen.tested < n /\ n <= k
    BY <1>7, <1>6, <1>8
  <2>2. seen.tested <= k
    BY <1>1, <1>7, <1>8
  <2> QED
    BY <1>7, <1>3, <1>4, <1>5, <1>8, <2>1, <2>2 DEF Numbered
<1>10. OnePlace'
  <2>1. ASSUME NEW n \in 1..seen.accepted PROVE Places(n)' = Places(n)
    <3>1. n \in Numbers(buffer') <=> n \in Numbers(buffer)
      BY <1>6, <1>8
    <3> QED
      BY <1>3, <1>4, <1>5, <3>1 DEF Places
  <2>2. Places(k)' = {<<"buffer">>}
    <3>1. /\ k \notin seen.dropped /\ k \in Numbers(buffer')
          /\ \A u \in Threads : k \notin Numbers(th'[u].ss)
          /\ \A p \in Paths : k \notin Numbers(files[p])
      BY <1>7, <1>5, <1>6, <1>8
    <3> QED
      BY <1>3, <1>4, <3>1 DEF Places
  <2>3. 1..k = 1..seen.accepted \cup {k}
    BY <1>1
  <2>4. \A n \in 1..seen.accepted : \E x : Places(n) = {x}
    BY DEF Contents, OnePlace
  <2>5. ASSUME NEW n \in 1..k PROVE \E x : Places(n)' = {x}
    <3>1. CASE n = k
      BY <2>2, <3>1
    <3>2. CASE n # k
      BY <2>1, <2>3, <2>4, <3>2
    <3> QED
      BY <3>1, <3>2
  <2> QED
    BY <1>4, <2>5 DEF OnePlace
<1>11. WrittenInOrder'
  <2>1. /\ Ascending(buffer)
        /\ \A p \in Paths : Ascending(files[p]) /\ Before(files[p], buffer)
        /\ \A u \in Threads : /\ Ascending(th[u].ss) /\ Before(th[u].ss, buffer)
                             /\ \A p \in Paths : Before(files[p], th[u].ss)
    BY DEF Contents, WrittenInOrder
  <2>2. Ascending(buffer')
    <3>1. \A a \in Numbers(buffer) : a < k
      BY <1>7, <1>8
    <3> QED
      BY <1>1, <1>2, <1>3, <2>1, <3>1, AscendingAppend
  <2>3. ASSUME NEW s, Before(s, buffer), \A n \in Numbers(s) : n \in 1..seen.accepted
        PROVE  Before(s, buffer')
    <3>1. \A a \in Numbers(s), b \in Numbers(buffer) : a < b
      BY <2>3, BeforeIsBelow
    <3>2. \A a \in Numbers(s) : a < k
      BY <1>8, <2>3
    <3> QED
      BY <1>6, <3>1, <3>2, BeforeIsBelow
  <2>4. \A p \in Paths : Before(files[p], buffer')
    BY <1>7, <2>1, <2>3
  <2>5. \A u \in Threads : Before(th[u].ss, buffer')
    BY <1>7, <2>1, <2>3
  <2> QED
    BY <1>3, <1>5, <2>1, <2>2, <2>4, <2>5 DEF WrittenInOrder
<1> QED
  BY <1>9, <1>10, <1>11 DEF Contents

LEMMA PopContents ==
  ASSUME LogTypes, Control, Contents, NEW t \in Threads, Pop(t)
  PROVE  Contents'
<1>1. /\ TypeOK /\ OneFlusher /\ HandsEmpty /\ Numbered /\ OnePlace
      /\ buffer \in Seq(Entries) /\ buffer # <<>> /\ buffer' = Tail(buffer)
      /\ files' = files /\ th[t].pc = "pop"
  BY Fields DEF LogTypes, Control, Contents, Pop, At
<1> PICK e \in Entries : e = Head(buffer)
  BY <1>1
<1> PICK k \in Nat : k = e.n
  BY DEF Entries
<1>2. Tail(buffer) \in Seq(Entries)
  BY <1>1
<1>3. /\ Numbers(buffer) = Numbers(buffer') \cup {k}
      /\ Ascending(buffer') /\ \A b \in Numbers(buffer') : k < b
  BY <1>1, <1>2, NumbersTail, AscendingTail DEF Contents, WrittenInOrder
<1>4. k \in 1..seen.accepted /\ k \in Nat /\ k \notin Numbers(buffer')
  BY <1>1, <1>3, Bounded
<1>5. /\ k \notin seen.dropped /\ \A u \in Threads : k \notin Numbers(th[u].ss)
      /\ \A p \in Paths : k \notin Numbers(files[p])
  BY <1>1, <1>3, <1>4, OnlyBuffered
<1>6. /\ Ascending(buffer)
      /\ \A p \in Paths : Ascending(files[p]) /\ Before(files[p], buffer)
      /\ \A u \in Threads : /\ Ascending(th[u].ss) /\ Before(th[u].ss, buffer)
                           /\ \A p \in Paths : Before(files[p], th[u].ss)
  BY DEF Contents, WrittenInOrder
<1>7. \A s : Before(s, buffer) => Before(s, buffer') /\ \A a \in Numbers(s) : a < k
  BY <1>3, BeforeIsBelow
<1>8. CASE e.level >= th[t].level
  <2>1. /\ seen' = seen
        /\ th'[t].ss = Append(th[t].ss, e)
        /\ \A u \in Threads : u # t => th'[u].ss = th[u].ss
    BY <1>1, <1>8, Fields DEF Pop, Locals
  <2>2. th[t].ss \in Seq(Entries) /\ Numbers(th'[t].ss) = Numbers(th[t].ss) \cup {k}
    BY <1>1, <1>2, <2>1, LocalFields, NumbersAppend
  <2>3. Numbered'
    BY <1>1, <1>3, <1>4, <2>1, <2>2 DEF Numbered
  <2>4. OnePlace'
    <3>1. Places(k)' = {<<"ss", t>>}
      <4>1. \A u \in Threads : k \in Numbers(th'[u].ss) <=> u = t
        BY <1>5, <2>1, <2>2
      <4> QED
        BY <1>1, <1>4, <1>5, <2>1, <4>1 DEF Places
    <3>2. ASSUME NEW n \in 1..seen.accepted, n # k PROVE Places(n)' = Places(n)
      <4>1. n \in Numbers(buffer') <=> n \in Numbers(buffer)
        BY <1>3, <3>2
      <4>2. \A u \in Threads : n \in Numbers(th'[u].ss) <=> n \in Numbers(th[u].ss)
        BY <2>1, <2>2, <3>2
      <4> QED
        BY <1>1, <2>1, <4>1, <4>2 DEF Places
    <3>3. \A n \in 1..seen.accepted : \E x : Places(n) = {x}
      BY <1>1 DEF OnePlace
    <3>4. ASSUME NEW n \in 1..seen.accepted PROVE \E x : Places(n)' = {x}
      BY <3>1, <3>2, <3>3
    <3> QED
      BY <2>1, <3>4 DEF OnePlace
  <2>5. WrittenInOrder'
    <3>1. Ascending(th'[t].ss) /\ Before(th'[t].ss, buffer')
      <4>1. \A a \in Numbers(th[t].ss) : a < k
        BY <1>6, <1>7
      <4>2. Ascending(th'[t].ss)
        BY <1>2, <1>6, <2>1, <2>2, <4>1, AscendingAppend
      <4>3. Before(th'[t].ss, buffer')
        BY <1>3, <1>6, <1>7, <2>2, BeforeIsBelow
      <4> QED
        BY <4>2, <4>3
    <3>2. \A p \in Paths : Before(files[p], th'[t].ss)
      BY <1>6, <1>7, <2>2, BeforeIsBelow
    <3> QED
      BY <1>1, <1>3, <1>6, <1>7, <2>1, <3>1, <3>2 DEF WrittenInOrder
  <2> QED
    BY <2>3, <2>4, <2>5 DEF Contents
<1>9. CASE ~(e.level >= th[t].level)
  <2>1. seen' = [seen EXCEPT !.dropped = seen.dropped \cup {k}] /\ th' = th
    BY <1>9 DEF Pop
  <2>2. /\ seen'.accepted = seen.accepted /\ seen'.tested = seen.tested
        /\ seen'.dropped = seen.dropped \cup {k}
    BY <1>1, <2>1, Fields
  <2>3. Numbered'
    BY <1>1, <1>3, <1>4, <2>1, <2>2 DEF Numbered
  <2>4. OnePlace'
    <3>1. Places(k)' = {<<"dropped">>}
      <4>1. k \in seen'.dropped /\ \A u \in Threads : k \notin Numbers(th'[u].ss)
        BY <1>5, <2>1, <2>2
      <4> QED
        BY <1>1, <1>4, <1>5, <4>1 DEF Places
    <3>2. ASSUME NEW n \in 1..seen.accepted, n # k PROVE Places(n)' = Places(n)
      <4>1. n \in Numbers(buffer') <=> n \in Numbers(buffer)
        BY <1>3, <3>2
      <4>2. n \in seen'.dropped <=> n \in seen.dropped
        BY <2>2, <3>2
      <4> QED
        BY <1>1, <2>1, <4>1, <4>2 DEF Places
    <3>3. \A n \in 1..seen.accepted : \E x : Places(n) = {x}
      BY <1>1 DEF OnePlace
    <3>4. ASSUME NEW n \in 1..seen.accepted PROVE \E x : Places(n)' = {x}
      BY <3>1, <3>2, <3>3
    <3> QED
      BY <2>2, <3>4 DEF OnePlace
  <2>5. WrittenInOrder'
    BY <1>1, <1>3, <1>6, <1>7, <2>1 DEF WrittenInOrder
  <2> QED
    BY <2>3, <2>4, <2>5 DEF Contents
<1> QED
  BY <1>8, <1>9

LEMMA WriteContents ==
  ASSUME LogTypes, Control, Contents, NEW t \in Threads, Write(t)
  PROVE  Contents'
<1>1. /\ TypeOK /\ OneFlusher /\ HandsEmpty /\ Numbered /\ OnePlace
      /\ th[t].pc = "write" /\ th[t].out \in Paths
      /\ files \in [Paths -> Seq(Entries)] /\ UNCHANGED <<buffer, seen>>
  BY Fields DEF LogTypes, Control, Contents, HandsEmpty, Write, At
<1> PICK q \in Paths : q = th[t].out
  BY <1>1
<1> PICK s \in Seq(Entries) : s = th[t].ss
  BY <1>1, LocalFields
<1>2. /\ files'[q] = files[q] \o s /\ \A p \in Paths : p # q => files'[p] = files[p]
      /\ files[q] \in Seq(Entries)
  BY <1>1 DEF Write
<1>3. /\ th'[t].ss = <<>>
      /\ \A u \in Threads : u # t => th'[u].ss = <<>> /\ th[u].ss = <<>>
  <2>1. th'[t].ss = <<>> /\ \A u \in Threads : u # t => th'[u] = th[u]
    BY <1>1, Fields DEF Write, Locals
  <2>2. \A u \in Threads : u # t => th[u].ss = <<>>
    BY <1>1 DEF OneFlusher, HandsEmpty, Moving
  <2> QED
    BY <2>1, <2>2
<1>4. Numbers(files'[q]) = Numbers(files[q]) \cup Numbers(s)
  BY <1>2, NumbersConcat
<1>5. \A u \in Threads : Numbers(th'[u].ss) = {}
  BY <1>3, NumbersEmpty
<1>6. Numbered'
  BY <1>1, <1>2, <1>4, <1>5 DEF Numbered
<1>7. OnePlace'
  <2>1. ASSUME NEW n \in 1..seen.accepted, n \in Numbers(s) PROVE Places(n)' = {<<"file", q>>}
    <3>1. /\ n \notin seen.dropped /\ n \notin Numbers(buffer)
          /\ \A p \in Paths : n \notin Numbers(files[p])
      BY <1>1, <2>1, OnlyHeld
    <3>2. \A p \in Paths : n \in Numbers(files'[p]) <=> p = q
      BY <1>2, <1>4, <2>1, <3>1
    <3> QED
      BY <1>1, <1>5, <3>1, <3>2 DEF Places
  <2>2. ASSUME NEW n \in 1..seen.accepted, n \notin Numbers(s) PROVE Places(n)' = Places(n)
    <3>1. \A u \in Threads : n \notin Numbers(th[u].ss) /\ n \notin Numbers(th'[u].ss)
      BY <1>3, <1>5, <2>2, NumbersEmpty
    <3>2. \A p \in Paths : n \in Numbers(files'[p]) <=> n \in Numbers(files[p])
      BY <1>2, <1>4, <2>2
    <3> QED
      BY <1>1, <3>1, <3>2 DEF Places
  <2> QED
    BY <1>1, <2>1, <2>2 DEF OnePlace
<1>8. WrittenInOrder'
  <2>1. /\ Ascending(buffer) /\ Ascending(s) /\ Before(s, buffer)
        /\ \A p \in Paths : /\ Ascending(files[p]) /\ Before(files[p], buffer)
                            /\ Before(files[p], s)
    BY DEF Contents, WrittenInOrder
  <2>2. Ascending(files'[q])
    BY <1>2, <2>1, AscendingConcat
  <2>3. Before(files'[q], buffer)
    BY <1>4, <2>1, BeforeIsBelow
  <2>4. \A u \in Threads : /\ Ascending(th'[u].ss) /\ Before(th'[u].ss, buffer)
                           /\ \A p \in Paths : Before(files'[p], th'[u].ss)
    <3>1. \A u \in Threads : th'[u].ss = <<>>
      BY <1>3
    <3>2. Ascending(<<>>)
      BY DEF Ascending
    <3> QED
      BY <1>5, <3>1, <3>2, BeforeIsBelow
  <2> QED
    BY <1>1, <1>2, <2>1, <2>2, <2>3, <2>4 DEF WrittenInOrder
<1> QED
  BY <1>6, <1>7, <1>8 DEF Contents

LEMMA StepContents ==
  ASSUME LogTypes, Control, Contents, NEW t \in Threads, Step(t)
  PROVE  Contents'
<1>1. TypeOK /\ HandsEmpty /\ Numbered
  BY DEF LogTypes, Control, Contents
<1>2. seen.tested <= seen.accepted /\ \A n \in Numbers(buffer) : seen.tested < n
  BY <1>1 DEF Numbered
<1>3. ASSUME UNCHANGED <<buffer, files, seen>>,
             \A u \in Threads : th'[u].ss = th[u].ss
      PROVE  Contents'
  BY <1>2, <1>3, ContentsStay
<1>4. CASE Enqueue(t)
  BY <1>1, <1>4, EnqueueContents DEF HandsEmpty, Enqueue, At
<1>5. CASE Swap(t) \/ Close(t) \/ OpenFails(t)
  <2>1. \E label \in Labels : Return(t, label) \/ Goto(t, label)
    BY <1>1, <1>5, LocalFields DEF Swap, Close, OpenFails, Labels
  <2>2. th[t].ss = <<>>
    BY <1>1, <1>5 DEF HandsEmpty, Swap, Close, OpenFails, At
  <2>3. \A u \in Threads : th'[u].ss = th[u].ss
    BY <1>1, <2>1, <2>2, ReturnOnly, GotoOnly
  <2>4. UNCHANGED <<buffer, files, seen>>
    BY <1>5 DEF Swap, Close, OpenFails
  <2> QED
    BY <1>3, <2>3, <2>4
<1>6. CASE CopySettings(t) \/ Open(t) \/ PopFails(t)
  <2>1. \A u \in Threads : th'[u].ss = th[u].ss
    <3>1. th \in [Threads -> Locals]
      BY <1>1, Fields
    <3>2. CASE PopFails(t)
      BY <1>1, <3>2, GotoOnly DEF PopFails, Labels
    <3>3. CASE CopySettings(t)
      BY <3>1, <3>3 DEF CopySettings, Locals
    <3>4. CASE Open(t)
      BY <1>1, <3>4, OpenOnly
    <3> QED
      BY <1>6, <3>2, <3>3, <3>4
  <2>2. UNCHANGED <<buffer, files, seen>>
    BY <1>6 DEF CopySettings, Open, PopFails
  <2> QED
    BY <1>3, <2>1, <2>2
<1>7. CASE /\ EnqueueFails(t) \/ CheckSize(t)
           /\ UNCHANGED <<setup, assigning, initialized, executing, buffer, flushing, files,
                          status, seen, world>>
  <2>1. \A u \in Threads : th'[u].ss = th[u].ss
    <3>1. CASE EnqueueFails(t)
      BY <1>1, <3>1, GotoOnly DEF EnqueueFails, Labels
    <3>2. CASE CheckSize(t) /\ TooFull
      BY <1>1, <3>2, CalledOnly DEF CheckSize, Labels
    <3>3. CASE CheckSize(t) /\ ~TooFull
      BY <1>1, <3>3, GotoOnly DEF CheckSize, Labels
    <3> QED
      BY <1>7, <3>1, <3>2, <3>3
  <2> QED
    BY <1>3, <1>7, <2>1
<1>8. CASE CheckEmpty(t) /\ UNCHANGED <<buffer, files>>
  <2>1. \A u \in Threads : th'[u].ss = th[u].ss
    <3>1. CASE buffer = <<>>
      BY <1>1, <1>8, <3>1, GotoOnly DEF CheckEmpty, Labels
    <3>2. CASE buffer # <<>>
      BY <1>1, <1>8, <3>2, CalledOnly DEF CheckEmpty, Labels
    <3> QED
      BY <3>1, <3>2
  <2>2. CASE buffer = <<>>
    <3>1. seen' = [seen EXCEPT !.tested = seen.accepted]
      BY <1>8, <2>2 DEF CheckEmpty
    <3>2. /\ seen'.accepted = seen.accepted /\ seen'.dropped = seen.dropped
          /\ seen'.tested = seen.accepted /\ seen.accepted \in Nat
      BY <1>1, <3>1, Fields
    <3>3. Numbers(buffer) = {} /\ seen.accepted <= seen.accepted
      BY <2>2, <3>2, NumbersEmpty
    <3> QED
      BY <1>8, <2>1, <3>2, <3>3, ContentsStay
  <2>3. CASE buffer # <<>>
    BY <1>3, <1>8, <2>1, <2>3 DEF CheckEmpty
  <2> QED
    BY <2>2, <2>3
<1>9. CASE End(t) /\ UNCHANGED <<buffer, files>>
  <2>1. th[t].ss = <<>>
    BY <1>1, <1>9 DEF HandsEmpty, End, At
  <2>2. \A u \in Threads : th'[u].ss = th[u].ss
    BY <1>1, <1>9, <2>1, ReturnOnly DEF End, Labels
  <2> QED
    BY <1>3, <1>9, <2>2 DEF End
<1>10. CASE OpenKills(t)
  <2>1. th[t].ss = <<>>
    BY <1>1, <1>10 DEF HandsEmpty, OpenKills, At
  <2>2. \A u \in Threads : th'[u].ss = th[u].ss
    BY <1>1, <1>10, <2>1, HandleTerminateOnly DEF OpenKills
  <2> QED
    BY <1>3, <1>10, <2>2 DEF OpenKills
<1>11. CASE OpenCrashes(t)
  BY <1>3, <1>11 DEF OpenCrashes
<1> QED
  BY <1>4, <1>5, <1>6, <1>7, <1>8, <1>9, <1>10, <1>11, PopContents, WriteContents
     DEF Step, Flush

LEMMA CallContents ==
  ASSUME LogTypes, Control, Contents, NEW t \in Threads, Call(t)
  PROVE  Contents'
<1>1. TypeOK /\ Numbered
  BY DEF LogTypes, Contents
<1>2. \A u \in Threads : th'[u].ss = th[u].ss
  <2>1. th \in [Threads -> Locals]
    BY <1>1, Fields
  <2>2. ASSUME NEW l \in Levels, BeginAdd(t, l) PROVE \A u \in Threads : th'[u].ss = th[u].ss
    BY <2>1, <2>2 DEF BeginAdd, Locals
  <2>3. CASE BeginFlush(t)
    BY <1>1, <2>3, CalledOnly DEF BeginFlush, Labels
  <2>4. CASE Terminate(t)
    <3>1. th[t].ss = <<>>
      BY <2>4 DEF Control, HandsEmpty, Terminate, Free
    <3> QED
      BY <1>1, <2>4, <3>1, HandleTerminateOnly DEF Terminate
  <2>6. CASE Exit(t)
    BY <1>1, <2>6, GotoOnly DEF Exit, Labels
  <2> QED
    BY <2>2, <2>3, <2>4, <2>6 DEF Call
<1>3. UNCHANGED <<buffer, files, seen>>
  BY DEF Call, BeginAdd, BeginFlush, Terminate, Exit
<1> QED
  BY <1>1, <1>2, <1>3, ContentsStay DEF Numbered

LogInv == LogTypes /\ Control /\ Contents

LEMMA InitLog == Init => LogInv
BY InitTypes, InitControl, InitContents DEF LogInv

LEMMA NextLog == LogInv /\ [Next]_vars => LogInv'
<1> SUFFICES ASSUME LogInv, [Next]_vars PROVE LogInv'
  OBVIOUS
<1>1. LogTypes /\ Control /\ Contents /\ Numbered
  BY DEF LogInv, Contents
<1>2. LogTypes' /\ Control'
  BY <1>1, NextTypes, NextControl
<1>3. Contents'
  <2>1. ASSUME UNCHANGED <<buffer, files, seen, th>> PROVE Contents'
    BY <1>1, <2>1, ContentsStay DEF Numbered
  <2>2. ASSUME NEW s \in Setups, SetGlobalLog(s) PROVE Contents'
    BY <2>1, <2>2 DEF SetGlobalLog
  <2>3. CASE Construct
    BY <2>1, <2>3 DEF Construct
  <2>4. CASE UNCHANGED vars
    BY <2>1, <2>4 DEF vars
  <2>5. CASE BeginSetting
    BY <2>1, <2>5 DEF BeginSetting
  <2> QED
    BY <1>1, <2>2, <2>3, <2>4, <2>5, StepContents, CallContents DEF Next, Setting, Ended
<1> QED
  BY <1>2, <1>3 DEF LogInv

-----------------------------------------------------------------------------
(* The theorems.                                                           *)

LEMMA InvKeepsEach == LogInv => EachEntryOnce
<1> SUFFICES ASSUME LogInv, NEW n \in 1..seen.accepted PROVE Cardinality(Places(n)) = 1
  BY DEF EachEntryOnce
<1>1. PICK x : Places(n) = {x}
  BY DEF LogInv, Contents, OnePlace
<1> QED
  BY <1>1, FS_Singleton

\* add(), flush(), the terminate hook and the destructor neither lose nor double
\* an entry once it is accepted (RuntimeLog.cpp lines 46-182), for every number of
\* threads and however often files fail to open.
THEOREM EntriesInOnePlace == Spec => []EachEntryOnce
BY InitLog, NextLog, InvKeepsEach, PTL DEF Spec

\* The one flag of flush() is enough to keep every file in the order in which
\* entries were accepted, for every number of threads.
THEOREM FilesInOrder == Spec => []WrittenInOrder
<1>1. LogInv => WrittenInOrder
  BY DEF LogInv, Contents
<1> QED
  BY <1>1, InitLog, NextLog, PTL DEF Spec

LEMMA InvKeepsEnd == LogInv => EndKeepsLog
<1> SUFFICES ASSUME LogInv PROVE EndKeepsLog
  OBVIOUS
<1>1. TypeOK /\ OneFlusher /\ HandsEmpty /\ LastOne /\ Numbered /\ OnePlace
  BY DEF LogInv, LogTypes, Control, Contents
<1>2. ASSUME status = "exited", NEW n \in 1..seen.accepted
      PROVE  Places(n) \subseteq Filed
  <2>1. buffer = <<>> /\ \A t \in Threads : th[t].ss = <<>>
    BY <1>1, <1>2 DEF LastOne, HandsEmpty
  <2>2. Numbers(buffer) = {} /\ \A t \in Threads : Numbers(th[t].ss) = {}
    BY <2>1, NumbersEmpty
  <2> QED
    BY <2>2 DEF Places, Filed
<1>3. ASSUME NEW n \in 1..seen.tested
      PROVE  \/ Places(n) \subseteq Filed
             \/ \E t \in Threads : Places(n) = {<<"ss", t>>} /\ Flushers = {t}
  <2>1. n \in 1..seen.accepted /\ n \notin Numbers(buffer)
    BY <1>1, Bounded
  <2>2. CASE \E t \in Threads : n \in Numbers(th[t].ss)
    <3>1. PICK t \in Threads : n \in Numbers(th[t].ss)
      BY <2>2
    <3>2. Places(n) = {<<"ss", t>>}
      <4>1. PICK x : Places(n) = {x}
        BY <1>1, <2>1 DEF OnePlace
      <4>2. <<"ss", t>> \in Places(n)
        BY <3>1, PlaceSets
      <4> QED
        BY <4>1, <4>2
    <3>3. th[t].ss # <<>>
      BY <3>1, NumbersEmpty
    <3>4. th[t].pc \in Moving
      BY <1>1, <3>3 DEF HandsEmpty, Moving
    <3>5. Flushers = {t}
      BY <1>1, <3>4 DEF OneFlusher, Flushers
    <3> QED
      BY <3>2, <3>5
  <2>3. CASE \A t \in Threads : n \notin Numbers(th[t].ss)
    <3>1. ASSUME NEW x \in Places(n) PROVE x \in Filed
      BY <2>1, <2>3, <3>1, PlaceSets DEF Filed
    <3> QED
      BY <3>1
  <2> QED
    BY <2>2, <2>3
<1> QED
  BY <1>2, <1>3 DEF EndKeepsLog

\* A normal exit leaves no entry behind; a termination leaves unwritten, of the
\* entries accepted before the destructor saw the buffer empty, only those in the
\* hands of the one thread that was flushing (RuntimeLog.cpp lines 46-63, 80-95),
\* for every number of threads.
THEOREM LogSurvivesTheEnd == Spec => []EndKeepsLog
BY InitLog, NextLog, InvKeepsEnd, PTL DEF Spec
=============================================================================
