---------------------------- MODULE PipelineProofs ----------------------------
(***************************************************************************)
(* What Pipeline guarantees for graphs of every size, any number of        *)
(* workers and of tasks to a unit, and however many tasks are lost.        *)
(***************************************************************************)
EXTENDS Pipeline, FiniteSetTheorems, FunctionTheorems, SequenceTheorems,
        WellFoundedInduction, TLAPS

-----------------------------------------------------------------------------
(* Lists of calls in places. What happens to the number of the calls of u  *)
(* when a list loses its first element, gains one, or goes elsewhere.      *)

\* The calls of u, each by its place and its position there.
Tokens(lists, u) == {p \in (DOMAIN lists) \X Nat :
                       p[2] \in 1..Len(lists[p[1]]) /\ lists[p[1]][p[2]] = u}
Counts(lists, u, n) == IsFiniteSet(Tokens(lists, u)) /\ Cardinality(Tokens(lists, u)) = n

\* A count of zero: no call is left anywhere.
LEMMA Uncalled ==
  ASSUME NEW lists, NEW u, Counts(lists, u, 0), NEW h \in DOMAIN lists,
         NEW k \in Nat, k \in 1..Len(lists[h])
  PROVE  lists[h][k] # u
<1>1. Tokens(lists, u) = {}
  BY FS_EmptySet DEF Counts
<1>2. lists[h][k] = u => <<h, k>> \in Tokens(lists, u)
  BY DEF Tokens
<1> QED
  BY <1>1, <1>2

LEMMA CountIs ==
  ASSUME NEW lists, NEW u, NEW n, Counts(lists, u, n)
  PROVE  n \in Nat
BY FS_CardinalityType DEF Counts

LEMMA CountOnce ==
  ASSUME NEW lists, NEW u, NEW n, Counts(lists, u, n), NEW h \in DOMAIN lists,
         NEW k \in Nat, k \in 1..Len(lists[h]), lists[h][k] = u
  PROVE  n > 0
<1>1. n # 0
  BY Uncalled
<1> QED
  BY <1>1, CountIs

\* Sets whose elements correspond one to one have as many.
LEMMA Renaming ==
  ASSUME NEW A, NEW B, IsFiniteSet(A), NEW f \in [A -> B],
         \A p, q \in A : f[p] = f[q] => p = q, \A r \in B : \E p \in A : f[p] = r
  PROVE  IsFiniteSet(B) /\ Cardinality(B) = Cardinality(A)
<1>1. f \in Bijection(A, B)
  BY Fun_IsBij
<1>2. ExistsBijection(A, B)
  BY <1>1 DEF ExistsBijection
<1> QED
  BY <1>2, FS_Bijection

\* The first call of a list is made.
LEMMA CallMade ==
  ASSUME NEW lists, NEW new, DOMAIN new = DOMAIN lists, NEW h \in DOMAIN lists,
         NEW S, lists[h] \in Seq(S), lists[h] # <<>>, new[h] = Tail(lists[h]),
         \A p \in DOMAIN lists : p # h => new[p] = lists[p],
         NEW u, NEW n, Counts(lists, u, n)
  PROVE  /\ u = Head(lists[h]) => Counts(new, u, n - 1)
         /\ u # Head(lists[h]) => Counts(new, u, n)
<1> DEFINE A == Tokens(lists, u) \ {<<h, 1>>}
           B == Tokens(new, u)
           f == [p \in A |-> IF p[1] = h THEN <<h, p[2] - 1>> ELSE p]
<1>1. PICK m \in Nat : m = Len(lists[h]) /\ m > 0 /\ Len(new[h]) = m - 1
                       /\ \A k \in 1..(m - 1) : new[h][k] = lists[h][k + 1]
                       /\ Head(lists[h]) = lists[h][1]
  OBVIOUS
<1>2. /\ \A p \in A : p \in (DOMAIN lists) \X Nat /\ p = <<p[1], p[2]>> /\ p[2] \in Nat
      /\ \A p \in B : p \in (DOMAIN lists) \X Nat /\ p = <<p[1], p[2]>> /\ p[2] \in Nat
  BY DEF Tokens
<1>3. f \in [A -> B]
  <2> SUFFICES ASSUME NEW p \in A PROVE f[p] \in B
    OBVIOUS
  <2>1. CASE p[1] = h
    <3>1. p[2] \in 1..m /\ p[2] # 1 /\ lists[h][p[2]] = u
      BY <2>1, <1>1, <1>2 DEF Tokens
    <3>2. p[2] - 1 \in Nat /\ p[2] - 1 \in 1..(m - 1) /\ new[h][p[2] - 1] = u
      BY <3>1, <1>1, <1>2
    <3>3. <<h, p[2] - 1>> \in B
      BY <3>2, <1>1 DEF Tokens
    <3> QED
      BY <2>1, <3>3
  <2>2. CASE p[1] # h
    <3>1. p \in B
      BY <2>2 DEF Tokens
    <3> QED
      BY <2>2, <3>1
  <2> QED
    BY <2>1, <2>2
<1>4. \A p, q \in A : f[p] = f[q] => p = q
  <2> SUFFICES ASSUME NEW p \in A, NEW q \in A, f[p] = f[q] PROVE p = q
    OBVIOUS
  <2>1. p = <<p[1], p[2]>> /\ q = <<q[1], q[2]>> /\ p[2] \in Nat /\ q[2] \in Nat
    BY <1>2
  <2> HIDE DEF A
  <2>2. CASE p[1] = h
    BY <2>1, <2>2
  <2>3. CASE p[1] # h
    BY <2>1, <2>3
  <2> QED
    BY <2>2, <2>3
<1>5. \A r \in B : \E p \in A : f[p] = r
  <2> SUFFICES ASSUME NEW r \in B PROVE \E p \in A : f[p] = r
    OBVIOUS
  <2>1. r = <<r[1], r[2]>> /\ r[2] \in 1..Len(new[r[1]]) /\ new[r[1]][r[2]] = u /\ r[2] \in Nat
        /\ r[1] \in DOMAIN lists
    BY <1>2 DEF Tokens
  <2>2. CASE r[1] = h
    <3>1. r[2] + 1 \in 1..m /\ lists[h][r[2] + 1] = u /\ r[2] + 1 \in Nat /\ r[2] + 1 # 1
      BY <2>1, <2>2, <1>1
    <3>2. <<h, r[2] + 1>> \in A
      BY <3>1, <1>1 DEF Tokens
    <3>3. f[<<h, r[2] + 1>>] = <<h, r[2]>>
      BY <3>2, <2>1
    <3> QED
      BY <3>2, <3>3, <2>1, <2>2
  <2>3. CASE r[1] # h
    <3>1. r \in A
      BY <2>1, <2>3 DEF Tokens
    <3> QED
      BY <3>1, <2>3
  <2> QED
    BY <2>2, <2>3
<1> HIDE DEF A, B, f
<1>6. IsFiniteSet(Tokens(lists, u)) /\ Cardinality(Tokens(lists, u)) = n /\ n \in Nat
  BY CountIs DEF Counts
<1>7. IsFiniteSet(A) /\ Cardinality(A) = IF <<h, 1>> \in Tokens(lists, u) THEN n - 1 ELSE n
  BY <1>6, FS_RemoveElement DEF A
<1>8. IsFiniteSet(B) /\ Cardinality(B) = Cardinality(A)
  BY <1>3, <1>4, <1>5, <1>7, Renaming
<1>9. <<h, 1>> \in Tokens(lists, u) <=> u = Head(lists[h])
  BY <1>1 DEF Tokens
<1> QED
  BY <1>7, <1>8, <1>9 DEF Counts, B

\* A call is added to a list.
LEMMA CallAdded ==
  ASSUME NEW lists, NEW new, DOMAIN new = DOMAIN lists, NEW h \in DOMAIN lists,
         NEW S, lists[h] \in Seq(S), NEW x \in S, new[h] = Append(lists[h], x),
         \A p \in DOMAIN lists : p # h => new[p] = lists[p],
         NEW u, NEW n, Counts(lists, u, n)
  PROVE  /\ u = x => Counts(new, u, n + 1)
         /\ u # x => Counts(new, u, n)
<1>1. PICK m \in Nat : m = Len(lists[h]) /\ Len(new[h]) = m + 1 /\ new[h][m + 1] = x
                       /\ \A k \in 1..m : new[h][k] = lists[h][k]
  OBVIOUS
<1>2. PICK e : e = <<h, m + 1>>
  OBVIOUS
<1>3. e \notin Tokens(lists, u)
  BY <1>1, <1>2 DEF Tokens
<1>4. e \in Tokens(new, u) <=> x = u
  BY <1>1, <1>2 DEF Tokens
<1>5. \A p : p # e => (p \in Tokens(new, u) <=> p \in Tokens(lists, u))
  <2> SUFFICES ASSUME NEW p, p # e, p \in (DOMAIN lists) \X Nat
               PROVE  p \in Tokens(new, u) <=> p \in Tokens(lists, u)
    BY DEF Tokens
  <2>1. CASE p[1] = h
    <3>1. p = <<h, p[2]>> /\ p[2] \in Nat /\ p[2] # m + 1
      BY <1>2, <2>1
    <3>2. p[2] \in 1..(m + 1) <=> p[2] \in 1..m
      BY <3>1
    <3> QED
      BY <2>1, <3>2, <1>1 DEF Tokens
  <2>2. CASE p[1] # h
    BY <2>2 DEF Tokens
  <2> QED
    BY <2>1, <2>2
<1>6. IsFiniteSet(Tokens(lists, u)) /\ Cardinality(Tokens(lists, u)) = n /\ n \in Nat
  BY CountIs DEF Counts
<1>7. CASE u = x
  <2>1. Tokens(new, u) = Tokens(lists, u) \cup {e}
    BY <1>4, <1>5, <1>7
  <2>2. IsFiniteSet(Tokens(lists, u) \cup {e}) /\ Cardinality(Tokens(lists, u) \cup {e}) = n + 1
    BY <1>3, <1>6, FS_AddElement
  <2> QED
    BY <2>1, <2>2, <1>7 DEF Counts
<1>8. CASE u # x
  <2>1. \A p : p \in Tokens(new, u) <=> p \in Tokens(lists, u)
    BY <1>3, <1>4, <1>5, <1>8
  <2>2. Tokens(new, u) = Tokens(lists, u)
    BY <2>1
  <2> QED
    BY <2>2, <1>8 DEF Counts
<1> QED
  BY <1>7, <1>8

\* A list goes to the end of another one.
LEMMA CallsMoved ==
  ASSUME NEW lists, NEW new, DOMAIN new = DOMAIN lists, NEW a \in DOMAIN lists,
         NEW b \in DOMAIN lists, a # b, NEW S, lists[a] \in Seq(S), lists[b] \in Seq(S),
         new[a] = lists[a] \o lists[b], new[b] = <<>>,
         \A p \in DOMAIN lists : p # a /\ p # b => new[p] = lists[p],
         NEW u, NEW n, Counts(lists, u, n)
  PROVE  Counts(new, u, n)
<1> DEFINE A == Tokens(lists, u)
           B == Tokens(new, u)
<1>1. PICK m \in Nat : \E k \in Nat :
         /\ m = Len(lists[a]) /\ k = Len(lists[b]) /\ Len(new[a]) = m + k /\ Len(new[b]) = 0
         /\ \A i \in 1..m : new[a][i] = lists[a][i]
         /\ \A i \in 1..k : new[a][m + i] = lists[b][i]
  OBVIOUS
<1>2. PICK k \in Nat :
         /\ m = Len(lists[a]) /\ k = Len(lists[b]) /\ Len(new[a]) = m + k /\ Len(new[b]) = 0
         /\ \A i \in 1..m : new[a][i] = lists[a][i]
         /\ \A i \in 1..k : new[a][m + i] = lists[b][i]
  BY <1>1
<1> DEFINE f == [p \in A |-> IF p[1] = b THEN <<a, m + p[2]>> ELSE p]
<1>3. /\ \A p \in A : p[1] \in DOMAIN lists /\ p = <<p[1], p[2]>> /\ p[2] \in Nat
      /\ \A p \in B : p[1] \in DOMAIN lists /\ p = <<p[1], p[2]>> /\ p[2] \in Nat
  BY DEF Tokens
<1>4. \A p \in A : (p[1] = a => p[2] <= m) /\ p[2] > 0
  <2>1. \A p \in A : p[2] \in 1..Len(lists[p[1]]) /\ p[2] \in Nat
    BY DEF Tokens
  <2> HIDE DEF A
  <2> QED
    BY <2>1, <1>2
<1>5. f \in [A -> B]
  <2> SUFFICES ASSUME NEW p \in A PROVE f[p] \in B
    OBVIOUS
  <2>1. CASE p[1] = b
    <3>1. p[2] \in 1..k /\ lists[b][p[2]] = u
      BY <2>1, <1>2 DEF Tokens
    <3>2. m + p[2] \in Nat /\ m + p[2] \in 1..(m + k) /\ new[a][m + p[2]] = u
      BY <3>1, <1>2, <1>3
    <3>3. <<a, m + p[2]>> \in B
      BY <3>2, <1>2 DEF Tokens
    <3> QED
      BY <2>1, <3>3
  <2>2. CASE p[1] = a
    <3>1. p[2] \in 1..(m + k) /\ new[a][p[2]] = u
      BY <2>2, <1>2 DEF Tokens
    <3>2. p \in B
      BY <2>2, <3>1, <1>2, <1>3 DEF Tokens
    <3> QED
      BY <2>2, <3>2
  <2>3. CASE p[1] # a /\ p[1] # b
    <3>1. p \in B
      BY <2>3 DEF Tokens
    <3> QED
      BY <2>3, <3>1
  <2> QED
    BY <2>1, <2>2, <2>3
<1>6. \A p, q \in A : f[p] = f[q] => p = q
  <2> SUFFICES ASSUME NEW p \in A, NEW q \in A, f[p] = f[q] PROVE p = q
    OBVIOUS
  <2>1. p = <<p[1], p[2]>> /\ q = <<q[1], q[2]>> /\ p[2] \in Nat /\ q[2] \in Nat
        /\ (p[1] = a => p[2] <= m) /\ (q[1] = a => q[2] <= m)
        /\ p[2] > 0 /\ q[2] > 0
    BY <1>3, <1>4
  <2> HIDE DEF A
  <2>2. CASE p[1] = b /\ q[1] = b
    BY <2>1, <2>2
  <2>3. CASE p[1] = b /\ q[1] # b
    BY <2>1, <2>3
  <2>4. CASE p[1] # b /\ q[1] = b
    BY <2>1, <2>4
  <2>5. CASE p[1] # b /\ q[1] # b
    BY <2>1, <2>5
  <2> QED
    BY <2>2, <2>3, <2>4, <2>5
<1>7. \A r \in B : \E p \in A : f[p] = r
  <2> SUFFICES ASSUME NEW r \in B PROVE \E p \in A : f[p] = r
    OBVIOUS
  <2>1. r = <<r[1], r[2]>> /\ r[2] \in 1..Len(new[r[1]]) /\ new[r[1]][r[2]] = u /\ r[2] \in Nat
        /\ r[1] \in DOMAIN lists
    BY <1>3 DEF Tokens
  <2>2. CASE r[1] = a /\ r[2] > m
    <3>1. r[2] - m \in 1..k /\ r[2] - m \in Nat /\ m + (r[2] - m) = r[2]
      BY <2>1, <2>2, <1>2
    <3>2. lists[b][r[2] - m] = u
      BY <3>1, <2>1, <2>2, <1>2
    <3>3. <<b, r[2] - m>> \in A
      BY <3>1, <3>2, <1>2 DEF Tokens
    <3>4. f[<<b, r[2] - m>>] = <<a, r[2]>>
      BY <3>1, <3>3
    <3> QED
      BY <3>3, <3>4, <2>1, <2>2
  <2>3. CASE r[1] = a /\ ~(r[2] > m)
    <3>1. r[2] \in 1..m /\ lists[a][r[2]] = u
      BY <2>1, <2>3, <1>2
    <3>2. <<a, r[2]>> \in A
      BY <3>1, <2>1, <1>2 DEF Tokens
    <3>3. f[<<a, r[2]>>] = <<a, r[2]>>
      BY <3>2
    <3> QED
      BY <3>2, <3>3, <2>1, <2>3
  <2>4. CASE r[1] # a
    <3>1. r[1] # b
      BY <2>1, <1>2
    <3>2. <<r[1], r[2]>> \in A
      BY <3>1, <2>1, <2>4 DEF Tokens
    <3> QED
      BY <3>1, <3>2, <2>1, <2>4
  <2> QED
    BY <2>2, <2>3, <2>4
<1> HIDE DEF A, B, f
<1>8. IsFiniteSet(A) /\ Cardinality(A) = n
  BY DEF Counts, A
<1>9. IsFiniteSet(B) /\ Cardinality(B) = Cardinality(A)
  BY <1>5, <1>6, <1>7, <1>8, Renaming
<1> QED
  BY <1>8, <1>9 DEF Counts, B

-----------------------------------------------------------------------------
(* What holds in every state                                               *)

Callees == Nodes \cup {Final}
Early == {"generate", "collect", "start"}
Callable(calls) == \A i \in 1..Len(calls) : calls[i] = Final \/ ~Constant(calls[i])

\* What a thread is in the middle of: calls it has left to make, and on top of
\* them perhaps a submission or notification; or a task, without any calls.
Sound(t, f) == /\ f \in Frames /\ f.op # "call"
               /\ f.op \in {"body", "forward"} => t # Main
               /\ f.op # "notify" => ~Constant(f.unit)
Left(t, c, s) == /\ c \in Seq(Callees) /\ Callable(c) /\ s \in BOOLEAN
                 /\ s => Len(c) <= 1 /\ t # Main
Busy(t, f, c, s) ==
  Sound(t, f) /\ (c # <<>> => f.op \in {"submit", "activate", "notify"} /\ ~s)
Fit(t, x) ==
  \E c, s : /\ Left(t, c, s)
            /\ x = Rest(c, s) \/ \E f : Busy(t, f, c, s) /\ x = <<f>> \o Rest(c, s)
Shape == \A t \in Threads : Fit(t, stack[t])

\* The threads that run a task of a unit, are in its forward(), or have some of
\* its tasks left to submit.
Stage(f) == IF f.op = "activate" /\ f.tasks > 0 THEN "submit" ELSE f.op
At(x, op, u) == x # <<>> /\ Stage(Head(x)) = op /\ Head(x).unit = u
Doing(op, u) == {t \in Threads : At(stack[t], op, u)}

\* All tasks of the unit have ended and called forward(), so that its calls are
\* with a thread.
Passed(u) == ended[u] = NumTasks(u) /\ Doing("forward", u) = {}

\* Until then a unit keeps its calls, that of a constant until they are collected.
Keeps(n) == IF Constant(n) THEN pc = "generate" \/ (pc = "collect" /\ pos <= n)
            ELSE ~Passed(n)

CallsIn(s) == IF s # <<>> /\ s[Len(s)].op = "call" THEN s[Len(s)].calls ELSE <<>>
CallsOf(t) == IF t = Main /\ pc \in Early THEN initial ELSE CallsIn(stack[t])

\* Every call that a counter waits for is somewhere, with a unit or a thread.
Places == ({"unit"} \X Nodes) \cup ({"thread"} \X Threads)
Waiting == [p \in Places |-> IF p[1] = "thread" THEN CallsOf(p[2])
                             ELSE IF Keeps(p[2]) THEN forwards[p[2]] ELSE <<>>]
Counted == /\ \A u \in Nodes : Counts(Waiting, u, dependencies[u])
           /\ Counts(Waiting, Final, synchronizer)

\* What the steps of Main have come to.
Phases ==
  /\ pc \in Early => /\ \A t \in Threads : stack[t] = <<>>
                     /\ \A n \in Nodes : queued[n] = 0 /\ ended[n] = 0
  /\ pc \notin Early => initial = <<>>
  /\ Callable(initial)
  /\ pc \in {"predicate", "block", "asleep", "shutdown", "done"} => stack[Main] = <<>>
  /\ pc \in {"shutdown", "done"} => synchronizer = 0
  /\ pc = "done" => \A t \in Threads : stack[t] = <<>>
  /\ passed # {} => pc \in {"shutdown", "done"}
  /\ \A w \in passed : stack[w] = <<>>

\* Units call later ones, and are called by their operands' units.
Generated(n) == pc # "generate" \/ n < pos
Collected(n) == pc # "generate" /\ (pc = "collect" => n < pos)
Linked ==
  \A n \in Nodes :
    /\ Callable(forwards[n])
    /\ \A i \in 1..Len(forwards[n]) : forwards[n][i] = Final \/ forwards[n][i] > n
    /\ Collected(n) => forwards[n] # <<>>
    /\ Generated(n) =>
         \A i \in 1..Len(operands[n]) : \E k \in 1..Len(forwards[operands[n][i]]) :
            forwards[operands[n][i]][k] = n
    /\ ~Generated(n) => forwards[n] = <<>> /\ dependencies[n] = 0

\* A unit's tasks come to life once, when nothing calls it any more.
Load(u) == queued[u] + Cardinality(Doing("body", u)) + ended[u]
OnceAt(u) ==
  /\ IsFiniteSet(Doing("body", u)) /\ Load(u) <= NumTasks(u)
  /\ dependencies[u] > 0 => Load(u) = 0 /\ Doing("submit", u) = {}
  /\ \A t \in Doing("submit", u) : Load(u) + Top(t).tasks <= NumTasks(u)
  /\ \A s, t \in Doing("submit", u) : s = t
Once == \A u \in Nodes : OnceAt(u)

\* A unit of several tasks counts those that have not called forward().
ForwardedAt(u) ==
  /\ IsFiniteSet(Doing("forward", u)) /\ Cardinality(Doing("forward", u)) <= ended[u]
  /\ kind[u] = "para" /\ Generated(u)
       => unfinished[u] = NumTasks(u) - ended[u] + Cardinality(Doing("forward", u))
Forwarded == \A u \in Nodes : ForwardedAt(u)

Matched == \A n \in Nodes : kind[n] = "basic" <=> Constant(n)
FlowInv == TypeOK /\ Matched /\ Shape /\ Phases /\ Linked /\ Counted /\ Once /\ Forwarded

-----------------------------------------------------------------------------
(* Frames, stacks and calls                                                *)

LEMMA NumTasksIs ==
  ASSUME TypeOK, Matched, NEW u \in Nodes
  PROVE  /\ NumTasks(u) \in Nat /\ (NumTasks(u) = 0 <=> Constant(u))
         /\ kind[u] = "mono" => NumTasks(u) = 1
         /\ ~Constant(u) => kind[u] \in {"mono", "para"} /\ NumTasks(u) \in 1..Parts
BY PipelineAssumption DEF TypeOK, Matched, NumTasks

\* What is on a stack is one of the six things a thread may be in the middle of.
LEMMA FrameFields ==
  ASSUME NEW f \in Frames
  PROVE  /\ f.op \in {"body", "forward", "submit", "activate", "call", "notify"}
         /\ f.op \in {"body", "forward", "submit", "activate"} => f.unit \in Nodes
         /\ f.op = "body" => f = Body(f.unit)
         /\ f.op = "forward" => f = Forwarding(f.unit)
         /\ f.op = "submit" => f.tasks \in 1..Parts /\ f = Submitting(f.unit, f.tasks)
         /\ f.op = "activate" =>
              f.tasks \in 0..(Parts - 1) /\ f = Activating(f.unit, f.tasks)
         /\ f.op = "notify" => f = Notice
         /\ f.op # "activate" => Stage(f) = f.op
BY DEF Frames, Body, Forwarding, Submitting, Activating, Notice, Stage

\* Between two tasks of a unit a thread activates an executor.
LEMMA SubmitStage ==
  ASSUME NEW f \in Frames, Stage(f) = "submit"
  PROVE  f.op \in {"submit", "activate"} /\ f.tasks \in 1..Parts
BY FrameFields, PipelineAssumption DEF Stage

LEMMA MakesFrames ==
  ASSUME NEW u \in Nodes
  PROVE  /\ Body(u) \in Frames /\ Forwarding(u) \in Frames /\ Notice \in Frames
         /\ \A n \in 1..Parts : Submitting(u, n) \in Frames
         /\ \A c \in Seq(Callees), s \in BOOLEAN : Calling(c, s) \in Frames
         /\ Body(u).op = "body" /\ Body(u).unit = u
         /\ Forwarding(u).op = "forward" /\ Forwarding(u).unit = u /\ Notice.op = "notify"
         /\ \A n : /\ Submitting(u, n).op = "submit" /\ Submitting(u, n).unit = u
                   /\ Submitting(u, n).tasks = n
         /\ \A n \in 0..(Parts - 1) : Activating(u, n) \in Frames
         /\ \A n : /\ Activating(u, n).op = "activate" /\ Activating(u, n).unit = u
                   /\ Activating(u, n).tasks = n
BY DEF Frames, Body, Forwarding, Submitting, Activating, Notice, Calling, Callees

LEMMA RestIs ==
  ASSUME NEW c \in Seq(Callees), NEW s
  PROVE  /\ CallsIn(Rest(c, s)) = c
         /\ c = <<>> => Rest(c, s) = <<>>
         /\ c # <<>> => /\ Rest(c, s) = <<Calling(c, s)>> /\ Tail(Rest(c, s)) = <<>>
                        /\ Rest(c, s) # <<>> /\ Head(Rest(c, s)) = Calling(c, s)
                        /\ Calling(c, s).op = "call" /\ Calling(c, s).calls = c
                        /\ Calling(c, s).serialize = s
BY DEF Rest, Calling, CallsIn

LEMMA PileIs ==
  ASSUME NEW c \in Seq(Callees), NEW s, NEW f, f.op # "call"
  PROVE  /\ CallsIn(<<f>> \o Rest(c, s)) = c
         /\ <<f>> \o Rest(c, s) # <<>> /\ Head(<<f>> \o Rest(c, s)) = f
         /\ Tail(<<f>> \o Rest(c, s)) = Rest(c, s)
         /\ c = <<>> => <<f>> \o Rest(c, s) = <<f>>
<1>1. CASE c = <<>>
  BY <1>1 DEF Rest, CallsIn
<1>2. CASE c # <<>>
  <2>1. PICK g : Rest(c, s) = <<g>> /\ g.op = "call" /\ g.calls = c
    BY <1>2, RestIs
  <2>2. <<f>> \o <<g>> = <<f, g>>
    <3>1. <<f>> \in Seq({f, g}) /\ <<g>> \in Seq({f, g}) /\ <<f, g>> \in Seq({f, g})
          /\ Len(<<f>>) = 1 /\ Len(<<g>>) = 1 /\ Len(<<f, g>>) = 2
      OBVIOUS
    <3>2. <<f>> \o <<g>> \in Seq({f, g}) /\ Len(<<f>> \o <<g>>) = 2
          /\ (<<f>> \o <<g>>)[1] = f /\ (<<f>> \o <<g>>)[2] = g
      BY <3>1
    <3>3. \A i \in 1..2 : (<<f>> \o <<g>>)[i] = <<f, g>>[i]
      BY <3>2
    <3> QED
      BY <3>1, <3>2, <3>3, SeqEqual
  <2>3. /\ <<f, g>> # <<>> /\ Head(<<f, g>>) = f /\ Tail(<<f, g>>) = <<g>>
        /\ Len(<<f, g>>) = 2 /\ <<f, g>>[2] = g
    OBVIOUS
  <2>4. CallsIn(<<f, g>>) = c
    BY <2>1, <2>3 DEF CallsIn
  <2> QED
    BY <1>2, <2>1, <2>2, <2>3, <2>4
<1> QED
  BY <1>1, <1>2

LEMMA RestTyped ==
  ASSUME NEW c \in Seq(Callees), NEW s \in BOOLEAN, NEW f \in Frames
  PROVE  Rest(c, s) \in Seq(Frames) /\ <<f>> \o Rest(c, s) \in Seq(Frames)
<1>1. Calling(c, s) \in Frames
  BY DEF Calling, Frames, Callees
<1> QED
  BY <1>1 DEF Rest

\* What a thread does when it is at an operation.
LEMMA AtCall ==
  ASSUME Shape, NEW t \in Threads, IsAt(t, "call")
  PROVE  \E c, s : /\ Left(t, c, s) /\ c # <<>> /\ stack[t] = Rest(c, s) /\ Tail(stack[t]) = <<>>
                   /\ Top(t).calls = c /\ Top(t).serialize = s
<1>1. PICK c, s : /\ Left(t, c, s)
                  /\ \/ stack[t] = Rest(c, s)
                     \/ \E f : Busy(t, f, c, s) /\ stack[t] = <<f>> \o Rest(c, s)
  BY DEF Shape, Fit
<1>2. c \in Seq(Callees)
  BY <1>1 DEF Left
<1>3. ASSUME NEW f, Busy(t, f, c, s), stack[t] = <<f>> \o Rest(c, s) PROVE FALSE
  BY <1>2, <1>3, PileIs DEF Busy, Sound, IsAt
<1>4. stack[t] = Rest(c, s) /\ c # <<>>
  BY <1>1, <1>2, <1>3, RestIs DEF IsAt
<1> QED
  BY <1>1, <1>2, <1>4, RestIs DEF Top

LEMMA AtOther ==
  ASSUME Shape, NEW t \in Threads, stack[t] # <<>>, ~IsAt(t, "call")
  PROVE  \E c, s, f : /\ Left(t, c, s) /\ Busy(t, f, c, s) /\ Top(t) = f
                      /\ stack[t] = <<f>> \o Rest(c, s)
                      /\ Tail(stack[t]) = Rest(c, s) /\ CallsIn(stack[t]) = c
                      /\ f.op \in {"body", "forward"} => Tail(stack[t]) = <<>> /\ c = <<>>
<1>1. PICK c, s : /\ Left(t, c, s)
                  /\ \/ stack[t] = Rest(c, s)
                     \/ \E f : Busy(t, f, c, s) /\ stack[t] = <<f>> \o Rest(c, s)
  BY DEF Shape, Fit
<1>2. c \in Seq(Callees)
  BY <1>1 DEF Left
<1>3. stack[t] # Rest(c, s)
  BY <1>2, RestIs DEF IsAt
<1>4. PICK f : Busy(t, f, c, s) /\ stack[t] = <<f>> \o Rest(c, s)
  BY <1>1, <1>3
<1>5. f.op # "call" /\ stack[t] = <<f>> \o Rest(c, s)
  BY <1>4 DEF Busy, Sound
<1>6. f.op \in {"body", "forward"} => c = <<>>
  BY <1>4 DEF Busy
<1>7. Top(t) = f /\ Tail(stack[t]) = Rest(c, s) /\ CallsIn(stack[t]) = c
  BY <1>2, <1>5, PileIs DEF Top
<1>8. f.op \in {"body", "forward"} => Tail(stack[t]) = <<>> /\ c = <<>>
  BY <1>2, <1>6, <1>7, RestIs
<1> QED
  BY <1>1, <1>4, <1>5, <1>7, <1>8

-----------------------------------------------------------------------------
(* The step of one thread, when Main has started the units                 *)

Steady(t, x) ==
  /\ t \in Threads /\ pc \notin Early /\ pc' \notin Early
  /\ stack' = [stack EXCEPT ![t] = x]
  /\ UNCHANGED <<operands, kind, forwards, initial, pos, passed>>

LEMMA DoingAfter ==
  ASSUME TypeOK, NEW t, NEW x, Steady(t, x), NEW op, NEW u
  PROVE  /\ At(x, op, u) => Doing(op, u)' = Doing(op, u) \cup {t}
         /\ ~At(x, op, u) => Doing(op, u)' = Doing(op, u) \ {t}
         /\ At(stack[t], op, u) <=> t \in Doing(op, u)
BY DEF TypeOK, Steady, Doing, At

LEMMA DoingStays ==
  ASSUME TypeOK, NEW t, NEW x, Steady(t, x), NEW op, NEW u,
         At(x, op, u) <=> At(stack[t], op, u)
  PROVE  Doing(op, u)' = Doing(op, u)
BY DEF TypeOK, Steady, Doing, At

\* A unit that the thread neither is nor gets at.
Apart(x, v) == \A op \in {"body", "submit", "forward"} : ~At(x, op, v)

\* A step leaves alone the counts of every unit that its thread neither is nor gets at.
LEMMA Untouched ==
  ASSUME FlowInv, NEW t, NEW x, Steady(t, x), NEW v \in Nodes,
         Apart(stack[t], v), Apart(x, v), queued'[v] = queued[v], ended'[v] = ended[v],
         dependencies'[v] > 0 => dependencies[v] > 0, unfinished'[v] = unfinished[v]
  PROVE  OnceAt(v)' /\ ForwardedAt(v)' /\ (Passed(v)' <=> Passed(v))
<1>1. TypeOK /\ OnceAt(v) /\ ForwardedAt(v)
  BY DEF FlowInv, Once, Forwarded
<1>2. /\ Doing("body", v)' = Doing("body", v) /\ Doing("submit", v)' = Doing("submit", v)
      /\ Doing("forward", v)' = Doing("forward", v)
  BY <1>1, DoingStays DEF Apart
<1>3. NumTasks(v)' = NumTasks(v) /\ (Generated(v)' <=> Generated(v))
  BY DEF Steady, NumTasks, Generated, Early
<1>4. Load(v)' = Load(v)
  BY <1>2 DEF Load
<1>5. \A s \in Doing("submit", v) : stack'[s] = stack[s]
  BY <1>1 DEF Steady, TypeOK, Apart, Doing
<1>6. OnceAt(v)'
  BY <1>1, <1>2, <1>3, <1>4, <1>5 DEF OnceAt, Top
<1>7. ForwardedAt(v)'
  BY <1>1, <1>2, <1>3 DEF ForwardedAt, Steady
<1> QED
  BY <1>2, <1>3, <1>6, <1>7 DEF Passed

\* The step of one thread moves only its own calls, and those of a unit it passes.
LEMMA WaitingAfter ==
  ASSUME TypeOK, NEW t, NEW x, Steady(t, x)
  PROVE  /\ DOMAIN Waiting = Places /\ DOMAIN Waiting' = Places
         /\ Waiting[<<"thread", t>>] = CallsIn(stack[t]) /\ Waiting'[<<"thread", t>>] = CallsIn(x)
         /\ \A s \in Threads : s # t => Waiting'[<<"thread", s>>] = Waiting[<<"thread", s>>]
         /\ \A n \in Nodes :
              (Passed(n)' <=> Passed(n)) => Waiting'[<<"unit", n>>] = Waiting[<<"unit", n>>]
         /\ \A n \in Nodes : Keeps(n) => ~Constant(n)
<1>1. \A s \in Threads : /\ <<"thread", s>> \in Places /\ Waiting[<<"thread", s>>] = CallsIn(stack[s])
                         /\ Waiting'[<<"thread", s>>] = CallsIn(stack'[s])
  BY DEF Waiting, Places, CallsOf, Steady
<1>2. \A n \in Nodes :
        /\ <<"unit", n>> \in Places
        /\ Waiting[<<"unit", n>>] = IF Keeps(n) THEN forwards[n] ELSE <<>>
        /\ Waiting'[<<"unit", n>>] = IF Keeps(n)' THEN forwards'[n] ELSE <<>>
  BY DEF Waiting, Places
<1>3. \A n \in Nodes : /\ Keeps(n) <=> ~Constant(n) /\ ~Passed(n)
                       /\ Keeps(n)' <=> ~Constant(n) /\ ~Passed(n)'
  BY DEF Keeps, Constant, Steady, Early
<1>4. /\ \A s \in Threads : s # t => stack'[s] = stack[s]
      /\ t \in Threads /\ stack'[t] = x /\ forwards' = forwards
  BY DEF Steady, TypeOK
<1>5. DOMAIN Waiting = Places /\ DOMAIN Waiting' = Places
  BY DEF Waiting
<1> QED
  BY <1>1, <1>2, <1>3, <1>4, <1>5

LEMMA PlacesAre ==
  ASSUME NEW p \in Places
  PROVE  \/ \E n \in Nodes : p = <<"unit", n>>
         \/ \E t \in Threads : p = <<"thread", t>>
BY DEF Places

LEMMA CountedIs ==
  Counted' <=> /\ \A u \in Nodes : Counts(Waiting', u, dependencies'[u])
               /\ Counts(Waiting', Final, synchronizer')
BY DEF Counted, Counts, Tokens

\* A counter that waits for a call is not zero.
LEMMA Pending ==
  ASSUME Counted, NEW h \in Places, NEW k \in Nat, k \in 1..Len(Waiting[h])
  PROVE  /\ Waiting[h][k] \in Nodes => dependencies[Waiting[h][k]] > 0
         /\ Waiting[h][k] = Final => synchronizer > 0
<1>1. DOMAIN Waiting = Places
  BY DEF Waiting
<1>2. ASSUME NEW u \in Nodes, Waiting[h][k] = u PROVE dependencies[u] > 0
  BY <1>1, <1>2, CountOnce DEF Counted
<1>3. Waiting[h][k] = Final => synchronizer > 0
  BY <1>1, CountOnce DEF Counted
<1> QED
  BY <1>2, <1>3

\* A step that makes no call and takes over none keeps all counts.
LEMMA CountedStays ==
  ASSUME TypeOK, Counted, NEW t, NEW x, Steady(t, x), CallsIn(x) = CallsIn(stack[t]),
         \A n \in Nodes : Passed(n)' <=> Passed(n), \A n \in Nodes : dependencies'[n] = dependencies[n],
         synchronizer' = synchronizer
  PROVE  Counted'
<1>1. \A p \in Places : Waiting'[p] = Waiting[p]
  BY WaitingAfter, PlacesAre
<1>2. Waiting' = Waiting
  BY <1>1 DEF Waiting
<1> QED
  BY <1>2, CountedIs DEF Counted

\* A thread makes the first of its calls.
LEMMA CountedAfterCall ==
  ASSUME TypeOK, Counted, NEW t, NEW x, Steady(t, x), NEW c \in Seq(Callees), c # <<>>,
         CallsIn(stack[t]) = c, CallsIn(x) = Tail(c), \A n \in Nodes : Passed(n)' <=> Passed(n),
         \A n \in Nodes : dependencies'[n] = IF n = Head(c) THEN dependencies[n] - 1
                                             ELSE dependencies[n],
         synchronizer' = IF Head(c) = Final THEN synchronizer - 1 ELSE synchronizer
  PROVE  Counted'
<1> DEFINE h == <<"thread", t>>
<1>1. h \in Places
  BY DEF Places, Steady
<1>2. \A p \in Places : p # h => Waiting'[p] = Waiting[p]
  <2> SUFFICES ASSUME NEW p \in Places, p # h PROVE Waiting'[p] = Waiting[p]
    OBVIOUS
  <2>1. CASE \E n \in Nodes : p = <<"unit", n>>
    BY <2>1, WaitingAfter
  <2>2. CASE \E s \in Threads : p = <<"thread", s>>
    BY <2>2, WaitingAfter
  <2> QED
    BY <2>1, <2>2, PlacesAre
<1>3. DOMAIN Waiting' = DOMAIN Waiting /\ h \in DOMAIN Waiting /\ Waiting[h] = c
      /\ Waiting'[h] = Tail(Waiting[h])
      /\ \A p \in DOMAIN Waiting : p # h => Waiting'[p] = Waiting[p]
  BY <1>1, <1>2, WaitingAfter
<1> HIDE DEF h
<1>4. PICK new : new = Waiting'
  OBVIOUS
<1>5. ASSUME NEW u, NEW n, Counts(Waiting, u, n)
      PROVE  /\ u = Head(c) => Counts(new, u, n - 1)
             /\ u # Head(c) => Counts(new, u, n)
  <2>1. /\ DOMAIN new = DOMAIN Waiting /\ h \in DOMAIN Waiting /\ Waiting[h] \in Seq(Callees)
        /\ Waiting[h] # <<>> /\ new[h] = Tail(Waiting[h])
        /\ \A p \in DOMAIN Waiting : p # h => new[p] = Waiting[p]
    BY <1>3, <1>4
  <2> QED
    BY <2>1, <1>5, <1>3, CallMade
<1>6. \A u \in Nodes : Counts(new, u, dependencies'[u])
  BY <1>5 DEF Counted
<1>7. Counts(new, Final, synchronizer')
  BY <1>5 DEF Counted
<1> QED
  BY <1>4, <1>6, <1>7, CountedIs

\* A unit passes its calls to a thread.
LEMMA CountedAfterForward ==
  ASSUME TypeOK, Counted, NEW t, NEW x, Steady(t, x), NEW u \in Nodes, ~Constant(u),
         ~Passed(u), Passed(u)', \A n \in Nodes : n # u => (Passed(n)' <=> Passed(n)),
         CallsIn(stack[t]) = <<>>, CallsIn(x) = forwards[u],
         dependencies' = dependencies, synchronizer' = synchronizer
  PROVE  Counted'
<1> DEFINE h == <<"thread", t>>
           b == <<"unit", u>>
<1>1. h \in Places /\ b \in Places /\ h # b
  BY DEF Places, Steady
<1>2. \A p \in Places : p # h /\ p # b => Waiting'[p] = Waiting[p]
  <2> SUFFICES ASSUME NEW p \in Places, p # h, p # b PROVE Waiting'[p] = Waiting[p]
    OBVIOUS
  <2>1. CASE \E n \in Nodes : p = <<"unit", n>>
    BY <2>1, WaitingAfter
  <2>2. CASE \E s \in Threads : p = <<"thread", s>>
    BY <2>2, WaitingAfter
  <2> QED
    BY <2>1, <2>2, PlacesAre
<1>3. Waiting[b] = forwards[u] /\ Waiting'[b] = <<>>
  <2>1. Waiting[b] = forwards[u]
    BY <1>1 DEF Waiting, Keeps
  <2>2. ~Keeps(u)'
    BY DEF Keeps, Constant, Steady
  <2> QED
    BY <1>1, <2>1, <2>2 DEF Waiting
<1>4. /\ DOMAIN Waiting' = DOMAIN Waiting /\ h \in DOMAIN Waiting /\ b \in DOMAIN Waiting
      /\ Waiting[h] = <<>> /\ Waiting'[h] = forwards[u]
      /\ \A p \in DOMAIN Waiting : p # h /\ p # b => Waiting'[p] = Waiting[p]
  BY <1>1, <1>2, WaitingAfter
<1> HIDE DEF h, b
<1>5. PICK new : new = Waiting'
  OBVIOUS
<1>6. forwards[u] \in Seq(Callees)
  BY DEF TypeOK, Callees
<1>7. ASSUME NEW v, NEW n, Counts(Waiting, v, n) PROVE Counts(new, v, n)
  <2>1. /\ DOMAIN new = DOMAIN Waiting /\ h \in DOMAIN Waiting /\ b \in DOMAIN Waiting
        /\ Waiting[h] \in Seq(Callees) /\ Waiting[b] \in Seq(Callees)
        /\ new[h] = Waiting[h] \o Waiting[b] /\ new[b] = <<>> /\ h # b
        /\ \A p \in DOMAIN Waiting : p # h /\ p # b => new[p] = Waiting[p]
    BY <1>1, <1>3, <1>4, <1>5, <1>6
  <2> QED
    BY <2>1, <1>7, CallsMoved
<1> QED
  BY <1>5, <1>7, CountedIs DEF Counted

-----------------------------------------------------------------------------
(* When the counter is zero, nothing is left to do                         *)

\* A nonempty set of nodes has a last one.
LEMMA LastNode ==
  ASSUME NEW S, S \subseteq Nodes, S # {}
  PROVE  \E n \in S : \A m \in S : m <= n
<1> DEFINE T == {NumNodes - n : n \in S}
<1>1. IsWellFoundedOn(OpToRel(<, Nat), Nat)
  BY NatLessThanWellFounded
<1>2. T \subseteq Nat /\ T # {} /\ NumNodes \in Nat
  <2>1. NumNodes \in Nat
    BY PipelineAssumption
  <2>2. \A n \in S : n \in 1..NumNodes
    BY DEF Nodes
  <2> QED
    BY <2>1, <2>2
<1>3. \E x \in T : \A y \in T : <<y, x>> \notin OpToRel(<, Nat)
  BY <1>1, <1>2, WFMin, Zenon
<1>4. PICK x \in T : \A y \in T : ~(y < x)
  BY <1>2, <1>3 DEF OpToRel
<1>5. PICK n \in S : x = NumNodes - n
  OBVIOUS
<1>6. \A m \in S : NumNodes - m \in T
  OBVIOUS
<1> HIDE DEF T
<1>7. \A m \in S : m <= n
  BY <1>2, <1>4, <1>5, <1>6 DEF Nodes
<1> QED
  BY <1>7

LEMMA FlowParts ==
  ASSUME FlowInv
  PROVE  /\ TypeOK /\ Matched /\ Shape /\ Phases /\ Linked /\ Counted
         /\ \A u \in Nodes : OnceAt(u) /\ ForwardedAt(u)
BY DEF FlowInv, Once, Forwarded

\* A unit that is called has none of its tasks.
LEMMA CalledHasNoTasks ==
  ASSUME FlowInv, NEW h \in Places, NEW k \in Nat, k \in 1..Len(Waiting[h]),
         NEW u \in Nodes, Waiting[h][k] = u
  PROVE  /\ dependencies[u] > 0 /\ Load(u) = 0 /\ queued[u] = 0 /\ ended[u] = 0
         /\ Doing("body", u) = {} /\ Doing("submit", u) = {} /\ Doing("forward", u) = {}
<1>1. dependencies[u] > 0
  BY Pending, FlowParts
<1>2. OnceAt(u) /\ ForwardedAt(u) /\ TypeOK
  BY FlowParts
<1>3. Load(u) = 0 /\ Doing("submit", u) = {}
  BY <1>1, <1>2 DEF OnceAt
<1>4. queued[u] \in Nat /\ ended[u] \in Nat
  BY <1>2 DEF TypeOK
<1>5. IsFiniteSet(Doing("body", u)) /\ Cardinality(Doing("body", u)) \in Nat
      /\ IsFiniteSet(Doing("forward", u)) /\ Cardinality(Doing("forward", u)) \in Nat
  BY <1>2, FS_CardinalityType DEF OnceAt, ForwardedAt
<1>6. queued[u] = 0 /\ ended[u] = 0 /\ Cardinality(Doing("body", u)) = 0
  BY <1>3, <1>4, <1>5 DEF Load
<1>7. Cardinality(Doing("forward", u)) = 0
  BY <1>2, <1>5, <1>6 DEF ForwardedAt
<1> QED
  BY <1>1, <1>3, <1>5, <1>6, <1>7, FS_EmptySet

\* All of a passed unit's tasks have ended.
LEMMA PassedIsOver ==
  ASSUME FlowInv, NEW u \in Nodes, ended[u] = NumTasks(u)
  PROVE  queued[u] = 0 /\ Doing("body", u) = {} /\ Doing("submit", u) = {}
<1>1. OnceAt(u) /\ TypeOK /\ Matched
  BY FlowParts
<1>2. queued[u] \in Nat /\ ended[u] \in Nat /\ NumTasks(u) \in Nat
  BY <1>1, NumTasksIs DEF TypeOK
<1>3. IsFiniteSet(Doing("body", u)) /\ Cardinality(Doing("body", u)) \in Nat
  BY <1>1, FS_CardinalityType DEF OnceAt
<1>4. Load(u) \in Nat /\ Load(u) <= NumTasks(u)
  BY <1>1, <1>2, <1>3 DEF OnceAt, Load
<1>5. queued[u] = 0 /\ Cardinality(Doing("body", u)) = 0
  BY <1>2, <1>3, <1>4 DEF Load
<1>6. ASSUME NEW t \in Doing("submit", u) PROVE FALSE
  <2>1. t \in Threads /\ stack[t] # <<>> /\ Stage(Top(t)) = "submit"
    BY DEF Doing, At, Top
  <2>2. Top(t) \in Frames
    BY <2>1, <1>1 DEF TypeOK, Top
  <2>3. Top(t).tasks \in 1..Parts
    BY <2>1, <2>2, SubmitStage
  <2>4. Load(u) + Top(t).tasks <= NumTasks(u)
    BY <1>1 DEF OnceAt
  <2>5. Load(u) >= NumTasks(u)
    BY <1>2, <1>3 DEF Load
  <2> QED
    BY <1>2, <1>4, <2>3, <2>4, <2>5, PipelineAssumption
<1> QED
  BY <1>3, <1>5, <1>6, FS_EmptySet

\* When nothing is left to count down, every unit has run: of those that have not,
\* the last one would still call a later one, or the thread that waits.
LEMMA AllPassed ==
  ASSUME FlowInv, pc \notin Early, synchronizer = 0
  PROVE  \A n \in Nodes : Passed(n)
<1> DEFINE S == {n \in Nodes : ~Passed(n)}
<1> SUFFICES ASSUME S # {} PROVE FALSE
  OBVIOUS
<1>1. PICK n \in S : \A m \in S : m <= n
  BY LastNode
<1>2. n \in Nodes /\ ~Passed(n)
  OBVIOUS
<1>3. TypeOK /\ Matched /\ Linked /\ Counted /\ ForwardedAt(n) /\ OnceAt(n)
  BY <1>2, FlowParts
<1>4. ~Constant(n)
  <2> SUFFICES ASSUME Constant(n) PROVE FALSE
    OBVIOUS
  <2>1. NumTasks(n) = 0 /\ ended[n] \in Nat /\ queued[n] \in Nat
    BY <1>2, <1>3, NumTasksIs DEF TypeOK
  <2>2. IsFiniteSet(Doing("body", n)) /\ Cardinality(Doing("body", n)) \in Nat
        /\ IsFiniteSet(Doing("forward", n)) /\ Cardinality(Doing("forward", n)) \in Nat
    BY <1>3, FS_CardinalityType DEF OnceAt, ForwardedAt
  <2>3. ended[n] = 0
    BY <2>1, <2>2, <1>3 DEF OnceAt, Load
  <2>4. Cardinality(Doing("forward", n)) = 0
    BY <2>2, <2>3, <1>3 DEF ForwardedAt
  <2> QED
    BY <1>2, <2>1, <2>2, <2>3, <2>4, FS_EmptySet DEF Passed
<1>5. <<"unit", n>> \in Places /\ Waiting[<<"unit", n>>] = forwards[n]
  BY <1>2, <1>4 DEF Waiting, Keeps, Places
<1>6. forwards[n] \in Seq(Callees) /\ forwards[n] # <<>>
  BY <1>2, <1>3 DEF TypeOK, Callees, Linked, Collected, Early
<1>7. 1 \in 1..Len(forwards[n]) /\ forwards[n][1] \in Callees
  BY <1>6
<1>8. forwards[n][1] # Final
  BY <1>3, <1>5, <1>7, Pending
<1>9. PICK m : m = forwards[n][1]
  OBVIOUS
<1>10. m \in Nodes /\ m > n /\ ~Constant(m)
  BY <1>2, <1>3, <1>7, <1>8, <1>9 DEF Linked, Callable, Callees
<1>11. ended[m] = 0
  BY <1>5, <1>7, <1>9, <1>10, CalledHasNoTasks
<1>12. NumTasks(m) # 0
  BY <1>3, <1>10, NumTasksIs
<1>13. m \in S
  BY <1>10, <1>11, <1>12 DEF Passed
<1> QED
  BY <1>1, <1>2, <1>10, <1>13 DEF Nodes

\* So no task is queued and no thread has anything to do but a notification or an
\* activation.
LEMMA Drained ==
  ASSUME FlowInv, pc \notin Early, synchronizer = 0
  PROVE  /\ \A n \in Nodes : ended[n] = NumTasks(n) /\ queued[n] = 0
         /\ \A t \in Threads : stack[t] \in Leftover
<1>1. \A n \in Nodes : Passed(n)
  BY AllPassed
<1>2. \A n \in Nodes : /\ ended[n] = NumTasks(n) /\ queued[n] = 0 /\ Doing("body", n) = {}
                       /\ Doing("submit", n) = {} /\ Doing("forward", n) = {}
  BY <1>1, PassedIsOver DEF Passed
<1>3. TypeOK /\ Matched /\ Shape /\ Counted
  BY FlowParts
<1>4. ASSUME NEW t \in Threads PROVE stack[t] \in Leftover
  <2>1. ASSUME NEW c \in Seq(Callees), CallsIn(stack[t]) = c, Callable(c) PROVE c = <<>>
    <3> SUFFICES ASSUME c # <<>> PROVE FALSE
      OBVIOUS
    <3>1. <<"thread", t>> \in Places /\ Waiting[<<"thread", t>>] = c
      BY <2>1 DEF Places, Waiting, CallsOf
    <3>2. 1 \in 1..Len(c) /\ c[1] \in Callees
      OBVIOUS
    <3>3. c[1] # Final
      BY <1>3, <3>1, <3>2, Pending
    <3>4. PICK u : u = c[1]
      OBVIOUS
    <3>5. u \in Nodes /\ ~Constant(u)
      BY <2>1, <3>2, <3>3, <3>4 DEF Callable, Callees
    <3>6. ended[u] = 0
      BY <3>1, <3>2, <3>4, <3>5, CalledHasNoTasks
    <3> QED
      BY <1>2, <1>3, <3>5, <3>6, NumTasksIs
  <2>2. ~IsAt(t, "call")
    <3> SUFFICES ASSUME IsAt(t, "call") PROVE FALSE
      OBVIOUS
    <3>1. PICK c, s : Left(t, c, s) /\ c # <<>> /\ stack[t] = Rest(c, s)
      BY <1>3, AtCall
    <3> QED
      BY <2>1, <3>1, RestIs DEF Left
  <2> SUFFICES ASSUME stack[t] # <<>> PROVE stack[t] \in Leftover
    BY DEF Leftover
  <2>3. PICK c, s, f : /\ Left(t, c, s) /\ Busy(t, f, c, s) /\ Top(t) = f
                       /\ stack[t] = <<f>> \o Rest(c, s) /\ CallsIn(stack[t]) = c
    BY <1>3, <2>2, AtOther
  <2>4. c = <<>>
    BY <2>1, <2>3 DEF Left
  <2>5. stack[t] = <<f>>
    <3>1. c \in Seq(Callees) /\ f.op # "call"
      BY <2>3 DEF Left, Busy, Sound
    <3> QED
      BY <3>1, <2>3, <2>4, PileIs
  <2>6. f \in Frames /\ f.op # "call"
    BY <2>3 DEF Busy, Sound
  <2>7. Stage(f) \notin {"body", "submit", "forward"}
    <3>1. ASSUME Stage(f) \in {"body", "submit", "forward"} PROVE FALSE
      <4>1. f.unit \in Nodes
        BY <2>6, <3>1, FrameFields DEF Stage
      <4>2. t \in Doing(Stage(f), f.unit)
        BY <2>3 DEF Doing, At, Top
      <4> QED
        BY <1>2, <3>1, <4>1, <4>2
    <3> QED
      BY <3>1
  <2>8. CASE f.op = "activate"
    <3>1. f.unit \in Nodes /\ f.tasks \in Nat /\ f = Activating(f.unit, f.tasks)
      BY <2>6, <2>8, FrameFields
    <3>2. f.tasks = 0
      BY <2>7, <2>8, <3>1 DEF Stage
    <3> QED
      BY <2>5, <3>1, <3>2 DEF Leftover
  <2>9. CASE f.op # "activate"
    <3>1. f = Notice
      BY <2>6, <2>7, <2>9, FrameFields
    <3> QED
      BY <2>5, <3>1 DEF Leftover
  <2> QED
    BY <2>8, <2>9
<1> QED
  BY <1>2, <1>4

-----------------------------------------------------------------------------
(* What a step of one thread keeps                                         *)

LEMMA GraphStays ==
  ASSUME FlowInv, NEW t, NEW x, Steady(t, x)
  PROVE  Matched' /\ Linked'
<1>1. Matched /\ Linked
  BY FlowParts
<1>2. Matched'
  BY <1>1 DEF Matched, Constant, Steady
<1>3. \A n \in Nodes : /\ Generated(n) /\ Collected(n) /\ Generated(n)' /\ Collected(n)'
                       /\ Constant(n)' <=> Constant(n)
  BY DEF Steady, Generated, Collected, Early, Constant
<1>4. \A n \in Nodes : Callable(forwards[n])' <=> Callable(forwards[n])
  BY DEF Callable, Constant, Steady
<1>5. Linked'
  BY <1>1, <1>3, <1>4 DEF Linked, Steady
<1> QED
  BY <1>2, <1>5

LEMMA FitsThen ==
  ASSUME NEW t, NEW x, Steady(t, x), NEW s, NEW y, Fit(s, y)
  PROVE  Fit(s, y)'
BY DEF Steady, Fit, Left, Busy, Sound, Callable, Constant, Rest, Calling, Frames, Callees, Notice

LEMMA ShapeSame ==
  ASSUME FlowInv, UNCHANGED <<operands, stack>>
  PROVE  Shape'
<1>0. Shape
  BY FlowParts
<1>1. ASSUME NEW t, NEW y, Fit(t, y) PROVE Fit(t, y)'
  BY <1>1 DEF Fit, Left, Busy, Sound, Callable, Constant, Rest, Calling, Frames, Callees, Notice
<1>2. ASSUME NEW t \in Threads PROVE Fit(t, stack[t])'
  <2>1. PICK y : y = stack[t] /\ y = stack'[t]
    OBVIOUS
  <2>2. Fit(t, y)'
    BY <1>0, <1>1, <2>1 DEF Shape
  <2> QED
    BY <2>1, <2>2 DEF Fit, Left, Busy, Sound, Callable, Constant
<1> QED
  BY <1>2 DEF Shape

LEMMA ShapeStays ==
  ASSUME FlowInv, NEW t, NEW x, Steady(t, x), Fit(t, x)
  PROVE  Shape'
<1>1. TypeOK /\ Shape
  BY FlowParts
<1>2. t \in Threads /\ stack'[t] = x /\ \A s \in Threads : s # t => stack'[s] = stack[s]
  BY <1>1 DEF Steady, TypeOK
<1>3. \A s \in Threads : Fit(s, stack'[s])
  BY <1>1, <1>2 DEF Shape
<1>4. PICK new : new = stack'
  OBVIOUS
<1>5. \A s \in Threads : Fit(s, new[s])'
  BY <1>3, <1>4, FitsThen
<1> QED
  BY <1>4, <1>5 DEF Shape, Fit, Left, Busy, Sound, Callable, Constant

LEMMA FitIsTyped ==
  ASSUME NEW t, NEW x, Fit(t, x)
  PROVE  x \in Seq(Frames)
<1>1. PICK c, s : /\ Left(t, c, s)
                  /\ x = Rest(c, s) \/ \E f : Busy(t, f, c, s) /\ x = <<f>> \o Rest(c, s)
  BY DEF Fit
<1>2. c \in Seq(Callees) /\ s \in BOOLEAN /\ Notice \in Frames
  BY <1>1 DEF Left, Frames
<1>3. \A f : Busy(t, f, c, s) => f \in Frames
  BY DEF Busy, Sound
<1>4. CASE x = Rest(c, s)
  BY <1>2, <1>4, RestTyped
<1>5. ASSUME NEW f, Busy(t, f, c, s), x = <<f>> \o Rest(c, s) PROVE x \in Seq(Frames)
  BY <1>2, <1>3, <1>5, RestTyped
<1> QED
  BY <1>1, <1>4, <1>5

\* A thread with something to do finds Main past the construction, and before
\* its end.
LEMMA AtWork ==
  ASSUME FlowInv, NEW t \in Threads, stack[t] # <<>>
  PROVE  /\ pc \notin Early /\ pc # "done" /\ initial = <<>>
         /\ t = Main => pc = "calls"
         /\ t \notin passed
         /\ stack[t] \notin Leftover => synchronizer > 0 /\ pc # "shutdown"
<1>1. Phases /\ TypeOK
  BY FlowParts
<1>2. pc \notin Early /\ pc # "done"
  BY <1>1 DEF Phases
<1>3. t = Main => pc = "calls"
  BY <1>1, <1>2 DEF Phases, TypeOK, Early
<1>4. stack[t] \notin Leftover => synchronizer # 0
  BY <1>2, Drained
<1> QED
  BY <1>1, <1>2, <1>3, <1>4 DEF Phases, TypeOK

LEMMA QueuedAtWork ==
  ASSUME FlowInv, NEW u \in Nodes, queued[u] > 0
  PROVE  pc \notin Early /\ pc # "done" /\ initial = <<>> /\ passed = {}
<1>1. Phases /\ TypeOK
  BY FlowParts
<1>2. pc \notin Early
  BY <1>1 DEF Phases
<1>3. synchronizer # 0
  BY <1>2, Drained
<1> QED
  BY <1>1, <1>2, <1>3 DEF Phases, TypeOK

LEMMA PhasesStay ==
  ASSUME FlowInv, NEW t, NEW x, Steady(t, x), pc # "done", t \notin passed,
         pc' = pc \/ (pc = "asleep" /\ pc' = "predicate"), t = Main => pc = "calls",
         synchronizer' # synchronizer => synchronizer > 0
  PROVE  Phases'
<1>1. Phases /\ TypeOK
  BY FlowParts
<1>2. stack'[t] = x /\ \A s \in Threads : s # t => stack'[s] = stack[s]
  BY <1>1 DEF Steady, TypeOK
<1>3. initial' = <<>> /\ Callable(initial)'
  BY <1>1 DEF Steady, Phases, Callable, Constant
<1>4. Main \in Threads
  BY DEF Threads
<1> QED
  BY <1>1, <1>2, <1>3, <1>4 DEF Phases, Steady, Early, TypeOK

\* What a step of one thread must show, beyond its effect on units and calls.
LEMMA StepKeeps ==
  ASSUME FlowInv, NEW t, NEW x, Steady(t, x), Fit(t, x), pc # "done", t \notin passed,
         pc' = pc \/ (pc = "asleep" /\ pc' = "predicate"), t = Main => pc = "calls",
         synchronizer' # synchronizer => synchronizer > 0, synchronizer' \in Nat,
         dependencies' \in [Nodes -> Nat], unfinished' \in [Nodes -> Nat],
         queued' \in [Nodes -> Nat], ended' \in [Nodes -> Nat], lost' \subseteq Nodes,
         Counted', \A u \in Nodes : OnceAt(u)' /\ ForwardedAt(u)'
  PROVE  FlowInv'
<1>1. TypeOK
  BY FlowParts
<1>2. stack' \in [Threads -> Seq(Frames)]
  BY <1>1, FitIsTyped DEF TypeOK, Steady
<1>3. TypeOK'
  BY <1>1, <1>2 DEF TypeOK, Steady
<1>4. Once' /\ Forwarded'
  BY DEF Once, Forwarded
<1> QED
  BY <1>3, <1>4, GraphStays, ShapeStays, PhasesStay DEF FlowInv

-----------------------------------------------------------------------------
(* The steps of a thread, one by one                                       *)

LEMMA Replaced ==
  ASSUME TypeOK, NEW t \in Threads, NEW frames, Replace(t, frames)
  PROVE  stack' = [stack EXCEPT ![t] = frames \o Tail(stack[t])]
BY DEF Replace, TypeOK

\* The stack becomes a frame on top of what is left of it.
LEMMA Piled ==
  ASSUME NEW t, NEW c, NEW s, NEW f, Left(t, c, s), Busy(t, f, c, s)
  PROVE  /\ Fit(t, <<f>> \o Rest(c, s)) /\ CallsIn(<<f>> \o Rest(c, s)) = c
         /\ \A op, u : At(<<f>> \o Rest(c, s), op, u) <=> Stage(f) = op /\ f.unit = u
         /\ f.op # "activate" => Stage(f) = f.op
<1>1. c \in Seq(Callees) /\ f.op # "call"
  BY DEF Left, Busy, Sound
<1>2. Fit(t, <<f>> \o Rest(c, s))
  BY DEF Fit
<1> QED
  BY <1>1, <1>2, PileIs DEF At, Stage

LEMMA Unpiled ==
  ASSUME NEW t, NEW c, NEW s, Left(t, c, s)
  PROVE  /\ Fit(t, Rest(c, s)) /\ CallsIn(Rest(c, s)) = c
         /\ \A u : Apart(Rest(c, s), u)
         /\ <<>> \o Rest(c, s) = Rest(c, s) /\ Rest(c, s) \o <<>> = Rest(c, s)
<1>1. c \in Seq(Callees) /\ s \in BOOLEAN
  BY DEF Left
<1>2. Fit(t, Rest(c, s))
  BY DEF Fit
<1>3. \A u : Apart(Rest(c, s), u)
  <2>1. CASE c = <<>>
    BY <1>1, <2>1, RestIs DEF Apart, At
  <2>2. CASE c # <<>>
    BY <1>1, <2>2, RestIs DEF Apart, At, Stage
  <2> QED
    BY <2>1, <2>2
<1>4. Rest(c, s) \in Seq(Frames)
  BY <1>2, FitIsTyped
<1> QED
  BY <1>1, <1>2, <1>3, <1>4, RestIs

\* Where a thread is, when it is at an operation of a unit.
LEMMA AtUnit ==
  ASSUME FlowInv, NEW t \in Threads, NEW op \in {"body", "submit", "forward"}, IsAt(t, op)
  PROVE  \E c, s : LET u == Top(t).unit IN
           /\ Left(t, c, s) /\ Busy(t, Top(t), c, s) /\ stack[t] = <<Top(t)>> \o Rest(c, s)
           /\ Tail(stack[t]) = Rest(c, s) /\ CallsIn(stack[t]) = c
           /\ op # "submit" => Tail(stack[t]) = <<>> /\ c = <<>> /\ t # Main
           /\ u \in Nodes /\ ~Constant(u) /\ t \in Doing(op, u) /\ stack[t] \notin Leftover
           /\ \A v, o : At(stack[t], o, v) <=> o = op /\ v = u
           /\ op = "submit" => Top(t).tasks \in 1..Parts
           /\ \A v : v # u => Apart(stack[t], v)
<1>1. TypeOK /\ Shape
  BY FlowParts
<1>2. stack[t] # <<>> /\ ~IsAt(t, "call") /\ Top(t).op = op
  BY DEF IsAt, Top
<1>3. PICK c, s : /\ Left(t, c, s) /\ Busy(t, Top(t), c, s)
                  /\ stack[t] = <<Top(t)>> \o Rest(c, s)
                  /\ Tail(stack[t]) = Rest(c, s) /\ CallsIn(stack[t]) = c
                  /\ op # "submit" => Tail(stack[t]) = <<>> /\ c = <<>>
  BY <1>1, <1>2, AtOther
<1>4. Top(t) \in Frames /\ ~Constant(Top(t).unit) /\ (op # "submit" => t # Main)
  BY <1>2, <1>3 DEF Busy, Sound
<1>5. Top(t).unit \in Nodes /\ (op = "submit" => Top(t).tasks \in 1..Parts)
  BY <1>2, <1>4, FrameFields
<1>6. \A v, o : At(stack[t], o, v) <=> o = op /\ v = Top(t).unit
  BY <1>2 DEF At, Top, Stage
<1>7. t \in Doing(op, Top(t).unit) /\ \A v : v # Top(t).unit => Apart(stack[t], v)
  BY <1>6 DEF Doing, Apart
<1>8. stack[t] \notin Leftover
  BY <1>2 DEF Top, Notice, Activating, Leftover
<1> QED
  BY <1>3, <1>4, <1>5, <1>6, <1>7, <1>8

\* TaskHandler.cpp, line 174: one of the tasks of a unit goes to the pool.
LEMMA SubmitKeeps ==
  ASSUME FlowInv, NEW t \in Threads, Submit(t)
  PROVE  FlowInv'
<1>0. PICK u, n : u = Top(t).unit /\ n = Top(t).tasks /\ IsAt(t, "submit")
  BY DEF Submit
<1>1. PICK c, s :
        /\ u \in Nodes /\ n \in 1..Parts /\ ~Constant(u)
        /\ Left(t, c, s) /\ Busy(t, Top(t), c, s) /\ Tail(stack[t]) = Rest(c, s)
        /\ CallsIn(stack[t]) = c /\ t \in Doing("submit", u) /\ stack[t] \notin Leftover
        /\ \A v, o : At(stack[t], o, v) <=> o = "submit" /\ v = u
        /\ \A v : v # u => Apart(stack[t], v)
  <2>1. "submit" \in {"body", "submit", "forward"}
    OBVIOUS
  <2> QED
    BY <1>0, <2>1, AtUnit
<1>2. TypeOK /\ Matched /\ Counted /\ OnceAt(u) /\ ForwardedAt(u)
  BY <1>1, FlowParts
<1>3. PICK f, x : f = Activating(u, n - 1) /\ x = <<f>> \o Rest(c, s)
  OBVIOUS
<1>4. stack[t] # <<>>
  BY DEF Submit, IsAt
<1>5. stack' = [stack EXCEPT ![t] = x]
  BY <1>0, <1>1, <1>2, <1>3, Replaced DEF Submit
<1>6. Steady(t, x)
  BY <1>4, <1>5, AtWork DEF Submit, Steady, graph, units, main
<1>7. Fit(t, x) /\ CallsIn(x) = c /\ (\A v : v # u => Apart(x, v))
      /\ ~At(x, "body", u) /\ ~At(x, "forward", u) /\ (n > 1 <=> At(x, "submit", u))
      /\ (n > 1 => Head(x).tasks = n - 1)
  <2>1. n - 1 \in 0..(Parts - 1)
    BY <1>1, PipelineAssumption
  <2>2. f \in Frames /\ f.op = "activate" /\ f.unit = u /\ f.tasks = n - 1
    BY <1>1, <1>3, <2>1, MakesFrames
  <2>3. Busy(t, f, c, s)
    BY <1>0, <1>1, <2>2 DEF Busy, Sound, IsAt, Top
  <2>4. Head(x) = f
    BY <1>1, <1>3, <2>2, PileIs DEF Left
  <2>5. Fit(t, x) /\ CallsIn(x) = c /\ \A o, v : At(x, o, v) <=> Stage(f) = o /\ f.unit = v
    <3>1. Left(t, c, s) /\ Busy(t, f, c, s) /\ x = <<f>> \o Rest(c, s)
      BY <1>1, <1>3, <2>3
    <3> QED
      BY <3>1, Piled
  <2>6. Stage(f) = IF n > 1 THEN "submit" ELSE "activate"
    BY <1>1, <2>2 DEF Stage
  <2> QED
    BY <2>2, <2>4, <2>5, <2>6 DEF Apart
<1>8. \A v \in Nodes : queued'[v] = IF v = u THEN queued[v] + 1 ELSE queued[v]
  BY <1>0, <1>1, <1>2 DEF Submit, TypeOK
<1>9. UNCHANGED <<ended, dependencies, unfinished, synchronizer, pc, lost>>
  BY DEF Submit, units, main
<1>10. \A v \in Nodes : v # u => OnceAt(v)' /\ ForwardedAt(v)' /\ (Passed(v)' <=> Passed(v))
  BY <1>1, <1>6, <1>7, <1>8, <1>9, Untouched
<1>11. /\ Doing("body", u)' = Doing("body", u) /\ Doing("forward", u)' = Doing("forward", u)
       /\ n > 1 => Doing("submit", u)' = Doing("submit", u)
       /\ ~(n > 1) => Doing("submit", u)' = Doing("submit", u) \ {t}
  <2>1. Doing("body", u)' = Doing("body", u) /\ Doing("forward", u)' = Doing("forward", u)
    BY <1>1, <1>2, <1>6, <1>7, DoingStays
  <2>2. CASE n > 1
    BY <1>1, <1>2, <1>6, <1>7, <2>1, <2>2, DoingStays
  <2>3. CASE ~(n > 1)
    BY <1>1, <1>2, <1>6, <1>7, <2>1, <2>3, DoingAfter
  <2> QED
    BY <2>1, <2>2, <2>3
<1>12. Load(u) \in Nat /\ Load(u)' = Load(u) + 1 /\ NumTasks(u)' = NumTasks(u) /\ NumTasks(u) \in Nat
  <2>1. queued[u] \in Nat /\ ended[u] \in Nat /\ Cardinality(Doing("body", u)) \in Nat
    BY <1>1, <1>2, FS_CardinalityType DEF TypeOK, OnceAt
  <2>2. NumTasks(u)' = NumTasks(u) /\ NumTasks(u) \in Nat
    BY <1>1, <1>2, <1>6, NumTasksIs DEF NumTasks, Steady
  <2>3. queued'[u] = queued[u] + 1 /\ ended'[u] = ended[u]
    BY <1>1, <1>8, <1>9
  <2>4. Load(u)' = queued'[u] + Cardinality(Doing("body", u)) + ended'[u]
    BY <1>11 DEF Load
  <2> QED
    BY <2>1, <2>2, <2>3, <2>4 DEF Load
<1>13. OnceAt(u)'
  <2>1. dependencies[u] \in Nat /\ ~(dependencies[u] > 0)
    BY <1>1, <1>2 DEF OnceAt, TypeOK
  <2>2. Load(u) + n <= NumTasks(u)
    BY <1>0, <1>1, <1>2 DEF OnceAt
  <2>3. Doing("submit", u)' \subseteq {t} /\ (~(n > 1) => Doing("submit", u)' = {})
    BY <1>1, <1>2, <1>11 DEF OnceAt
  <2>4. stack'[t] = x
    BY <1>2, <1>5 DEF TypeOK
  <2>5. \A r \in Doing("submit", u)' : Load(u)' + Head(stack'[r]).tasks <= NumTasks(u)'
    BY <1>1, <1>7, <1>12, <2>2, <2>3, <2>4
  <2>6. Load(u)' <= NumTasks(u)'
    BY <1>1, <1>12, <2>2
  <2> QED
    BY <1>2, <1>9, <1>11, <2>1, <2>3, <2>5, <2>6 DEF OnceAt, Top
<1>14. ForwardedAt(u)' /\ (Passed(u)' <=> Passed(u))
  BY <1>2, <1>6, <1>9, <1>11, <1>12 DEF ForwardedAt, Passed, Steady, Generated
<1>15. Counted'
  BY <1>1, <1>2, <1>6, <1>7, <1>9, <1>10, <1>14, CountedStays
<1>16. /\ dependencies' \in [Nodes -> Nat] /\ unfinished' \in [Nodes -> Nat]
       /\ queued' \in [Nodes -> Nat] /\ ended' \in [Nodes -> Nat] /\ lost' \subseteq Nodes
       /\ synchronizer' \in Nat
  <2>1. queued' = [queued EXCEPT ![u] = queued[u] + 1] /\ queued \in [Nodes -> Nat]
    BY <1>0, <1>2 DEF TypeOK, Submit
  <2>2. queued' \in [Nodes -> Nat]
    BY <1>1, <2>1
  <2> QED
    BY <1>2, <1>9, <2>2 DEF TypeOK
<1> QED
  BY <1>4, <1>6, <1>7, <1>9, <1>10, <1>13, <1>14, <1>15, <1>16, AtWork, StepKeeps

\* TaskHandler.cpp, lines 175-176: the executor is activated, and the next task's turn
\* comes.
LEMMA ActivateKeeps ==
  ASSUME FlowInv, NEW t \in Threads, Activate(t)
  PROVE  FlowInv'
<1>0. PICK u, n : u = Top(t).unit /\ n = Top(t).tasks /\ IsAt(t, "activate")
  BY DEF Activate
<1>1. TypeOK /\ Shape /\ Matched /\ Counted
  BY FlowParts
<1>2. stack[t] # <<>> /\ ~IsAt(t, "call") /\ Top(t).op = "activate"
  BY <1>0 DEF IsAt, Top
<1>3. PICK c, s : /\ Left(t, c, s) /\ Busy(t, Top(t), c, s)
                  /\ Tail(stack[t]) = Rest(c, s) /\ CallsIn(stack[t]) = c
  BY <1>1, <1>2, AtOther
<1>4. Top(t) \in Frames /\ ~Constant(u) /\ (c # <<>> => ~s)
  BY <1>0, <1>2, <1>3 DEF Busy, Sound
<1>5. u \in Nodes /\ n \in 0..(Parts - 1)
  BY <1>0, <1>2, <1>4, FrameFields
<1>6. \A v, o : At(stack[t], o, v) <=> o = (IF n > 0 THEN "submit" ELSE "activate") /\ v = u
  BY <1>0, <1>2 DEF At, Top, Stage
<1>7. PICK x : x = (IF n > 0 THEN <<Submitting(u, n)>> ELSE <<>>) \o Rest(c, s)
  OBVIOUS
<1>8. stack' = [stack EXCEPT ![t] = x]
  BY <1>0, <1>1, <1>3, <1>7, Replaced DEF Activate
<1>9. Steady(t, x)
  BY <1>2, <1>8, AtWork DEF Activate, Steady, graph, units, main
<1>10. /\ Fit(t, x) /\ CallsIn(x) = c /\ (n > 0 => Head(x).tasks = n)
       /\ \A op \in {"body", "submit", "forward"} : \A v :
            At(x, op, v) <=> op = "submit" /\ n > 0 /\ v = u
  <2>1. CASE n > 0
    <3>1. PICK f : f = Submitting(u, n)
      OBVIOUS
    <3>2. n \in 1..Parts
      BY <1>5, <2>1, PipelineAssumption
    <3>3. f \in Frames /\ f.op = "submit" /\ f.unit = u /\ f.tasks = n
      BY <1>5, <3>1, <3>2, MakesFrames
    <3>4. Busy(t, f, c, s)
      BY <1>4, <3>3 DEF Busy, Sound
    <3>5. x = <<f>> \o Rest(c, s) /\ Head(x) = f
      BY <1>3, <1>7, <2>1, <3>1, <3>3, PileIs DEF Left
    <3>6. Fit(t, x) /\ CallsIn(x) = c /\ \A o, v : At(x, o, v) <=> Stage(f) = o /\ f.unit = v
      <4>1. Left(t, c, s) /\ Busy(t, f, c, s) /\ x = <<f>> \o Rest(c, s)
        BY <1>3, <3>4, <3>5
      <4> QED
        BY <4>1, Piled
    <3> QED
      BY <2>1, <3>3, <3>5, <3>6 DEF Stage
  <2>2. CASE ~(n > 0)
    <3>1. x = Rest(c, s)
      BY <1>3, <1>7, <2>2, Unpiled
    <3>2. Fit(t, x) /\ CallsIn(x) = c /\ \A v : Apart(x, v)
      BY <1>3, <3>1, Unpiled
    <3> QED
      BY <2>2, <3>2 DEF Apart
  <2> QED
    BY <2>1, <2>2
<1>11. UNCHANGED <<queued, ended, dependencies, unfinished, synchronizer, pc, lost>>
  BY DEF Activate, units, main
<1>12. \A op \in {"body", "submit", "forward"} : \A v : At(x, op, v) <=> At(stack[t], op, v)
  BY <1>5, <1>6, <1>10
<1>13. \A op \in {"body", "submit", "forward"} : \A v : Doing(op, v)' = Doing(op, v)
  BY <1>1, <1>9, <1>12, DoingStays
<1>14. ASSUME NEW v \in Nodes PROVE OnceAt(v)' /\ ForwardedAt(v)' /\ (Passed(v)' <=> Passed(v))
  <2>1. OnceAt(v) /\ ForwardedAt(v)
    BY FlowParts
  <2>2. /\ Doing("body", v)' = Doing("body", v) /\ Doing("submit", v)' = Doing("submit", v)
        /\ Doing("forward", v)' = Doing("forward", v)
    BY <1>13
  <2>3. NumTasks(v)' = NumTasks(v) /\ (Generated(v)' <=> Generated(v)) /\ kind' = kind
    BY <1>9 DEF Steady, NumTasks, Generated, Early
  <2>4. Load(v)' = Load(v)
    BY <1>11, <2>2 DEF Load
  <2>5. \A r \in Doing("submit", v) : Head(stack'[r]).tasks = Head(stack[r]).tasks
    <3> SUFFICES ASSUME NEW r \in Doing("submit", v)
                 PROVE  Head(stack'[r]).tasks = Head(stack[r]).tasks
      OBVIOUS
    <3>1. CASE r = t
      <4>1. At(stack[t], "submit", v)
        BY <3>1 DEF Doing
      <4>2. n > 0 /\ stack'[t] = x
        BY <1>1, <1>6, <1>8, <4>1 DEF TypeOK
      <4> QED
        BY <1>0, <1>10, <3>1, <4>2 DEF Top
    <3>2. CASE r # t
      BY <1>1, <1>8, <3>2 DEF TypeOK, Doing
    <3> QED
      BY <3>1, <3>2
  <2>6. OnceAt(v)'
    BY <1>11, <2>1, <2>2, <2>3, <2>4, <2>5 DEF OnceAt, Top
  <2>7. ForwardedAt(v)' /\ (Passed(v)' <=> Passed(v))
    BY <1>11, <2>1, <2>2, <2>3 DEF ForwardedAt, Passed
  <2> QED
    BY <2>6, <2>7
<1>15. Counted'
  BY <1>1, <1>3, <1>9, <1>10, <1>11, <1>14, CountedStays
<1>16. /\ dependencies' \in [Nodes -> Nat] /\ unfinished' \in [Nodes -> Nat]
       /\ queued' \in [Nodes -> Nat] /\ ended' \in [Nodes -> Nat] /\ lost' \subseteq Nodes
       /\ synchronizer' \in Nat
  BY <1>1, <1>11 DEF TypeOK
<1> QED
  BY <1>2, <1>9, <1>10, <1>11, <1>14, <1>15, <1>16, AtWork, StepKeeps

LEMMA LoadParts ==
  ASSUME FlowInv, NEW u \in Nodes
  PROVE  /\ queued[u] \in Nat /\ ended[u] \in Nat /\ dependencies[u] \in Nat /\ unfinished[u] \in Nat
         /\ IsFiniteSet(Doing("body", u)) /\ Cardinality(Doing("body", u)) \in Nat
         /\ IsFiniteSet(Doing("forward", u)) /\ Cardinality(Doing("forward", u)) \in Nat
         /\ NumTasks(u) \in Nat /\ Load(u) \in Nat /\ Load(u) <= NumTasks(u)
         /\ Load(u) = queued[u] + Cardinality(Doing("body", u)) + ended[u]
         /\ \A t \in Doing("body", u) : Cardinality(Doing("body", u)) > 0
         /\ \A t \in Doing("forward", u) : Cardinality(Doing("forward", u)) > 0
<1>1. TypeOK /\ Matched /\ OnceAt(u) /\ ForwardedAt(u)
  BY FlowParts
<1>2. queued[u] \in Nat /\ ended[u] \in Nat /\ dependencies[u] \in Nat /\ unfinished[u] \in Nat
  BY <1>1 DEF TypeOK
<1>3. /\ IsFiniteSet(Doing("body", u)) /\ Cardinality(Doing("body", u)) \in Nat
      /\ IsFiniteSet(Doing("forward", u)) /\ Cardinality(Doing("forward", u)) \in Nat
  BY <1>1, FS_CardinalityType DEF OnceAt, ForwardedAt
<1>4. /\ \A t \in Doing("body", u) : Cardinality(Doing("body", u)) > 0
      /\ \A t \in Doing("forward", u) : Cardinality(Doing("forward", u)) > 0
  BY <1>3, FS_EmptySet
<1>5. NumTasks(u) \in Nat
  BY <1>1, NumTasksIs
<1>6. Load(u) = queued[u] + Cardinality(Doing("body", u)) + ended[u]
  BY DEF Load
<1> QED
  BY <1>1, <1>2, <1>3, <1>4, <1>5, <1>6 DEF OnceAt

\* What becomes of the number of threads that do something.
LEMMA OneMore ==
  ASSUME NEW S, NEW t, IsFiniteSet(S), t \notin S
  PROVE  IsFiniteSet(S \cup {t}) /\ Cardinality(S \cup {t}) = Cardinality(S) + 1
BY FS_AddElement

LEMMA OneLess ==
  ASSUME NEW S, NEW t, IsFiniteSet(S), t \in S
  PROVE  IsFiniteSet(S \ {t}) /\ Cardinality(S \ {t}) = Cardinality(S) - 1
BY FS_RemoveElement

\* A worker of the pool gets a task.
LEMMA TakeKeeps ==
  ASSUME FlowInv, NEW t \in Workers, NEW u \in Nodes, Take(t, u)
  PROVE  FlowInv'
<1>1. stack[t] = <<>> /\ queued[u] > 0 /\ t \in Threads /\ t # Main
  BY PipelineAssumption DEF Take, Threads
<1>2. TypeOK /\ Matched /\ Counted /\ OnceAt(u) /\ ForwardedAt(u)
  BY FlowParts
<1>3. PICK f, x : f = Body(u) /\ x = <<Body(u)>>
  OBVIOUS
<1>4. Steady(t, x)
  BY <1>1, <1>3, QueuedAtWork DEF Take, Steady, graph, units, main
<1>5. f \in Frames /\ f.op = "body" /\ f.unit = u
  BY <1>3, MakesFrames
<1>6. ~Constant(u)
  BY <1>1, <1>2, LoadParts, NumTasksIs
<1>7. PICK c, s : c = <<>> /\ c \in Seq(Callees) /\ Left(t, c, s) /\ Busy(t, f, c, s)
  <2>1. Left(t, <<>>, FALSE) /\ Busy(t, f, <<>>, FALSE) /\ <<>> \in Seq(Callees)
    BY <1>1, <1>5, <1>6 DEF Left, Busy, Sound, Callable
  <2> QED
    BY <2>1
<1>8. CallsIn(stack[t]) = c
  BY <1>1, <1>7 DEF CallsIn
<1>9. Fit(t, x) /\ CallsIn(x) = c /\ \A o, v : At(x, o, v) <=> Stage(f) = o /\ f.unit = v
  <2>1. x = <<f>> \o Rest(c, s)
    <3>1. x = <<f>> /\ f.op # "call" /\ c = <<>> /\ c \in Seq(Callees)
      BY <1>3, <1>5, <1>7
    <3>2. <<f>> \o Rest(c, s) = <<f>>
      BY <3>1, PileIs
    <3> QED
      BY <3>1, <3>2
  <2>2. Left(t, c, s) /\ Busy(t, f, c, s)
    BY <1>7
  <2> QED
    BY <2>1, <2>2, Piled
<1>10. \A v : /\ Apart(stack[t], v) /\ (v # u => Apart(x, v))
              /\ ~At(x, "submit", v) /\ ~At(x, "forward", v) /\ At(x, "body", u)
  BY <1>1, <1>5, <1>9 DEF Apart, At, Stage
<1>11. queued' = [queued EXCEPT ![u] = queued[u] - 1]
       /\ UNCHANGED <<ended, dependencies, unfinished, synchronizer, pc, lost>>
  BY <1>2 DEF Take, TypeOK, units, main
<1>12. \A v \in Nodes : v # u => OnceAt(v)' /\ ForwardedAt(v)' /\ (Passed(v)' <=> Passed(v))
  BY <1>2, <1>4, <1>10, <1>11, Untouched DEF TypeOK
<1>13. /\ Doing("submit", u)' = Doing("submit", u) /\ Doing("forward", u)' = Doing("forward", u)
       /\ Doing("body", u)' = Doing("body", u) \cup {t}
       /\ t \notin Doing("body", u) /\ t \notin Doing("submit", u)
  BY <1>2, <1>4, <1>10, DoingStays, DoingAfter DEF Apart
<1>14. /\ IsFiniteSet(Doing("body", u)') /\ Cardinality(Doing("body", u)') = Cardinality(Doing("body", u)) + 1
       /\ queued'[u] = queued[u] - 1 /\ ended'[u] = ended[u]
  <2>1. IsFiniteSet(Doing("body", u)) /\ u \in DOMAIN queued
    BY <1>2, LoadParts DEF TypeOK
  <2>2. /\ IsFiniteSet(Doing("body", u) \cup {t})
        /\ Cardinality(Doing("body", u) \cup {t}) = Cardinality(Doing("body", u)) + 1
    BY <1>13, <2>1, OneMore
  <2> QED
    BY <1>11, <1>13, <2>1, <2>2
<1>15. Load(u)' = Load(u) /\ Load(u) > 0 /\ NumTasks(u)' = NumTasks(u)
  <2>1. Load(u)' = queued'[u] + Cardinality(Doing("body", u)') + ended'[u]
    BY DEF Load
  <2>2. NumTasks(u)' = NumTasks(u)
    BY <1>4 DEF NumTasks, Steady
  <2> QED
    BY <1>1, <1>14, <2>1, <2>2, LoadParts
<1>16. OnceAt(u)'
  <2>1. \A r \in Doing("submit", u) : stack'[r] = stack[r]
    BY <1>2, <1>4, <1>13 DEF Steady, TypeOK, Doing
  <2> QED
    BY <1>2, <1>11, <1>13, <1>14, <1>15, <2>1, LoadParts DEF OnceAt, Top
<1>17. ForwardedAt(u)' /\ (Passed(u)' <=> Passed(u))
  BY <1>2, <1>4, <1>11, <1>13, <1>15 DEF ForwardedAt, Passed, Steady, Generated
<1>18. Counted'
  BY <1>2, <1>4, <1>8, <1>9, <1>11, <1>12, <1>17, CountedStays
<1>19. /\ dependencies' \in [Nodes -> Nat] /\ unfinished' \in [Nodes -> Nat]
       /\ queued' \in [Nodes -> Nat] /\ ended' \in [Nodes -> Nat] /\ lost' \subseteq Nodes
       /\ synchronizer' \in Nat
  <2>0. queued \in [Nodes -> Nat]
    BY <1>2 DEF TypeOK
  <2>1. queued[u] - 1 \in Nat
    BY <1>1, <2>0
  <2>2. queued' \in [Nodes -> Nat]
    BY <1>11, <2>0, <2>1
  <2> QED
    BY <1>2, <1>11, <2>2 DEF TypeOK
<1> QED
  BY <1>1, <1>4, <1>9, <1>11, <1>12, <1>16, <1>17, <1>18, <1>19, QueuedAtWork, StepKeeps

\* Basics.h, lines 203 and 300: the result is there, and the task enters forward().
LEMMA EndBodyKeeps ==
  ASSUME FlowInv, NEW t \in Threads, EndBody(t)
  PROVE  FlowInv'
<1>1. PICK u : u = Top(t).unit /\ IsAt(t, "body")
  BY DEF EndBody
<1>2. PICK c, s :
        /\ u \in Nodes /\ ~Constant(u) /\ t # Main
        /\ Left(t, c, s) /\ Busy(t, Top(t), c, s) /\ Tail(stack[t]) = Rest(c, s)
        /\ CallsIn(stack[t]) = c /\ c = <<>> /\ t \in Doing("body", u)
        /\ \A v, o : At(stack[t], o, v) <=> o = "body" /\ v = u
        /\ \A v : v # u => Apart(stack[t], v)
  <2>1. "body" \in {"body", "submit", "forward"} /\ "body" # "submit"
    OBVIOUS
  <2> QED
    BY <1>1, <2>1, AtUnit
<1>3. TypeOK /\ Matched /\ Counted /\ OnceAt(u) /\ ForwardedAt(u)
  BY <1>2, FlowParts
<1>4. PICK f, x : f = Forwarding(u) /\ x = <<f>> \o Rest(c, s)
  OBVIOUS
<1>5. stack[t] # <<>>
  BY <1>1 DEF IsAt
<1>6. stack' = [stack EXCEPT ![t] = x]
  BY <1>1, <1>2, <1>3, <1>4, Replaced DEF EndBody
<1>7. Steady(t, x)
  BY <1>5, <1>6, AtWork DEF EndBody, Steady, graph, units, main
<1>8. f \in Frames /\ f.op = "forward" /\ f.unit = u
  BY <1>2, <1>4, MakesFrames
<1>9. Busy(t, f, c, s)
  BY <1>2, <1>8 DEF Busy, Sound
<1>10. Fit(t, x) /\ CallsIn(x) = c /\ \A o, v : At(x, o, v) <=> Stage(f) = o /\ f.unit = v
  <2>1. Left(t, c, s)
    BY <1>2
  <2> QED
    BY <2>1, <1>4, <1>9, Piled
<1>11. \A v : /\ v # u => Apart(x, v)
              /\ ~At(x, "submit", v) /\ ~At(x, "body", v) /\ At(x, "forward", u)
  BY <1>8, <1>10 DEF Apart, Stage
<1>12. ended' = [ended EXCEPT ![u] = ended[u] + 1]
       /\ UNCHANGED <<queued, dependencies, unfinished, synchronizer, pc, lost>>
  BY <1>1, <1>3 DEF EndBody, TypeOK, units, main
<1>13. \A v \in Nodes : v # u => OnceAt(v)' /\ ForwardedAt(v)' /\ (Passed(v)' <=> Passed(v))
  BY <1>2, <1>3, <1>7, <1>11, <1>12, Untouched DEF TypeOK
<1>14. /\ Doing("submit", u)' = Doing("submit", u) /\ Doing("body", u)' = Doing("body", u) \ {t}
       /\ Doing("forward", u)' = Doing("forward", u) \cup {t}
       /\ t \notin Doing("forward", u) /\ t \notin Doing("submit", u)
  BY <1>2, <1>3, <1>7, <1>11, DoingStays, DoingAfter
<1>15. /\ IsFiniteSet(Doing("body", u)') /\ Cardinality(Doing("body", u)') = Cardinality(Doing("body", u)) - 1
       /\ IsFiniteSet(Doing("forward", u)')
       /\ Cardinality(Doing("forward", u)') = Cardinality(Doing("forward", u)) + 1
       /\ queued'[u] = queued[u] /\ ended'[u] = ended[u] + 1
  <2>1. IsFiniteSet(Doing("body", u)) /\ IsFiniteSet(Doing("forward", u)) /\ u \in DOMAIN ended
    BY <1>2, <1>3, LoadParts DEF TypeOK
  <2>2. /\ IsFiniteSet(Doing("forward", u) \cup {t})
        /\ Cardinality(Doing("forward", u) \cup {t}) = Cardinality(Doing("forward", u)) + 1
    BY <1>14, <2>1, OneMore
  <2>3. /\ IsFiniteSet(Doing("body", u) \ {t})
        /\ Cardinality(Doing("body", u) \ {t}) = Cardinality(Doing("body", u)) - 1
    BY <1>2, <2>1, OneLess
  <2> QED
    BY <1>12, <1>14, <2>1, <2>2, <2>3
<1>16. Load(u)' = Load(u) /\ Load(u) > 0 /\ ended[u] < NumTasks(u) /\ NumTasks(u)' = NumTasks(u)
  <2>1. Load(u)' = queued'[u] + Cardinality(Doing("body", u)') + ended'[u]
    BY DEF Load
  <2>2. NumTasks(u)' = NumTasks(u)
    BY <1>7 DEF NumTasks, Steady
  <2>3. /\ queued[u] \in Nat /\ ended[u] \in Nat /\ Cardinality(Doing("body", u)) \in Nat
        /\ Cardinality(Doing("body", u)) > 0 /\ NumTasks(u) \in Nat /\ Load(u) <= NumTasks(u)
        /\ Load(u) = queued[u] + Cardinality(Doing("body", u)) + ended[u]
    BY <1>2, LoadParts
  <2> QED
    BY <1>15, <2>1, <2>2, <2>3
<1>17. OnceAt(u)'
  <2>1. \A r \in Doing("submit", u) : stack'[r] = stack[r]
    BY <1>3, <1>7, <1>14 DEF Steady, TypeOK, Doing
  <2> QED
    BY <1>2, <1>3, <1>12, <1>14, <1>15, <1>16, <2>1, LoadParts DEF OnceAt, Top
<1>18. ~Passed(u) /\ ~Passed(u)'
  BY <1>2, <1>14, <1>16, LoadParts DEF Passed
<1>19. ForwardedAt(u)'
  <2>1. Cardinality(Doing("forward", u)') <= ended'[u]
    BY <1>2, <1>3, <1>15, LoadParts DEF ForwardedAt
  <2>2. kind[u] = "para" => unfinished'[u] = NumTasks(u)' - ended'[u] + Cardinality(Doing("forward", u)')
    BY <1>2, <1>3, <1>7, <1>12, <1>15, <1>16, LoadParts DEF ForwardedAt, Generated, Steady, Early
  <2> QED
    BY <1>7, <1>15, <2>1, <2>2 DEF ForwardedAt, Steady
<1>20. Counted'
  BY <1>2, <1>3, <1>7, <1>10, <1>12, <1>13, <1>18, CountedStays
<1>21. /\ dependencies' \in [Nodes -> Nat] /\ unfinished' \in [Nodes -> Nat]
       /\ queued' \in [Nodes -> Nat] /\ ended' \in [Nodes -> Nat] /\ lost' \subseteq Nodes
       /\ synchronizer' \in Nat
  <2>0. ended \in [Nodes -> Nat]
    BY <1>3 DEF TypeOK
  <2>1. ended[u] + 1 \in Nat
    BY <1>2, <2>0
  <2>2. ended' \in [Nodes -> Nat]
    BY <1>12, <2>0, <2>1
  <2> QED
    BY <1>3, <1>12, <2>2 DEF TypeOK
<1> QED
  BY <1>5, <1>7, <1>10, <1>12, <1>13, <1>17, <1>19, <1>20, <1>21, AtWork, StepKeeps

\* A task that is lost leaves its unit without forward(), so that its calls stay there.
LEMMA ThrowKeeps ==
  ASSUME FlowInv, NEW t \in Workers, Throw(t)
  PROVE  FlowInv'
<1>1. PICK u : u = Top(t).unit /\ IsAt(t, "body") /\ t \in Threads
  BY DEF Throw, Threads
<1>2. PICK c, s :
        /\ u \in Nodes /\ t # Main /\ Left(t, c, s)
        /\ CallsIn(stack[t]) = c /\ c = <<>> /\ t \in Doing("body", u)
        /\ \A v, o : At(stack[t], o, v) <=> o = "body" /\ v = u
        /\ \A v : v # u => Apart(stack[t], v)
  <2>1. "body" \in {"body", "submit", "forward"} /\ "body" # "submit"
    OBVIOUS
  <2> QED
    BY <1>1, <2>1, AtUnit
<1>3. TypeOK /\ Matched /\ Counted /\ OnceAt(u) /\ ForwardedAt(u)
  BY <1>2, FlowParts
<1>4. PICK x : x = Rest(c, s) /\ x = <<>>
  BY <1>2 DEF Rest
<1>5. stack[t] # <<>>
  BY <1>1 DEF IsAt
<1>6. Steady(t, x)
  BY <1>1, <1>4, <1>5, AtWork DEF Throw, Steady, graph, units, main
<1>7. Fit(t, x) /\ CallsIn(x) = c /\ \A v : Apart(x, v)
  <2>1. Left(t, c, s)
    BY <1>2
  <2> QED
    BY <1>4, <2>1, Unpiled
<1>8. UNCHANGED <<queued, ended, dependencies, unfinished, synchronizer, pc>> /\ lost' = lost \cup {u}
  BY <1>1 DEF Throw, units, main
<1>9. \A v \in Nodes : v # u => OnceAt(v)' /\ ForwardedAt(v)' /\ (Passed(v)' <=> Passed(v))
  BY <1>2, <1>6, <1>7, <1>8, Untouched
<1>10. /\ Doing("submit", u)' = Doing("submit", u) /\ Doing("body", u)' = Doing("body", u) \ {t}
       /\ Doing("forward", u)' = Doing("forward", u) /\ t \notin Doing("submit", u)
  BY <1>2, <1>3, <1>6, <1>7, DoingStays, DoingAfter DEF Apart
<1>11. /\ IsFiniteSet(Doing("body", u)') /\ Cardinality(Doing("body", u)') = Cardinality(Doing("body", u)) - 1
  <2>1. IsFiniteSet(Doing("body", u))
    BY <1>2, LoadParts
  <2> QED
    BY <1>2, <1>10, <2>1, OneLess
<1>12. Load(u)' = Load(u) - 1 /\ Load(u) > 0 /\ Load(u) <= NumTasks(u) /\ NumTasks(u)' = NumTasks(u)
       /\ Load(u) \in Nat /\ NumTasks(u) \in Nat
  <2>1. Load(u)' = queued'[u] + Cardinality(Doing("body", u)') + ended'[u]
    BY DEF Load
  <2>2. NumTasks(u)' = NumTasks(u)
    BY <1>6 DEF NumTasks, Steady
  <2>3. /\ queued[u] \in Nat /\ ended[u] \in Nat /\ Cardinality(Doing("body", u)) \in Nat
        /\ Cardinality(Doing("body", u)) > 0 /\ NumTasks(u) \in Nat /\ Load(u) <= NumTasks(u)
        /\ Load(u) = queued[u] + Cardinality(Doing("body", u)) + ended[u]
    BY <1>2, LoadParts
  <2> QED
    BY <1>8, <1>11, <2>1, <2>2, <2>3
<1>13. OnceAt(u)'
  <2>1. \A r \in Doing("submit", u) : stack'[r] = stack[r]
    BY <1>3, <1>6, <1>10 DEF Steady, TypeOK, Doing
  <2>2. ~(dependencies[u] > 0)
    BY <1>3, <1>12 DEF OnceAt
  <2>3. \A r \in Doing("submit", u) : Load(u)' + Head(stack'[r]).tasks <= NumTasks(u)
    <3> SUFFICES ASSUME NEW r \in Doing("submit", u)
                 PROVE  Load(u) - 1 + Head(stack[r]).tasks <= NumTasks(u)
      BY <1>12, <2>1
    <3>1. Load(u) + Head(stack[r]).tasks <= NumTasks(u)
      BY <1>3 DEF OnceAt, Top
    <3>2. r \in Threads /\ stack[r] # <<>> /\ Stage(Head(stack[r])) = "submit"
      BY DEF Doing, At
    <3>3. Head(stack[r]) \in Frames
      BY <1>3, <3>2 DEF TypeOK
    <3>4. Head(stack[r]).tasks \in 1..Parts
      BY <3>2, <3>3, SubmitStage
    <3> QED
      BY <1>12, <3>1, <3>4, PipelineAssumption
  <2> QED
    BY <1>3, <1>8, <1>10, <1>11, <1>12, <2>2, <2>3 DEF OnceAt, Top
<1>14. ForwardedAt(u)' /\ (Passed(u)' <=> Passed(u))
  BY <1>3, <1>6, <1>8, <1>10, <1>12 DEF ForwardedAt, Passed, Steady, Generated
<1>15. Counted'
  BY <1>2, <1>3, <1>6, <1>7, <1>8, <1>9, <1>14, CountedStays
<1>16. /\ dependencies' \in [Nodes -> Nat] /\ unfinished' \in [Nodes -> Nat]
       /\ queued' \in [Nodes -> Nat] /\ ended' \in [Nodes -> Nat] /\ lost' \subseteq Nodes
       /\ synchronizer' \in Nat
  BY <1>2, <1>3, <1>8 DEF TypeOK
<1> QED
  BY <1>1, <1>5, <1>6, <1>7, <1>8, <1>9, <1>13, <1>14, <1>15, <1>16, AtWork, StepKeeps

\* Basics.h, line 371: the notification, without the lock.
LEMMA NotifyMainKeeps ==
  ASSUME FlowInv, NEW t \in Threads, NotifyMain(t)
  PROVE  FlowInv'
<1>1. IsAt(t, "notify") /\ stack[t] # <<>> /\ ~IsAt(t, "call") /\ Head(stack[t]).op = "notify"
  BY DEF NotifyMain, IsAt
<1>2. TypeOK /\ Shape /\ Counted
  BY FlowParts
<1>3. PICK c, s : Left(t, c, s) /\ Tail(stack[t]) = Rest(c, s) /\ CallsIn(stack[t]) = c
  BY <1>1, <1>2, AtOther
<1>4. PICK x : x = Rest(c, s)
  OBVIOUS
<1>5. stack' = [stack EXCEPT ![t] = x]
  <2>1. Replace(t, <<>>)
    BY DEF NotifyMain
  <2>2. stack' = [stack EXCEPT ![t] = <<>> \o Tail(stack[t])]
    BY <1>2, <2>1, Replaced
  <2>3. <<>> \o Rest(c, s) = Rest(c, s)
    BY <1>3, Unpiled
  <2> QED
    BY <1>3, <1>4, <2>2, <2>3
<1>6. Steady(t, x) /\ (pc' = pc \/ (pc = "asleep" /\ pc' = "predicate"))
  BY <1>1, <1>5, AtWork DEF NotifyMain, Steady, graph, units, main, Early
<1>7. Fit(t, x) /\ CallsIn(x) = c /\ \A v : Apart(x, v)
  BY <1>3, <1>4, Unpiled
<1>8. \A v : Apart(stack[t], v)
  BY <1>1 DEF Apart, At, Stage
<1>9. UNCHANGED <<queued, ended, dependencies, unfinished, synchronizer, lost>>
  BY DEF NotifyMain, units
<1>10. \A v \in Nodes : OnceAt(v)' /\ ForwardedAt(v)' /\ (Passed(v)' <=> Passed(v))
  BY <1>6, <1>7, <1>8, <1>9, Untouched
<1>11. Counted'
  BY <1>2, <1>3, <1>6, <1>7, <1>9, <1>10, CountedStays
<1>12. /\ dependencies' \in [Nodes -> Nat] /\ unfinished' \in [Nodes -> Nat]
       /\ queued' \in [Nodes -> Nat] /\ ended' \in [Nodes -> Nat] /\ lost' \subseteq Nodes
       /\ synchronizer' \in Nat
  BY <1>2, <1>9 DEF TypeOK
<1> QED
  BY <1>1, <1>6, <1>7, <1>9, <1>10, <1>11, <1>12, AtWork, StepKeeps

\* What a call leaves of the calls of its thread.
LEMMA CallLeft ==
  ASSUME NEW t, NEW c, NEW s, Left(t, c, s), c # <<>>
  PROVE  /\ Left(t, Tail(c), s) /\ (Tail(c) # <<>> => ~s) /\ (s => t # Main)
         /\ c \in Seq(Callees) /\ Head(c) \in Callees /\ Head(c) = c[1] /\ 1 \in 1..Len(c)
         /\ Head(c) # Final => Head(c) \in Nodes /\ ~Constant(Head(c))
<1>1. c \in Seq(Callees) /\ Callable(c) /\ s \in BOOLEAN /\ (s => Len(c) <= 1 /\ t # Main)
  BY DEF Left
<1>2. /\ Tail(c) \in Seq(Callees) /\ Len(Tail(c)) = Len(c) - 1 /\ Len(c) \in Nat \ {0}
      /\ \A i \in 1..Len(Tail(c)) : i + 1 \in 1..Len(c) /\ Tail(c)[i] = c[i + 1]
      /\ Head(c) \in Callees /\ Head(c) = c[1]
  BY <1>1
<1>3. Callable(Tail(c))
  BY <1>1, <1>2 DEF Callable
<1>4. s => Tail(c) = <<>>
  BY <1>1, <1>2
<1>5. Left(t, Tail(c), s)
  BY <1>1, <1>2, <1>3 DEF Left
<1> QED
  BY <1>1, <1>2, <1>4, <1>5 DEF Callable, Callees

\* Basics.h, line 369: one call less for the thread that waits.
LEMMA CountDownKeeps ==
  ASSUME FlowInv, NEW t \in Threads, CountDown(t)
  PROVE  FlowInv'
<1>1. IsAt(t, "call") /\ stack[t] # <<>> /\ Head(stack[t]).op = "call"
  BY DEF CountDown, IsAt
<1>2. TypeOK /\ Shape /\ Counted
  BY FlowParts
<1>3. PICK c, s : /\ Left(t, c, s) /\ c # <<>> /\ stack[t] = Rest(c, s) /\ Tail(stack[t]) = <<>>
                  /\ Top(t).calls = c /\ Top(t).serialize = s
  BY <1>1, <1>2, AtCall
<1>4. Left(t, Tail(c), s) /\ (Tail(c) # <<>> => ~s) /\ c \in Seq(Callees) /\ Head(c) = Final
      /\ CallsIn(stack[t]) = c /\ Tail(c) \in Seq(Callees) /\ Head(c) = c[1] /\ 1 \in 1..Len(c)
  <2>1. Head(c) = Final
    BY <1>3 DEF CountDown
  <2>2. c \in Seq(Callees) /\ Left(t, Tail(c), s) /\ (Tail(c) # <<>> => ~s)
        /\ Head(c) = c[1] /\ 1 \in 1..Len(c)
    BY <1>3, CallLeft
  <2>3. Tail(c) \in Seq(Callees) /\ CallsIn(stack[t]) = c
    BY <1>3, <2>2, RestIs DEF Left
  <2> QED
    BY <2>1, <2>2, <2>3
<1>5. PICK x : x = (IF synchronizer = 1 THEN <<Notice>> ELSE <<>>) \o Rest(Tail(c), s)
  OBVIOUS
<1>6. Fit(t, x) /\ CallsIn(x) = Tail(c) /\ \A v : Apart(x, v)
  <2>1. CASE synchronizer = 1
    <3>1. PICK f : f = Notice
      OBVIOUS
    <3>2. f \in Frames /\ f.op = "notify"
      BY <3>1 DEF Frames, Notice
    <3>3. Busy(t, f, Tail(c), s)
      BY <1>4, <3>2 DEF Busy, Sound
    <3>4. x = <<f>> \o Rest(Tail(c), s)
      BY <1>5, <2>1, <3>1
    <3>5. Fit(t, x) /\ CallsIn(x) = Tail(c) /\ \A o, v : At(x, o, v) <=> Stage(f) = o /\ f.unit = v
      <4>1. PICK d : d = Tail(c) /\ Left(t, d, s) /\ Busy(t, f, d, s) /\ x = <<f>> \o Rest(d, s)
        BY <1>4, <3>3, <3>4
      <4>2. Left(t, d, s) /\ Busy(t, f, d, s)
        BY <4>1
      <4>3. Fit(t, <<f>> \o Rest(d, s)) /\ CallsIn(<<f>> \o Rest(d, s)) = d
            /\ \A o, v : At(<<f>> \o Rest(d, s), o, v) <=> Stage(f) = o /\ f.unit = v
        BY <4>2, Piled
      <4> QED
        BY <4>1, <4>3
    <3> QED
      BY <3>2, <3>5 DEF Apart, Stage
  <2>2. CASE synchronizer # 1
    <3>1. x = Rest(Tail(c), s)
      BY <1>4, <1>5, <2>2, Unpiled
    <3> QED
      BY <1>4, <3>1, Unpiled
  <2> QED
    BY <2>1, <2>2
<1>7. stack' = [stack EXCEPT ![t] = x]
  <2>1. stack' = [stack EXCEPT ![t] = x \o Tail(stack[t])]
    BY <1>2, <1>3, <1>5, Replaced DEF CountDown
  <2>2. x \o <<>> = x
    BY <1>6, FitIsTyped
  <2> QED
    BY <1>3, <2>1, <2>2
<1>8. Steady(t, x)
  BY <1>1, <1>7, AtWork DEF CountDown, Steady, graph, units, main
<1>9. \A v : Apart(stack[t], v)
  BY <1>1 DEF Apart, At, Stage
<1>10. UNCHANGED <<queued, ended, dependencies, unfinished, pc, lost>> /\ synchronizer' = synchronizer - 1
  BY DEF CountDown, units, main
<1>11. \A v \in Nodes : OnceAt(v)' /\ ForwardedAt(v)' /\ (Passed(v)' <=> Passed(v))
  BY <1>6, <1>8, <1>9, <1>10, Untouched
<1>12. \A n \in Nodes : dependencies'[n] = IF n = Head(c) THEN dependencies[n] - 1 ELSE dependencies[n]
  BY <1>4, <1>10 DEF Final, Nodes
<1>13. Counted'
  BY <1>2, <1>4, <1>6, <1>8, <1>10, <1>11, <1>12, <1>3, CountedAfterCall
<1>14. synchronizer > 0
  <2>1. <<"thread", t>> \in Places /\ Waiting[<<"thread", t>>] = c
    BY <1>2, <1>4, <1>8, WaitingAfter DEF Places
  <2> QED
    BY <1>2, <1>4, <2>1, Pending
<1>15. /\ dependencies' \in [Nodes -> Nat] /\ unfinished' \in [Nodes -> Nat]
       /\ queued' \in [Nodes -> Nat] /\ ended' \in [Nodes -> Nat] /\ lost' \subseteq Nodes
       /\ synchronizer' \in Nat
  BY <1>2, <1>10, <1>14 DEF TypeOK
<1> QED
  BY <1>1, <1>6, <1>8, <1>10, <1>11, <1>13, <1>14, <1>15, AtWork, StepKeeps

\* A unit that nothing calls any more gets its tasks.
LEMMA LaunchIs ==
  ASSUME FlowInv, NEW u \in Nodes, ~Constant(u), NEW t \in Threads, NEW c, NEW s, Left(t, c, s),
         c # <<>> => ~s, s => t # Main
  PROVE  \E f : /\ Launch(u, s) = <<f>> /\ Busy(t, f, c, s) /\ f.unit = u
                /\ \/ f.op = "body" /\ NumTasks(u) = 1
                   \/ f.op = "submit" /\ f.tasks = NumTasks(u)
<1>1. TypeOK /\ Matched
  BY FlowParts
<1>2. NumTasks(u) \in 1..Parts /\ (kind[u] = "mono" => NumTasks(u) = 1)
  BY <1>1, NumTasksIs
<1>3. CASE kind[u] = "mono" /\ s
  <2>1. PICK f : f = Body(u)
    OBVIOUS
  <2>2. f \in Frames /\ f.op = "body" /\ f.unit = u
    BY <2>1, MakesFrames
  <2>3. Busy(t, f, c, s)
    BY <1>3, <2>2 DEF Busy, Sound
  <2> QED
    BY <1>2, <1>3, <2>1, <2>2, <2>3 DEF Launch
<1>4. CASE ~(kind[u] = "mono" /\ s)
  <2>1. PICK f : f = Submitting(u, NumTasks(u))
    OBVIOUS
  <2>2. f \in Frames /\ f.op = "submit" /\ f.unit = u /\ f.tasks = NumTasks(u)
    BY <1>2, <2>1, MakesFrames
  <2>3. Busy(t, f, c, s)
    BY <2>2 DEF Busy, Sound
  <2> QED
    BY <1>4, <2>1, <2>2, <2>3 DEF Launch
<1> QED
  BY <1>3, <1>4

\* Basics.h, lines 162-169 and 253-263: the last call launches the unit, whose tasks
\* come to life when no call for it is left anywhere.
LEMMA NoticeDependencyKeeps ==
  ASSUME FlowInv, NEW t \in Threads, NoticeDependency(t)
  PROVE  FlowInv'
<1>1. IsAt(t, "call") /\ stack[t] # <<>> /\ Head(stack[t]).op = "call"
  BY DEF NoticeDependency, IsAt
<1>2. TypeOK /\ Matched /\ Shape /\ Counted
  BY FlowParts
<1>3. PICK c, s : /\ Left(t, c, s) /\ c # <<>> /\ stack[t] = Rest(c, s) /\ Tail(stack[t]) = <<>>
                  /\ Top(t).calls = c /\ Top(t).serialize = s
  BY <1>1, <1>2, AtCall
<1>4. PICK d, u :
        /\ d = Tail(c) /\ Left(t, d, s) /\ (d # <<>> => ~s) /\ (s => t # Main) /\ c \in Seq(Callees)
        /\ u = Head(c) /\ u \in Nodes /\ ~Constant(u) /\ CallsIn(stack[t]) = c
        /\ u = c[1] /\ 1 \in 1..Len(c) /\ u # Final
  <2>1. Head(c) # Final
    BY <1>3 DEF NoticeDependency
  <2>2. CallsIn(stack[t]) = c
    BY <1>3, RestIs DEF Left
  <2> QED
    BY <1>3, <2>1, <2>2, CallLeft
<1>5. /\ dependencies[u] > 0 /\ Load(u) = 0 /\ queued[u] = 0 /\ ended[u] = 0
      /\ Doing("body", u) = {} /\ Doing("submit", u) = {} /\ Doing("forward", u) = {}
  <2>1. <<"thread", t>> \in Places
    BY DEF Places
  <2>2. pc \notin Early
    BY <1>1, AtWork
  <2>3. Waiting[<<"thread", t>>] = c
    BY <1>4, <2>1, <2>2 DEF Waiting, CallsOf
  <2> QED
    BY <1>4, <2>1, <2>3, CalledHasNoTasks
<1>6. PICK x : x = (IF dependencies[u] = 1 THEN Launch(u, s) ELSE <<>>) \o Rest(d, s)
  OBVIOUS
<1>7. /\ Fit(t, x) /\ CallsIn(x) = d /\ (\A v : v # u => Apart(x, v)) /\ ~At(x, "forward", u)
      /\ dependencies[u] # 1 => Apart(x, u)
      /\ At(x, "body", u) => ~At(x, "submit", u) /\ NumTasks(u) = 1
      /\ At(x, "submit", u) => Head(x).tasks = NumTasks(u)
  <2>1. CASE dependencies[u] = 1
    <3>1. PICK f : /\ Launch(u, s) = <<f>> /\ Busy(t, f, d, s) /\ f.unit = u
                   /\ \/ f.op = "body" /\ NumTasks(u) = 1
                      \/ f.op = "submit" /\ f.tasks = NumTasks(u)
      <4>1. u \in Nodes /\ ~Constant(u) /\ Left(t, d, s) /\ (d # <<>> => ~s) /\ (s => t # Main)
        BY <1>4
      <4> QED
        BY <4>1, LaunchIs
    <3>2. x = <<f>> \o Rest(d, s) /\ Left(t, d, s) /\ Busy(t, f, d, s)
      BY <1>4, <1>6, <2>1, <3>1
    <3>3. Fit(t, x) /\ CallsIn(x) = d /\ \A o, v : At(x, o, v) <=> Stage(f) = o /\ f.unit = v
      BY <3>2, Piled
    <3>4. d \in Seq(Callees) /\ f.op # "call"
      BY <3>1, <3>2 DEF Left
    <3>5. Head(x) = f
      BY <3>2, <3>4, PileIs
    <3> QED
      BY <2>1, <3>1, <3>3, <3>5 DEF Apart, Stage
  <2>2. CASE dependencies[u] # 1
    <3>1. x = <<>> \o Rest(d, s) /\ Left(t, d, s)
      BY <1>4, <1>6, <2>2
    <3>2. Fit(t, x) /\ CallsIn(x) = d /\ \A v : Apart(x, v)
      BY <3>1, Unpiled
    <3> QED
      BY <3>2 DEF Apart
  <2> QED
    BY <2>1, <2>2
<1>8. stack' = [stack EXCEPT ![t] = x]
  <2>1. Replace(t, x)
    BY <1>3, <1>4, <1>6 DEF NoticeDependency
  <2>2. stack' = [stack EXCEPT ![t] = x \o Tail(stack[t])]
    BY <1>2, <2>1, Replaced
  <2>3. x \o <<>> = x
    BY <1>7, FitIsTyped
  <2> QED
    BY <1>3, <2>2, <2>3
<1>9. Steady(t, x)
  BY <1>1, <1>8, AtWork DEF NoticeDependency, Steady, graph, units, main
<1>10. \A v : Apart(stack[t], v)
  BY <1>1 DEF Apart, At, Stage
<1>11. /\ dependencies' = [dependencies EXCEPT ![u] = dependencies[u] - 1]
       /\ UNCHANGED <<queued, ended, unfinished, synchronizer, pc, lost>>
  BY <1>2, <1>3, <1>4 DEF NoticeDependency, main, TypeOK
<1>12. dependencies \in [Nodes -> Nat] /\ dependencies' \in [Nodes -> Nat]
       /\ dependencies'[u] = dependencies[u] - 1
       /\ \A v \in Nodes : v # u => dependencies'[v] = dependencies[v]
  <2>1. dependencies \in [Nodes -> Nat]
    BY <1>2 DEF TypeOK
  <2>2. dependencies[u] - 1 \in Nat
    BY <1>4, <1>5, <2>1
  <2> QED
    BY <1>4, <1>11, <2>1, <2>2
<1>13. \A v \in Nodes : v # u => OnceAt(v)' /\ ForwardedAt(v)' /\ (Passed(v)' <=> Passed(v))
  BY <1>7, <1>9, <1>10, <1>11, <1>12, Untouched
<1>14. NumTasks(u)' = NumTasks(u) /\ NumTasks(u) \in Nat \ {0} /\ (Passed(u)' <=> Passed(u)) /\ ForwardedAt(u)'
  <2>1. NumTasks(u)' = NumTasks(u) /\ NumTasks(u) \in Nat \ {0}
    BY <1>2, <1>4, <1>9, NumTasksIs DEF NumTasks, Steady
  <2>2. Doing("forward", u)' = Doing("forward", u)
    BY <1>2, <1>7, <1>9, <1>10, DoingStays DEF Apart
  <2>3. ForwardedAt(u)
    BY <1>4, FlowParts
  <2> QED
    BY <1>9, <1>11, <2>1, <2>2, <2>3 DEF Passed, ForwardedAt, Generated, Steady
<1>15. OnceAt(u)'
  <2>1. CASE dependencies[u] # 1
    <3>1. dependencies'[u] > 0 => dependencies[u] > 0
      BY <1>5
    <3> QED
      BY <1>4, <1>7, <1>9, <1>10, <1>11, <2>1, <3>1, Untouched
  <2>2. CASE dependencies[u] = 1
    <3>1. dependencies'[u] = 0 /\ queued'[u] = 0 /\ ended'[u] = 0 /\ stack'[t] = x
      BY <1>2, <1>5, <1>8, <1>11, <1>12, <2>2 DEF TypeOK
    <3>2. /\ Doing("body", u)' = IF At(x, "body", u) THEN {t} ELSE {}
          /\ Doing("submit", u)' = IF At(x, "submit", u) THEN {t} ELSE {}
      BY <1>2, <1>5, <1>9, DoingAfter
    <3>3. IsFiniteSet(Doing("body", u)')
          /\ Cardinality(Doing("body", u)') = IF At(x, "body", u) THEN 1 ELSE 0
      <4>1. CASE At(x, "body", u)
        BY <3>2, <4>1, FS_Singleton
      <4>2. CASE ~At(x, "body", u)
        BY <3>2, <4>2, FS_EmptySet
      <4> QED
        BY <4>1, <4>2
    <3>4. Load(u)' = IF At(x, "body", u) THEN 1 ELSE 0
      BY <3>1, <3>3 DEF Load
    <3>5. Load(u)' <= NumTasks(u)
      BY <1>7, <1>14, <3>4
    <3>6. \A r \in Doing("submit", u)' : Load(u)' + Head(stack'[r]).tasks <= NumTasks(u)
      BY <1>7, <1>14, <3>1, <3>2, <3>4
    <3> QED
      BY <1>14, <3>1, <3>2, <3>3, <3>5, <3>6 DEF OnceAt, Top
  <2> QED
    BY <2>1, <2>2
<1>16. Counted'
  <2>1. CallsIn(x) = Tail(c) /\ Head(c) # Final
    BY <1>4, <1>7
  <2>2. \A n \in Nodes : dependencies'[n] = IF n = Head(c) THEN dependencies[n] - 1 ELSE dependencies[n]
    BY <1>4, <1>12
  <2>3. \A n \in Nodes : Passed(n)' <=> Passed(n)
    BY <1>13, <1>14
  <2> QED
    BY <1>2, <1>3, <1>4, <1>9, <1>11, <2>1, <2>2, <2>3, CountedAfterCall
<1>17. /\ unfinished' \in [Nodes -> Nat] /\ queued' \in [Nodes -> Nat]
       /\ ended' \in [Nodes -> Nat] /\ lost' \subseteq Nodes /\ synchronizer' \in Nat
  BY <1>2, <1>11 DEF TypeOK
<1> QED
  BY <1>1, <1>7, <1>9, <1>11, <1>12, <1>13, <1>14, <1>15, <1>16, <1>17, AtWork, StepKeeps

LEMMA LastOne ==
  ASSUME NEW S, NEW t \in S, IsFiniteSet(S)
  PROVE  Cardinality(S) = 1 <=> S \ {t} = {}
BY OneLess, FS_EmptySet, FS_Singleton, FS_CardinalityType

\* The thread that is the last in forward() takes the unit's calls.
IsLast(t, u) == ended[u] = NumTasks(u) /\ Doing("forward", u) \ {t} = {}

\* The thread that is last in forward() takes over the calls of its unit, no other does.
LEMMA ForwardKeeps ==
  ASSUME FlowInv, NEW t \in Threads, IsAt(t, "forward"), NEW u, u = Top(t).unit, NEW x,
         Replace(t, x), x = IF IsLast(t, u) THEN Successors(u) ELSE <<>>,
         unfinished' = IF kind[u] = "para" THEN [unfinished EXCEPT ![u] = unfinished[u] - 1]
                       ELSE unfinished,
         UNCHANGED <<graph, forwards, dependencies, synchronizer, queued, main, ended, lost>>
  PROVE  FlowInv'
<1>1. PICK c, s :
        /\ u \in Nodes /\ ~Constant(u) /\ t # Main /\ Left(t, c, s) /\ Tail(stack[t]) = <<>>
        /\ CallsIn(stack[t]) = <<>> /\ t \in Doing("forward", u) /\ stack[t] # <<>>
        /\ \A v, o : At(stack[t], o, v) <=> o = "forward" /\ v = u
        /\ \A v : v # u => Apart(stack[t], v)
  <2>1. "forward" \in {"body", "submit", "forward"} /\ "forward" # "submit"
    OBVIOUS
  <2> QED
    BY <2>1, AtUnit DEF IsAt
<1>2. TypeOK /\ Matched /\ Counted /\ Linked /\ OnceAt(u) /\ ForwardedAt(u)
  BY <1>1, FlowParts
<1>3. /\ Fit(t, x) /\ \A v : Apart(x, v)
      /\ CallsIn(x) = IF IsLast(t, u) THEN forwards[u] ELSE <<>>
  <2>1. PICK d, r : d = (IF IsLast(t, u) THEN forwards[u] ELSE <<>>) /\ r = (Len(d) = 1)
    OBVIOUS
  <2>2. d \in Seq(Callees) /\ Callable(d)
    <3>1. forwards[u] \in Seq(Callees) /\ Callable(forwards[u])
      BY <1>1, <1>2 DEF TypeOK, Callees, Linked
    <3>2. <<>> \in Seq(Callees) /\ Callable(<<>>)
      BY DEF Callable
    <3> QED
      BY <2>1, <3>1, <3>2
  <2>3. Left(t, d, r)
    <3>1. r \in BOOLEAN /\ (r => Len(d) = 1)
      BY <2>1
    <3>2. Len(d) = 1 => Len(d) <= 1
      OBVIOUS
    <3>3. r => Len(d) <= 1 /\ t # Main
      BY <1>1, <3>1, <3>2, Zenon
    <3> QED
      BY <2>2, <3>1, <3>3 DEF Left
  <2>4. x = Rest(d, r)
    BY <2>1 DEF Successors, Rest
  <2> QED
    BY <2>1, <2>3, <2>4, Unpiled
<1>4. stack' = [stack EXCEPT ![t] = x]
  <2>1. stack' = [stack EXCEPT ![t] = x \o Tail(stack[t])]
    BY <1>2, Replaced
  <2>2. x \o <<>> = x
    BY <1>3, FitIsTyped
  <2> QED
    BY <1>1, <2>1, <2>2
<1>5. Steady(t, x)
  BY <1>1, <1>4, AtWork DEF Steady, graph, main
<1>6. UNCHANGED <<queued, ended, dependencies, synchronizer, pc, lost>>
  BY DEF main
<1>7. unfinished \in [Nodes -> Nat] /\ \A v \in Nodes : v # u => unfinished'[v] = unfinished[v]
  BY <1>2 DEF TypeOK
<1>8. \A v \in Nodes : v # u => OnceAt(v)' /\ ForwardedAt(v)' /\ (Passed(v)' <=> Passed(v))
  BY <1>1, <1>3, <1>5, <1>6, <1>7, Untouched
<1>9. /\ Doing("submit", u)' = Doing("submit", u) /\ Doing("body", u)' = Doing("body", u)
      /\ Doing("forward", u)' = Doing("forward", u) \ {t} /\ t \notin Doing("submit", u)
  BY <1>1, <1>2, <1>3, <1>5, DoingStays, DoingAfter DEF Apart
<1>10. /\ IsFiniteSet(Doing("forward", u)')
       /\ Cardinality(Doing("forward", u)') = Cardinality(Doing("forward", u)) - 1
  <2>1. IsFiniteSet(Doing("forward", u))
    BY <1>1, LoadParts
  <2> QED
    BY <1>1, <1>9, <2>1, OneLess
<1>11. NumTasks(u)' = NumTasks(u) /\ Load(u)' = Load(u)
  BY <1>5, <1>6, <1>9 DEF NumTasks, Steady, Load
<1>12. OnceAt(u)'
  <2>1. \A r \in Doing("submit", u) : stack'[r] = stack[r]
    BY <1>2, <1>4, <1>9 DEF TypeOK, Doing
  <2> QED
    BY <1>2, <1>6, <1>9, <1>11, <2>1 DEF OnceAt, Top
<1>13. /\ ended[u] \in Nat /\ Cardinality(Doing("forward", u)) \in Nat \ {0} /\ NumTasks(u) \in Nat
       /\ unfinished[u] \in Nat /\ ended[u] <= NumTasks(u)
       /\ Cardinality(Doing("forward", u)) <= ended[u]
       /\ kind[u] = "para" =>
            unfinished[u] = NumTasks(u) - ended[u] + Cardinality(Doing("forward", u))
  <2>1. /\ queued[u] \in Nat /\ ended[u] \in Nat /\ unfinished[u] \in Nat /\ NumTasks(u) \in Nat
        /\ Cardinality(Doing("body", u)) \in Nat
        /\ Cardinality(Doing("forward", u)) \in Nat /\ Cardinality(Doing("forward", u)) > 0
        /\ Load(u) <= NumTasks(u)
        /\ Load(u) = queued[u] + Cardinality(Doing("body", u)) + ended[u]
    BY <1>1, LoadParts
  <2>2. Generated(u)
    BY <1>5 DEF Generated, Steady, Early
  <2> QED
    BY <1>2, <2>1, <2>2 DEF ForwardedAt
<1>14. unfinished' \in [Nodes -> Nat]
       /\ (kind[u] = "para" => unfinished'[u] = unfinished[u] - 1)
  <2>1. CASE kind[u] = "para"
    <3>1. unfinished[u] - 1 \in Nat
      BY <1>13, <2>1
    <3> QED
      BY <1>1, <1>7, <2>1, <3>1
  <2>2. CASE kind[u] # "para"
    BY <1>7, <2>2
  <2> QED
    BY <2>1, <2>2
<1>15. ForwardedAt(u)'
  <2>1. Cardinality(Doing("forward", u)') <= ended'[u]
    BY <1>6, <1>10, <1>13
  <2>2. kind[u] = "para" =>
          unfinished'[u] = NumTasks(u)' - ended'[u] + Cardinality(Doing("forward", u)')
    BY <1>6, <1>10, <1>11, <1>13, <1>14
  <2> QED
    BY <1>5, <1>10, <2>1, <2>2 DEF ForwardedAt, Steady
<1>16. ~Passed(u) /\ (Passed(u)' <=> IsLast(t, u))
  BY <1>1, <1>6, <1>9, <1>11 DEF Passed, IsLast
<1>17. Counted'
  <2>1. CASE IsLast(t, u)
    <3>1. CallsIn(x) = forwards[u] /\ Passed(u)'
      BY <1>3, <1>16, <2>1
    <3> QED
      BY <1>1, <1>2, <1>5, <1>6, <1>8, <1>16, <3>1, CountedAfterForward
  <2>2. CASE ~IsLast(t, u)
    <3>1. CallsIn(x) = CallsIn(stack[t]) /\ \A v \in Nodes : Passed(v)' <=> Passed(v)
      BY <1>1, <1>3, <1>8, <1>16, <2>2
    <3> QED
      BY <1>2, <1>5, <1>6, <3>1, CountedStays
  <2> QED
    BY <2>1, <2>2
<1>18. /\ dependencies' \in [Nodes -> Nat] /\ queued' \in [Nodes -> Nat]
       /\ ended' \in [Nodes -> Nat] /\ lost' \subseteq Nodes /\ synchronizer' \in Nat
  BY <1>2, <1>6 DEF TypeOK
<1> QED
  BY <1>1, <1>3, <1>5, <1>6, <1>8, <1>12, <1>14, <1>15, <1>17, <1>18, AtWork, StepKeeps

LEMMA AtForward ==
  ASSUME FlowInv, NEW t \in Threads, IsAt(t, "forward")
  PROVE  LET u == Top(t).unit IN
           /\ u \in Nodes /\ kind[u] \in {"mono", "para"} /\ t \in Doing("forward", u)
           /\ kind[u] = "mono" => IsLast(t, u)
           /\ kind[u] = "para" => (unfinished[u] = 1 <=> IsLast(t, u))
<1>1. PICK u : u = Top(t).unit
  OBVIOUS
<1>2. u \in Nodes /\ ~Constant(u) /\ t \in Doing("forward", u) /\ stack[t] # <<>>
  <2>1. "forward" \in {"body", "submit", "forward"} /\ "forward" # "submit"
    OBVIOUS
  <2> QED
    BY <1>1, <2>1, AtUnit DEF IsAt
<1>3. TypeOK /\ Matched /\ ForwardedAt(u) /\ Generated(u)
  BY <1>2, FlowParts, AtWork DEF Generated, Early
<1>4. /\ queued[u] \in Nat /\ ended[u] \in Nat /\ NumTasks(u) \in Nat
      /\ Cardinality(Doing("body", u)) \in Nat /\ IsFiniteSet(Doing("forward", u))
      /\ Cardinality(Doing("forward", u)) \in Nat /\ Cardinality(Doing("forward", u)) > 0
      /\ Load(u) <= NumTasks(u)
      /\ Load(u) = queued[u] + Cardinality(Doing("body", u)) + ended[u]
  BY <1>2, LoadParts
<1>5. Cardinality(Doing("forward", u)) = 1 <=> Doing("forward", u) \ {t} = {}
  BY <1>2, <1>4, LastOne
<1>6. Cardinality(Doing("forward", u)) <= ended[u] /\ ended[u] <= NumTasks(u)
  BY <1>3, <1>4 DEF ForwardedAt
<1>7. kind[u] \in {"mono", "para"} /\ (kind[u] = "mono" => NumTasks(u) = 1)
  BY <1>2, <1>3, NumTasksIs
<1>8. kind[u] = "mono" => IsLast(t, u)
  BY <1>4, <1>5, <1>6, <1>7 DEF IsLast
<1>9. kind[u] = "para" => (unfinished[u] = 1 <=> IsLast(t, u))
  <2>1. kind[u] = "para" =>
          unfinished[u] = NumTasks(u) - ended[u] + Cardinality(Doing("forward", u))
    BY <1>3 DEF ForwardedAt
  <2>2. kind[u] = "para" => (unfinished[u] = 1 <=>
          ended[u] = NumTasks(u) /\ Cardinality(Doing("forward", u)) = 1)
    BY <1>4, <1>6, <2>1
  <2> QED
    BY <1>5, <2>2 DEF IsLast
<1> QED
  BY <1>1, <1>2, <1>7, <1>8, <1>9

\* Basics.h, lines 265-276: of a unit with one task, that is every thread.
LEMMA ForwardMonoKeeps ==
  ASSUME FlowInv, NEW t \in Threads, ForwardMono(t)
  PROVE  FlowInv'
<1>1. PICK u, x : u = Top(t).unit /\ x = Successors(u)
  OBVIOUS
<1>2. IsAt(t, "forward") /\ kind[u] = "mono" /\ Replace(t, x)
      /\ UNCHANGED <<graph, units, synchronizer, queued, main, ended, lost>>
  BY <1>1 DEF ForwardMono
<1>3. IsLast(t, u)
  BY <1>1, <1>2, AtForward
<1>4. x = (IF IsLast(t, u) THEN Successors(u) ELSE <<>>)
      /\ unfinished' = (IF kind[u] = "para" THEN [unfinished EXCEPT ![u] = unfinished[u] - 1]
                        ELSE unfinished)
      /\ UNCHANGED <<graph, forwards, dependencies, synchronizer, queued, main, ended, lost>>
  BY <1>1, <1>2, <1>3 DEF units
<1> QED
  BY <1>1, <1>2, <1>4, ForwardKeeps

\* Basics.h, lines 170-183: of a unit with more, the one that finds the counter at 1.
LEMMA ForwardParaKeeps ==
  ASSUME FlowInv, NEW t \in Threads, ForwardPara(t)
  PROVE  FlowInv'
<1>1. PICK u, x : u = Top(t).unit /\ x = IF unfinished[u] = 1 THEN Successors(u) ELSE <<>>
  OBVIOUS
<1>2. /\ IsAt(t, "forward") /\ kind[u] = "para" /\ Replace(t, x)
      /\ UNCHANGED <<graph, forwards, dependencies, synchronizer, queued, main, ended, lost>>
  BY <1>1 DEF ForwardPara
<1>3. unfinished' = [unfinished EXCEPT ![u] = unfinished[u] - 1]
  BY <1>1, FlowParts DEF ForwardPara, TypeOK
<1>4. unfinished[u] = 1 <=> IsLast(t, u)
  BY <1>1, <1>2, AtForward
<1>5. x = (IF IsLast(t, u) THEN Successors(u) ELSE <<>>)
      /\ unfinished' = (IF kind[u] = "para" THEN [unfinished EXCEPT ![u] = unfinished[u] - 1]
                        ELSE unfinished)
  BY <1>1, <1>2, <1>3, <1>4
<1> QED
  BY <1>1, <1>2, <1>5, ForwardKeeps

-----------------------------------------------------------------------------
(* The steps of Main                                                       *)

LEMMA MainKeeps ==
  ASSUME FlowInv, pc \notin Early, stack[Main] = <<>>,
         UNCHANGED <<graph, units, synchronizer, initial, queued, stack, pos, ended, lost>>,
         pc' \in {"predicate", "block", "asleep", "shutdown", "done"},
         pc' \in {"shutdown", "done"} => synchronizer = 0,
         pc' = "done" => \A w \in Workers : stack[w] = <<>>,
         passed' \subseteq Workers, \A w \in passed' : stack[w] = <<>>,
         passed' # {} => pc' \in {"shutdown", "done"}
  PROVE  FlowInv'
<1>1. TypeOK /\ Shape /\ Counted /\ Phases
  BY FlowParts
<1>2. Main \in Threads
      /\ UNCHANGED <<operands, kind, units, synchronizer, initial, queued, stack, pos, ended, lost>>
  BY DEF graph, Threads
<1>3. stack \in [Threads -> Seq(Frames)]
  BY <1>1 DEF TypeOK
<1>4. pc' \notin Early
  BY DEF Early
<1>5. \A op, v : Doing(op, v)' = Doing(op, v)
  BY <1>2 DEF Doing, At
<1>6. \A v \in Nodes : /\ NumTasks(v)' = NumTasks(v) /\ Load(v)' = Load(v)
                       /\ (Generated(v)' <=> Generated(v)) /\ (Passed(v)' <=> Passed(v))
  BY <1>2, <1>4, <1>5 DEF NumTasks, Load, Generated, Passed, Early
<1>7. \A v \in Nodes : OnceAt(v)' /\ ForwardedAt(v)'
  BY <1>2, <1>5, <1>6, FlowParts DEF OnceAt, ForwardedAt, Top, units
<1>8. Waiting' = Waiting
  <2>1. ASSUME NEW n \in Nodes PROVE Keeps(n)' <=> Keeps(n)
    BY <1>2, <1>4, <1>6 DEF Keeps, Constant, Early
  <2>2. ASSUME NEW t \in Threads PROVE CallsOf(t)' = CallsOf(t)
    BY <1>2, <1>4 DEF CallsOf
  <2>3. ASSUME NEW p \in Places PROVE Waiting'[p] = Waiting[p]
    <3>1. CASE \E n \in Nodes : p = <<"unit", n>>
      <4>1. PICK n \in Nodes : p = <<"unit", n>>
        BY <3>1
      <4> QED
        BY <1>2, <2>1, <2>3, <4>1 DEF Waiting, units
    <3>2. CASE \E t \in Threads : p = <<"thread", t>>
      <4>1. PICK t \in Threads : p = <<"thread", t>>
        BY <3>2
      <4> QED
        BY <2>2, <2>3, <4>1 DEF Waiting
    <3> QED
      BY <2>3, <3>1, <3>2, PlacesAre
  <2> QED
    BY <2>3 DEF Waiting
<1>9. Counted'
  BY <1>1, <1>2, <1>8, CountedIs DEF Counted, units
<1>10. TypeOK'
  BY <1>1, <1>2 DEF TypeOK, units
<1>11. initial' = <<>> /\ Callable(initial)'
  BY <1>1, <1>2 DEF Phases, Callable, Constant
<1>12. pc' = "done" => \A t \in Threads : stack[t] = <<>>
  BY DEF Threads
<1>13. Phases'
  BY <1>1, <1>2, <1>4, <1>11, <1>12 DEF Phases
<1>14. Matched' /\ Linked'
  <2>1. \A n \in Nodes : /\ Collected(n)' <=> Collected(n)
                         /\ Callable(forwards[n])' <=> Callable(forwards[n])
    BY <1>2, <1>4 DEF Collected, Callable, Constant, Early, units
  <2> QED
    BY <1>1, <1>2, <1>6, <2>1, FlowParts DEF Matched, Linked, Constant, units
<1>15. Shape'
  BY <1>1, <1>2, ShapeSame
<1> QED
  BY <1>7, <1>9, <1>10, <1>13, <1>14, <1>15 DEF FlowInv, Once, Forwarded

\* integer.cpp, lines 175-178: Main waits and wakes.
LEMMA GotoKeeps ==
  ASSUME FlowInv, NEW from, NEW to, Goto(from, to), from \in {"calls", "predicate", "block", "asleep"},
         to \in {"predicate", "block", "asleep", "shutdown"}, stack[Main] = <<>>,
         to = "shutdown" => synchronizer = 0
  PROVE  FlowInv'
<1>1. passed = {} /\ pc = from /\ pc' = to /\ passed' = passed
      /\ UNCHANGED <<graph, units, synchronizer, initial, queued, stack, pos, ended, lost>>
  BY FlowParts DEF Goto, Phases
<1> QED
  BY <1>1, MainKeeps DEF Early

LEMMA WaitKeeps ==
  ASSUME FlowInv, CallsMade \/ Predicate \/ Block \/ SpuriousWake
  PROVE  FlowInv'
<1>1. Phases
  BY FlowParts
<1>2. CASE CallsMade
  BY <1>2, GotoKeeps DEF CallsMade
<1>3. CASE Predicate
  <2>1. PICK to : to = IF synchronizer = 0 THEN "shutdown" ELSE "block"
    OBVIOUS
  <2>2. Goto("predicate", to) /\ stack[Main] = <<>>
    BY <1>1, <1>3, <2>1 DEF Predicate, Goto, Phases
  <2> QED
    BY <2>1, <2>2, GotoKeeps
<1>4. CASE Block
  BY <1>1, <1>4, GotoKeeps DEF Block, Goto, Phases
<1>5. CASE SpuriousWake
  BY <1>1, <1>5, GotoKeeps DEF SpuriousWake, Goto, Phases
<1> QED
  BY <1>2, <1>3, <1>4, <1>5

\* ThreadPool.cpp, lines 207-212: shutdown() passes a worker that is idle, which stays so
\* since no task is left, and returns when it has passed all.
LEMMA ShutdownKeeps ==
  ASSUME FlowInv, Shutdown \/ \E w \in Workers : Pass(w)
  PROVE  FlowInv'
<1>1. Phases /\ TypeOK
  BY FlowParts
<1>2. pc = "shutdown" /\ synchronizer = 0 /\ stack[Main] = <<>> /\ pc \notin Early
      /\ UNCHANGED <<graph, units, synchronizer, initial, queued, stack, pos, ended, lost>>
  BY <1>1 DEF Phases, Shutdown, Goto, Pass, Early
<1>3. CASE Shutdown
  <2>1. passed' = passed /\ passed = Workers /\ pc' = "done"
    BY <1>3 DEF Shutdown, Goto
  <2> QED
    BY <1>1, <1>2, <2>1, MainKeeps DEF Phases
<1>4. ASSUME NEW w \in Workers, Pass(w) PROVE FlowInv'
  <2>1. passed' = passed \cup {w} /\ stack[w] = <<>> /\ pc' = "shutdown"
    BY <1>4 DEF Pass
  <2>2. passed' \subseteq Workers /\ \A v \in passed' : stack[v] = <<>>
    BY <1>1, <2>1 DEF Phases, TypeOK
  <2> QED
    BY <1>2, <2>1, <2>2, MainKeeps
<1> QED
  BY <1>3, <1>4

\* Before Main has started the units, nobody does anything.
LEMMA AtRest ==
  ASSUME FlowInv, pc \in Early
  PROVE  /\ \A t \in Threads : stack[t] = <<>>
         /\ \A op : \A n \in Nodes : Doing(op, n) = {}
         /\ \A n \in Nodes : queued[n] = 0 /\ ended[n] = 0 /\ Load(n) = 0
         /\ \A n \in Nodes : ~Constant(n) => Keeps(n)
<1>1. /\ \A t \in Threads : stack[t] = <<>>
      /\ \A n \in Nodes : queued[n] = 0 /\ ended[n] = 0
  BY FlowParts DEF Phases
<1>2. \A op : \A n \in Nodes : Doing(op, n) = {}
  BY <1>1 DEF Doing, At
<1>3. ASSUME NEW n \in Nodes PROVE Load(n) = 0
  <2>1. Cardinality(Doing("body", n)) = 0
    BY <1>2, FS_EmptySet
  <2> QED
    BY <1>1, <2>1 DEF Load
<1>4. ASSUME NEW n \in Nodes, ~Constant(n) PROVE Keeps(n)
  <2>1. NumTasks(n) # 0
    BY <1>4, FlowParts, NumTasksIs
  <2> QED
    BY <1>1, <1>4, <2>1 DEF Keeps, Passed
<1> QED
  BY <1>1, <1>2, <1>3, <1>4

\* integer.cpp, lines 172-174: Main takes over the calls of the constants.
LEMMA StartKeeps ==
  ASSUME FlowInv, Start
  PROVE  FlowInv'
<1>1. TypeOK /\ Matched /\ Shape /\ Phases /\ Linked /\ Counted
      /\ \A u \in Nodes : OnceAt(u) /\ ForwardedAt(u)
  BY FlowParts
<1>2. /\ Main \in Threads /\ pc = "start" /\ pc' = "calls" /\ initial' = <<>>
      /\ UNCHANGED <<operands, kind, forwards, dependencies, unfinished, synchronizer, queued,
                     pos, passed, ended, lost>>
  BY DEF Start, graph, units, Threads
<1>3. pc \in Early
  BY <1>2 DEF Early
<1>4. PICK x : x = Rest(initial, FALSE) /\ stack' = [stack EXCEPT ![Main] = x]
  BY DEF Start
<1>5. stack'[Main] = x /\ \A t \in Threads : t # Main => stack'[t] = stack[t]
  BY <1>1, <1>2, <1>4 DEF TypeOK
<1>6. initial \in Seq(Callees) /\ Left(Main, initial, FALSE)
  BY <1>1 DEF TypeOK, Callees, Phases, Left
<1>7. Fit(Main, x) /\ CallsIn(x) = initial /\ \A v : Apart(x, v)
  BY <1>4, <1>6, Unpiled
<1>8. \A t \in Threads : Fit(t, stack'[t])
  BY <1>1, <1>5, <1>7 DEF Shape
<1>9. Shape'
  <2>1. ASSUME NEW t, NEW y, Fit(t, y) PROVE Fit(t, y)'
    BY <1>2, <2>1 DEF Fit, Left, Busy, Sound, Callable, Constant, Rest, Calling, Frames, Callees, Notice
  <2>2. PICK new : new = stack'
    OBVIOUS
  <2>3. \A t \in Threads : Fit(t, new[t])'
    BY <1>8, <2>1, <2>2
  <2> QED
    BY <2>2, <2>3 DEF Shape, Fit, Left, Busy, Sound, Callable, Constant
<1>10. \A op \in {"body", "submit", "forward"}, u \in Nodes : Doing(op, u)' = {} /\ Doing(op, u) = {}
  <2>1. \A op \in {"body", "submit", "forward"}, u \in Nodes, t \in Threads : ~At(stack'[t], op, u)
    BY <1>3, <1>5, <1>7, AtRest DEF Apart, At
  <2> QED
    BY <1>3, <2>1, AtRest DEF Doing
<1>11. \A u \in Nodes : /\ NumTasks(u)' = NumTasks(u) /\ (Passed(u)' <=> Passed(u))
                        /\ Load(u)' = Load(u) /\ Generated(u) /\ Generated(u)'
  BY <1>2, <1>10 DEF NumTasks, Passed, Load, Generated
<1>12. Once' /\ Forwarded'
  BY <1>1, <1>2, <1>10, <1>11 DEF Once, OnceAt, Forwarded, ForwardedAt
<1>13. TypeOK'
  <2>1. stack' \in [Threads -> Seq(Frames)]
    BY <1>1, <1>4, <1>7, FitIsTyped DEF TypeOK
  <2> QED
    BY <1>1, <1>2, <2>1 DEF TypeOK
<1>14. Matched'
  BY <1>1, <1>2 DEF Matched, Constant
<1>15. Linked'
  <2>1. \A n \in Nodes : /\ Collected(n) /\ Collected(n)'
                         /\ Callable(forwards[n])' <=> Callable(forwards[n])
    BY <1>2 DEF Collected, Callable, Constant
  <2> QED
    BY <1>1, <1>2, <1>11, <2>1 DEF Linked
<1>16. Phases'
  BY <1>1, <1>2 DEF Phases, Early, Callable
<1>17. Waiting' = Waiting
  <2>1. \A p \in Places : Waiting'[p] = Waiting[p]
    <3> SUFFICES ASSUME NEW p \in Places PROVE Waiting'[p] = Waiting[p]
      OBVIOUS
    <3>1. CASE \E n \in Nodes : p = <<"unit", n>>
      <4>1. PICK n \in Nodes : p = <<"unit", n>>
        BY <3>1
      <4>2. Keeps(n)' <=> Keeps(n)
        BY <1>2, <1>11 DEF Keeps, Constant
      <4> QED
        BY <1>2, <4>1, <4>2 DEF Waiting
    <3>2. CASE \E t \in Threads : p = <<"thread", t>>
      <4>1. PICK t \in Threads : p = <<"thread", t>>
        BY <3>2
      <4>2. CallsOf(t)' = CallsOf(t)
        BY <1>2, <1>5, <1>7 DEF CallsOf, Early
      <4> QED
        BY <4>1, <4>2 DEF Waiting
    <3> QED
      BY <3>1, <3>2, PlacesAre
  <2> QED
    BY <2>1 DEF Waiting
<1>18. Counted'
  BY <1>1, <1>2, <1>17, CountedIs DEF Counted
<1> QED
  BY <1>9, <1>12, <1>13, <1>14, <1>15, <1>16, <1>18 DEF FlowInv

\* A step of Main that builds the units.
LEMMA BuildKeeps ==
  ASSUME FlowInv, pc \in Early, pc' \in Early, pos' \in Nodes,
         UNCHANGED <<operands, kind, queued, stack, passed, ended, lost>>,
         forwards' \in [Nodes -> Seq(Callees)], dependencies' \in [Nodes -> Nat],
         unfinished' \in [Nodes -> Nat], synchronizer' \in Nat, initial' \in Seq(Callees),
         Callable(initial)',
         \A v \in Nodes : kind[v] = "para" /\ Generated(v)' => unfinished'[v] = NumTasks(v),
         Linked', Counted'
  PROVE  FlowInv'
<1>1. TypeOK /\ Matched /\ Shape /\ Phases
  BY FlowParts
<1>2. TypeOK'
  BY <1>1 DEF TypeOK, Early, Callees
<1>3. Matched' /\ Phases'
  BY <1>1 DEF Matched, Constant, Phases, Early
<1>4. Shape'
  BY <1>1, ShapeSame
<1>5. \A u \in Nodes : /\ \A op : Doing(op, u)' = {}
                       /\ queued'[u] = 0 /\ ended'[u] = 0 /\ NumTasks(u)' = NumTasks(u)
                       /\ NumTasks(u) \in Nat
  BY <1>1, AtRest, NumTasksIs DEF Doing, NumTasks
<1>6. IsFiniteSet({}) /\ Cardinality({}) = 0
  BY FS_EmptySet
<1>7. ASSUME NEW u \in Nodes PROVE Load(u)' = 0
  <2>1. Cardinality(Doing("body", u)') = 0
    BY <1>5, <1>6
  <2>2. Load(u)' = queued'[u] + Cardinality(Doing("body", u)') + ended'[u]
    BY DEF Load
  <2> QED
    BY <1>5, <2>1, <2>2
<1>8. ASSUME NEW u \in Nodes PROVE OnceAt(u)'
  <2>1. Doing("body", u)' = {} /\ Doing("submit", u)' = {} /\ Load(u)' = 0
        /\ NumTasks(u)' \in Nat
    BY <1>5, <1>7
  <2>2. Load(u)' <= NumTasks(u)' /\ (\A t : t \notin Doing("submit", u)')
    BY <2>1
  <2>3. IsFiniteSet(Doing("body", u)')
    BY <1>6, <2>1
  <2> QED
    BY <2>1, <2>2, <2>3 DEF OnceAt
<1>9. ASSUME NEW u \in Nodes PROVE ForwardedAt(u)'
  <2>1. Cardinality(Doing("forward", u)') = 0 /\ IsFiniteSet(Doing("forward", u)')
    BY <1>5, <1>6
  <2>2. kind[u] = "para" /\ Generated(u)' =>
          unfinished'[u] = NumTasks(u)' - ended'[u] + Cardinality(Doing("forward", u)')
    BY <1>5, <2>1
  <2> QED
    BY <1>5, <2>1, <2>2 DEF ForwardedAt
<1> QED
  BY <1>2, <1>3, <1>4, <1>8, <1>9 DEF FlowInv, Once, Forwarded

LEMMA Advances ==
  ASSUME TypeOK, NEW label, Advance(label)
  PROVE  /\ pos' \in Nodes
         /\ \/ pc' = pc /\ pos' = pos + 1
            \/ pc' = label /\ pos' = 1 /\ pos = NumNodes
<1>1. NumNodes \in Nat \ {0} /\ pos \in 1..NumNodes
  BY PipelineAssumption DEF TypeOK, Nodes
<1>2. CASE pos = NumNodes
  BY <1>1, <1>2 DEF Advance, Nodes
<1>3. CASE pos # NumNodes
  BY <1>1, <1>3 DEF Advance, Nodes
<1> QED
  BY <1>2, <1>3

LEMMA OperandsAre ==
  ASSUME TypeOK, NEW n \in Nodes
  PROVE  \/ operands[n] = <<>> /\ Len(operands[n]) = 0
         \/ \E a, b \in Nodes : /\ operands[n] = <<a, b>> /\ a < n /\ b < n
                                /\ Len(operands[n]) = 2 /\ operands[n][1] = a /\ operands[n][2] = b
<1>1. /\ operands[n] \in {<<>>} \cup (Nodes \X Nodes)
      /\ operands[n] # <<>> => operands[n][1] < n /\ operands[n][2] < n
  BY DEF TypeOK, Graphs
<1>2. CASE operands[n] \in Nodes \X Nodes
  <2>1. PICK a, b \in Nodes : operands[n] = <<a, b>>
    BY <1>2
  <2>2. operands[n] # <<>> /\ Len(operands[n]) = 2 /\ operands[n][1] = a /\ operands[n][2] = b
    BY <2>1
  <2> QED
    BY <1>1, <2>1, <2>2
<1>3. CASE operands[n] = <<>>
  BY <1>3
<1> QED
  BY <1>1, <1>2, <1>3

\* integer.cpp, lines 160-171: a unit without successor gets a call for Main, and the
\* calls of a constant go to Main's list.
LEMMA CollectKeeps ==
  ASSUME FlowInv, Collect
  PROVE  FlowInv'
<1>1. TypeOK /\ Phases /\ Linked /\ Counted /\ \A u \in Nodes : ForwardedAt(u)
  BY FlowParts
<1>2. /\ pc = "collect" /\ pc \in Early /\ Advance("start")
      /\ UNCHANGED <<operands, kind, dependencies, unfinished, queued, stack, passed, ended, lost>>
      /\ initial' = IF Constant(pos) THEN initial \o forwards'[pos] ELSE initial
  BY DEF Collect, Early, graph
<1>3. /\ pos \in Nodes /\ pos' \in Nodes /\ pc' \in {"collect", "start"} /\ pc' \in Early
      /\ \/ pc' = "collect" /\ pos' = pos + 1
         \/ pc' = "start" /\ pos' = 1 /\ pos = NumNodes
  BY <1>1, <1>2, Advances DEF TypeOK, Early
<1>4. forwards \in [Nodes -> Seq(Callees)] /\ initial \in Seq(Callees) /\ synchronizer \in Nat
  BY <1>1 DEF TypeOK, Callees
<1>5. PICK e : /\ e = (IF forwards[pos] = <<>> THEN <<Final>> ELSE forwards[pos])
               /\ forwards' = [forwards EXCEPT ![pos] = e]
               /\ synchronizer' = IF forwards[pos] = <<>> THEN synchronizer + 1 ELSE synchronizer
  <2>1. CASE forwards[pos] = <<>>
    BY <2>1 DEF Collect
  <2>2. CASE forwards[pos] # <<>>
    <3>1. forwards' = [forwards EXCEPT ![pos] = forwards[pos]]
      BY <1>4, <2>2 DEF Collect
    <3> QED
      BY <2>2, <3>1 DEF Collect
  <2> QED
    BY <2>1, <2>2
<1>6. e \in Seq(Callees) /\ e # <<>> /\ Callable(e) /\ (\A i \in 1..Len(e) : e[i] = Final \/ e[i] > pos)
  <2>1. CASE forwards[pos] = <<>>
    <3>1. e = <<Final>> /\ Final \in Callees
      BY <1>5, <2>1 DEF Callees
    <3>2. e \in Seq(Callees) /\ e # <<>> /\ \A i \in 1..Len(e) : e[i] = Final
      BY <3>1
    <3> QED
      BY <3>2 DEF Callable
  <2>2. CASE forwards[pos] # <<>>
    <3>1. e = forwards[pos]
      BY <1>5, <2>2
    <3> QED
      BY <1>1, <1>3, <1>4, <2>2, <3>1 DEF Linked
  <2> QED
    BY <2>1, <2>2
<1>7. /\ forwards' \in [Nodes -> Seq(Callees)] /\ forwards'[pos] = e
      /\ \A n \in Nodes : n # pos => forwards'[n] = forwards[n]
      /\ synchronizer' \in Nat
  BY <1>3, <1>4, <1>5, <1>6
<1>8. initial' \in Seq(Callees) /\ Callable(initial)'
  <2>1. CASE Constant(pos)
    <3>1. initial' = initial \o e
      BY <1>2, <1>7, <2>1
    <3>2. Callable(initial) /\ Callable(e)
      BY <1>1, <1>6 DEF Phases
    <3>3. /\ initial' \in Seq(Callees) /\ Len(initial') = Len(initial) + Len(e)
          /\ \A i \in 1..Len(initial') : \/ i \in 1..Len(initial) /\ initial'[i] = initial[i]
                                         \/ i - Len(initial) \in 1..Len(e) /\ initial'[i] = e[i - Len(initial)]
      BY <1>4, <1>6, <3>1
    <3>4. Callable(initial)'
      BY <1>2, <3>2, <3>3 DEF Callable, Constant
    <3> QED
      BY <3>3, <3>4
  <2>2. CASE ~Constant(pos)
    BY <1>1, <1>2, <1>4, <2>2 DEF Phases, Callable, Constant
  <2> QED
    BY <2>1, <2>2
<1>9. \A n \in Nodes : Generated(n) /\ Generated(n)' /\ (Constant(n)' <=> Constant(n))
  BY <1>2, <1>3 DEF Generated, Constant
<1>10. Linked'
  <2>1. ASSUME NEW n \in Nodes
        PROVE  /\ Callable(forwards[n])'
               /\ \A i \in 1..Len(forwards'[n]) : forwards'[n][i] = Final \/ forwards'[n][i] > n
    <3>1. CASE n = pos
      BY <1>2, <1>6, <1>7, <3>1 DEF Callable, Constant
    <3>2. CASE n # pos
      BY <1>1, <1>2, <1>7, <3>2 DEF Linked, Callable, Constant
    <3> QED
      BY <3>1, <3>2
  <2>2. ASSUME NEW n \in Nodes, Collected(n)' PROVE forwards'[n] # <<>>
    <3>1. n = pos \/ Collected(n)
      BY <1>2, <1>3, <2>2 DEF Collected, Nodes
    <3> QED
      BY <1>1, <1>6, <1>7, <3>1 DEF Linked
  <2>3. ASSUME NEW n \in Nodes, NEW i \in 1..Len(operands[n])
        PROVE  \E k \in 1..Len(forwards'[operands[n][i]]) : forwards'[operands[n][i]][k] = n
    <3>1. PICK m : m = operands[n][i]
      OBVIOUS
    <3>2. PICK k \in 1..Len(forwards[m]) : forwards[m][k] = n
      BY <1>1, <1>9, <3>1 DEF Linked
    <3>3. m \in Nodes
      BY <1>1, <3>1, OperandsAre
    <3>4. forwards'[m] = forwards[m]
      <4>1. CASE m = pos
        <5>1. forwards[pos] # <<>>
          BY <3>2, <4>1
        <5> QED
          BY <1>5, <1>7, <4>1, <5>1
      <4> QED
        BY <1>7, <3>3, <4>1
    <3> QED
      BY <3>1, <3>2, <3>4
  <2> QED
    BY <1>2, <1>9, <2>1, <2>2, <2>3 DEF Linked
<1>11. \A n \in Nodes : n # pos => (Keeps(n)' <=> Keeps(n))
  <2>1. \A n \in Nodes : Passed(n)' <=> Passed(n)
    BY <1>2 DEF Passed, NumTasks, Doing
  <2> QED
    BY <1>2, <1>3, <1>9, <2>1 DEF Keeps, Nodes
<1>12. PICK q \in Nodes : q = pos
  BY <1>3
<1>12a. Keeps(q) /\ (Keeps(q)' <=> ~Constant(q))
  <2>1. (Passed(q)' <=> Passed(q)) /\ (Constant(q)' <=> Constant(q)) /\ pos \in Nat
    BY <1>2, <1>3 DEF Passed, NumTasks, Doing, Constant, Nodes
  <2>2. ~Constant(q) => ~Passed(q)
    BY <1>2, AtRest DEF Keeps
  <2> QED
    BY <1>2, <1>3, <1>12, <2>1, <2>2 DEF Keeps
<1>13. PICK b, mid : b = <<"unit", q>> /\ b = <<"unit", pos>> /\ mid = [Waiting EXCEPT ![b] = e]
  BY <1>12
<1>14. /\ b \in DOMAIN Waiting /\ DOMAIN Waiting = Places /\ DOMAIN mid = Places
       /\ mid[b] = e /\ Waiting[b] = forwards[pos] /\ Waiting[b] \in Seq(Callees)
       /\ \A p \in Places : p # b => mid[p] = Waiting[p]
  <2>1. b \in Places
    BY <1>3, <1>13 DEF Places
  <2> QED
    BY <1>3, <1>4, <1>12, <1>12a, <1>13, <2>1 DEF Waiting
<1>15. /\ \A u \in Nodes : Counts(mid, u, dependencies[u])
       /\ Counts(mid, Final, synchronizer')
  <2>1. CASE forwards[pos] = <<>>
    <3>1. /\ DOMAIN mid = DOMAIN Waiting /\ b \in DOMAIN Waiting /\ Waiting[b] \in Seq(Callees)
          /\ Final \in Callees /\ mid[b] = Append(Waiting[b], Final)
          /\ \A p \in DOMAIN Waiting : p # b => mid[p] = Waiting[p]
      BY <1>5, <1>14, <2>1 DEF Callees
    <3>2. ASSUME NEW u, NEW n, Counts(Waiting, u, n)
          PROVE  (u = Final => Counts(mid, u, n + 1)) /\ (u # Final => Counts(mid, u, n))
      BY <3>1, <3>2, CallAdded
    <3>3. \A u \in Nodes : u # Final
      BY DEF Nodes, Final
    <3> QED
      BY <1>1, <1>5, <2>1, <3>2, <3>3 DEF Counted
  <2>2. CASE forwards[pos] # <<>>
    <3>1. mid = Waiting
      BY <1>5, <1>13, <1>14, <2>2 DEF Waiting
    <3> QED
      BY <1>1, <1>5, <2>2, <3>1 DEF Counted
  <2> QED
    BY <2>1, <2>2
<1>16. PICK new, a : new = Waiting' /\ a = <<"thread", Main>>
  OBVIOUS
<1>17. /\ DOMAIN new = Places /\ a \in Places /\ a # b /\ new[a] = initial' /\ mid[a] = initial
       /\ new[b] = IF Constant(pos) THEN <<>> ELSE e
       /\ \A p \in Places : p # a /\ p # b => new[p] = mid[p]
  <2>1. a \in Places /\ a # b /\ b \in Places /\ DOMAIN new = Places
    BY <1>3, <1>13, <1>16 DEF Places, Threads, Waiting
  <2>2. new[a] = initial' /\ mid[a] = initial
    BY <1>2, <1>3, <1>14, <1>16, <2>1 DEF Waiting, CallsOf
  <2>3. new[b] = IF Constant(pos) THEN <<>> ELSE e
    <3>1. new[b] = IF Keeps(q)' THEN forwards'[q] ELSE <<>>
      BY <1>13, <1>16, <2>1 DEF Waiting
    <3> QED
      BY <1>7, <1>12, <1>12a, <3>1
  <2>4. ASSUME NEW p \in Places, p # a, p # b PROVE new[p] = Waiting[p]
    <3>1. CASE \E n \in Nodes : p = <<"unit", n>>
      <4>1. PICK n \in Nodes : p = <<"unit", n>> /\ n # pos
        BY <1>13, <2>4, <3>1
      <4> QED
        BY <1>7, <1>11, <1>16, <2>4, <4>1 DEF Waiting
    <3>2. CASE \E t \in Threads : p = <<"thread", t>>
      <4>1. PICK t \in Threads : p = <<"thread", t>> /\ t # Main
        BY <1>16, <2>4, <3>2
      <4> QED
        BY <1>2, <1>16, <2>4, <4>1 DEF Waiting, CallsOf
    <3> QED
      BY <2>4, <3>1, <3>2, PlacesAre
  <2> QED
    BY <1>14, <2>1, <2>2, <2>3, <2>4
<1>18. ASSUME NEW u, NEW n, Counts(mid, u, n) PROVE Counts(new, u, n)
  <2>1. CASE Constant(pos)
    <3>1. /\ DOMAIN new = DOMAIN mid /\ a \in DOMAIN mid /\ b \in DOMAIN mid /\ a # b
          /\ mid[a] \in Seq(Callees) /\ mid[b] \in Seq(Callees)
          /\ new[a] = mid[a] \o mid[b] /\ new[b] = <<>>
          /\ \A p \in DOMAIN mid : p # a /\ p # b => new[p] = mid[p]
      BY <1>2, <1>4, <1>6, <1>7, <1>14, <1>17, <2>1
    <3> QED
      BY <1>18, <3>1, CallsMoved
  <2>2. CASE ~Constant(pos)
    <3>1. \A p \in Places : new[p] = mid[p]
      BY <1>2, <1>14, <1>17, <2>2
    <3>2. Tokens(new, u) = Tokens(mid, u)
      BY <1>14, <1>17, <3>1 DEF Tokens
    <3> QED
      BY <1>18, <3>2 DEF Counts
  <2> QED
    BY <2>1, <2>2
<1>19. Counted'
  BY <1>2, <1>15, <1>16, <1>18, CountedIs
<1>20. ASSUME NEW v \in Nodes, kind[v] = "para" PROVE unfinished'[v] = NumTasks(v)
  <2>1. ended[v] = 0 /\ Doing("forward", v) = {} /\ NumTasks(v) \in Nat
    BY <1>2, AtRest, LoadParts
  <2>2. Cardinality(Doing("forward", v)) = 0
    BY <2>1, FS_EmptySet
  <2>3. unfinished[v] = NumTasks(v) - ended[v] + Cardinality(Doing("forward", v))
    BY <1>1, <1>9, <1>20 DEF ForwardedAt
  <2> QED
    BY <1>2, <2>1, <2>2, <2>3
<1>21. dependencies' \in [Nodes -> Nat] /\ unfinished' \in [Nodes -> Nat]
  BY <1>1, <1>2 DEF TypeOK
<1> QED
  BY <1>2, <1>3, <1>7, <1>8, <1>10, <1>19, <1>20, <1>21, BuildKeeps

Copies(n, x) == [i \in 1..n |-> x]

LEMMA Repeated ==
  ASSUME NEW S, NEW f \in Seq(S), NEW x \in S
  PROVE  /\ f \o Copies(0, x) = f
         /\ f \o Copies(1, x) = Append(f, x)
         /\ f \o Copies(2, x) = Append(Append(f, x), x)
<1>1. PICK g : g = Copies(0, x)
  OBVIOUS
<1>2. PICK h : h = Copies(1, x)
  OBVIOUS
<1>3. PICK k : k = Copies(2, x)
  OBVIOUS
<1>4. g \in Seq(S) /\ Len(g) = 0 /\ h \in Seq(S) /\ Len(h) = 1 /\ h[1] = x
      /\ k \in Seq(S) /\ Len(k) = 2 /\ k[1] = x /\ k[2] = x
  BY <1>1, <1>2, <1>3 DEF Copies
<1>5. f \o g = f
  BY <1>4
<1>6. f \o h = Append(f, x)
  <2>1. /\ f \o h \in Seq(S) /\ Len(f \o h) = Len(f) + 1 /\ (f \o h)[Len(f) + 1] = x
        /\ \A i \in 1..Len(f) : (f \o h)[i] = f[i]
    <3>1. /\ f \o h \in Seq(S) /\ Len(f \o h) = Len(f) + 1 /\ Len(f) \in Nat
          /\ \A i \in 1..(Len(f) + 1) :
               (f \o h)[i] = IF i <= Len(f) THEN f[i] ELSE h[i - Len(f)]
      <4>1. h \in Seq(S) /\ Len(h) = 1 /\ Len(f) \in Nat
        BY <1>4
      <4>2. /\ f \o h \in Seq(S) /\ Len(f \o h) = Len(f) + Len(h)
            /\ \A i \in 1..Len(f) + Len(h) :
                 (f \o h)[i] = IF i <= Len(f) THEN f[i] ELSE h[i - Len(f)]
        BY <4>1, ConcatProperties
      <4> QED
        BY <4>1, <4>2
    <3> QED
      BY <1>4, <3>1
  <2>2. /\ Append(f, x) \in Seq(S) /\ Len(Append(f, x)) = Len(f) + 1
        /\ Append(f, x)[Len(f) + 1] = x /\ \A i \in 1..Len(f) : Append(f, x)[i] = f[i]
    OBVIOUS
  <2>3. \A i \in 1..(Len(f) + 1) : (f \o h)[i] = Append(f, x)[i]
    BY <2>1, <2>2
  <2> QED
    BY <2>1, <2>2, <2>3, SeqEqual
<1>7. f \o k = Append(Append(f, x), x)
  <2>1. PICK a : a = Append(f, x)
    OBVIOUS
  <2>2. /\ a \in Seq(S) /\ Len(a) = Len(f) + 1 /\ a[Len(f) + 1] = x
        /\ \A i \in 1..Len(f) : a[i] = f[i]
    BY <2>1
  <2>3. /\ Append(a, x) \in Seq(S) /\ Len(Append(a, x)) = Len(f) + 2
        /\ Append(a, x)[Len(f) + 2] = x /\ Append(a, x)[Len(f) + 1] = x
        /\ \A i \in 1..Len(f) : Append(a, x)[i] = f[i]
    BY <2>2
  <2>4. /\ f \o k \in Seq(S) /\ Len(f \o k) = Len(f) + 2
        /\ (f \o k)[Len(f) + 2] = x /\ (f \o k)[Len(f) + 1] = x
        /\ \A i \in 1..Len(f) : (f \o k)[i] = f[i]
    <3>1. /\ f \o k \in Seq(S) /\ Len(f \o k) = Len(f) + 2 /\ Len(f) \in Nat
          /\ \A i \in 1..(Len(f) + 2) :
               (f \o k)[i] = IF i <= Len(f) THEN f[i] ELSE k[i - Len(f)]
      <4>1. k \in Seq(S) /\ Len(k) = 2 /\ Len(f) \in Nat
        BY <1>4
      <4>2. /\ f \o k \in Seq(S) /\ Len(f \o k) = Len(f) + Len(k)
            /\ \A i \in 1..Len(f) + Len(k) :
                 (f \o k)[i] = IF i <= Len(f) THEN f[i] ELSE k[i - Len(f)]
        BY <4>1, ConcatProperties
      <4> QED
        BY <4>1, <4>2
    <3> QED
      BY <1>4, <3>1
  <2>5. \A i \in 1..(Len(f) + 2) : (f \o k)[i] = Append(a, x)[i]
    BY <2>3, <2>4
  <2> QED
    BY <2>1, <2>3, <2>4, <2>5, SeqEqual
<1> QED
  BY <1>1, <1>2, <1>3, <1>5, <1>6, <1>7

\* add_dependency() on each operand adds a call of the unit there.
LEMMA Forwards ==
  ASSUME FlowInv, Generate
  PROVE  /\ operands[pos] = <<>> => forwards' = forwards
         /\ \A a, b \in Nodes : operands[pos] = <<a, b>> =>
              \E f : /\ f = [forwards EXCEPT ![a] = Append(forwards[a], pos)]
                     /\ forwards' = [f EXCEPT ![b] = Append(f[b], pos)]
<1>1. TypeOK
  BY FlowParts
<1>2. PICK q : q = pos
  OBVIOUS
<1>3. q \in Callees /\ q \in Nodes /\ forwards \in [Nodes -> Seq(Callees)]
  BY <1>1, <1>2 DEF TypeOK, Callees
<1> DEFINE uses(n) == {i \in DOMAIN operands[q] : operands[q][i] = n}
<1>4. forwards' = [n \in Nodes |-> forwards[n] \o Copies(Cardinality(uses(n)), q)]
  BY <1>2 DEF Generate, Copies
<1>5. ASSUME operands[q] = <<>> PROVE forwards' = forwards
  <2>1. ASSUME NEW n \in Nodes PROVE forwards'[n] = forwards[n]
    <3>1. uses(n) = {}
      BY <1>5
    <3>2. Cardinality(uses(n)) = 0
      BY <3>1, FS_EmptySet
    <3>3. forwards'[n] = forwards[n] \o Copies(Cardinality(uses(n)), q)
      BY <1>4
    <3> QED
      BY <1>3, <3>2, <3>3, Repeated
  <2> QED
    BY <1>3, <1>4, <2>1
<1>6. ASSUME NEW a \in Nodes, NEW b \in Nodes, operands[q] = <<a, b>>
      PROVE  \E f : /\ f = [forwards EXCEPT ![a] = Append(forwards[a], q)]
                    /\ forwards' = [f EXCEPT ![b] = Append(f[b], q)]
  <2>1. PICK f : f = [forwards EXCEPT ![a] = Append(forwards[a], q)]
    OBVIOUS
  <2>2. f \in [Nodes -> Seq(Callees)] /\ f[a] = Append(forwards[a], q)
        /\ \A n \in Nodes : n # a => f[n] = forwards[n]
    BY <1>3, <2>1
  <2>3. DOMAIN operands[q] = {1, 2} /\ operands[q][1] = a /\ operands[q][2] = b
    BY <1>6
  <2>4. ASSUME NEW n \in Nodes
        PROVE  forwards'[n] = [f EXCEPT ![b] = Append(f[b], q)][n]
    <3>1. forwards'[n] = forwards[n] \o Copies(Cardinality(uses(n)), q)
      BY <1>4
    <3>2. CASE n = a /\ n = b
      <4>1. uses(n) = {1, 2}
        BY <2>3, <3>2
      <4>2. Cardinality({1} \cup {2}) = 2 /\ {1, 2} = {1} \cup {2}
        <5>1. IsFiniteSet({1}) /\ Cardinality({1}) = 1
          BY FS_Singleton, Zenon
        <5>2. 2 \notin {1}
          OBVIOUS
        <5>3. Cardinality({1} \cup {2}) = Cardinality({1}) + 1
          BY <5>1, <5>2, OneMore
        <5> QED
          BY <5>1, <5>3
      <4>3. Cardinality(uses(n)) = 2
        BY <4>1, <4>2
      <4>4. forwards'[n] = Append(Append(forwards[n], q), q)
        <5>1. forwards[n] \in Seq(Callees) /\ q \in Callees
          BY <1>3
        <5>2. forwards[n] \o Copies(2, q) = Append(Append(forwards[n], q), q)
          BY <5>1, Repeated
        <5> QED
          BY <3>1, <4>3, <5>2
      <4> QED
        BY <2>2, <3>2, <4>4
    <3>3. CASE n = a /\ n # b
      <4>1. uses(n) = {1}
        BY <2>3, <3>3
      <4>2. Cardinality(uses(n)) = 1
        BY <4>1, FS_Singleton
      <4>3. forwards'[n] = Append(forwards[n], q)
        BY <1>3, <3>1, <4>2, Repeated
      <4> QED
        BY <2>2, <3>3, <4>3
    <3>4. CASE n # a /\ n = b
      <4>1. uses(n) = {2}
        BY <2>3, <3>4
      <4>2. Cardinality(uses(n)) = 1
        BY <4>1, FS_Singleton
      <4>3. forwards'[n] = Append(forwards[n], q)
        BY <1>3, <3>1, <4>2, Repeated
      <4> QED
        BY <2>2, <3>4, <4>3
    <3>5. CASE n # a /\ n # b
      <4>1. uses(n) = {}
        BY <2>3, <3>5
      <4>2. Cardinality(uses(n)) = 0
        BY <4>1, FS_EmptySet
      <4>3. forwards'[n] = forwards[n]
        BY <1>3, <3>1, <4>2, Repeated
      <4> QED
        BY <2>2, <3>5, <4>3
    <3> QED
      BY <3>2, <3>3, <3>4, <3>5
  <2>5. forwards' = [f EXCEPT ![b] = Append(f[b], q)]
    <3>1. DOMAIN forwards' = Nodes
      BY <1>4
    <3>2. [f EXCEPT ![b] = Append(f[b], q)] \in [Nodes -> Seq(Callees)]
      BY <1>3, <2>2
    <3>3. forwards' = [n \in Nodes |-> forwards'[n]]
      BY <1>4
    <3> QED
      BY <2>4, <3>2, <3>3
  <2> QED
    BY <2>1, <2>5
<1> QED
  BY <1>2, <1>5, <1>6

\* Arithmetic.cpp, lines 94-103: the operands of a node get a call each, and the node's
\* counter their number.
LEMMA GenerateKeeps ==
  ASSUME FlowInv, Generate
  PROVE  FlowInv'
<1>1. TypeOK /\ Matched /\ Phases /\ Linked /\ Counted /\ \A u \in Nodes : ForwardedAt(u)
  BY FlowParts
<1>2. /\ pc = "generate" /\ pc \in Early /\ Advance("collect")
      /\ dependencies' = [dependencies EXCEPT ![pos] = Len(operands[pos])]
      /\ unfinished' = [unfinished EXCEPT ![pos] = NumTasks(pos)]
      /\ UNCHANGED <<operands, kind, synchronizer, initial, queued, stack, passed, ended, lost>>
  BY DEF Generate, Early, graph
<1>3. /\ pos' \in Nodes /\ pc' \in {"generate", "collect"} /\ pc' \in Early
      /\ \/ pc' = "generate" /\ pos' = pos + 1
         \/ pc' = "collect" /\ pos' = 1 /\ pos = NumNodes
  BY <1>1, <1>2, Advances DEF Early
<1>4. PICK q \in Nodes : q = pos
  BY <1>1 DEF TypeOK
<1>5. /\ forwards \in [Nodes -> Seq(Callees)] /\ initial \in Seq(Callees) /\ synchronizer \in Nat
      /\ dependencies \in [Nodes -> Nat] /\ unfinished \in [Nodes -> Nat] /\ NumTasks(q) \in Nat
  BY <1>1, NumTasksIs DEF TypeOK, Callees
<1>6. forwards[q] = <<>> /\ dependencies[q] = 0
  BY <1>1, <1>2, <1>4 DEF Linked, Generated, Nodes
<1>7. \A n \in Nodes : /\ (Generated(n) <=> n < q) /\ (Generated(n)' <=> n <= q)
                       /\ ~Collected(n)' /\ (Constant(n)' <=> Constant(n))
                       /\ Keeps(n) /\ Keeps(n)'
  <2>1. ASSUME NEW n \in Nodes
        PROVE  (Generated(n) <=> n < q) /\ (Generated(n)' <=> n <= q) /\ ~Collected(n)'
    BY <1>2, <1>3, <1>4, PipelineAssumption DEF Generated, Collected, Nodes
  <2>2. ASSUME NEW n \in Nodes PROVE Keeps(n) /\ Keeps(n)' /\ (Constant(n)' <=> Constant(n))
    <3>1. (Passed(n)' <=> Passed(n)) /\ (Constant(n)' <=> Constant(n))
      BY <1>2 DEF Passed, NumTasks, Doing, Constant
    <3>2. ~Constant(n) => ~Passed(n)
      BY <1>2, AtRest DEF Keeps
    <3> QED
      BY <1>2, <1>3, <3>1, <3>2 DEF Keeps, Nodes
  <2> QED
    BY <2>1, <2>2
<1>8. /\ dependencies'[q] = Len(operands[q]) /\ \A n \in Nodes : n # q => dependencies'[n] = dependencies[n]
      /\ unfinished'[q] = NumTasks(q) /\ \A n \in Nodes : n # q => unfinished'[n] = unfinished[n]
  BY <1>2, <1>4, <1>5
<1>9. ASSUME NEW v \in Nodes, kind[v] = "para", Generated(v)' PROVE unfinished'[v] = NumTasks(v)
  <2>1. ended[v] = 0 /\ Doing("forward", v) = {} /\ NumTasks(v) \in Nat
    BY <1>2, AtRest, LoadParts
  <2>2. Cardinality(Doing("forward", v)) = 0
    BY <2>1, FS_EmptySet
  <2>3. Generated(v) =>
          unfinished[v] = NumTasks(v) - ended[v] + Cardinality(Doing("forward", v))
    BY <1>1, <1>9 DEF ForwardedAt
  <2>4. v = q \/ Generated(v)
    BY <1>7, <1>9 DEF Nodes
  <2> QED
    BY <1>8, <2>1, <2>2, <2>3, <2>4, <1>7 DEF Nodes
<1>10. Callable(initial)'
  BY <1>1, <1>2 DEF Phases, Callable, Constant
<1>11. DOMAIN Waiting = Places /\ DOMAIN Waiting' = Places
       /\ \A n \in Nodes : /\ <<"unit", n>> \in Places /\ Waiting[<<"unit", n>>] = forwards[n]
                           /\ Waiting'[<<"unit", n>>] = forwards'[n]
       /\ \A t \in Threads : Waiting'[<<"thread", t>>] = Waiting[<<"thread", t>>]
  <2>1. \A n \in Nodes : /\ <<"unit", n>> \in Places /\ Waiting[<<"unit", n>>] = forwards[n]
                         /\ Waiting'[<<"unit", n>>] = forwards'[n]
    BY <1>7 DEF Waiting, Places
  <2>2. \A t \in Threads : /\ <<"thread", t>> \in Places /\ CallsOf(t)' = CallsOf(t)
                           /\ Waiting[<<"thread", t>>] = CallsOf(t)
                           /\ Waiting'[<<"thread", t>>] = CallsOf(t)'
    BY <1>2, <1>3 DEF Waiting, Places, CallsOf
  <2> QED
    BY <2>1, <2>2 DEF Waiting
<1>12. CASE operands[q] = <<>>
  <2>1. forwards' = forwards /\ Len(operands[q]) = 0
    BY <1>4, <1>12, Forwards
  <2>2. dependencies' = dependencies
    BY <1>2, <1>4, <1>5, <1>6, <2>1
  <2>3. \A p \in Places : Waiting'[p] = Waiting[p]
    <3> SUFFICES ASSUME NEW p \in Places PROVE Waiting'[p] = Waiting[p]
      OBVIOUS
    <3>1. CASE \E n \in Nodes : p = <<"unit", n>>
      BY <1>11, <2>1, <3>1
    <3>2. CASE \E t \in Threads : p = <<"thread", t>>
      BY <1>11, <3>2
    <3> QED
      BY <3>1, <3>2, PlacesAre
  <2>4. Waiting' = Waiting
    BY <2>3 DEF Waiting
  <2>5. Counted'
    BY <1>1, <1>2, <2>2, <2>4, CountedIs DEF Counted
  <2>6. Linked'
    <3>1. ASSUME NEW n \in Nodes PROVE Callable(forwards[n])' <=> Callable(forwards[n])
      BY <1>2, <2>1 DEF Callable, Constant
    <3>2. ASSUME NEW n \in Nodes, ~Generated(n)' PROVE ~Generated(n)
      BY <1>7, <3>2 DEF Nodes
    <3>3. ASSUME NEW n \in Nodes, Generated(n)', Len(operands[n]) # 0 PROVE Generated(n)
      BY <1>7, <2>1, <3>3 DEF Nodes
    <3>4. ASSUME NEW n \in Nodes, Generated(n)', NEW i \in 1..Len(operands[n])
          PROVE  \E k \in 1..Len(forwards[operands[n][i]]) : forwards[operands[n][i]][k] = n
      <4>1. Generated(n)
        BY <1>1, <3>3, <3>4, OperandsAre
      <4> QED
        BY <1>1, <3>4, <4>1 DEF Linked
    <3> QED
      BY <1>1, <1>2, <1>7, <2>1, <2>2, <3>1, <3>2, <3>4 DEF Linked
  <2>7. dependencies' \in [Nodes -> Nat] /\ unfinished' \in [Nodes -> Nat]
    BY <1>2, <1>4, <1>5, <2>2
  <2> QED
    BY <1>2, <1>3, <1>5, <1>9, <1>10, <2>1, <2>5, <2>6, <2>7, BuildKeeps
<1>13. CASE operands[q] # <<>>
  <2>1. PICK a, b \in Nodes : /\ operands[q] = <<a, b>> /\ a < q /\ b < q
                              /\ Len(operands[q]) = 2 /\ operands[q][1] = a /\ operands[q][2] = b
    BY <1>1, <1>13, OperandsAre
  <2>2. PICK f : /\ f = [forwards EXCEPT ![a] = Append(forwards[a], q)]
                 /\ forwards' = [f EXCEPT ![b] = Append(f[b], q)]
    BY <1>4, <2>1, Forwards
  <2>3. q \in Callees /\ q # Final
    BY DEF Callees, Nodes, Final
  <2>4. /\ f \in [Nodes -> Seq(Callees)] /\ f[a] = Append(forwards[a], q)
        /\ \A n \in Nodes : n # a => f[n] = forwards[n]
        /\ forwards' \in [Nodes -> Seq(Callees)] /\ forwards'[b] = Append(f[b], q)
        /\ \A n \in Nodes : n # b => forwards'[n] = f[n]
    <3>1. Append(forwards[a], q) \in Seq(Callees)
      BY <1>5, <2>3
    <3>2. /\ f \in [Nodes -> Seq(Callees)] /\ f[a] = Append(forwards[a], q)
          /\ \A n \in Nodes : n # a => f[n] = forwards[n]
      BY <1>5, <2>2, <3>1
    <3>3. Append(f[b], q) \in Seq(Callees)
      BY <2>3, <3>2
    <3> QED
      BY <2>2, <3>2, <3>3
  <2>5. Counted'
    <3>1. PICK ha, hb, mid, new :
            /\ ha = <<"unit", a>> /\ hb = <<"unit", b>> /\ new = Waiting'
            /\ mid = [Waiting EXCEPT ![ha] = Append(Waiting[ha], q)]
      OBVIOUS
    <3>2. /\ DOMAIN mid = DOMAIN Waiting /\ ha \in DOMAIN Waiting /\ Waiting[ha] \in Seq(Callees)
          /\ mid[ha] = Append(Waiting[ha], q)
          /\ \A p \in DOMAIN Waiting : p # ha => mid[p] = Waiting[p]
      BY <1>5, <1>11, <2>1, <3>1
    <3>3. \A n \in Nodes : mid[<<"unit", n>>] = f[n]
      BY <1>11, <2>4, <3>1, <3>2
    <3>4. /\ DOMAIN new = DOMAIN mid /\ hb \in DOMAIN mid /\ mid[hb] \in Seq(Callees)
          /\ new[hb] = Append(mid[hb], q)
      <4>1. hb \in Places /\ mid[hb] = f[b] /\ new[hb] = forwards'[b]
        BY <1>11, <3>1, <3>3
      <4>2. f[b] \in Seq(Callees) /\ forwards'[b] = Append(f[b], q)
        BY <2>4
      <4> QED
        BY <1>11, <3>1, <3>2, <4>1, <4>2
    <3>5. ASSUME NEW p \in DOMAIN mid, p # hb PROVE new[p] = mid[p]
      <4>1. p \in Places
        BY <1>11, <3>2, <3>5
      <4>2. CASE \E n \in Nodes : p = <<"unit", n>>
        BY <1>11, <2>4, <3>1, <3>3, <3>5, <4>2
      <4>3. CASE \E t \in Threads : p = <<"thread", t>>
        BY <1>11, <3>1, <3>2, <4>1, <4>3
      <4> QED
        BY <4>1, <4>2, <4>3, PlacesAre
    <3>6. ASSUME NEW u, NEW n, Counts(Waiting, u, n)
          PROVE  (u = q => Counts(mid, u, n + 1)) /\ (u # q => Counts(mid, u, n))
      BY <2>3, <3>2, <3>6, CallAdded
    <3>7. ASSUME NEW u, NEW n, Counts(mid, u, n)
          PROVE  (u = q => Counts(new, u, n + 1)) /\ (u # q => Counts(new, u, n))
      BY <2>3, <3>4, <3>5, <3>7, CallAdded
    <3>8. Counts(Waiting, q, 0)
      BY <1>1, <1>6 DEF Counted
    <3>9. Counts(new, q, 2)
      <4>1. Counts(mid, q, 0 + 1)
        BY <3>6, <3>8
      <4>2. Counts(new, q, 0 + 1 + 1)
        BY <3>7, <4>1
      <4>3. 0 + 1 + 1 = 2
        OBVIOUS
      <4> QED
        BY <4>2, <4>3
    <3>10. ASSUME NEW u \in Nodes PROVE Counts(new, u, dependencies'[u])
      <4>1. CASE u = q
        BY <1>8, <2>1, <3>9, <4>1
      <4>2. CASE u # q
        BY <1>1, <1>8, <3>6, <3>7, <4>2 DEF Counted
      <4> QED
        BY <4>1, <4>2
    <3>11. Counts(new, Final, synchronizer')
      BY <1>1, <1>2, <2>3, <3>6, <3>7 DEF Counted
    <3> QED
      BY <3>1, <3>10, <3>11, CountedIs
  <2>6. ASSUME NEW n \in Nodes
        PROVE  /\ Len(forwards[n]) \in Nat /\ Len(forwards'[n]) >= Len(forwards[n])
               /\ \A i \in 1..Len(forwards[n]) : forwards'[n][i] = forwards[n][i]
               /\ \A i \in 1..Len(forwards'[n]) :
                    \/ i \in 1..Len(forwards[n])
                    \/ forwards'[n][i] = q /\ n < q
               /\ n = a \/ n = b => \E k \in 1..Len(forwards'[n]) : forwards'[n][k] = q
               /\ n # a /\ n # b => forwards'[n] = forwards[n]
    <3>1. forwards[n] \in Seq(Callees) /\ f[n] \in Seq(Callees) /\ forwards'[n] \in Seq(Callees)
          /\ Len(forwards[n]) \in Nat
      BY <1>5, <2>4
    <3>2. \/ f[n] = forwards[n] /\ n # a
          \/ n = a /\ f[n] = Append(forwards[n], q) /\ n < q
      BY <2>1, <2>4
    <3>3. \/ forwards'[n] = f[n] /\ n # b
          \/ n = b /\ forwards'[n] = Append(f[n], q) /\ n < q
      BY <2>1, <2>4
    <3>4. /\ Len(f[n]) \in Nat /\ Len(f[n]) >= Len(forwards[n])
          /\ \A i \in 1..Len(forwards[n]) : f[n][i] = forwards[n][i]
          /\ \A i \in 1..Len(f[n]) : i \in 1..Len(forwards[n]) \/ (f[n][i] = q /\ n < q)
          /\ n = a => \E k \in 1..Len(f[n]) : f[n][k] = q
      BY <3>1, <3>2
    <3>5. /\ Len(forwards'[n]) \in Nat /\ Len(forwards'[n]) >= Len(f[n])
          /\ \A i \in 1..Len(f[n]) : forwards'[n][i] = f[n][i]
          /\ \A i \in 1..Len(forwards'[n]) : i \in 1..Len(f[n]) \/ (forwards'[n][i] = q /\ n < q)
          /\ n = b => \E k \in 1..Len(forwards'[n]) : forwards'[n][k] = q
      BY <3>1, <3>3
    <3> QED
      BY <3>1, <3>2, <3>3, <3>4, <3>5
  <2>7. Linked'
    <3>1. ASSUME NEW n \in Nodes PROVE Callable(forwards[n])'
      BY <1>1, <1>2, <1>13, <2>6 DEF Linked, Callable, Constant
    <3>2. ASSUME NEW n \in Nodes, NEW i \in 1..Len(forwards'[n])
          PROVE  forwards'[n][i] = Final \/ forwards'[n][i] > n
      BY <1>1, <2>6, <3>2 DEF Linked, Nodes
    <3>3. ASSUME NEW n \in Nodes, Generated(n)', NEW i \in 1..Len(operands[n])
          PROVE  \E k \in 1..Len(forwards'[operands[n][i]]) : forwards'[operands[n][i]][k] = n
      <4>1. operands[n][i] \in Nodes
        BY <1>1, <3>3, OperandsAre
      <4>2. PICK m \in Nodes : m = operands[n][i]
        BY <4>1
      <4>3. CASE n = q
        <5>1. i \in 1..2
          BY <2>1, <3>3, <4>3
        <5>2. m = a \/ m = b
          BY <2>1, <4>2, <4>3, <5>1
        <5> QED
          BY <2>6, <4>2, <4>3, <5>2
      <4>4. CASE n # q
        <5>1. Generated(n)
          BY <1>7, <3>3, <4>4 DEF Nodes
        <5>2. PICK k \in 1..Len(forwards[m]) : forwards[m][k] = n
          BY <1>1, <3>3, <4>2, <5>1 DEF Linked
        <5>3. k \in 1..Len(forwards'[m]) /\ forwards'[m][k] = n
          <6>1. Len(forwards[m]) \in Nat /\ Len(forwards'[m]) >= Len(forwards[m])
                /\ forwards'[m][k] = forwards[m][k] /\ Len(forwards'[m]) \in Nat
            <7>1. forwards'[m] \in Seq(Callees) /\ m \in Nodes
              BY <2>4, <4>2
            <7>2. Len(forwards[m]) \in Nat /\ Len(forwards'[m]) >= Len(forwards[m])
                  /\ \A j \in 1..Len(forwards[m]) : forwards'[m][j] = forwards[m][j]
              BY <2>6, <7>1
            <7> QED
              BY <5>2, <7>1, <7>2
          <6> QED
            BY <5>2, <6>1
        <5> QED
          BY <4>2, <5>3
      <4> QED
        BY <4>3, <4>4
    <3>4. ASSUME NEW n \in Nodes, ~Generated(n)' PROVE forwards'[n] = <<>> /\ dependencies'[n] = 0
      <4>1. n > q /\ ~Generated(n)
        BY <1>7, <3>4 DEF Nodes
      <4>2. n # a /\ n # b /\ n # q
        BY <2>1, <4>1 DEF Nodes
      <4> QED
        BY <1>1, <1>8, <2>6, <4>1, <4>2 DEF Linked
    <3> QED
      BY <1>2, <1>7, <3>1, <3>2, <3>3, <3>4 DEF Linked
  <2>8. dependencies' \in [Nodes -> Nat] /\ unfinished' \in [Nodes -> Nat]
    BY <1>2, <1>4, <1>5, <2>1
  <2> QED
    BY <1>2, <1>3, <1>5, <1>9, <1>10, <2>4, <2>5, <2>7, <2>8, BuildKeeps
<1> QED
  BY <1>12, <1>13

-----------------------------------------------------------------------------
(* The invariant                                                           *)

LEMMA FlowInit == Init => FlowInv
<1> SUFFICES ASSUME Init PROVE FlowInv
  OBVIOUS
<1>1. /\ operands \in Graphs /\ kind \in [Nodes -> {"basic", "mono", "para"}]
      /\ pos = 1 /\ 1 \in Nodes /\ pc = "generate" /\ pc \in Early
      /\ \A t \in Threads : stack[t] = <<>>
      /\ \A n \in Nodes : /\ forwards[n] = <<>> /\ dependencies[n] = 0 /\ unfinished[n] = 0
                          /\ queued[n] = 0 /\ ended[n] = 0
      /\ initial = <<>> /\ synchronizer = 0
  <2>1. 1 \in Nodes /\ pc \in Early /\ pos = 1 /\ pc = "generate" /\ operands \in Graphs
        /\ initial = <<>> /\ synchronizer = 0
    BY PipelineAssumption DEF Init, Nodes, Early
  <2>2. kind \in [Nodes -> {"basic", "mono", "para"}]
    BY PipelineAssumption DEF Init
  <2>3. \A t \in Threads : stack[t] = <<>>
    BY DEF Init
  <2>4. \A n \in Nodes : /\ forwards[n] = <<>> /\ dependencies[n] = 0 /\ unfinished[n] = 0
                         /\ queued[n] = 0 /\ ended[n] = 0
    BY DEF Init
  <2> QED
    BY <2>1, <2>2, <2>3, <2>4
<1>2. TypeOK
  <2>1. <<>> \in Seq(Nodes \cup {Final}) /\ <<>> \in Seq(Frames) /\ 0 \in Nat
    OBVIOUS
  <2> QED
    BY <1>1, <2>1 DEF TypeOK, Init
<1>3. Matched
  BY DEF Init, Matched
<1>4. Shape
  <2>1. ASSUME NEW t \in Threads PROVE Fit(t, stack[t])
    <3>1. Left(t, <<>>, FALSE)
      BY DEF Left, Callable
    <3> QED
      BY <1>1, <3>1 DEF Fit, Rest
  <2> QED
    BY <2>1 DEF Shape
<1>5. Phases
  BY <1>1 DEF Init, Phases, Callable, Early
<1>6. Linked
  BY <1>1 DEF Linked, Callable, Collected, Generated, Nodes
<1>7. Counted
  <2>1. ASSUME NEW p \in Places PROVE Waiting[p] = <<>>
    <3>1. CASE \E n \in Nodes : p = <<"unit", n>>
      BY <1>1, <3>1 DEF Waiting
    <3>2. CASE \E t \in Threads : p = <<"thread", t>>
      BY <1>1, <3>2 DEF Waiting, CallsOf, CallsIn
    <3> QED
      BY <3>1, <3>2, PlacesAre
  <2>2. ASSUME NEW u PROVE Tokens(Waiting, u) = {}
    <3>1. DOMAIN Waiting = Places /\ \A p \in Places : Len(Waiting[p]) = 0
      BY <2>1 DEF Waiting
    <3> QED
      BY <3>1 DEF Tokens
  <2>3. ASSUME NEW u PROVE Counts(Waiting, u, 0)
    BY <2>2, FS_EmptySet DEF Counts
  <2> QED
    BY <1>1, <2>3 DEF Counted
<1>8. ASSUME NEW u \in Nodes PROVE OnceAt(u) /\ ForwardedAt(u)
  <2>1. \A op : Doing(op, u) = {}
    BY <1>1 DEF Doing, At
  <2>2. IsFiniteSet({}) /\ Cardinality({}) = 0
    BY FS_EmptySet
  <2>3. Cardinality(Doing("body", u)) = 0 /\ Cardinality(Doing("forward", u)) = 0
        /\ IsFiniteSet(Doing("body", u)) /\ IsFiniteSet(Doing("forward", u))
    BY <2>1, <2>2
  <2>4. Load(u) = 0 /\ NumTasks(u) \in Nat
    BY <1>1, <1>2, <1>3, <2>3, NumTasksIs DEF Load
  <2>5. OnceAt(u)
    BY <1>1, <2>1, <2>3, <2>4 DEF OnceAt
  <2>6. ForwardedAt(u)
    BY <1>1, <2>3 DEF ForwardedAt, Generated, Nodes
  <2> QED
    BY <2>5, <2>6
<1> QED
  BY <1>2, <1>3, <1>4, <1>5, <1>6, <1>7, <1>8 DEF FlowInv, Once, Forwarded

LEMMA RunKeeps ==
  ASSUME FlowInv, NEW t \in Threads, Run(t)
  PROVE  FlowInv'
BY NoticeDependencyKeeps, CountDownKeeps, NotifyMainKeeps, ActivateKeeps, EndBodyKeeps,
   ForwardMonoKeeps, ForwardParaKeeps DEF Run

LEMMA FlowNext == FlowInv /\ [Next]_vars => FlowInv'
<1> SUFFICES ASSUME FlowInv, [Next]_vars PROVE FlowInv'
  OBVIOUS
<1>1. ASSUME NEW w \in Workers, Run(w) \/ Served(w) PROVE FlowInv'
  BY <1>1, RunKeeps, SubmitKeeps, TakeKeeps, ShutdownKeeps DEF Served, Threads
<1>2. ASSUME NEW w \in Workers, Throw(w) PROVE FlowInv'
  BY <1>2, ThrowKeeps
<1>3. CASE MainStep
  BY <1>3, GenerateKeeps, CollectKeeps, StartKeeps, RunKeeps, WaitKeeps, ShutdownKeeps
     DEF MainStep, Threads
<1>4. CASE Submit(Main) \/ SpuriousWake
  BY <1>4, SubmitKeeps, WaitKeeps DEF Threads
<1>5. CASE UNCHANGED vars
  <2>1. /\ TypeOK /\ Matched /\ Shape /\ Phases /\ Linked /\ Counted
        /\ \A u \in Nodes : OnceAt(u) /\ ForwardedAt(u)
    BY FlowParts
  <2>2. UNCHANGED <<operands, kind, forwards, dependencies, unfinished, synchronizer, initial,
                    queued, stack, pc, pos, passed, ended, lost>>
    BY <1>5 DEF vars
  <2>3. TypeOK' /\ Matched' /\ Phases' /\ Linked'
    BY <2>1, <2>2 DEF TypeOK, Matched, Constant, Phases, Callable, Linked, Generated, Collected
  <2>4. Shape'
    BY <2>1, <2>2, ShapeSame
  <2>5. \A op, u : Doing(op, u)' = Doing(op, u)
    BY <2>2 DEF Doing, At
  <2>6. ASSUME NEW u \in Nodes PROVE OnceAt(u)' /\ ForwardedAt(u)'
    <3>1. NumTasks(u)' = NumTasks(u) /\ Load(u)' = Load(u) /\ (Generated(u)' <=> Generated(u))
      BY <2>2, <2>5 DEF NumTasks, Load, Generated
    <3> QED
      BY <2>1, <2>2, <2>5, <3>1 DEF OnceAt, ForwardedAt, Top
  <2>7. Waiting' = Waiting
    <3>1. ASSUME NEW n \in Nodes PROVE Keeps(n)' <=> Keeps(n)
      BY <2>2, <2>5 DEF Keeps, Passed, NumTasks, Constant
    <3>2. ASSUME NEW t \in Threads PROVE CallsOf(t)' = CallsOf(t)
      BY <2>2 DEF CallsOf
    <3>3. ASSUME NEW p \in Places PROVE Waiting'[p] = Waiting[p]
      <4>1. CASE \E n \in Nodes : p = <<"unit", n>>
        <5>1. PICK n \in Nodes : p = <<"unit", n>>
          BY <4>1
        <5> QED
          BY <2>2, <3>1, <3>3, <5>1 DEF Waiting
      <4>2. CASE \E t \in Threads : p = <<"thread", t>>
        <5>1. PICK t \in Threads : p = <<"thread", t>>
          BY <4>2
        <5> QED
          BY <3>2, <3>3, <5>1 DEF Waiting
      <4> QED
        BY <3>3, <4>1, <4>2, PlacesAre
    <3> QED
      BY <3>3 DEF Waiting
  <2>8. Counted'
    BY <2>1, <2>2, <2>7, CountedIs DEF Counted
  <2> QED
    BY <2>3, <2>4, <2>6, <2>8 DEF FlowInv, Once, Forwarded
<1> QED
  BY <1>1, <1>2, <1>3, <1>4, <1>5 DEF Next

\* In every state each call that a counter waits for is in exactly one place, with
\* the unit that will make it or with a thread, and the tasks of a unit exist only
\* when no call for it is left (Basics.h, lines 150-275).
THEOREM FlowAlways == Spec => []FlowInv
BY FlowInit, FlowNext, PTL DEF Spec

\* No counter of a unit is decremented more often than it was incremented, so that
\* none wraps, and threads hold only calls, tasks and notices of this graph.
THEOREM PipelineTypes == Spec => []TypeOK
<1>1. FlowInv => TypeOK
  BY FlowParts
<1> QED
  BY <1>1, FlowAlways, PTL


-----------------------------------------------------------------------------
(* What is left when the wait has ended                                    *)

\* When Main leaves its wait no call is left to a unit or to the counter: a thread
\* may still send the notification, or activate an executor whose task is over
\* (TaskHandler.cpp, lines 174-176). When shutdown() returns, having passed the
\* workers one by one, nobody is in the middle of anything: the locals of
\* await_pipeline_accomplish() and the units can be destroyed (integer.cpp, lines
\* 176-193).
THEOREM NoticesOnly == Spec => []OnlyNoticesLeft
<1>1. FlowInv => OnlyNoticesLeft
  <2> SUFFICES ASSUME FlowInv PROVE OnlyNoticesLeft
    OBVIOUS
  <2>1. Phases
    BY FlowParts
  <2>2. pc \in {"shutdown", "done"} => pc \notin Early /\ synchronizer = 0
    BY <2>1 DEF Phases, Early
  <2>3. pc \in {"shutdown", "done"} =>
          /\ \A n \in Nodes : queued[n] = 0
          /\ \A t \in Threads : stack[t] \in Leftover
    BY <2>2, Drained
  <2>4. pc = "done" => \A t \in Threads : stack[t] = <<>>
    BY <2>1 DEF Phases
  <2> QED
    BY <2>3, <2>4 DEF OnlyNoticesLeft
<1> QED
  BY <1>1, FlowAlways, PTL

-----------------------------------------------------------------------------
(* Each task once                                                          *)

\* A task is run on top of nothing but calls, so that a thread has at most one.
LEMMA BodyOnTop ==
  ASSUME FlowInv, NEW t \in Threads, NEW k \in Nat, k >= 1, k <= Len(stack[t]),
         stack[t][k].op # "call"
  PROVE  k = 1 /\ stack[t] # <<>> /\ Head(stack[t]) = stack[t][1]
<1>1. stack[t] \in Seq(Frames) /\ Shape
  BY FlowParts DEF TypeOK
<1>2. stack[t] # <<>> /\ Head(stack[t]) = stack[t][1]
  BY <1>1
<1>3. k = 1
  <2> SUFFICES ASSUME k # 1 PROVE FALSE
    OBVIOUS
  <2>1. PICK c, s : /\ Left(t, c, s)
                    /\ \/ stack[t] = Rest(c, s)
                       \/ \E f : Busy(t, f, c, s) /\ stack[t] = <<f>> \o Rest(c, s)
    BY <1>1 DEF Shape, Fit
  <2>2. c \in Seq(Callees)
    BY <2>1 DEF Left
  <2>3. Rest(c, s) = <<>> \/ \E g : Rest(c, s) = <<g>> /\ g.op = "call"
    BY <2>2, RestIs
  <2>4. ASSUME stack[t] = Rest(c, s) PROVE FALSE
    BY <2>3, <2>4
  <2>5. ASSUME NEW f, stack[t] = <<f>> \o Rest(c, s) PROVE FALSE
    <3>1. CASE Rest(c, s) = <<>>
      BY <2>5, <3>1
    <3>2. ASSUME NEW g, Rest(c, s) = <<g>>, g.op = "call" PROVE FALSE
      <4>1. Len(<<f>> \o <<g>>) = 2 /\ (<<f>> \o <<g>>)[2] = g
        OBVIOUS
      <4> QED
        BY <2>5, <3>2, <4>1
    <3> QED
      BY <2>3, <3>1, <3>2
  <2> QED
    BY <2>1, <2>4, <2>5
<1> QED
  BY <1>2, <1>3

\* So the tasks in hand are as many as the threads that run one.
LEMMA HandsAre ==
  ASSUME FlowInv, NEW u \in Nodes
  PROVE  InHands(u, "body") = Cardinality(Doing("body", u))
<1> DEFINE A == Doing("body", u)
           B == {p \in Threads \X (1..NumNodes + 1) :
                   /\ p[2] <= Len(stack[p[1]])
                   /\ stack[p[1]][p[2]].op = "body" /\ stack[p[1]][p[2]].unit = u}
           f == [t \in A |-> <<t, 1>>]
<1>1. IsFiniteSet(A)
  BY LoadParts
<1>2. \A t \in A : <<t, 1>> \in B
  <2> SUFFICES ASSUME NEW t \in A PROVE <<t, 1>> \in B
    OBVIOUS
  <2>1. t \in Threads /\ stack[t] # <<>> /\ Head(stack[t]).op = "body" /\ Head(stack[t]).unit = u
    BY DEF Doing, At, Stage
  <2>2. stack[t] \in Seq(Frames)
    BY <2>1, FlowParts DEF TypeOK
  <2>3. 1 <= Len(stack[t]) /\ Head(stack[t]) = stack[t][1]
    BY <2>1, <2>2
  <2>4. 1 \in 1..NumNodes + 1
    BY PipelineAssumption
  <2> QED
    BY <2>1, <2>3, <2>4
<1>3. \A p \in B : \E t \in A : p = <<t, 1>>
  <2> SUFFICES ASSUME NEW p \in B PROVE \E t \in A : p = <<t, 1>>
    OBVIOUS
  <2>1. PICK t \in Threads, k \in 1..NumNodes + 1 :
          p = <<t, k>> /\ k <= Len(stack[t]) /\ stack[t][k].op = "body" /\ stack[t][k].unit = u
    OBVIOUS
  <2>2. k \in Nat /\ k >= 1 /\ stack[t][k].op # "call"
    BY <2>1, PipelineAssumption
  <2>3. k = 1 /\ stack[t] # <<>> /\ Head(stack[t]) = stack[t][1]
    BY <2>1, <2>2, BodyOnTop
  <2> QED
    BY <2>1, <2>3 DEF Doing, At, Stage
<1>4. f \in [A -> B] /\ \A t \in A : f[t] = <<t, 1>>
  BY <1>2
<1>5. \A s, t \in A : f[s] = f[t] => s = t
  BY <1>4
<1>6. \A p \in B : \E t \in A : f[t] = p
  BY <1>3, <1>4
<1> HIDE DEF f
<1>7. Cardinality(B) = Cardinality(A)
  <2> HIDE DEF A, B
  <2> QED
    BY <1>1, <1>4, <1>5, <1>6, Renaming
<1> QED
  BY <1>7 DEF InHands

\* No task of a unit is run twice, or before the last predecessor called, however
\* the predecessors' threads race for that call and whichever of them runs the
\* task itself (Basics.h, lines 163-166, 254-260).
THEOREM UnitTasksRunOnce == Spec => []TasksRunOnce
<1>1. FlowInv => TasksRunOnce
  <2> SUFFICES ASSUME FlowInv, NEW u \in Nodes
               PROVE  /\ queued[u] + InHands(u, "body") + ended[u] <= NumTasks(u)
                      /\ dependencies[u] > 0 =>
                           queued[u] + InHands(u, "body") + ended[u] = 0
    BY DEF TasksRunOnce
  <2>1. OnceAt(u) /\ InHands(u, "body") = Cardinality(Doing("body", u))
    BY FlowParts, HandsAre
  <2> QED
    BY <2>1 DEF OnceAt, Load
<1> QED
  BY <1>1, FlowAlways, PTL

-----------------------------------------------------------------------------
(* The graph is computed in order                                          *)

Results == {n \in Nodes : ended[n] = NumTasks(n)}

\* Steps that complete no result.
LEMMA FlowStutters ==
  ASSUME UNCHANGED <<operands, kind, ended>>,
         pc' \in {"shutdown", "done"} <=> pc \in {"shutdown", "done"}
  PROVE  UNCHANGED Flow!graphVars
<1>1. \A n \in Nodes : NumTasks(n)' = NumTasks(n)
  BY DEF NumTasks
<1>2. Results' = Results
  BY <1>1 DEF Results
<1> QED
  BY <1>2 DEF Flow!graphVars, Results

\* A unit that runs a task has no operand whose unit still keeps its calls: that
\* unit would have to call this one, which would not have been launched.
LEMMA OperandsComplete ==
  ASSUME FlowInv, pc \notin Early, NEW u \in Nodes, Doing("body", u) # {},
         NEW i \in 1..Len(operands[u])
  PROVE  operands[u][i] \in Results
<1>1. TypeOK /\ Matched /\ Linked
  BY FlowParts
<1>2. PICK m \in Nodes : m = operands[u][i]
  BY <1>1, OperandsAre
<1>3. CASE Constant(m)
  <2>1. NumTasks(m) = 0
    BY <1>1, <1>3, NumTasksIs
  <2>2. ended[m] = 0
    BY <2>1, LoadParts
  <2> QED
    BY <1>2, <2>1, <2>2 DEF Results
<1>4. CASE ~Constant(m)
  <2> SUFFICES ASSUME ended[m] # NumTasks(m) PROVE FALSE
    BY <1>2 DEF Results
  <2>1. Generated(u)
    BY DEF Generated, Early
  <2>2. PICK k \in 1..Len(forwards[m]) : forwards[m][k] = u
    BY <1>1, <1>2, <2>1 DEF Linked
  <2>3. <<"unit", m>> \in Places /\ Waiting[<<"unit", m>>] = forwards[m]
    BY <1>4 DEF Waiting, Keeps, Places, Passed
  <2>4. k \in Nat
    <3>1. Len(forwards[m]) \in Nat
      BY <1>1 DEF TypeOK
    <3> QED
      BY <3>1
  <2>5. Doing("body", u) = {}
    BY <2>2, <2>3, <2>4, CalledHasNoTasks
  <2> QED
    BY <2>5
<1> QED
  BY <1>3, <1>4

\* The last task of a unit completes its result; the others do not.
LEMMA EndBodyRefines ==
  ASSUME FlowInv, NEW t \in Threads, EndBody(t)
  PROVE  [Flow!GraphNext]_(Flow!graphVars)
<1>1. PICK u : u = Top(t).unit /\ IsAt(t, "body")
  BY DEF EndBody
<1>2. u \in Nodes /\ t \in Doing("body", u) /\ stack[t] # <<>>
  <2>1. "body" \in {"body", "submit", "forward"}
    OBVIOUS
  <2> QED
    BY <1>1, <2>1, AtUnit DEF IsAt
<1>3. /\ queued[u] \in Nat /\ ended[u] \in Nat /\ NumTasks(u) \in Nat
      /\ Load(u) <= NumTasks(u)
      /\ Load(u) = queued[u] + Cardinality(Doing("body", u)) + ended[u]
      /\ Cardinality(Doing("body", u)) \in Nat /\ Cardinality(Doing("body", u)) > 0
  BY <1>2, LoadParts
<1>4. ended[u] # NumTasks(u)
  BY <1>3
<1>5. /\ ended' = [ended EXCEPT ![u] = ended[u] + 1]
      /\ operands' = operands /\ kind' = kind /\ pc' = pc
  BY <1>1 DEF EndBody, graph, main
<1>6. \A n \in Nodes : NumTasks(n)' = NumTasks(n)
  BY <1>5 DEF NumTasks
<1>7. ended \in [Nodes -> Nat]
  BY FlowParts DEF TypeOK
<1>8. CASE ended[u] + 1 = NumTasks(u)
  <2>1. u \notin Results /\ Results' = Results \cup {u}
    BY <1>2, <1>4, <1>5, <1>6, <1>7, <1>8 DEF Results
  <2>2. pc \notin Early
    BY <1>2, AtWork
  <2>3. Flow!Operands(u) \subseteq Results
    <3>1. DOMAIN operands[u] = 1..Len(operands[u])
      BY <1>2, FlowParts, OperandsAre
    <3> QED
      BY <1>2, <2>2, <3>1, OperandsComplete DEF Flow!Operands
  <2>4. Flow!Complete(u)
    BY <2>1, <2>3, <1>5 DEF Flow!Complete, Results
  <2> QED
    BY <1>2, <2>4 DEF Flow!GraphNext
<1>9. CASE ended[u] + 1 # NumTasks(u)
  <2>1. Results' = Results
    BY <1>2, <1>4, <1>5, <1>6, <1>7, <1>9 DEF Results
  <2> QED
    BY <1>5, <2>1 DEF Flow!graphVars, Results
<1> QED
  BY <1>8, <1>9

\* The wait ends with every result complete.
LEMMA PredicateRefines ==
  ASSUME FlowInv, Predicate
  PROVE  [Flow!GraphNext]_(Flow!graphVars)
<1>1. /\ pc = "predicate" /\ pc' = (IF synchronizer = 0 THEN "shutdown" ELSE "block")
      /\ UNCHANGED <<operands, kind, ended>>
  BY DEF Predicate, Goto, graph
<1>2. CASE synchronizer = 0
  <2>1. Results = Nodes
    BY <1>1, <1>2, Drained DEF Results, Early
  <2>2. Results' = Results
    BY <1>1 DEF Results, NumTasks
  <2>3. Flow!Return
    BY <1>1, <1>2, <2>1, <2>2 DEF Flow!Return, Results
  <2> QED
    BY <2>3 DEF Flow!GraphNext
<1>3. CASE synchronizer # 0
  BY <1>1, <1>3, FlowStutters
<1> QED
  BY <1>2, <1>3

\* The constants are complete from the start.
LEMMA FlowStart == Init => Flow!GraphInit
<1> SUFFICES ASSUME Init PROVE Flow!GraphInit
  OBVIOUS
<1>1. FlowInv
  BY FlowInit
<1>2. \A n \in Nodes : ended[n] = 0 /\ (NumTasks(n) = 0 <=> operands[n] = <<>>)
  BY <1>1, FlowParts, NumTasksIs DEF Init, Constant
<1>3. Results = Flow!Constants
  BY <1>2 DEF Results, Flow!Constants
<1>4. pc = "generate"
  BY DEF Init
<1> QED
  BY <1>3, <1>4 DEF Flow!GraphInit, Results

LEMMA RunRefines ==
  ASSUME FlowInv, NEW t \in Threads, Run(t)
  PROVE  [Flow!GraphNext]_(Flow!graphVars)
<1>1. CASE NotifyMain(t)
  BY <1>1, FlowStutters DEF NotifyMain, graph
<1>2. CASE NoticeDependency(t) \/ CountDown(t) \/ Activate(t)
  BY <1>2, FlowStutters DEF NoticeDependency, CountDown, Activate, graph, main
<1>3. CASE ForwardMono(t) \/ ForwardPara(t)
  BY <1>3, FlowStutters DEF ForwardMono, ForwardPara, graph, main
<1> QED
  BY <1>1, <1>2, <1>3, EndBodyRefines DEF Run

LEMMA FlowStep ==
  ASSUME FlowInv, [Next]_vars
  PROVE  [Flow!GraphNext]_(Flow!graphVars)
<1>1. ASSUME NEW w \in Workers, Run(w) \/ Served(w) PROVE [Flow!GraphNext]_(Flow!graphVars)
  <2>1. ASSUME NEW u \in Nodes, Take(w, u) PROVE UNCHANGED Flow!graphVars
    BY <2>1, FlowStutters DEF Take, graph, main
  <2>2. ASSUME Submit(w) \/ Pass(w) PROVE UNCHANGED Flow!graphVars
    BY <2>2, FlowStutters DEF Submit, Pass, graph, main
  <2> QED
    BY <1>1, <2>1, <2>2, RunRefines DEF Served, Threads
<1>2. ASSUME NEW w \in Workers, Throw(w) PROVE UNCHANGED Flow!graphVars
  BY <1>2, FlowStutters DEF Throw, graph, main
<1>3. CASE Generate \/ Collect
  <2>1. pc \in {"generate", "collect"} /\ pc' \in {pc, "collect", "start"}
        /\ UNCHANGED <<operands, kind, ended>>
    BY <1>3 DEF Generate, Collect, Advance, graph
  <2> QED
    BY <2>1, FlowStutters
<1>4. CASE Start
  BY <1>4, FlowStutters DEF Start, graph
<1>5. CASE CallsMade \/ Block \/ Shutdown \/ SpuriousWake \/ Submit(Main)
  BY <1>5, FlowStutters DEF CallsMade, Block, Shutdown, SpuriousWake, Submit, Goto, graph, main
<1>6. CASE Run(Main) \/ Predicate
  BY <1>6, RunRefines, PredicateRefines DEF Threads
<1>7. CASE UNCHANGED vars
  BY <1>7, FlowStutters DEF vars
<1> QED
  BY <1>1, <1>2, <1>3, <1>4, <1>5, <1>6, <1>7 DEF Next, MainStep

\* However its tasks are spread over the pool, an update is one of Dataflow: each
\* result is completed once, after those of its operands, and update() goes on
\* only when all are complete (integer.cpp, lines 127-193).
THEOREM OrderKept == Spec => KeepsOrder
<1>1. FlowInv /\ [Next]_vars => [Flow!GraphNext]_(Flow!graphVars)
  BY FlowStep
<1> QED
  BY <1>1, FlowStart, FlowAlways, PTL DEF Spec, KeepsOrder, Flow!GraphSpec
=============================================================================
