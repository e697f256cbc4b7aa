------------------------------- MODULE MetaBlock -------------------------------
(***************************************************************************)
(* putils::MetaBlock, one shard of the memory pool                         *)
(* (src/putils/src/MemoryAllocator.cpp): segments obtained from the        *)
(* operating system are cut into blocks, which form one doubly linked list *)
(* over all segments; an index by length, a multimap that may hold several *)
(* entries of a block, stale ones, and entries of blocks that no longer    *)
(* exist, finds a free block; a released block is merged with its free     *)
(* neighbours of the same segment.                                         *)
(*                                                                         *)
(* A thread of the pool picks one shard per call and never touches another *)
(* one in that call, so the shards are independent and one is modelled.    *)
(* Everything a call does is under list_lock, except that allocate() lets  *)
(* go of it between try_assign() and extend_and_assign(). One iteration of *)
(* a loop is one step, taken with the lock held.                           *)
(***************************************************************************)
EXTENDS Integers, Sequences, SequencesExt, FiniteSetsExt

CONSTANTS Threads,
          Requests,     \* what threads ask allocate() for, in bytes
          Alignment,    \* DEFAULT_ALIGNMENT
          MinLog,       \* DEFAULT_LOG_LEN_LOWER_BOUND
          MaxLog,       \* DEFAULT_LOG_LEN_UPPER_BOUND
          InitSize,     \* initialization_block_size
          ExtensionUpperBound,   \* memory_extension_upper_bound
          MaxSegments,  \* bound: segments the operating system has memory for
          MaxIndex,     \* bound: entries and exceptions so far when a call begins
          MaxFailures   \* bound: objects and entries there is no memory for

MinSegment == 2^MinLog
MaxSegment == 2^MaxLog
Powers == {2^k : k \in 0..MaxLog}

ASSUME SizesAssumption ==
  /\ Alignment \in Nat \ {0} /\ Requests \subseteq Nat \ {0}
  /\ MinLog \in Nat /\ MaxLog \in Nat /\ MinLog <= MaxLog
  /\ MinSegment % Alignment = 0
  /\ InitSize \in Nat \ {0} /\ ExtensionUpperBound \in Nat \ {0}
  /\ {MaxSegments, MaxIndex} \subseteq Nat \ {0} /\ MaxFailures \in Nat

\* A MemBlock object: the segment and the offset its memory begins at, which
\* never change, and a number among the objects for this address.
Seg(b) == b[1]
Off(b) == b[2]
First == <<1, 0, 1>>
Null == <<0, 0, 0>>

VARIABLES
  segment,   \* the lengths of the segments, in the order they were obtained
  block,     \* the MemBlock objects that exist
  last,      \* the last block of the list, which always begins with First
  index,     \* block_len_index, in the order of the multimap
  total,     \* total_bytes
  pc, asked, curr,   \* of each thread: its next step, the target of its call, curr
  live,      \* ghost: the blocks handed out and not yet given to release()
  lost,      \* ghost: the blocks whose entry an exception made disappear
  failures   \* ghost: how many exceptions there were

vars == <<segment, block, last, index, total, pc, asked, curr, live, lost,
          failures>>

-----------------------------------------------------------------------------
BitCeil(n) == Min({p \in Powers : p >= n})

\* Slip: the constructor of a header block forgets the upper bound.
SegmentLengthAsAsked(bytes) ==
  IF bytes > MaxSegment THEN bytes ELSE Max({MinSegment, BitCeil(bytes)})

\* std::max(std::min(log_len, UPPER_BOUND), LOWER_BOUND), taken to lengths.
SegmentLength(bytes) ==
  IF bytes > MaxSegment THEN MaxSegment ELSE Max({MinSegment, BitCeil(bytes)})

SafeTarget(n) == ((n + Alignment - 1) \div Alignment) * Alignment

\* What each thread looks for, safe_target and at_least.
want == [t \in Threads |-> SafeTarget(asked[t])]

\* Slip: the pool grows as it would without the request.
ExtendBytesBlindly(target, size) ==
  IF size < ExtensionUpperBound THEN size ELSE ExtensionUpperBound

ExtendBytes(target, size) ==
  Max({target, Min({size, ExtensionUpperBound})})

Header(bytes, pre) ==
  [header |-> TRUE, free |-> TRUE, valid |-> TRUE, len |-> SegmentLength(bytes),
   nex |-> Null, pre |-> pre]

New(seg, off) == CHOOSE b \in {<<seg, off, n>> : n \in 1..(Len(index) + 1)} :
                   b \notin DOMAIN block

\* The objects with a new one among them.
Adding(new, contents, objects) ==
  [b \in DOMAIN objects \cup {new} |-> IF b = new THEN contents ELSE objects[b]]

\* The objects that the list or the index still refers to.
Reachable(objects, entries) ==
  Restrict(objects, {b \in DOMAIN objects : \/ objects[b].valid
                                           \/ \E k \in DOMAIN entries : entries[k].at = b})

\* multimap::insert puts an entry behind those of the same key, and
\* lower_bound finds the first entry whose key is at least the target.
Insert(seq, key, b) ==
  LET k == Cardinality({j \in DOMAIN seq : seq[j].key <= key})
  IN  InsertAt(seq, k + 1, [key |-> key, at |-> b])

Fitting(target) == {k \in DOMAIN index : index[k].key >= target}
LowerBound(target) == Min(Fitting(target))

Init ==
  /\ segment = <<SegmentLength(InitSize)>>
  /\ block = [b \in {First} |-> Header(InitSize, Null)]
  /\ last = First
  /\ index = Insert(<<>>, SegmentLength(InitSize), First)
  /\ total = SegmentLength(InitSize)
  /\ pc = [t \in Threads |-> "idle"]
  /\ asked = [t \in Threads |-> 0] /\ curr = [t \in Threads |-> Null]
  /\ live = {} /\ lost = {} /\ failures = 0

At(t, label) == pc[t] = label
Goto(t, label) == pc' = [pc EXCEPT ![t] = label]
Valid == {b \in DOMAIN block : block[b].valid}
LockFree == \A t \in Threads : pc[t] \in {"idle", "extend"}

\* A call returns: the lock is released and the thread's locals are gone.
Return(t) == /\ Goto(t, "idle")
             /\ asked' = [asked EXCEPT ![t] = 0] /\ curr' = [curr EXCEPT ![t] = Null]

-----------------------------------------------------------------------------
(* allocate(): try_assign(), and extend_and_assign() if that found nothing *)

Allocate(t, n) ==
  /\ At(t, "idle") /\ LockFree
  /\ Len(index) + failures <= MaxIndex
  /\ asked' = [asked EXCEPT ![t] = n]
  /\ Goto(t, "try")
  /\ UNCHANGED <<segment, block, last, index, total, curr, live>>

\* No entry of the index is long enough: the lock is released.
TryFails(t) ==
  /\ At(t, "try") /\ Fitting(want[t]) = {}
  /\ Goto(t, "extend")
  /\ UNCHANGED <<segment, block, last, index, total, asked, curr, live>>

\* internal_extend() up to the insertion of the entry.
Link(t) ==
  LET bytes == ExtendBytes(want[t], total)
      seg == Len(segment) + 1
      new == New(seg, 0)
  IN
  /\ At(t, "extend") /\ LockFree
  /\ seg <= MaxSegments
  /\ segment' = Append(segment, SegmentLength(bytes))
  /\ block' = Adding(new, Header(bytes, last), [block EXCEPT ![last].nex = new])
  /\ last' = new
  /\ total' = total + SegmentLength(bytes)
  /\ UNCHANGED live

Extend(t) ==
  /\ Link(t)
  /\ index' = Insert(index, block'[last'].len, last')
  /\ Goto(t, "assign")
  /\ UNCHANGED <<asked, curr>>

\* std::bad_alloc before the list is touched: allocate() throws.
ExtendThrows(t) ==
  /\ At(t, "extend") /\ LockFree
  /\ Return(t)
  /\ UNCHANGED <<segment, block, last, index, total, live>>

\* nullptr, although the list was extended.
AssignFails(t) ==
  /\ At(t, "assign") /\ Fitting(want[t]) = {}
  /\ Return(t)
  /\ UNCHANGED <<segment, block, last, index, total, live>>

-----------------------------------------------------------------------------
(* The loop of internal_assign(), on the first entry long enough           *)

Usable(b) == block[b].free /\ block[b].valid

Searching(t) == pc[t] \in {"try", "assign"} /\ Fitting(want[t]) # {}

\* The block of the first entry long enough, and the index without that entry.
Found(t) == index[LowerBound(want[t])].at
OtherEntries(t) == RemoveAt(index, LowerBound(want[t]))

SkipEntry(t) ==
  /\ Searching(t) /\ ~Usable(Found(t))
  /\ index' = OtherEntries(t)
  /\ block' = Reachable(block, index')
  /\ UNCHANGED <<segment, last, total, pc, asked, curr, live>>

\* Slip: the length compared is the one under which the block was indexed.
AssignWholeAsIndexed(t) ==
  /\ Searching(t) /\ Usable(Found(t)) /\ index[LowerBound(want[t])].key = want[t]
  /\ index' = OtherEntries(t)
  /\ block' = [block EXCEPT ![Found(t)].free = FALSE]
  /\ live' = live \cup {Found(t)}
  /\ Return(t)
  /\ UNCHANGED <<segment, last, total>>

AssignWhole(t) ==
  /\ Searching(t) /\ Usable(Found(t)) /\ block[Found(t)].len = want[t]
  /\ index' = OtherEntries(t)
  /\ block' = [block EXCEPT ![Found(t)].free = FALSE]
  /\ live' = live \cup {Found(t)}
  /\ Return(t)
  /\ UNCHANGED <<segment, last, total>>

AssignPart(t) ==
  LET b == Found(t)
      new == New(Seg(b), Off(b) + want[t])
      rest == [block[b] EXCEPT !.header = FALSE, !.len = @ - want[t], !.pre = b]
      cut == Adding(new, rest, [block EXCEPT ![b].len = want[t], ![b].free = FALSE,
                                             ![b].nex = new])
  IN
  /\ Searching(t) /\ Usable(b) /\ block[b].len > want[t]
  /\ block' = IF rest.nex = Null THEN cut ELSE [cut EXCEPT ![rest.nex].pre = new]
  /\ index' = Insert(OtherEntries(t), rest.len, new)
  /\ last' = IF b = last THEN new ELSE last
  /\ live' = live \cup {b}
  /\ Return(t)
  /\ UNCHANGED <<segment, total>>

TooShort(t) == Usable(Found(t)) /\ block[Found(t)].len < want[t]

\* Slip: the entry comes back under the key it had.
ReindexAsWas(t) ==
  /\ Searching(t) /\ TooShort(t)
  /\ index' = Insert(OtherEntries(t), index[LowerBound(want[t])].key, Found(t))
  /\ UNCHANGED <<segment, block, last, total, pc, asked, curr, live>>

Reindex(t) ==
  /\ Searching(t) /\ TooShort(t)
  /\ index' = Insert(OtherEntries(t), block[Found(t)].len, Found(t))
  /\ UNCHANGED <<segment, block, last, total, pc, asked, curr, live>>

-----------------------------------------------------------------------------
(* release() and internal_compact(), by any thread *)

Release(t, b) ==
  /\ At(t, "idle") /\ LockFree /\ b \in live
  /\ Len(index) + failures <= MaxIndex
  /\ live' = live \ {b}
  /\ block' = [block EXCEPT ![b].free = TRUE]
  /\ curr' = [curr EXCEPT ![t] = b]
  /\ Goto(t, "back")
  /\ UNCHANGED <<segment, last, index, total, asked>>

FollowsFree(b) == /\ block[b].pre # Null /\ block[block[b].pre].free
                  /\ ~block[b].header

\* The first loop looks for the earliest block of the free run.
Back(t) ==
  /\ At(t, "back")
  /\ \/ /\ FollowsFree(curr[t])
        /\ curr' = [curr EXCEPT ![t] = block[@].pre] /\ UNCHANGED pc
     \/ ~FollowsFree(curr[t]) /\ Goto(t, "merge") /\ UNCHANGED curr
  /\ UNCHANGED <<segment, block, last, index, total, asked, live>>

Mergeable(b) == b # Null /\ block[b].free /\ ~block[b].header

\* Slip: one neighbour is merged, and the loop is an if.
MergeOnce(t) ==
  LET c == curr[t]
      nex == block[c].nex
      merged == [block EXCEPT ![c].len = @ + block[nex].len,
                              ![c].nex = block[nex].nex, ![nex].valid = FALSE]
  IN
  /\ At(t, "merge") /\ Mergeable(nex)
  /\ block' = Reachable(IF block[nex].nex = Null THEN merged
                        ELSE [merged EXCEPT ![block[nex].nex].pre = c], index)
  /\ last' = IF nex = last THEN c ELSE last
  /\ index' = Insert(index, block[c].len + block[nex].len, c)
  /\ Return(t)
  /\ UNCHANGED <<segment, total, live>>

Merge(t) ==
  LET c == curr[t]
      nex == block[c].nex
      merged == [block EXCEPT ![c].len = @ + block[nex].len,
                              ![c].nex = block[nex].nex, ![nex].valid = FALSE]
  IN
  /\ At(t, "merge") /\ Mergeable(nex)
  /\ block' = Reachable(IF block[nex].nex = Null THEN merged
                        ELSE [merged EXCEPT ![block[nex].nex].pre = c], index)
  /\ last' = IF nex = last THEN c ELSE last
  /\ UNCHANGED <<segment, index, total, pc, asked, curr, live>>

\* Slip: no second entry for a block that has one, under whatever key.
IndexMergedIfNew(t) ==
  /\ At(t, "merge") /\ ~Mergeable(block[curr[t]].nex)
  /\ index' = IF \E k \in DOMAIN index : index[k].at = curr[t] THEN index
              ELSE Insert(index, block[curr[t]].len, curr[t])
  /\ Return(t)
  /\ UNCHANGED <<segment, block, last, total, live>>

\* A block that was indexed already gets another entry.
IndexMerged(t) ==
  /\ At(t, "merge") /\ ~Mergeable(block[curr[t]].nex)
  /\ index' = Insert(index, block[curr[t]].len, curr[t])
  /\ Return(t)
  /\ UNCHANGED <<segment, block, last, total, live>>

-----------------------------------------------------------------------------
(* No memory for an object or an entry: the call throws with its work half *)
(* done. (In release(), which is noexcept, the process ends.)              *)

Splitting(t) ==
  /\ Searching(t) /\ Usable(Found(t)) /\ block[Found(t)].len > want[t]

\* Slip: the block is taken before the rest of it has become a block.
SplitThrowsTaken(t) ==
  /\ Splitting(t)
  /\ index' = OtherEntries(t)
  /\ block' = [block EXCEPT ![Found(t)].free = FALSE]
  /\ UNCHANGED <<segment, last, total>>

\* make_shared() throws when the entry of the block is erased already.
SplitThrows(t) ==
  /\ Splitting(t)
  /\ index' = OtherEntries(t)
  /\ UNCHANGED <<segment, block, last, total>>

\* Slip: the block is shortened before the entry of the rest is inserted.
SplitHalfDoneShort(t) ==
  /\ Splitting(t)
  /\ index' = OtherEntries(t)
  /\ block' = [block EXCEPT ![Found(t)].len = want[t]]
  /\ UNCHANGED <<segment, last, total>>

\* insert() throws: the new block dies, and the next one has nothing before it.
SplitHalfDone(t) ==
  LET nex == block[Found(t)].nex IN
  /\ Splitting(t)
  /\ index' = OtherEntries(t)
  /\ block' = IF nex = Null THEN block ELSE [block EXCEPT ![nex].pre = Null]
  /\ UNCHANGED <<segment, last, total>>

ReindexThrows(t) ==
  /\ Searching(t) /\ TooShort(t)
  /\ index' = OtherEntries(t)
  /\ UNCHANGED <<segment, block, last, total>>

\* The segment is in the list when insert() throws.
ExtendHalfDone(t) == Link(t) /\ UNCHANGED index

\* Of the blocks bs, those that remain and that no entry long enough shows.
Missing(bs) ==
  {b \in bs \cap DOMAIN block' :
     /\ block'[b].valid
     /\ ~\E k \in DOMAIN index' : index'[k].at = b /\ index'[k].key >= block'[b].len}

Throw(t) ==
  /\ failures < MaxFailures /\ failures' = failures + 1
  /\ \/ /\ SplitThrows(t) \/ SplitHalfDone(t) \/ ReindexThrows(t)
        /\ lost' = Missing(lost \cup {Found(t)})
     \/ ExtendHalfDone(t) /\ lost' = Missing(lost \cup {last'})
  /\ Return(t)
  /\ UNCHANGED live

-----------------------------------------------------------------------------
\* What a thread does inside a call, as opposed to making one.
Step(t) == \/ TryFails(t) \/ Extend(t) \/ ExtendThrows(t) \/ AssignFails(t)
           \/ SkipEntry(t) \/ AssignWhole(t) \/ AssignPart(t) \/ Reindex(t)
           \/ Back(t) \/ Merge(t) \/ IndexMerged(t)

Next ==
  \E t \in Threads :
    \/ /\ \/ \E n \in Requests : Allocate(t, n)
          \/ \E b \in live : Release(t, b)
          \/ Step(t)
       /\ lost' = Missing(lost)
       /\ UNCHANGED failures
    \/ Throw(t)

Spec == Init /\ [][Next]_vars

-----------------------------------------------------------------------------
Objects == (1..MaxSegments) \X (0..MaxSegment) \X (Nat \ {0})
BlockType ==
  [header : BOOLEAN, free : BOOLEAN, valid : BOOLEAN, len : Nat,
   nex : Objects \cup {Null}, pre : Objects \cup {Null}]

\* Every variable stays in its type, and every segment in the limits of a header.
TypeOK ==
  /\ segment \in Seq({p \in Powers : MinSegment <= p /\ p <= MaxSegment})
  /\ DOMAIN block \subseteq Objects /\ \A b \in DOMAIN block : block[b] \in BlockType
  /\ last \in DOMAIN block
  /\ index \in Seq([key : Nat, at : DOMAIN block])
  /\ total \in Nat
  /\ pc \in [Threads -> {"idle", "try", "extend", "assign", "back", "merge"}]
  /\ asked \in [Threads -> Requests \cup {0}]
  /\ curr \in [Threads -> DOMAIN block \cup {Null}]
  /\ live \subseteq DOMAIN block /\ lost \subseteq DOMAIN block
  /\ failures \in 0..MaxFailures

End(b) == Off(b) + block[b].len

\* The list is the memory: each block begins where the one before it ends or
\* at the start of the next segment, and together they are all the bytes the
\* segments have, so no splitting, merging or extension in any order, nor one
\* that throws halfway, loses, repeats or crosses a byte (lines 110-125,
\* 149-160, 175-178).
ListIsMemory ==
  /\ \A b \in Valid :
       LET n == block[b].nex IN
       IF n = Null THEN b = last /\ Seg(b) = Len(segment)
                        /\ End(b) = segment[Len(segment)]
       ELSE /\ n \in Valid
            /\ IF block[n].header
               THEN Seg(n) = Seg(b) + 1 /\ Off(n) = 0 /\ End(b) = segment[Seg(b)]
               ELSE Seg(n) = Seg(b) /\ Off(n) = End(b)
  /\ total = FoldSet(LAMBDA b, sum : block[b].len + sum, 0, Valid)
  /\ total = FoldFunction(+, 0, segment)

\* The list can be walked backwards too, as the merging of blocks on release
\* does: only an exception in a split may leave one block with nothing before
\* it (lines 116-123, 155-157, 176).
LinkedBack ==
  /\ block[First].pre = Null
  /\ \A b \in Valid : LET n == block[b].nex IN
       n # Null => block[n].pre \in {b, Null}
  /\ Cardinality({b \in Valid \ {First} : block[b].pre = Null}) <= failures

\* The list is the memory in both directions, as the two loops of
\* internal_compact() rely on (lines 143 and 149).
Tiled == ListIsMemory /\ LinkedBack

\* A live handle is a block of the list that nobody takes for free, and every
\* other block of the list is free.
HandlesAreBlocks == {b \in Valid : ~block[b].free} = live

\* Between calls, no free block has a free neighbour in its segment: whatever
\* the order of the releases, memory is never left in pieces, as long as no
\* exception cut a block from the one before it (lines 143-149).
Coalesced ==
  LockFree /\ failures = 0 =>
    \A b \in Valid : block[b].free => ~Mergeable(block[b].nex)

\* try_assign() returns nullptr only if no free block is long enough, although
\* the index is "merely advisory": stale keys, duplicates and entries of merged
\* blocks never hide the last entry of a block that fits; an exception hides at
\* most the block the call was about, until it is merged or found by another
\* entry (lines 89-131).
FailedTrySawNoFit ==
  [][\A t \in Threads :
       At(t, "try") /\ pc'[t] = "extend"
         => \A b \in Valid \ lost : block[b].free => block[b].len < want[t]]_vars

\* After an extension, only a request that no segment can hold is refused.
NullIsTooLarge ==
  [][\A t \in Threads :
       At(t, "assign") /\ pc'[t] = "idle" /\ live' = live /\ failures' = failures
         => want[t] > MaxSegment]_vars

\* Each promise of the shard to its callers (AllocatedRegions): above all, a
\* block handed out is as long as that call asked for, whichever path found it
\* and whatever the others did to the list in between (lines 183-208, 261-272).
Region(b) == [block |-> b, seg |-> Seg(b), off |-> Off(b), len |-> block[b].len]
Promise == INSTANCE AllocatedRegions WITH inUse <- {Region(b) : b \in live}
KeepsPromise == Promise!Spec

\* The search ends, whatever the threads do: each time round, fewer entries
\* promise a block that is long enough, although the one looked at may be put
\* back, and although the calls before left any number of them (lines 89-131).
SearchShrinks ==
  [][\A t \in Threads : Searching(t) /\ pc'[t] = pc[t]
       => Cardinality(Fitting(want[t])') < Cardinality(Fitting(want[t]))]_vars
=============================================================================
