--------------------------- MODULE AllocatedRegions ---------------------------
(***************************************************************************)
(* What a shard of the memory pool promises its callers: a region it hands *)
(* out is as long as that caller asked for, overlaps no region still in    *)
(* use, and neither moves nor changes its length before it is released; a  *)
(* caller that is refused, or whose call throws, has taken nothing.        *)
(***************************************************************************)
EXTENDS Integers

CONSTANTS Threads,    \* the callers
          Requests    \* lengths that callers ask for, in bytes

VARIABLES
  inUse,   \* the regions handed out and not yet released: records with at
           \* least the fields seg, off and len
  asked    \* what each caller is waiting for: a length, or 0 if it has no call

vars == <<inUse, asked>>

Overlap(r, s) == /\ r.seg = s.seg
                 /\ r.off < s.off + s.len /\ s.off < r.off + r.len

Init == inUse = {} /\ asked = [t \in Threads |-> 0]

Ask(t, n) == /\ asked[t] = 0 /\ asked' = [asked EXCEPT ![t] = n]
             /\ UNCHANGED inUse

Answered(t) == asked[t] # 0 /\ asked' = [asked EXCEPT ![t] = 0]

Allocate(t) == /\ Answered(t)
               /\ \E r \in inUse' \ inUse :
                    /\ r.len >= asked[t]
                    /\ \A s \in inUse : ~Overlap(r, s)
                    /\ inUse' = inUse \cup {r}

Refuse(t) == Answered(t) /\ UNCHANGED inUse

Release(r) == inUse' = inUse \ {r} /\ UNCHANGED asked

Next == \/ \E t \in Threads : \/ \E n \in Requests : Ask(t, n)
                              \/ Allocate(t) \/ Refuse(t)
        \/ \E r \in inUse : Release(r)

Spec == Init /\ [][Next]_vars
=============================================================================
