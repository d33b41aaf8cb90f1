----------------------------- MODULE MCCacheSync -----------------------------
(* Small instances of CacheSync for TLC.  The theorems are about Spec.        *)
EXTENDS CacheSync, TLC

\* Keys are interchangeable in ReadSpec and the invariants.
Symmetry == Permutations(Key)

\* rows exist at the start; deletes remove them
WithRows == Init /\ db = [k \in Key |-> 0]

\* Set and Delete without Immediate
WriteBehind(c) ==
  \/ \E K \in SUBSET Key \ {{}} : SetCache(c, K, FALSE) \/ DeleteCache(c, K, FALSE)
  \/ MarkDirty(c)

\* The runs of Flush against one another.  Flush reads neither the cache nor
\* what Immediate calls write, so these and expiry are left to ReadSpec.
FlushSpec ==
  /\ WithRows
  /\ [][ \/ \E c \in Writer : WriteBehind(c)
         \/ \E f \in Flusher : FlushStart(f) \/ FlushStep(f)
         \/ CloseMark
         \/ LoopEnds ]_vars
  /\ Fairness

\* Clients against one another and one loop of Flush: all of Next but Close and
\* the goroutines a Set starts.
ReadSpec ==
  /\ WithRows
  /\ [][ \/ \E c \in Writer : Write(c)
         \/ \E c \in Reader : Read(c)
         \/ FlushStart("ticker") \/ FlushStep("ticker")
         \/ \E k \in Key : Expire(k) ]_vars
=============================================================================
