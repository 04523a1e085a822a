--------------------------- MODULE MCShardedTracker ---------------------------
(* A small tracker: two shards, one of them shared by two pointers, and a    *)
(* ring of two slots, so that eviction, reuse and the wrap of the head all   *)
(* happen.                                                                   *)
EXTENDS ShardedTracker, TLC

CONSTANTS p1, p2, p3

MCPtr == {p1, p2, p3}
MCShardOf == [p \in MCPtr |-> IF p = p3 THEN 0 ELSE 1]

\* p1 and p2 share a shard, p3 does not; threads and records are alike.
Symmetry == {a @@ b @@ c : a \in Permutations({p1, p2}), b \in Permutations(Rec),
                           c \in Permutations(Threads)}

\* No action and no invariant reads `ret', so states that differ in it alone
\* have the same steps and the same returns.
NoRet == <<shards, scan, stable, seen>>

=============================================================================
