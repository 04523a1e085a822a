----------------------------- MODULE MCManager -----------------------------
(* Instances of the Manager: one shard with a short ring and a heap of a few *)
(* cells, so that addresses are reused while they are still quarantined.     *)
EXTENDS Manager, TLC

\* The threads are alike; every property checked under it is a safety property.
Symmetry == Permutations(Threads)

MCPtr == 1 .. Cells
MCRec == [id : 0 .. MaxAllocs, raw : 1 .. Cells]
MCShardOf == [p \in MCPtr |-> 0]

Plain == [canary |-> TRUE, footer |-> 1, bytes |-> FALSE, every_n |-> 1,
          percentage |-> 100, limit |-> 0]

OnlyPlain == {Plain}
Watched == {[Plain EXCEPT !.limit = 1]}
EverySecond == {[Plain EXCEPT !.every_n = 2]}
ByBytes == {[Plain EXCEPT !.bytes = TRUE]}
Uncanaried == {[Plain EXCEPT !.every_n = 2, !.canary = FALSE]}
Sampled == EverySecond \cup ByBytes \cup Uncanaried

=============================================================================
