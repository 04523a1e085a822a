---------------------------- MODULE MCDiagnostics ----------------------------
(* Two addresses in different shards, so that a listing has a first and a    *)
(* second half and an address can be used again between two snapshots; two   *)
(* of the sizes lie on either side of the border between two buckets.        *)
EXTENDS Diagnostics, TLC

CONSTANTS p1, p2, app1, vendor, covers_vendor

MCPtr == {p1, p2}
MCShardOf == [p \in MCPtr |-> IF p = p1 THEN 0 ELSE 1]
MCNames == {app1, vendor}
MCKinds == {[size |-> 16, names |-> {app1}], [size |-> 17, names |-> {app1, vendor}]}
MCCovers == {<<covers_vendor, vendor>>}
MCBuckets == <<[min |-> 1, max |-> 16], [min |-> 17, max |-> 64]>>

Symmetry == Permutations(Workers)

=============================================================================
