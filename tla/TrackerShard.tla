---------------------------- MODULE TrackerShard ----------------------------
(***************************************************************************)
(* One shard of core::ShardedTracker (sharded_tracker.hpp) and the         *)
(* critical sections that run under its mutex, as operators on the shard's *)
(* value.  ShardedTracker.tla interleaves them, Manager.tla calls them.    *)
(*                                                                         *)
(* `quarantine' is the std::array of the pointers erased last.  The code   *)
(* counts erasures in a size_t and writes at quarantine_head % size; the   *)
(* size (256) divides 2^64, so the remainder alone is kept here and the    *)
(* wrap of the counter is exact.                                           *)
(***************************************************************************)
EXTENDS Integers, FiniteSets

CONSTANTS Ptr,             \* the user pointers of the instance
          Rec,             \* the AllocationRecord values of the instance
          Null,            \* nullptr
          NoRecord,        \* "no entry in the map"
          QuarantineSize   \* quarantine.size(), 256 in the code

ASSUME PtrAssumption == IsFiniteSet(Ptr)   \* an address space is finite
ASSUME QuarantineAssumption == QuarantineSize \in Nat \ {0}
ASSUME NullAssumption == Null \notin Ptr
ASSUME NoRecordAssumption == NoRecord \notin Rec

Slot == 0 .. QuarantineSize - 1

\* The values a shard can hold.
ShardType == [records    : [Ptr -> Rec \cup {NoRecord}],
              quarantine : [Slot -> Ptr \cup {Null}],
              head       : Slot]

\* A default-constructed (or just cleared) shard.
EmptyShard == [records    |-> [p \in Ptr |-> NoRecord],
               quarantine |-> [i \in Slot |-> Null],
               head       |-> 0]

Tracked(sh) == {p \in Ptr : sh.records[p] # NoRecord}

Quarantined(sh) == {p \in Ptr : \E i \in Slot : sh.quarantine[i] = p}

\* No pointer fills two slots of the ring.
RingDistinct(sh) ==
  \A j, k \in Slot :
    sh.quarantine[j] = sh.quarantine[k] /\ sh.quarantine[j] # Null => j = k

Entries(sh) == {<<p, sh.records[p]>> : p \in Tracked(sh)}

\* A mutant: the quarantine is not scrubbed when an address is reused.
InsertKeepsQuarantine(sh, p, r) == [sh EXCEPT !.records[p] = r]

\* insert: scrub the pointer from the quarantine, then store its record.
InsertInto(sh, p, r) ==
  [sh EXCEPT !.records[p] = r,
             !.quarantine = [i \in Slot |-> IF @[i] = p THEN Null ELSE @[i]]]

\* A mutant: the head wraps one slot too late.
NextHeadLate(h) == IF h = QuarantineSize THEN 0 ELSE h + 1

NextHead(h) == IF h + 1 = QuarantineSize THEN 0 ELSE h + 1

\* A mutant: the head does not move, so each erasure evicts the one before.
EraseKeepsHead(sh, p) == [sh EXCEPT !.records[p] = NoRecord, !.quarantine[sh.head] = p]

\* erase of a tracked pointer: drop the record, overwrite the oldest slot.
EraseFrom(sh, p) ==
  [sh EXCEPT !.records[p] = NoRecord,
             !.quarantine[sh.head] = p,
             !.head = NextHead(sh.head)]

\* What erase(p) answers on a shard.
EraseStatus(sh, p) ==
  IF p \in Tracked(sh) THEN "SUCCESS"
  ELSE IF p \in Quarantined(sh) THEN "DOUBLE_FREE_DETECTED"
  ELSE "NOT_FOUND"

EraseStatuses == {"SUCCESS", "DOUBLE_FREE_DETECTED", "NOT_FOUND"}

\* A mutant: erase quarantines the pointer and leaves its record in the map.
EraseKeepsRecord(sh, p) ==
  IF p \in Tracked(sh) THEN [sh EXCEPT !.quarantine[sh.head] = p, !.head = NextHead(sh.head)]
  ELSE sh

\* A mutant: erase quarantines the pointer whether or not it had a record.
EraseAlways(sh, p) == EraseFrom(sh, p)

\* The shard after erase(p), whatever it answers.
AfterErase(sh, p) == IF p \in Tracked(sh) THEN EraseFrom(sh, p) ELSE sh

=============================================================================
