--------------------------- MODULE ShardedTracker ---------------------------
(***************************************************************************)
(* core::ShardedTracker under concurrent callers.  insert, erase and find  *)
(* hold one shard's mutex from their first to their last access to the     *)
(* shard, so each is one atomic step.  snapshot_all, size and clear lock   *)
(* the shards one after the other and never two at a time, so every shard  *)
(* they visit is a step of its own and any call of another thread can fall *)
(* between two of them.                                                    *)
(*                                                                         *)
(* `stable' and `seen' are history variables: the entries tracked without  *)
(* a break since a scan began, and all entries tracked at some moment of   *)
(* it.  No action reads them.                                              *)
(***************************************************************************)
EXTENDS TrackerShard

CONSTANTS Threads,
          ShardCount,      \* SHARD_COUNT, 64 in the code
          ShardOf          \* get_shard_index, on the pointers of the instance

Shards == 0 .. ShardCount - 1

ASSUME ShardCountAssumption == ShardCount \in Nat \ {0}
ASSUME ShardOfAssumption == ShardOf \in [Ptr -> Shards]

VARIABLES shards,   \* the array of shards
          scan,     \* per thread: the shard-by-shard call it is in, if any
          ret,      \* the value the last completed call returned
          stable, seen

vars == <<shards, scan, ret, stable, seen>>

ScanOps == {"snapshot_all", "size", "clear"}

Idle == [op |-> "idle", next |-> 0, found |-> {}, total |-> 0]

NoReturn == [by |-> Null, op |-> "none", value |-> Null]

AllEntries(s) == UNION {Entries(s[i]) : i \in Shards}

Init ==
  /\ shards = [i \in Shards |-> EmptyShard]
  /\ scan = [t \in Threads |-> Idle]
  /\ ret = NoReturn
  /\ stable = [t \in Threads |-> {}]
  /\ seen = [t \in Threads |-> {}]

Free(t) == scan[t].op = "idle"

Return(t, op, value) == ret' = [by |-> t, op |-> op, value |-> value]

\* The history variables follow every change of the shards.
Observe ==
  /\ stable' = [t \in Threads |-> IF Free(t) THEN {} ELSE stable[t] \cap AllEntries(shards')]
  /\ seen' = [t \in Threads |-> IF Free(t) THEN {} ELSE seen[t] \cup AllEntries(shards')]

Insert(t, p, r) ==
  /\ Free(t)
  /\ shards' = [shards EXCEPT ![ShardOf[p]] = InsertInto(@, p, r)]
  /\ Return(t, "insert", Null)
  /\ Observe
  /\ UNCHANGED scan

Erase(t, p) ==
  /\ Free(t)
  /\ shards' = [shards EXCEPT ![ShardOf[p]] = AfterErase(@, p)]
  /\ Return(t, "erase", <<p, EraseStatus(shards[ShardOf[p]], p), shards[ShardOf[p]].records[p]>>)
  /\ Observe
  /\ UNCHANGED scan

Find(t, p) ==
  /\ Free(t)
  /\ Return(t, "find", <<p, shards[ShardOf[p]].records[p]>>)
  /\ UNCHANGED <<shards, scan, stable, seen>>

\* insert, erase and find return before any lock when the pointer is null.
NullCall(t) ==
  /\ Free(t)
  /\ \/ Return(t, "insert", Null)
     \/ Return(t, "erase", <<Null, "NOT_FOUND", NoRecord>>)
     \/ Return(t, "find", <<Null, NoRecord>>)
  /\ UNCHANGED <<shards, scan, stable, seen>>

BeginScan(t, op) ==
  /\ Free(t)
  /\ scan' = [scan EXCEPT ![t] = [Idle EXCEPT !.op = op]]
  /\ stable' = [stable EXCEPT ![t] = AllEntries(shards)]
  /\ seen' = [seen EXCEPT ![t] = AllEntries(shards)]
  /\ UNCHANGED <<shards, ret>>

\* A mutant: the loop starts its copy before taking the lock of the next
\* shard, so a shard is skipped.
ScanStepSkips(sc, sh) ==
  [sc EXCEPT !.next = sc.next + 2,
             !.found = sc.found \cup Entries(sh),
             !.total = sc.total + Cardinality(Tracked(sh))]

\* One iteration of the loop of snapshot_all or size.
ScanStep(sc, sh) ==
  [sc EXCEPT !.next = sc.next + 1,
             !.found = IF sc.op = "snapshot_all" THEN sc.found \cup Entries(sh) ELSE {},
             !.total = IF sc.op = "size" THEN sc.total + Cardinality(Tracked(sh)) ELSE 0]

VisitShard(t) ==
  /\ scan[t].op \in {"snapshot_all", "size"}
  /\ scan[t].next < ShardCount
  /\ scan' = [scan EXCEPT ![t] = ScanStep(@, shards[scan[t].next])]
  /\ UNCHANGED <<shards, ret, stable, seen>>

ClearShard(t) ==
  /\ scan[t].op = "clear"
  /\ scan[t].next < ShardCount
  /\ shards' = [shards EXCEPT ![scan[t].next] = EmptyShard]
  /\ scan' = [scan EXCEPT ![t].next = @ + 1]
  /\ Observe
  /\ UNCHANGED ret

EndScan(t) ==
  /\ ~Free(t)
  /\ scan[t].next >= ShardCount
  /\ Return(t, scan[t].op,
            CASE scan[t].op = "snapshot_all" -> scan[t].found
              [] scan[t].op = "size"         -> scan[t].total
              [] OTHER                       -> Null)
  /\ scan' = [scan EXCEPT ![t] = Idle]
  /\ stable' = [stable EXCEPT ![t] = {}]
  /\ seen' = [seen EXCEPT ![t] = {}]
  /\ UNCHANGED shards

Next ==
  \E t \in Threads :
    \/ \E p \in Ptr, r \in Rec : Insert(t, p, r)
    \/ \E p \in Ptr : Erase(t, p)
    \/ \E p \in Ptr : Find(t, p)
    \/ NullCall(t)
    \/ \E op \in ScanOps : BeginScan(t, op)
    \/ VisitShard(t)
    \/ ClearShard(t)
    \/ EndScan(t)

Spec == Init /\ [][Next]_vars

-----------------------------------------------------------------------------
(* Properties.                                                             *)

ScanType == [op : ScanOps \cup {"idle"}, next : 0 .. ShardCount,
             found : SUBSET (Ptr \X Rec), total : Nat]

\* Every shard is a well-formed shard and every scan is at a shard index or
\* just past the last one (sharded_tracker.hpp:84, 96, 105, 114-119).
TypeOK ==
  /\ shards \in [Shards -> ShardType]
  /\ scan \in [Threads -> ScanType]
  /\ stable \in [Threads -> SUBSET (Ptr \X Rec)]
  /\ seen \in [Threads -> SUBSET (Ptr \X Rec)]

\* A pointer is only ever recorded or quarantined in the shard that
\* get_shard_index names (31, 44): otherwise a free would not find it.
InOwnShard ==
  \A i \in Shards : \A p \in Tracked(shards[i]) \cup Quarantined(shards[i]) : ShardOf[p] = i

\* No pointer is tracked and quarantined at once (33-38 against 46-55): a
\* block in use is never in the set that turns a free into an alarm.
TrackedNotQuarantined ==
  \A i \in Shards : Tracked(shards[i]) \cap Quarantined(shards[i]) = {}

\* A pointer fills at most one slot of the ring, so the ring really remembers
\* QuarantineSize different erasures.
NoDuplicateInRing ==
  \A i \in Shards : RingDistinct(shards[i])

\* A scan that locks one shard at a time (84-89) copies no entry that was not
\* tracked at some moment of the scan, and misses no entry of a visited shard
\* that has been tracked ever since the scan began.
ScanBracketed ==
  \A t \in Threads :
    scan[t].op = "snapshot_all" =>
      /\ scan[t].found \subseteq seen[t]
      /\ \A e \in stable[t] : ShardOf[e[1]] < scan[t].next => e \in scan[t].found

-----------------------------------------------------------------------------
(* The registry that callers rely on, TrackerRegistry.tla, with its window *)
(* of past erasures read out of the ring from the head onwards.            *)

Wrap(i) == IF i >= QuarantineSize THEN i - QuarantineSize ELSE i

LiveOf(s) == [p \in Ptr |-> s[ShardOf[p]].records[p]]

WindowOf(sh) == [j \in 1 .. QuarantineSize |-> sh.quarantine[Wrap(sh.head + j - 1)]]

CallOf(sc, st, sn) ==
  [op     |-> sc.op,
   todo   |-> IF sc.op = "clear" THEN sc.next .. ShardCount - 1 ELSE {},
   stable |-> st,
   seen   |-> sn]

Registry == INSTANCE TrackerRegistry WITH
  live   <- LiveOf(shards),
  window <- [i \in Shards |-> WindowOf(shards[i])],
  call   <- [t \in Threads |-> CallOf(scan[t], stable[t], seen[t])]

\* The sharded tracker implements the registry: erase answers SUCCESS exactly
\* for the pointers in use, DOUBLE_FREE_DETECTED exactly for those among the
\* last QuarantineSize erasures of their shard and not inserted since, and the
\* listings are bracketed by what was tracked while they ran (28-111).
RefinesRegistry == Registry!Spec

=============================================================================
