----------------------------- MODULE MemoryStats -----------------------------
(***************************************************************************)
(* The seven relaxed atomics of MemoryStats (types.hpp) under concurrent   *)
(* allocations, frees, readers and the watchdog of Manager::allocate.      *)
(*                                                                         *)
(* Every fetch_add, load and compare_exchange is a step.  The updates of   *)
(* one call touch different atomics with relaxed order, so other threads   *)
(* may see them in any order: a thread performs the updates of its set     *)
(* `todo' in any order.  The tracker's mutexes order a free of a block     *)
(* after its allocation, so a block can be freed only when all updates of  *)
(* its allocation are done.                                                *)
(***************************************************************************)
EXTENDS Integers, FiniteSets, Sequences

CONSTANTS Threads,
          Readers,       \* the threads that call get_stats, a subset of Threads
          Blocks,        \* the allocations of the instance
          None,          \* no allocation
          Size,          \* their requested_size
          Limit          \* config.max_heap_bytes

ASSUME NoneAssumption == None \notin Blocks
ASSUME SizeAssumption == Size \in [Blocks -> Nat]
ASSUME LimitAssumption == Limit \in Nat
ASSUME BlocksAssumption == IsFiniteSet(Blocks)
ASSUME ReadersAssumption == Readers \subseteq Threads

\* The fields in the order MemoryStatsSnapshot::from loads them.
LoadOrder == <<"total_allocated_bytes", "total_freed_bytes", "current_allocated_bytes",
               "peak_allocated_bytes", "total_allocation_count", "total_free_count",
               "active_allocation_count">>

Fields == {LoadOrder[i] : i \in 1 .. 7}

VARIABLES stats,    \* the atomics
          block,    \* per block: where it is in its life
          op,       \* per thread: what it is doing, and to which block
          todo,     \* per thread: the updates or loads still to be done
          current, peak,   \* per thread: the locals of update_on_alloc
          snap,     \* per thread: the fields loaded so far
          highWater,   \* history: the largest value current_allocated_bytes had
          alarmed      \* history: the callback ran since the limit was exceeded

vars == <<stats, block, op, todo, current, peak, snap, highWater, alarmed>>

Idle == [name |-> "idle", on |-> None]

Init ==
  /\ stats = [f \in Fields |-> 0]
  /\ block = [b \in Blocks |-> "new"]
  /\ op = [t \in Threads |-> Idle]
  /\ todo = [t \in Threads |-> {}]
  /\ current = [t \in Threads |-> 0]
  /\ peak = [t \in Threads |-> 0]
  /\ snap = [t \in Threads |-> [f \in Fields |-> 0]]
  /\ highWater = 0
  /\ alarmed = FALSE

AllocFields == {"total_allocated_bytes", "total_allocation_count",
                "active_allocation_count", "current_allocated_bytes"}

\* A mutant: a free is not taken off the active count.
FreeFieldsShort == {"total_freed_bytes", "total_free_count", "current_allocated_bytes"}

FreeFields == {"total_freed_bytes", "total_free_count",
               "active_allocation_count", "current_allocated_bytes"}

\* What an update adds to a field.
Delta(name, f, b) ==
  CASE f = "total_allocated_bytes"   -> Size[b]
    [] f = "total_freed_bytes"       -> Size[b]
    [] f = "current_allocated_bytes" -> IF name = "alloc" THEN Size[b] ELSE -Size[b]
    [] f = "active_allocation_count" -> IF name = "alloc" THEN 1 ELSE -1
    [] OTHER                         -> 1

BeginAlloc(t) ==
  /\ op[t].name = "idle"
  /\ \E b \in Blocks :
       /\ block[b] = "new"
       /\ block' = [block EXCEPT ![b] = "allocating"]
       /\ op' = [op EXCEPT ![t] = [name |-> "alloc", on |-> b]]
  /\ todo' = [todo EXCEPT ![t] = AllocFields]
  /\ UNCHANGED <<stats, current, peak, snap, highWater, alarmed>>

\* tracker_.erase has taken the record of a tracked block.
BeginFree(t) ==
  /\ op[t].name = "idle"
  /\ \E b \in Blocks :
       /\ block[b] = "tracked"
       /\ block' = [block EXCEPT ![b] = "freeing"]
       /\ op' = [op EXCEPT ![t] = [name |-> "free", on |-> b]]
  /\ todo' = [todo EXCEPT ![t] = FreeFields]
  /\ UNCHANGED <<stats, current, peak, snap, highWater, alarmed>>

\* One fetch_add or fetch_sub.
Update(t, f) ==
  LET value == stats[f] + Delta(op[t].name, f, op[t].on)
      raises == op[t].name = "alloc" /\ f = "current_allocated_bytes"
  IN /\ op[t].name \in {"alloc", "free"}
     /\ f \in todo[t] \cap Fields
     /\ stats' = [stats EXCEPT ![f] = value]
     /\ current' = IF raises THEN [current EXCEPT ![t] = value] ELSE current
     /\ todo' = [todo EXCEPT ![t] = (@ \ {f}) \cup (IF raises THEN {"load_peak"} ELSE {})]
     /\ highWater' = IF raises /\ value > highWater THEN value ELSE highWater
     /\ alarmed' = IF f = "current_allocated_bytes" /\ value <= Limit THEN FALSE ELSE alarmed
     /\ UNCHANGED <<block, op, peak, snap>>

LoadPeak(t) ==
  /\ "load_peak" \in todo[t]
  /\ peak' = [peak EXCEPT ![t] = stats["peak_allocated_bytes"]]
  /\ todo' = [todo EXCEPT ![t] = (@ \ {"load_peak"}) \cup {"raise_peak"}]
  /\ UNCHANGED <<stats, block, op, current, snap, highWater, alarmed>>

\* A mutant: the peak is stored, not exchanged against the value compared.
StorePeak(t) ==
  /\ "raise_peak" \in todo[t]
  /\ stats' = [stats EXCEPT !["peak_allocated_bytes"] =
                 IF current[t] > peak[t] THEN current[t] ELSE @]
  /\ todo' = [todo EXCEPT ![t] = @ \ {"raise_peak"}]
  /\ UNCHANGED <<block, op, current, peak, snap, highWater, alarmed>>

\* One round of the compare_exchange_weak loop: there is nothing to raise, or
\* the exchange succeeds, or it fails and loads the value it found.  A
\* spurious failure changes nothing.
RaisePeak(t) ==
  /\ "raise_peak" \in todo[t]
  /\ IF current[t] > peak[t] /\ stats["peak_allocated_bytes"] # peak[t]
     THEN /\ peak' = [peak EXCEPT ![t] = stats["peak_allocated_bytes"]]
          /\ UNCHANGED <<stats, todo>>
     ELSE /\ todo' = [todo EXCEPT ![t] = @ \ {"raise_peak"}]
          /\ stats' = IF current[t] > peak[t]
                      THEN [stats EXCEPT !["peak_allocated_bytes"] = current[t]]
                      ELSE stats
          /\ UNCHANGED peak
  /\ UNCHANGED <<block, op, current, snap, highWater, alarmed>>

\* A mutant: the record is inserted while the counters still lag.
InsertEarly(t) ==
  /\ op[t].name = "alloc"
  /\ Cardinality(todo[t]) <= 1
  /\ todo' = [todo EXCEPT ![t] = {}]
  /\ block' = [block EXCEPT ![op[t].on] = "tracked"]
  /\ op' = [op EXCEPT ![t].name = "watchdog"]
  /\ UNCHANGED <<stats, current, peak, snap, highWater, alarmed>>

\* update_on_alloc has returned and the record goes into the tracker, after
\* which any thread may free the block.
Insert(t) ==
  /\ op[t].name = "alloc"
  /\ todo[t] = {}
  /\ block' = [block EXCEPT ![op[t].on] = "tracked"]
  /\ op' = [op EXCEPT ![t].name = "watchdog"]
  /\ current' = [current EXCEPT ![t] = 0]
  /\ peak' = [peak EXCEPT ![t] = 0]
  /\ UNCHANGED <<stats, todo, snap, highWater, alarmed>>

\* A mutant: the limit itself does not count as room.
WatchdogOffByOne(t) ==
  /\ op[t].name = "watchdog"
  /\ alarmed' = (alarmed \/ stats["current_allocated_bytes"] > Limit + 1)
  /\ op' = [op EXCEPT ![t] = Idle]
  /\ UNCHANGED <<stats, block, todo, current, peak, snap, highWater>>

\* The watchdog reads current_allocated_bytes anew and may run the callback.
Watchdog(t) ==
  /\ op[t].name = "watchdog"
  /\ alarmed' = (alarmed \/ stats["current_allocated_bytes"] > Limit)
  /\ op' = [op EXCEPT ![t] = Idle]
  /\ UNCHANGED <<stats, block, todo, current, peak, snap, highWater>>

EndFree(t) ==
  /\ op[t].name = "free"
  /\ todo[t] = {}
  /\ block' = [block EXCEPT ![op[t].on] = "gone"]
  /\ op' = [op EXCEPT ![t] = Idle]
  /\ UNCHANGED <<stats, todo, current, peak, snap, highWater, alarmed>>

BeginSnapshot(t) ==
  /\ t \in Readers
  /\ op[t].name = "idle"
  /\ op' = [op EXCEPT ![t] = [Idle EXCEPT !.name = "snapshot"]]
  /\ todo' = [todo EXCEPT ![t] = Fields]
  /\ UNCHANGED <<stats, block, current, peak, snap, highWater, alarmed>>

\* MemoryStatsSnapshot::from loads the fields one by one.
Load(t, i) ==
  /\ op[t].name = "snapshot"
  /\ todo[t] = {LoadOrder[j] : j \in i .. 7}
  /\ snap' = [snap EXCEPT ![t][LoadOrder[i]] = stats[LoadOrder[i]]]
  /\ todo' = [todo EXCEPT ![t] = @ \ {LoadOrder[i]}]
  /\ UNCHANGED <<stats, block, op, current, peak, highWater, alarmed>>

EndSnapshot(t) ==
  /\ op[t].name = "snapshot"
  /\ todo[t] = {}
  /\ op' = [op EXCEPT ![t] = Idle]
  /\ snap' = [snap EXCEPT ![t] = [f \in Fields |-> 0]]
  /\ UNCHANGED <<stats, block, todo, current, peak, highWater, alarmed>>

\* Every block has lived and nobody is inside a call.
Done ==
  /\ \A t \in Threads : op[t].name = "idle"
  /\ \A b \in Blocks : block[b] = "gone"
  /\ UNCHANGED vars

Next ==
  \/ \E t \in Threads :
       \/ BeginAlloc(t) \/ Insert(t) \/ Watchdog(t) \/ LoadPeak(t) \/ RaisePeak(t)
       \/ BeginFree(t) \/ EndFree(t)
       \/ BeginSnapshot(t) \/ EndSnapshot(t)
       \/ \E f \in Fields : Update(t, f)
       \/ \E i \in 1 .. 7 : Load(t, i)
  \/ Done

Spec == Init /\ [][Next]_vars

-----------------------------------------------------------------------------
(* Properties.                                                             *)

Updating == {t \in Threads : op[t].name \in {"alloc", "free"}}

\* The bytes the tracked blocks were asked for, one element for each byte.
Bytes(S) == UNION {{b} \X (1 .. Size[b]) : b \in S}

Tracked == {b \in Blocks : block[b] = "tracked"}

\* No counter is ever taken below zero, which in the code would wrap to 2^64:
\* every block is counted in before it can be counted out (types.hpp:69-86,
\* memsentry.cpp:265-266 and 299-309).
NoUnderflow == \A f \in Fields : stats[f] >= 0

\* The peak never exceeds what current_allocated_bytes really reached, neither
\* does what a snapshot loads for either, and between calls the peak is exactly
\* that: no racing update of it is lost (types.hpp:74-78, 98-108).
PeakIsHighWater ==
  /\ \A t \in Readers : /\ snap[t]["peak_allocated_bytes"] <= highWater
                        /\ snap[t]["current_allocated_bytes"] <= highWater
  /\ stats["peak_allocated_bytes"] <= highWater
  /\ Updating = {} => stats["peak_allocated_bytes"] = highWater

\* Between calls the counters agree with each other and with the blocks that
\* are tracked (types.hpp:69-86).
CountersAgree ==
  Updating = {} =>
    /\ stats["active_allocation_count"] = Cardinality(Tracked)
    /\ stats["current_allocated_bytes"] = Cardinality(Bytes(Tracked))
    /\ stats["active_allocation_count"] =
         stats["total_allocation_count"] - stats["total_free_count"]
    /\ stats["current_allocated_bytes"] =
         stats["total_allocated_bytes"] - stats["total_freed_bytes"]

\* The heap is not left above the limit unnoticed: when no allocation is in
\* progress and the limit is exceeded, the callback ran since it was crossed,
\* although each thread reads the counter long after its own update
\* (memsentry.cpp:269-274).
ExcessNoticed ==
  /\ \A t \in Threads : op[t].name \notin {"alloc", "watchdog"}
  /\ stats["current_allocated_bytes"] > Limit
  => alarmed

=============================================================================
