# MemSentry in TLA+

MemSentry replaces `new`, `delete` and the C allocation calls of a C++ program,
puts a header and canaries around the blocks it tracks, and reports leaks,
overruns and double frees. The modules here are models of that code, written
from the source; TLC checks them on small instances and the TLA+ proof system
proves their invariants for every size of the instance. Line numbers
below refer to the repository (`memsentry.cpp` is `src/memsentry.cpp`, headers
are under `include/memsentry/`). `PROJECT.json` maps each definition to the
lines it models.

## 1. The system

| Component | State | Operations | Hard part |
|---|---|---|---|
| Sharded tracker, `core/sharded_tracker.hpp` | 64 shards, each a mutex, a map from user pointers to records, and a ring of the last 256 erased pointers | `insert`, `erase`, `find`, `snapshot_all`, `size`, `clear` | an address is reused while it is still in the ring; listings lock one shard at a time |
| Manager, `memsentry.cpp`, with the hooks, `allocator_hooks.cpp`, and the thread-local guard, `core/recursion_guard.hpp` | configuration, `initialized_`, id counter, statistics, tracker; a depth per thread | `allocate`, `deallocate`, `reallocate`, `initialize`, `shutdown` and the hooks `track_*` | tracked, untracked and freed blocks share one heap and one `free` |
| Block header and canaries, `core/header.hpp` | the bytes of a block | `calculate_total_size`, `init_block`, `verify_canary`, `poison_block`, `get_header_from_user_ptr` | overflow, padding, cut-off words, an offset word in front of the payload |
| Statistics and watchdog, `types.hpp`, `memsentry.cpp:268-274` | seven relaxed atomics | `update_on_alloc`, `update_on_free`, `MemoryStatsSnapshot::from`, the callback | lost updates, torn reads, a limit crossed by two threads at once |
| Snapshots, `snapshot.cpp` | two lists with counters | `take_snapshot`, `compare_snapshots` | counters and lists come from different moments; addresses are reused |
| Suppressions, `core/suppression_engine.hpp` | a list of rules under a mutex | `add_rule`, `clear`, `is_suppressed` | rules change while a report is made |
| Exit report, `memsentry.cpp:405-421, 477-486` | — | `dump_leaks`, `has_unsuppressed_leaks`, `on_exit` | two listings decide one exit; `exit` is called inside an exit handler |
| Histogram and fragmentation, `profiler/histogram.hpp`, `profiler/fragmentation.hpp` | buckets under a mutex | `record`, `snapshot`, `analyze` | updated apart from the counters; bucket borders |
| Configuration and lifecycle | `config_`, a plain structure; what is registered with `atexit` | `init`, `shutdown`, static construction and destruction, `on_exit` | blocks outlive a configuration; the report runs among destructors |
| Sampling, `memsentry.cpp:96-157, 206-229` | a countdown per thread | part of `allocate` | unsampled blocks pass through every other operation |
| Stack traces and symbol cache, `stacktrace.cpp` | a map under a mutex | `capture`, `resolve`, `initialize`, `cleanup` | two mutexes nested by `is_suppressed` |
| Flamegraph, `profiler/flamegraph.hpp` | — | `build_tree`, `generate_folded_stacks`, `generate_svg` | a fold over the records; nodes too narrow to draw |
| Scope tags, `profiler/scope_tag.hpp` | one pointer per thread | constructor, destructor | nesting; reallocation under another scope |
| Reporters, `reporter.cpp` | — | console, JSON, HTML | four reports of one list |
| MSVC guard, `core/msvc_debug_guard.hpp` | — | compiler switches | — |

How they interact. A hook (`track_alloc`, `track_free`, `track_realloc`,
memsentry.cpp:596-620) asks the guard of its thread: inside the guard, or when
the tool is not initialised, the request goes to the system allocator, and
otherwise to the Manager. `allocate` draws an id, decides on sampling, gets a
system block, writes header and footer, counts the block, inserts its record
and evaluates the watchdog. `deallocate` erases the record first; on success it
verifies the canaries, updates counters and histogram, poisons the block and
frees it; a pointer that is in the ring is reported as a double free; a pointer
without a record is inspected for a header and then given to the system. The
reports read counters, tracker and suppressions one after the other while all
of this goes on. There are no background threads, no messages and no stored
state: the concurrency is that of the application's own threads.

What makes each part correct: the tracker answers like one map with a window of
recent erasures; every free finds the path its block was made by, no block is
lost or released twice, and alarms mean what they say; a block's layout fits
its memory and its canaries are judged correctly; counters agree with the
tracker at rest and never wrap; reports are truthful about some moment of the
time in which they were made, and agree with each other; an answer about
suppression is that of one list of rules; tags are those of the scopes; and a
process that asked for a report gets it, and an exit status that says the same.

## 2. The modules

| Module | Models | Role |
|---|---|---|
| `TrackerShard` | one shard | operators: `InsertInto`, `AfterErase`, `EraseStatus`, used by the next two state machines |
| `ShardedTracker` | `ShardedTracker` under concurrent callers | state machine |
| `TrackerRegistry` | what callers rely on | abstract specification, implemented by `ShardedTracker` |
| `ShardedTrackerProofs` | — | proofs, with the refinement of `TrackerRegistry` |
| `Manager` | allocate, deallocate, reallocate, hooks, guard, lifecycle | state machine, composes the shards with blocks and heap |
| `ManagerProofs` | — | proofs |
| `MemoryStats` | the atomics, the watchdog | state machine |
| `MemoryStatsProofs` | — | proofs |
| `BlockLayout` | header.hpp at the level of bytes | state machine over pure operators |
| `BlockLayoutProofs` | — | proofs |
| `Diagnostics` | snapshots, suppressions, exit report, histogram, with running threads | state machine |
| `DiagnosticsProofs` | — | proofs |
| `Lifecycle` | `init` to `exit`: what is registered, alive and reported | state machine |
| `LifecycleProofs` | — | proofs |
| `Suppressions` | what the callers of the suppression engine rely on | abstract specification, implemented by `Symbols` |
| `Symbols` | the suppression engine over the symbol cache, lock by lock | state machine |
| `SymbolsProofs` | — | proofs, with the refinement of `Suppressions` |
| `Profile` | scope tags, call stacks, flamegraph, the reports | state machine over pure operators |
| `ProfileProofs` | — | proofs |
| `MC*` | — | instances for TLC |

**ShardedTracker.** `insert`, `erase` and `find` hold the shard's mutex from the
first to the last access, so each is one action. `snapshot_all`, `size` and
`clear` begin, visit one shard per action and end; other threads step in
between. `ret` is the value last returned. The hash `get_shard_index` is a
constant function. The history variables `stable` and `seen` hold what has been
tracked throughout and at some time of a listing. `TrackerRegistry` has one map
and, per shard, a window of the last `QuarantineSize` erasures that slides; the
refinement mapping reads the window out of the ring from the head onwards.

**Manager.** One action per access to shared state: a call of the tracker, of
the statistics, of the system heap, or a look at a header. The program counter
`pc[t]` names the next one, `loc[t]` holds the locals, `depth[t]` the guard. The
heap is a row of cells; a tracked block takes two (header and payload), an
untracked block one, which is what it takes for an untracked block to come to
lie where a tracked payload was. A header cell keeps the magic, the canary flag
and the number of intact footer words. A new block is known to no other thread
before it is counted and inserted, so malloc and `init_block` are one step. A
failed `malloc` is possible whenever no room is left. Poisson sampling can go
either way for a request of one byte. `init` is called while no thread is inside
the Manager, as its plain `config_` requires. The application is part of the
model: it frees what it owns, and, where a run's `Calls` allow it, reallocates,
overruns, frees a stale pointer, frees from the watchdog callback, takes a report,
shuts the tool down and initialises it again. A `realloc` of the null pointer is
the call `CallAlloc` and, while the tool is initialised, one to size zero the call `CallFree`,
as `Manager::reallocate` (338-343) hands them on; one to size zero after shutdown is the
system's free and an action of its own, `ReallocNothing`. An underrun reaches the magic of the header in the model (`Damage`). Calls of `track_*` inside the guard
go to the system; the guard branch inside `Manager::deallocate` (283-294) is not
reached through the hooks, and no action stands for it.

**MemoryStats.** Each `fetch_add`, load and compare-exchange is a step; the
updates of one call are independent relaxed operations, so they are performed in
any order. The loads of a snapshot keep the program order. `block` orders a free
of a block after its insertion, which the mutexes of the tracker do in the code.

**BlockLayout.** One block in an address space of `SizeMax + 1` bytes with
wrapping arithmetic, placed at any aligned address. A byte holds a symbol for
the write it comes from. The application may write anywhere in the block except
on the header fields behind the magic: on a damaged size or offset the code
follows a wild pointer and the model has nothing to say.

**Diagnostics.** `allocate` and `deallocate` are cut where a report can tell the
difference: counted, inserted, erased, uncounted, recorded in the histogram. A
report reads the counters, lists the shards one by one and then asks about one
record at a time, since `is_suppressed` takes its mutex anew for each.
`compare_snapshots` is a set of operators on the two snapshots.

**Lifecycle.** One thread calls `init`, `shutdown`, `suppress` and the queries,
leaks blocks and builds static objects in any order, then exits. `exitStack` is
what the C library keeps for `exit`: the report handler of `initialize`, the
destructor of the suppression engine, which is registered by its first use, those of the
application's static objects, and a `shutdown` the application registers itself.
`exit` pops and runs them. `RunReport` is `on_exit` with its early returns, its two passes
over the records and its nested `exit(1)`, after which the functions still
registered run, as the C library does it. A pass through a destroyed engine
may let any record through, if its list of rules was not empty. What the
records were allocated after (`era`) and how often a report was asked for are history.

**Symbols.** Two mutexes, that of the rules and that of the cache. `is_suppressed`
locks the first, checks the tag, resolves each frame under the second and
unlocks; a reporter resolves frames, and `cleanup` runs, under the second alone. The
guard is part of the model: strings are allocated under both mutexes, and
where the guard is not held such an allocation is tracked and its callback may come
back for the same mutex; the model sends the thread there. The program may
replace the code at an address (`Reload`), and what the platform says of an address is the name of its
code. `Suppressions` has none of this: one list of rules, and one step per question; the
names it may use are those the address has had, since a cache entry is never
dropped on POSIX. The mapping is by name: `rules`, `held` and `reply` are the same
variables.

**Profile.** Threads open and close scopes and allocate, free and reallocate; a
record keeps tag, size and call stack. `capture`, `resolve`, `build_tree`, the drawing and
the reports are operators on the list of records, since a report copies it first.
A node of the tree is its path of names, which makes `get_or_create_child` a
prefix-closed set of paths; widths are in bytes, so that the cut-off of nodes narrower than
a pixel is a comparison of integers.

## 3. The runs

| Run | Instance | Shows |
|---|---|---|
| `tracker` | 2 threads, 3 pointers in 2 shards, 2 records, ring of 2 | types; no pointer tracked and quarantined; ring slots distinct; listings bracketed; `ShardedTracker` implements `TrackerRegistry` |
| `correct_use` | 2 threads, 4 cells, 3 ids, every allocation tracked, limit of one block, realloc, overruns, the untracked memory of reports, frees from the callback, one misuse | records never outlive blocks, the heap is never misused, damage is contained and reported, alarms are justified, counters match, nothing is lost; after the misuse, a double free within the ring is still caught |
| `mixed_use` | 2 threads, 4 cells, 3 ids, 1-in-2 and Poisson sampling, canaries on or off, reports, overruns, shutdown and init, size-zero reallocs of untracked blocks after shutdown | the heap, alarms and ownership where tracked and untracked blocks share the heap |
| `stats` | 2 threads, one also reads, 3 blocks of 2 sizes, limit 1 | no counter wraps; the peak is the high-water mark; counters agree at rest; an excess is noticed |
| `layout` | 64 addresses, 5 sizes up to the largest, 4 alignments, 4 footers, every placement, 2 damaged bytes | the layout fits; damage behind the payload raises the alarm and a clean block does not; the lookup finds live headers and no freed ones |
| `diagnostics` | 2 workers, 2 addresses in 2 shards, 2 ids, 2 changes of the rules | differences are truthful; deltas agree at rest; the histogram accounts for every freed byte; leaks are printed and fail the process; status and report agree at rest |
| `lifecycle` | 2 starts, 3 calls of `init` with every configuration, 2 tags, 1 static object, 2 records, 2 exit statuses | one report per start that asked; the exit status tells of leaks; static objects and suppressed blocks are blamed only where the order of construction allows it; `exit` ends |
| `symbols` | 2 threads with 2 calls each, 2 addresses of which one is reloaded, 3 rules, 3 records, POSIX and Windows builds | `Symbols` implements `Suppressions`; every call returns |
| `profile` | 2 threads, 3 records and open scopes, 3 call stacks, 3 configurations, sizes 0, 1 and 3 | tags follow scopes; the tree accounts for every byte; rectangles are nested and disjoint; the reports agree |

Three more runs each show one thing the repository says and the code does not do:

| Run | Said | Found |
|---|---|---|
| `sampling_leak` | "All sampled and unsampled allocations cleanly deallocated" (tests/test_sampling.cpp:70) | only tracked inserts scrub the ring, so an unsampled block at a quarantined address is refused its first free as a double free and leaks |
| `late_realloc` | "post-shutdown … allocations route safely without … OS heap corruption" (README.md:34) | after `shutdown`, `realloc` of a tracked block hands its interior pointer to the system (to `free` when the size is zero) |
| `late_suppression` | "whitelist known third-party singleton allocations via `memsentry::suppress()`" (README.md:49) | the engine is a function-local static: first used after `init`, it is destroyed before the exit report, which then reads freed rules and may list what was suppressed |

Seen while modelling, and left without a run:

- An underrun that stays between the magic and the payload is not noticed:
  `verify_canary` compares the magic and the footer only, while ADR 0002:12 puts
  canaries "immediately adjacent to the allocated payload".
- A statistics snapshot is loaded field by field and may show a peak below its
  current bytes, which tests/test_fragmentation.cpp:87 takes as impossible.
- The branch of `deallocate` for freed headers (memsentry.cpp:319-325) is dead:
  `get_header_from_user_ptr` returns live headers only. A double free that has left
  the ring reaches the system's `free`.
- A second `init` with a larger footer makes `verify_canary` and `poison_block` run
  past the end of blocks allocated before it.
- `StackTraceProvider::cleanup` returns early on POSIX, where nothing sets `initialized_`:
  the cache keeps the names of unloaded code.
- The standalone flamegraph draws suppressed records too, the other exports do not.
- Every start that asks registers its own handler, so two starts print two reports.
- The `<title>` of a node (flamegraph.hpp:164-173) is not escaped, the attribute and
  the label are.
- `report_format`, `export_path` and `enable_flamegraph` are read by nothing;
  `default_tag` only where a tag is null, which `get_current_tag` never returns.

**Why the bounds are enough.** A ring of two slots wraps after three erasures
and can have a hole at, before or behind its head; longer rings add only more of
the same slots. Two shards are the least for which a listing is not atomic, and
a third pointer makes one shard collide and the other not. Two threads show
every pairwise race of the Manager, whose critical sections are single accesses;
4 cells hold two tracked blocks, or one and two untracked ones, so reuse at the
same and at a shifted address, and exhaustion, happen within
three allocations. Three
blocks of two sizes let the limit be crossed, undone and crossed again. In
`layout` the word sizes are the code's, divided by four (the header, 64 bytes, is
two alignments instead of four; `CandidateSpan` is scaled to eight, below the
largest alignment), so sizes of 30 and 63 overflow, footers of 1, 2 and 5
are shorter than, equal to and not a multiple of a word. In `diagnostics` two ids
at two addresses give a block freed and its address reused between two
snapshots, and one rule set and cleared between dump and status. In `lifecycle`
two starts are the least for which the order of handlers, engine and static
objects can differ between reports, and a third `init` changes the configuration
of a running tool; two records let one be suppressed and one not. In `symbols` two calls per
thread give a question that races with a change of the rules followed by one that sees it,
a second frame lets the rules change between two resolutions, and one reloaded address
has a cached and a current name. In `profile` three objects are two nested
scopes and an allocation, or three records; the stacks share a caller, two addresses of one
function have one name, one frame is null, and with a width of three pixels a node of one byte
among more than three is cut off. Threads that
are alike are declared symmetric; all properties checked under symmetry are
safety properties. `tracker` is checked with the returned value left out of the
view: no action reads it, so states that differ in it alone have the same steps.

`MaxAllocs`, `MaxMisuse`, `MaxId`, `MaxRules`, `DamageLimit`, `MaxStarts`, `MaxInits`,
`MaxBlocks`, `MaxCalls` and `MaxObjects` are bounds on calls that the code does not have.
`Rest`, `Done` and `Ended` are the places where the program may stop; every run
checks for deadlock otherwise. In `symbols` reloads go on for ever, so that a deadlock of the
threads would not be one of the model: `CallsReturn` is what excludes it.

**Fairness.** `Lifecycle` assumes weak fairness of the steps of `exit`: once called, it
runs the registered functions to the end; nothing obliges the program to call it.
`Symbols` assumes weak fairness of each thread's steps inside a call, because the
system schedules every thread. It assumes no fair mutex: `std::mutex` may prefer
one waiter for ever, but each thread makes `MaxCalls` calls at most, so a waiter is
alone in the end; with unboundedly many calls `CallsReturn` would be a
promise of the C++ library and not of this code. Calls and reloads are not
fair: the application need not make them. The other specifications state safety only.

## 4. The proofs

Each theorem is for every value of its module's constants that satisfies the named
assumptions, which TLC evaluates in the runs of the same modules. Every safety property
of a passing run is proved; the two liveness properties are checked only.

*The tracker* (`ShardedTrackerProofs`), for all pointers, records, threads, shard
counts and ring sizes (a shard and a slot exist, the hash maps pointers to shards, the
null values are no pointers or records). The properties are not inductive: that a ring
holds no pointer twice needs that `erase` finds nothing to put there a second time, that
is, that what is tracked is not quarantined, and a free looks in the right shard only
when every pointer lies in its own. `Sound(i, s)` joins these three for one shard.
Lemmas show that the empty shard is sound and that `InsertInto` and `AfterErase` keep
soundness (`InsertSound`, `EraseSound`); since every action replaces at most one
shard, `ReplaceShard` lifts that to the array. The inductive invariant `IInv` adds
the types and `ScanBracketed`, for which `ObserveKeeps` shows that the history
variables follow every change. `Implements` is the refinement of `TrackerRegistry`: an
`insert` or `erase` is the step of the one map and its sliding windows, the visit of a
shard is a stutter, and the end of a listing answers with a set between what was
tracked throughout and what was tracked at some time. For `size`, which keeps only a number,
`CountInv` carries along that some such set of visited entries has this number of members.

*The Manager* (`ManagerProofs`), for any threads, heap, shards, ring, and configurations. The
argument has four layers, each with one lemma per action.

- `Base`: types, what a thread's locals hold at each label, and a bound on the ids that
  calls may still draw. It needs nothing else and gives `TypeCorrect`. `RecentInv`
  says which erasures a ring still remembers; with it `DoubleFreeAlwaysCaught`
  holds for every program, whatever else it did wrong.
- `Safe`: every two-cell block is in the hands of at most one of the application and the
  calls in progress (`Apart`), headers and records are where blocks are (`Headers`, `Records`), and
  at each label a thread holds blocks in the condition the next step takes for granted
  (`ThreadSafe`). This is what `HeapNeverMisused`, `RecordsAreLive` and
  `ActiveAccountsForRecords` need for induction: a free is harmless only because no other call has the same
  block in hand, and the counter is exact only because a record that is erased was counted
  by the call that inserted it.
- `Alerted`: a block that nobody overran still passes the check (`Sealed`), a call that
  found damage holds a damaged block (`Blamed`), and no block is without an owner (`Held`). It
  gives `AlertsJustified` and `NothingLost`.
- `Contained`: the converse. A damaged block is in nobody's hand but that of a call that will check it,
  fails the check, and is never about to be released without an alarm. It gives `DamageContained`.

The properties are about programs that free what they own (`ProperUse`), as the properties themselves say. The
theorems about them have two hypotheses on the constants, which are the places where the
code fails them: `NoLateRealloc`, the program does not both call `shutdown` and reallocate,
a size-zero realloc of an untracked block apart (the finding `late_realloc`,
memsentry.cpp:616-617, 345-346), and `SameFooter` or `SameCanary`, a program that shuts down and
calls `init` again asks for the same footer, or footer and canary switch, since the
code judges a block by the configuration of the day (memsentry.cpp:303-304, 353-355). The instances of
`correct_use` and `mixed_use` satisfy `NoLateRealloc`; `mixed_use` switches canaries, for which only the theorems
without `SameCanary` speak.

*The statistics* (`MemoryStatsProofs`). A counter is not what the calls in progress say it is, so the
invariant relates each field to sets of blocks: `Counted(f)` holds those whose
call has updated `f` already, by the updates still in `todo`, and `f` is the number or the
bytes of those counted in and not out. `OneOwner` makes a step of a call move exactly one block from one set
to the other. `NoUnderflow` follows because a block is counted out after it was counted in;
`CountersAgree`, because at rest the sets are those of the blocks. For `PeakIsHighWater` the
peak either is the mark or a thread that saw the mark is still raising it (`PeakInv`);
`ExcessNoticed` has a similar witness (`NoticeInv`). Integers are mathematical here and the
theorem that no counter goes below zero is what makes the code's unsigned ones equal to them.

*The layout* (`BlockLayoutProofs`), for every word size, header, alignment,
request and placement that satisfies `SizesAssumption` and `RequestsAssumption`. The
lemmas derive from the remainder's definition that rounding up moves an address
by less than the alignment (`Remainder`, `UserAddrPlace`) and that a size
which passes the overflow check leaves room for the largest padding
(`TotalEnough`, `NoWrap`). The invariant records where the user pointer lies relative
to the raw one; `LayoutFits` follows: no request, however
large, gives a block that its header, padding, payload and footer overrun. `BytesInv` adds what each
byte of a live and of a freed block holds, except where the application wrote; since the
regions are apart, damage is seen exactly where a compared byte was written (`AlarmsExactly`), and the lookup finds the header
by the offset word or by the magic in front, and no freed header (`LooksUpExactly`).

*The diagnostics* (`DiagnosticsProofs`). A report is a listing that others overtake. The
invariant says what a listing owes after `n` shards: every record of those shards that was there at its start
and still is (`Diff` for the snapshots, `Owed` for the leaks, `Agreed` for the two
passes of `on_exit` when nothing else runs). It is inductive because such sets only shrink,
for which a record on its way into the tracker must be in no list yet (`Fresh`: ids are
never reused). The results are `DifferenceTruthful`, `EveryLeakReported` and `ReportAgreesWithStatus`.
The other half is about sums. `MapThenSumSet` is a recursion over finite sets; `Weigh(w, S)`
is the same sum without one, the number of units that the elements of `S` have by the
weights `w`. `SumExists` and `SumIs` show that a recursion of this form has a solution and that every solution is
`Weigh`, each by the smallest set for which it would fail (`LeastSubset`), and `WeighAdd`, `WeighRemove` and
`WeighChange` say how it moves with one element. Then `Ledger`: a counter is the sum over the tracked records and over
those of the calls that stand between counter and tracker; `Undisturbed`: a snapshot that no call overlaps is exact;
`Filed`: freed bytes are in the buckets or in the hands of a call that will record them. The results are `DeltasAlwaysAgree` and
`HistogramAlwaysAccounts`, from two more assumptions: finitely many workers, and ranges
that leave out no size but zero (histogram.hpp:24-31, from 1 to the largest `size_t`).

*The lifecycle* (`LifecycleProofs`). All three properties are about the order in
which `exit` unwinds what was registered. Entries carry the number of starts before them; `StaticsIn` and `EnginesIn` say that
what lies above a destructor on `exitStack` was registered after it. From these `ReportedAsStarted` counts the reports that are
still to come, `StatusCorrect` follows the status through the nested `exit`, and
`BlamedRightly` shows that a static object is listed only by a report that was registered later than
the object was built.

*The suppressions* (`SymbolsProofs`): `ImplementsSuppressions`, the refinement of
`Suppressions`. The thread that holds the rules is at the label that will release
them, the names it collected are names its frames have had, and no rule matched the tag when it
goes on to the frames; so its answer, whichever step gives it, is one that a single list of rules
gives at that moment.

*The profile* (`ProfileProofs`), for any threads, tags, scopes, call stacks, symbols,
sizes and buckets. `TagsAlwaysFollow`: the tag of a thread does not say what it will be
when a scope ends; the chain of saved tags does (`Chained`).

The other three theorems are about what the loops of the reports compute, and `IInv`
gives them only that each record is of the kind that `allocate` makes (`Faithful`). The
argument has three steps.

- *The loop.* `FoldLeft` chooses a function on sets of indices. `BuildExists` shows by
  induction that there is one for every length of the list, and `BuildChain` that the
  tree is the last of a chain in which each member is `AddRecord` of the one before.
  `CopyChain` and `WithoutIs` do the same for the loops that leave records out.
- *The closed form.* `Grown` says without a loop what the tree is after `k` records: its
  nodes are the root and the prefixes of the paths so far, a node's totals are the
  weight and the number of the records whose paths pass through it (`Thru`), it keeps
  those whose paths end there (`Here`), and its children are the names with which paths
  go on, each once (`Family`). `TreeNext` shows that `AddRecord` takes this from `k` to
  `k + 1`, with a lemma for a node that the new path passes, ends at, creates or leaves
  alone; `TreeIs` is the result.
- *Sets instead of sums.* `Weigh` and its lemmas, as in the diagnostics, and
  `WeighParts`: sets that are apart weigh together what each weighs.
  `TreeAlwaysAccounts` follows because a record that passes a node stays there or goes
  on into one child (`Partition`). For `RectanglesAlwaysNested`, the `x` of a rectangle
  weighs the records to its left, `Left`: those that part from its path, at some depth,
  into an earlier child (`XOfIs`). Their sets for different depths are apart, and apart
  from the records through the node (`Edges`); a caller's set and its records contain
  those of the callee (`Stands`), and of two paths of one length the one in the earlier
  child has all it spans to the left of the other (`Follows`, `RowApart`).
  `ReportsAlwaysAgree` combines the books of two trees, that of all records and that of
  the unsuppressed ones, with `BarsCount`: the buckets part the blocks of positive size.

`BucketsAssumption` is what histogram.hpp:24-31 writes down: ranges from 1 upwards, one
above the other, up to the largest `size_t`. Widths are integers here; what the rounding
of pixels to floating point adds is not covered.

*Model-checked only*:

- liveness under fairness: `ExitEnds` of `Lifecycle` and `CallsReturn` of `Symbols`.
- the three properties that the code violates.

*Out of the prover's reach*: liveness under fairness and `ENABLED`, and theorems with an
operator as parameter, among them the library's induction theorems. What a recursive
definition computes is derived here from a smallest counterexample instead: over finite
sets (`LeastSubset`) for the sums, over the natural numbers, as a statement about sets
(`Induction`), for the loops; and once for each recursion, since a lemma cannot take the
step as a parameter. There are no `RECURSIVE` operators.

## 5. Not modelled, and why

- Formatting, escaping, colours and file output of the reports and the drawing. What
  they count and list is in `Profile`; `write_file` does not check its write.
- The ratio and average of the fragmentation report and the interval of Poisson sampling:
  floating point. Which requests are sampled is a free choice instead.
- `calloc`'s multiplication and clearing, the argument checks of
  `posix_memalign`, `bad_alloc`: thin wrappers around the calls modelled.
- Alignment on the fallback path: the system's allocator is called without it.
- What the platform answers: frames, symbol names, line numbers. That a rule's text occurs in a
  name or tag is a relation between them. Requests of 2^31 frames and more in `capture`.
- The lifetime of tag strings: records keep the pointer. Tags are values here.
- Objects that a second thread uses while `exit` destroys them; `Lifecycle` has one
  thread, and the races of a report with running threads are in `Diagnostics`. That a report
  from a destroyed engine may crash.
- Windows-specific code, but for the `initialized_` of the symbol handler, and the MSVC debug guard.
- Re-initialisation with a larger footer while blocks live: the code then reads
  memory that is not the block's. Switching canaries off and on is in `mixed_use`.

## 6. Plan

Done, in this order: the tracker with its abstraction and proofs, the Manager,
the statistics, the layout with its proofs, the diagnostics, the lifecycle with liveness, the
suppression engine over the symbol cache with its abstraction and liveness, and the profile.

Every invariant and action property of a passing run, and both refinements, are proved.
What is left is beyond the present modules: the Manager with a configuration that
changes while calls are in progress, which the code does not support but does not
prevent, and the reports of `Profile` made of a listing that `Diagnostics` has taken
while threads run.
