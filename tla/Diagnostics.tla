---------------------------- MODULE Diagnostics ----------------------------
(***************************************************************************)
(* The reports of the Manager while the application keeps running:         *)
(* take_snapshot with compare_snapshots (snapshot.cpp), the suppression    *)
(* engine (suppression_engine.hpp), get_suppressed_count, dump_leaks and   *)
(* on_exit (memsentry.cpp), the histogram of freed sizes (histogram.hpp)   *)
(* and the fragmentation report.                                           *)
(*                                                                         *)
(* A report is not atomic: it reads the statistics, then copies the        *)
(* records shard by shard, then asks the suppression engine about one      *)
(* record after the other; the application's threads step in between.      *)
(* allocate and deallocate appear as the steps that these reports can tell *)
(* apart, in the order of the code; Manager.tla has all of them.           *)
(***************************************************************************)
EXTENDS Integers, Sequences, FiniteSetsExt

CONSTANTS Workers,       \* the application's threads
          Ptr, NoRecord, None,
          ShardCount, ShardOf,
          Names,         \* tags, symbols and files a record can be known by
          Kinds,         \* what is allocated: a size, and the names it is known by
          Rules,         \* patterns given to suppress
          Covers,        \* the pairs of a rule and a name that contains it
          Buckets,       \* the size ranges of AllocationHistogram, in order
          MaxId,         \* bound: allocations
          MaxRules       \* bound: calls of suppress and clear_suppressions

Shards == 0 .. ShardCount - 1

\* AllocationRecord: names stands for the tag and the resolved call stack.
Record == [id : 1 .. MaxId, ptr : Ptr, size : Nat, names : SUBSET Names]

ASSUME DiagnosticsAssumption ==
  /\ ShardCount \in Nat \ {0} /\ ShardOf \in [Ptr -> Shards]
  /\ Kinds \subseteq [size : Nat, names : SUBSET Names]
  /\ Covers \subseteq Rules \X Names
  /\ MaxId \in Nat /\ MaxRules \in Nat
  /\ NoRecord \notin Record /\ None \notin Record

\* Every size but zero is in some range.
ASSUME BucketsAssumption ==
  /\ Buckets \in Seq([min : Nat, max : Nat])
  /\ \A k \in Kinds : k.size > 0 =>
       \E i \in DOMAIN Buckets : Buckets[i].min <= k.size /\ k.size <= Buckets[i].max

ASSUME WorkersAssumption == IsFiniteSet(Workers)

VARIABLES records,    \* the tracker, as a map from pointers
          count, bytes,          \* active_allocation_count, current_allocated_bytes
          frees, freed,          \* total_free_count, total_freed_bytes
          hist,       \* free_hist_: per bucket the count and the bytes
          nextId, calls,
          op,         \* per worker: the call it is in
          rules,      \* rules_ of the SuppressionEngine
          job,        \* the report being made, by the main thread
          snaps,      \* the snapshots taken
          printed,    \* what the last dump_leaks listed
          status,     \* the exit status, once on_exit is over
          since, quiet, calm, everSuppressed   \* history, see Note

app == <<records, count, bytes, frees, freed, hist, nextId, op>>
reports == <<job, snaps, printed, status>>
history == <<since, quiet, calm, everSuppressed>>
vars == <<app, calls, rules, reports, history>>

Snapshots == {"before", "after"}

NoJob == [kind |-> "none", shard |-> 0, list |-> {}, kept |-> {}, count |-> 0, bytes |-> 0]

NoSnap == [taken |-> FALSE, count |-> 0, bytes |-> 0, list |-> {}]

Idle == [name |-> "idle", rec |-> None]

Live == {records[p] : p \in {q \in Ptr : records[q] # NoRecord}}

Init ==
  /\ records = [p \in Ptr |-> NoRecord]
  /\ count = 0 /\ bytes = 0 /\ frees = 0 /\ freed = 0
  /\ hist = [i \in DOMAIN Buckets |-> [count |-> 0, bytes |-> 0]]
  /\ nextId = 1 /\ calls = 0
  /\ op = [w \in Workers |-> Idle]
  /\ rules = {}
  /\ job = NoJob
  /\ snaps = [s \in Snapshots |-> NoSnap]
  /\ printed = {}
  /\ status = "running"
  /\ since = [s \in {"diff", "exit"} |-> {}]
  /\ quiet = TRUE /\ calm = TRUE /\ everSuppressed = {}

Running == status = "running"

-----------------------------------------------------------------------------
(* The suppression engine and the histogram.                               *)

\* is_suppressed: some rule is contained in the tag, a symbol or a file.
Suppressed(r) == \E rule \in rules, n \in r.names : <<rule, n>> \in Covers

\* A mutant: the lower bound of a bucket is left out of it.
OpenBelow(size) == {i \in DOMAIN Buckets : Buckets[i].min < size /\ size <= Buckets[i].max}

\* The buckets a size fits; record stops at the first.
Fitting(size) == {i \in DOMAIN Buckets : Buckets[i].min <= size /\ size <= Buckets[i].max}

RecordSize(h, size) ==
  IF Fitting(size) = {} THEN h
  ELSE LET i == Min(Fitting(size))
       IN [h EXCEPT ![i].count = @ + 1, ![i].bytes = @ + size]

-----------------------------------------------------------------------------
(* The application.                                                        *)

\* A pointer the system heap can hand out: nobody has it.
Available(p) == records[p] = NoRecord /\ \A w \in Workers : op[w].rec # None => op[w].rec.ptr # p

NoCalls == \A w \in Workers : op[w].name = "idle"

\* The histories: the records tracked ever since the first snapshot and since
\* on_exit began; whether no call ran while a snapshot was being made, and
\* whether none ran since on_exit began.
Note ==
  /\ since' = [s \in {"diff", "exit"} |-> since[s] \cap {records'[p] : p \in Ptr}]
  /\ quiet' = (quiet /\ job.kind \notin Snapshots)
  /\ calm' = FALSE
  /\ UNCHANGED everSuppressed

\* allocate up to update_on_alloc.
AllocCount(w) ==
  /\ Running /\ op[w].name = "idle" /\ nextId <= MaxId
  /\ \E p \in Ptr, k \in Kinds :
       /\ Available(p)
       /\ op' = [op EXCEPT ![w] = [name |-> "insert", rec |->
                   [id |-> nextId, ptr |-> p, size |-> k.size, names |-> k.names]]]
       /\ bytes' = bytes + k.size
  /\ count' = count + 1
  /\ nextId' = nextId + 1
  /\ UNCHANGED <<records, frees, freed, hist, calls, rules, reports>>
  /\ Note

AllocInsert(w) ==
  /\ Running /\ op[w].name = "insert"
  /\ records' = [records EXCEPT ![op[w].rec.ptr] = op[w].rec]
  /\ op' = [op EXCEPT ![w] = Idle]
  /\ UNCHANGED <<count, bytes, frees, freed, hist, nextId, calls, rules, reports>>
  /\ Note

FreeErase(w) ==
  /\ Running /\ op[w].name = "idle"
  /\ \E r \in Live :
       /\ records' = [records EXCEPT ![r.ptr] = NoRecord]
       /\ op' = [op EXCEPT ![w] = [name |-> "uncount", rec |-> r]]
  /\ UNCHANGED <<count, bytes, frees, freed, hist, nextId, calls, rules, reports>>
  /\ Note

\* stats_.update_on_free.
FreeUncount(w) ==
  /\ Running /\ op[w].name = "uncount"
  /\ count' = count - 1
  /\ bytes' = bytes - op[w].rec.size
  /\ frees' = frees + 1
  /\ freed' = freed + op[w].rec.size
  /\ op' = [op EXCEPT ![w].name = "record"]
  /\ UNCHANGED <<records, hist, nextId, calls, rules, reports>>
  /\ Note

\* free_hist_.record; the block goes back to the system after it.
FreeRecord(w) ==
  /\ Running /\ op[w].name = "record"
  /\ hist' = RecordSize(hist, op[w].rec.size)
  /\ op' = [op EXCEPT ![w] = Idle]
  /\ UNCHANGED <<records, count, bytes, frees, freed, nextId, calls, rules, reports>>
  /\ Note

Suppress(w) ==
  /\ Running /\ op[w].name = "idle" /\ calls < MaxRules
  /\ \E rule \in Rules : rules' = rules \cup {rule}
  /\ calls' = calls + 1
  /\ everSuppressed' = everSuppressed \cup {r \in Live : Suppressed(r)'}
  /\ calm' = FALSE
  /\ UNCHANGED <<app, reports, since, quiet>>

ClearSuppressions(w) ==
  /\ Running /\ op[w].name = "idle" /\ calls < MaxRules
  /\ rules' = {}
  /\ calls' = calls + 1
  /\ calm' = FALSE
  /\ UNCHANGED <<app, reports, since, quiet, everSuppressed>>

-----------------------------------------------------------------------------
(* The reports.                                                            *)

\* A report reads the statistics and then lists the records.  The code loads the
\* counters one by one (MemoryStats has these loads as steps); the deltas are
\* compared only for snapshots that no call overlaps, where that is the same.
Begin(kind) == job' = [NoJob EXCEPT !.kind = kind, !.count = count, !.bytes = bytes]

TakeSnapshot(s) ==
  /\ Running /\ job.kind = "none"
  /\ ~snaps[s].taken /\ (s = "after" => snaps["before"].taken)
  /\ Begin(s)
  /\ since' = IF s = "before" THEN [since EXCEPT !["diff"] = Live] ELSE since
  /\ quiet' = (quiet /\ NoCalls)
  /\ UNCHANGED <<app, calls, rules, snaps, printed, status, calm, everSuppressed>>

\* The process exits with auto_report_on_exit and exit_with_code_on_leak set.
OnExit ==
  /\ Running /\ job.kind = "none"
  /\ Begin("dump")
  /\ since' = [since EXCEPT !["exit"] = Live]
  /\ everSuppressed' = {r \in Live : Suppressed(r)}
  /\ calm' = TRUE
  /\ UNCHANGED <<app, calls, rules, snaps, printed, status, quiet>>

\* A mutant: the listing starts over with every shard.
ListLastShard ==
  /\ Running /\ job.kind # "none" /\ job.shard < ShardCount
  /\ job' = [job EXCEPT !.shard = @ + 1, !.list = {r \in Live : ShardOf[r.ptr] = job.shard}]
  /\ UNCHANGED <<app, calls, rules, snaps, printed, status, history>>

\* A mutant: the loop runs one shard too far.
ListPastEnd ==
  /\ Running /\ job.kind # "none" /\ job.shard <= ShardCount
  /\ job' = [job EXCEPT !.shard = @ + 1,
                        !.list = @ \cup {r \in Live : ShardOf[r.ptr] = job.shard}]
  /\ UNCHANGED <<app, calls, rules, snaps, printed, status, history>>

\* One shard of snapshot_all.
ListShard ==
  /\ Running /\ job.kind # "none" /\ job.shard < ShardCount
  /\ job' = [job EXCEPT !.shard = @ + 1,
                        !.list = @ \cup {r \in Live : ShardOf[r.ptr] = job.shard}]
  /\ UNCHANGED <<app, calls, rules, snaps, printed, status, history>>

EndSnapshot ==
  /\ Running /\ job.kind \in Snapshots /\ job.shard = ShardCount
  /\ snaps' = [snaps EXCEPT ![job.kind] = [taken |-> TRUE, count |-> job.count,
                                           bytes |-> job.bytes, list |-> job.list]]
  /\ job' = NoJob
  /\ UNCHANGED <<app, calls, rules, printed, status, history>>

\* dump_leaks asks about each record and keeps what is not suppressed.
CheckForDump ==
  /\ Running /\ job.kind = "dump" /\ job.shard = ShardCount
  /\ \E r \in job.list :
       job' = [job EXCEPT !.list = @ \ {r}, !.kept = IF Suppressed(r) THEN @ ELSE @ \cup {r}]
  /\ UNCHANGED <<app, calls, rules, snaps, printed, status, history>>

\* A mutant: the exit status is decided on the shards without a listing.
EndDumpNoCheck ==
  /\ Running /\ job.kind = "dump" /\ job.shard = ShardCount /\ job.list = {}
  /\ printed' = job.kept
  /\ job' = [NoJob EXCEPT !.kind = "exit", !.shard = ShardCount]
  /\ UNCHANGED <<app, calls, rules, snaps, status, history>>

\* The report is printed, and has_unsuppressed_leaks makes a listing of its own.
EndDump ==
  /\ Running /\ job.kind = "dump" /\ job.shard = ShardCount /\ job.list = {}
  /\ printed' = job.kept
  /\ job' = [NoJob EXCEPT !.kind = "exit"]
  /\ UNCHANGED <<app, calls, rules, snaps, status, history>>

\* A mutant: the loop ends at the first record instead of the first leak.
ExitOnFirst ==
  /\ Running /\ job.kind = "exit" /\ job.shard = ShardCount
  /\ \E r \in job.list :
       /\ job' = [job EXCEPT !.list = {}]
       /\ status' = IF Suppressed(r) THEN status ELSE "failure"
  /\ UNCHANGED <<app, calls, rules, snaps, printed, history>>

\* has_unsuppressed_leaks: the first record that is not suppressed decides.
CheckForExit ==
  /\ Running /\ job.kind = "exit" /\ job.shard = ShardCount
  /\ \E r \in job.list :
       /\ job' = [job EXCEPT !.list = @ \ {r}]
       /\ status' = IF Suppressed(r) THEN status ELSE "failure"
  /\ UNCHANGED <<app, calls, rules, snaps, printed, history>>

ExitClean ==
  /\ Running /\ job.kind = "exit" /\ job.shard = ShardCount /\ job.list = {}
  /\ status' = "success"
  /\ UNCHANGED <<app, calls, rules, job, snaps, printed, history>>

Ended == ~Running /\ UNCHANGED vars

Next ==
  \/ \E w \in Workers : AllocCount(w) \/ AllocInsert(w) \/ FreeErase(w) \/ FreeUncount(w)
                        \/ FreeRecord(w) \/ Suppress(w) \/ ClearSuppressions(w)
  \/ \E s \in Snapshots : TakeSnapshot(s)
  \/ OnExit \/ ListShard \/ EndSnapshot \/ CheckForDump \/ EndDump \/ CheckForExit \/ ExitClean
  \/ Ended

Spec == Init /\ [][Next]_vars

-----------------------------------------------------------------------------
(* compare_snapshots.                                                      *)

Ids(S) == {r.id : r \in S}

\* A mutant: the records are matched by their address.
SameByAddress(r, S) == \E x \in S : x.ptr = r.ptr

Same(r, S) == r.id \in Ids(S)

Persistent == {r \in snaps["after"].list : Same(r, snaps["before"].list)}

New == {r \in snaps["after"].list : ~Same(r, snaps["before"].list)}

Freed == {r \in snaps["before"].list : r.id \notin Ids(Persistent)}

-----------------------------------------------------------------------------
(* Properties.                                                             *)

BytesOf(S) == MapThenSumSet(LAMBDA r : r.size, S)

Compared == snaps["before"].taken /\ snaps["after"].taken

\* The types of the state.
TypeOK ==
  /\ records \in [Ptr -> Record \cup {NoRecord}]
  /\ \A p \in Ptr : records[p] # NoRecord => records[p].ptr = p
  /\ job.shard \in 0 .. ShardCount
  /\ job.list \subseteq Record /\ job.kept \subseteq Record /\ printed \subseteq Record
  /\ rules \subseteq Rules
  /\ status \in {"running", "success", "failure"}

\* A difference tells the truth although neither snapshot is atomic: what was
\* tracked all along is persistent, and what is called freed is no longer
\* tracked, even when its address is in use again (snapshot.cpp:20-41,
\* sharded_tracker.hpp:80-92).
DiffTruthful ==
  Compared => since["diff"] \subseteq Persistent /\ Freed \cap Live = {}

\* When no allocation or free ran while the snapshots were made, the deltas of
\* the statistics are those of the listed records, though the one comes from
\* counters and the other from the tracker (snapshot.cpp:15-41).
DeltasAgree ==
  Compared /\ quiet =>
    /\ snaps["after"].count - snaps["before"].count = Cardinality(New) - Cardinality(Freed)
    /\ snaps["after"].bytes - snaps["before"].bytes = BytesOf(New) - BytesOf(Freed)

\* The histogram of freed sizes accounts for all freed bytes once no free is
\* between its two updates, and each bucket holds sizes of its range only
\* (histogram.hpp:34-42, memsentry.cpp:309-310).
HistogramAccounts ==
  (\A w \in Workers : op[w].name # "record") =>
    /\ MapThenSumSet(LAMBDA i : hist[i].bytes, DOMAIN Buckets) = freed
    /\ \A i \in DOMAIN Buckets : /\ hist[i].count * Buckets[i].min <= hist[i].bytes
                                 /\ hist[i].bytes <= hist[i].count * Buckets[i].max

\* Every record that is tracked from the moment the process exits to the end of
\* on_exit and that no rule covered meanwhile is printed, and the process
\* exits with a failure (memsentry.cpp:382-391, 405-421, 477-486).
LeaksReported ==
  ~Running => LET leaks == since["exit"] \ everSuppressed
              IN leaks \subseteq printed /\ (leaks # {} => status = "failure")

\* When the application stands still during on_exit, the exit status and the
\* printed report agree, though each comes from a listing of its own
\* (memsentry.cpp:482-483).
ReportMatchesStatus == ~Running /\ calm => (status = "failure" <=> printed # {})

=============================================================================
