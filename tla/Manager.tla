------------------------------ MODULE Manager ------------------------------
(***************************************************************************)
(* Manager::allocate, deallocate and reallocate with the hooks that guard  *)
(* them (memsentry.cpp), over the shards of the tracker, the headers and   *)
(* canaries of the blocks and the system heap.  Threads interleave at      *)
(* every access to shared state: one action is one call of the tracker,    *)
(* the statistics, the system heap, or one look at a block's header.       *)
(*                                                                         *)
(* Memory is a row of cells.  A tracked block fills two of them: the first *)
(* stands for the BlockHeader and the offset word, the second for the      *)
(* payload and the footer, so the user pointer is the address after the    *)
(* raw one.  A block the Manager does not track fills one cell and its     *)
(* user pointer is the raw pointer.  That is enough for what matters: an   *)
(* untracked block can come to lie where a tracked payload was.            *)
(***************************************************************************)
EXTENDS TrackerShard, Sequences

CONSTANTS Threads,
          ShardCount, ShardOf,
          Cells,         \* the number of cells of the system heap
          Configs,       \* the configurations init is called with
          Calls,         \* what the application does besides allocating and freeing
          MaxAllocs,     \* bound: tracked allocation attempts
          MaxMisuse      \* bound: frees of a pointer that is not owned, and of
                         \* a tracked block from inside the callback

Addr == 1 .. Cells

AllCalls == {"realloc", "late_free", "damage", "shutdown", "report", "misuse", "callback_free"}

\* The fields of memsentry::Config the modelled code reads.  footer counts
\* 8-byte words; limit counts blocks, each of size one; bytes stands for
\* sampling_rate_bytes > 0.
ConfigType == [canary : BOOLEAN, footer : Nat, bytes : BOOLEAN, every_n : Nat \ {0},
               percentage : 0 .. 100, limit : Nat]

\* AllocationRecord: the key in the tracker is the user pointer.
RecordType == [id : Nat, raw : Addr]

Shards == 0 .. ShardCount - 1

ASSUME ManagerAssumption ==
  /\ ShardCount \in Nat \ {0}
  /\ Cells \in Nat
  /\ Ptr = Addr
  /\ Rec = [id : 0 .. MaxAllocs, raw : Addr]
  /\ ShardOf \in [Ptr -> Shards]
  /\ Configs \subseteq ConfigType
  /\ Calls \subseteq AllCalls
  /\ IsFiniteSet(Threads)
  /\ MaxAllocs \in Nat
  /\ MaxMisuse \in Nat

VARIABLES
  shards, active, counter, config, initialized,   \* the Manager's fields
  heap,       \* per cell: the length of the system block that begins there, or 0
  header,     \* per cell: the BlockHeader last written there
  pc, depth, loc,                                 \* per thread
  owned,      \* the pointers the application holds
  stale,      \* the pointers it freed and may, by mistake, free again
  misuses,    \* how often it misused the interface
  aborted,    \* the C library found a bad pointer and ended the process
  damaged,    \* history: the blocks the application overran
  recent      \* history: per shard, the last QuarantineSize erasures

tracker == <<shards, active, counter>>
memory == <<heap, header>>
app == <<owned, stale, misuses>>
history == <<damaged, recent>>
vars == <<tracker, config, initialized, memory, pc, depth, loc, app, aborted, history>>

NoHeader == [magic |-> "none", canary |-> FALSE, words |-> 0]

NoLoc == [ptr |-> Null, new |-> Null, rec |-> NoRecord, verdict |-> "NONE",
          alarm |-> "NONE", goal |-> "none"]

Init ==
  /\ shards = [i \in Shards |-> EmptyShard]
  /\ active = 0
  /\ counter = 1
  /\ config \in Configs
  /\ initialized = TRUE
  /\ heap = [a \in Addr |-> 0]
  /\ header = [a \in Addr |-> NoHeader]
  /\ pc = [t \in Threads |-> "app"]
  /\ depth = [t \in Threads |-> 0]
  /\ loc = [t \in Threads |-> NoLoc]
  /\ owned = {}
  /\ stale = {}
  /\ misuses = 0
  /\ aborted = FALSE
  /\ damaged = {}
  /\ recent = [i \in Shards |-> <<>>]

-----------------------------------------------------------------------------
(* The system heap: malloc, free and realloc behind raw_system_*.          *)

Covered(a) == \E s \in Addr : s <= a /\ a < s + heap[s]

\* The places where malloc can put n cells.
Room(n) == {r \in Addr : r + n - 1 <= Cells /\ \A a \in r .. r + n - 1 : ~Covered(a)}

\* malloc of an untracked block; the owner's data covers what the cell held.
\* Any earlier pointer of that value now means this block.
RawAlloc(r) ==
  /\ heap' = [heap EXCEPT ![r] = 1]
  /\ header' = [header EXCEPT ![r] = NoHeader]
  /\ damaged' = damaged \ {r}

\* free: the C library ends the process on a pointer malloc did not return.
RawFree(p) ==
  IF heap[p] > 0
  THEN heap' = [heap EXCEPT ![p] = 0] /\ UNCHANGED aborted
  ELSE aborted' = TRUE /\ UNCHANGED heap

Give(t, p) ==
  /\ owned' = owned \cup {p}
  /\ stale' = stale \ {p}
  /\ UNCHANGED misuses

\* The application parts with p.  Stale pointers to tracked blocks are remembered
\* as long as the bound leaves a chance to free one again.
Part(p) ==
  /\ owned' = owned \ {p}
  /\ stale' = IF "misuse" \notin Calls \/ misuses' = MaxMisuse THEN {}
              ELSE IF heap[p] = 0 THEN stale \cup {p} ELSE stale

Goto(t, label) == pc' = [pc EXCEPT ![t] = label]

\* The RecursionGuard of allocate or deallocate is destroyed.
LeaveGuard(t) == depth' = [depth EXCEPT ![t] = @ - 1]

EnterGuard(t) == depth' = [depth EXCEPT ![t] = @ + 1]

-----------------------------------------------------------------------------
(* The block header (header.hpp).                                          *)

\* A mutant: the loop that writes the footer stops one word early.
InitBlockShort(c) == [magic |-> "header", canary |-> c.canary,
                      words |-> IF c.canary /\ c.footer > 0 THEN c.footer - 1 ELSE 0]

\* init_block writes the header and, when canaries are on, a footer.
InitBlock(c) == [magic |-> "header", canary |-> c.canary,
                 words |-> IF c.canary THEN c.footer ELSE 0]

\* The footer size the callers compute from the configuration.
FooterSize(c) == IF c.canary THEN c.footer ELSE 0

\* verify_canary: `words' counts the footer words still intact.
VerifyCanary(h, footer) ==
  CASE h.magic = "freed"  -> "DOUBLE_FREE"
    [] h.magic = "none"   -> "HEADER_CORRUPTED"
    [] h.canary /\ h.words < footer -> "FOOTER_CORRUPTED"
    [] OTHER -> "NONE"

\* poison_block.
Poison(h) == [h EXCEPT !.magic = "freed", !.words = 0]

\* A mutant: the magic in front of the pointer is not compared.
CandidateUnchecked(p) == p - 1 \in Addr

\* get_header_from_user_ptr answers a header only when its magic is intact.
Candidate(p) == p - 1 \in Addr /\ header[p - 1].magic = "header"

-----------------------------------------------------------------------------
(* allocate                                                                *)

\* Poisson sampling counts the thread's bytes down from a random interval of at
\* least one byte and samples the request that uses the interval up: a block of
\* size one may or may not be the one, at every call.
PoissonOutcomes == BOOLEAN

\* Which outcomes the sampling decision can have for an allocation id.
Samples(c, id) ==
  IF c.bytes THEN PoissonOutcomes
  ELSE IF c.every_n > 1 THEN {id % c.every_n = 0}
  ELSE {id % 100 < c.percentage}

\* The place a call of allocate goes back to.
AllocReturn(t, p) ==
  IF loc[t].goal = "realloc"
  THEN /\ loc' = [loc EXCEPT ![t].new = p]
       /\ Goto(t, "copy")
       /\ UNCHANGED app
  ELSE /\ loc' = [loc EXCEPT ![t] = NoLoc]
       /\ Goto(t, "app")
       /\ IF p = Null THEN UNCHANGED app ELSE Give(t, p)

Call(t) == ~aborted /\ pc[t] = "app" /\ depth[t] = 0

\* The bound on ids counts the calls that are about to take one.
IdsLeft == counter + Cardinality({t \in Threads : pc[t] \in {"find", "rverify", "alloc"}}) <= MaxAllocs

\* operator new, malloc and their like.  A realloc of the null pointer is the
\* same call: allocate when initialised, malloc when not.
CallAlloc(t) ==
  /\ Call(t)
  /\ IdsLeft
  /\ loc' = [loc EXCEPT ![t] = [NoLoc EXCEPT !.goal = "alloc"]]
  /\ Goto(t, "alloc")
  /\ UNCHANGED <<tracker, config, initialized, memory, depth, app, aborted, history>>

\* Before init and after shutdown the system allocator serves the request.
AllocFallback(t) ==
  /\ ~aborted /\ pc[t] = "alloc"
  /\ ~initialized
  /\ \/ \E r \in Room(1) : RawAlloc(r) /\ AllocReturn(t, r)
     \/ Room(1) = {} /\ AllocReturn(t, Null) /\ UNCHANGED <<heap, header, damaged>>
  /\ UNCHANGED <<tracker, config, initialized, depth, aborted, recent>>

\* Take an id, decide on sampling; an unsampled request goes to the system.
AllocUnsampled(t) ==
  /\ ~aborted /\ pc[t] = "alloc"
  /\ initialized
  /\ FALSE \in Samples(config, counter)
  /\ counter' = counter + 1
  /\ \/ \E r \in Room(1) : RawAlloc(r) /\ AllocReturn(t, r)
     \/ Room(1) = {} /\ AllocReturn(t, Null) /\ UNCHANGED <<heap, header, damaged>>
  /\ UNCHANGED <<shards, active, config, initialized, depth, aborted, recent>>

\* A sampled request: the system block and its header.  No other thread knows
\* the block yet, so malloc and init_block are one step.
AllocBlock(t) ==
  /\ ~aborted /\ pc[t] = "alloc"
  /\ initialized
  /\ TRUE \in Samples(config, counter)
  /\ counter' = counter + 1
  /\ \/ \E r \in Room(2) :
          /\ heap' = [heap EXCEPT ![r] = 2]
          /\ header' = [header EXCEPT ![r] = InitBlock(config), ![r + 1] = NoHeader]
          /\ damaged' = damaged \ {r, r + 1}
          /\ loc' = [loc EXCEPT ![t].new = r + 1, ![t].rec = [id |-> counter, raw |-> r]]
          /\ Goto(t, "count")
          /\ EnterGuard(t)
          /\ UNCHANGED app
     \/ /\ Room(2) = {}
        /\ AllocReturn(t, Null)
        /\ UNCHANGED <<heap, header, damaged, depth>>
  /\ UNCHANGED <<shards, active, config, initialized, aborted, recent>>

\* stats_.update_on_alloc; MemoryStats.tla has its single atomic operations.
AllocCount(t) ==
  /\ ~aborted /\ pc[t] = "count"
  /\ active' = active + 1
  /\ Goto(t, "insert")
  /\ UNCHANGED <<shards, counter, config, initialized, memory, depth, loc, app, aborted, history>>

AllocInsert(t) ==
  /\ ~aborted /\ pc[t] = "insert"
  /\ LET p == loc[t].new IN
       /\ shards' = [shards EXCEPT ![ShardOf[p]] = InsertInto(@, p, loc[t].rec)]
       /\ recent' = [recent EXCEPT ![ShardOf[p]] =
                       [j \in DOMAIN @ |-> IF @[j] = p THEN Null ELSE @[j]]]
  /\ Goto(t, "watchdog")
  /\ UNCHANGED <<active, counter, config, initialized, memory, depth, loc, app, aborted, damaged>>

\* The watchdog runs the application's callback while the guard is held.
AllocWatchdog(t) ==
  /\ ~aborted /\ pc[t] = "watchdog"
  /\ IF config.limit > 0 /\ active > config.limit
     THEN Goto(t, "callback") /\ UNCHANGED <<depth, loc, app>>
     ELSE AllocReturn(t, loc[t].new) /\ LeaveGuard(t)
  /\ UNCHANGED <<tracker, config, initialized, memory, aborted, history>>

CallbackReturns(t) ==
  /\ ~aborted /\ pc[t] = "callback"
  /\ AllocReturn(t, loc[t].new)
  /\ LeaveGuard(t)
  /\ UNCHANGED <<tracker, config, initialized, memory, aborted, history>>

\* The callback frees a block to get below the limit: track_free sees the
\* guard and hands the pointer to the system as it is, which is right for an
\* untracked block only.
CallbackFrees(t) ==
  /\ ~aborted /\ pc[t] = "callback" /\ depth[t] > 0
  /\ "callback_free" \in Calls
  /\ \E p \in owned :
       /\ heap[p] # 1 => misuses < MaxMisuse
       /\ misuses' = IF heap[p] = 1 THEN misuses ELSE misuses + 1
       /\ Part(p)
       /\ RawFree(p)
  /\ UNCHANGED <<tracker, config, initialized, header, pc, depth, loc, history>>

-----------------------------------------------------------------------------
(* deallocate                                                              *)

\* The call hands over a pointer it owns, or, as a mistake, one it freed.  A
\* realloc to size zero is the same call while the tool is initialised.
CallFree(t) ==
  /\ Call(t)
  /\ \E p \in owned \cup stale :
       /\ p \notin owned => "misuse" \in Calls /\ misuses < MaxMisuse
       /\ loc' = [loc EXCEPT ![t] = [NoLoc EXCEPT !.ptr = p]]
       /\ misuses' = IF p \in owned THEN misuses ELSE misuses + 1
       /\ Part(p)
  /\ EnterGuard(t)
  /\ Goto(t, "erase")
  /\ UNCHANGED <<tracker, config, initialized, memory, aborted, history>>

\* The erasures a shard should remember once p is erased.
Remember(seq, p) == LET longer == Append(seq, p)
                    IN IF Len(longer) > QuarantineSize THEN Tail(longer) ELSE longer

FreeErase(t) ==
  /\ ~aborted /\ pc[t] = "erase"
  /\ LET p == loc[t].ptr
         status == EraseStatus(shards[ShardOf[p]], p)
     IN /\ shards' = [shards EXCEPT ![ShardOf[p]] = AfterErase(@, p)]
        /\ \/ /\ status = "SUCCESS"
              /\ loc' = [loc EXCEPT ![t].rec = shards[ShardOf[p]].records[p]]
              /\ recent' = [recent EXCEPT ![ShardOf[p]] = Remember(@, p)]
              /\ Goto(t, "verify")
           \/ /\ status = "DOUBLE_FREE_DETECTED"
              /\ loc' = [loc EXCEPT ![t].alarm = "DOUBLE_FREE"]
              /\ Goto(t, "done")
              /\ UNCHANGED recent
           \/ /\ status = "NOT_FOUND"
              /\ Goto(t, "candidate")
              /\ UNCHANGED <<loc, recent>>
  /\ UNCHANGED <<active, counter, config, initialized, memory, depth, app, aborted, damaged>>

\* A mutant: the alert is printed but the verdict is not kept.
FreeVerifyForgets(t) ==
  /\ ~aborted /\ pc[t] = "verify"
  /\ loc' = [loc EXCEPT ![t].alarm = VerifyCanary(header[loc[t].rec.raw], FooterSize(config))]
  /\ Goto(t, "uncount")
  /\ UNCHANGED <<tracker, config, initialized, memory, depth, app, aborted, history>>

FreeVerify(t) ==
  /\ ~aborted /\ pc[t] = "verify"
  /\ LET verdict == VerifyCanary(header[loc[t].rec.raw], FooterSize(config))
     IN loc' = [loc EXCEPT ![t].verdict = verdict, ![t].alarm = verdict]
  /\ Goto(t, "uncount")
  /\ UNCHANGED <<tracker, config, initialized, memory, depth, app, aborted, history>>

\* A mutant: a block that is kept because of its canary stays counted.
FreeUncountClean(t) ==
  /\ ~aborted /\ pc[t] = "uncount"
  /\ active' = IF loc[t].verdict = "NONE" THEN active - 1 ELSE active
  /\ Goto(t, IF loc[t].verdict = "NONE" THEN "release" ELSE "done")
  /\ UNCHANGED <<shards, counter, config, initialized, memory, depth, loc, app, aborted, history>>

FreeUncount(t) ==
  /\ ~aborted /\ pc[t] = "uncount"
  /\ active' = active - 1
  /\ Goto(t, IF loc[t].verdict = "NONE" THEN "release" ELSE "done")
  /\ UNCHANGED <<shards, counter, config, initialized, memory, depth, loc, app, aborted, history>>

\* A mutant: the user pointer, not the raw one, goes to the system.
FreeReleaseUser(t) ==
  /\ ~aborted /\ pc[t] = "release"
  /\ header' = [header EXCEPT ![loc[t].rec.raw] = Poison(@)]
  /\ RawFree(loc[t].ptr)
  /\ Goto(t, "done")
  /\ UNCHANGED <<tracker, config, initialized, depth, loc, app, history>>

\* A mutant: the block is poisoned and then forgotten.
FreeReleaseLeaks(t) ==
  /\ ~aborted /\ pc[t] = "release"
  /\ header' = [header EXCEPT ![loc[t].rec.raw] = Poison(@)]
  /\ Goto(t, "done")
  /\ UNCHANGED <<tracker, config, initialized, heap, depth, loc, app, aborted, history>>

\* Poison the block and return it to the system.
FreeRelease(t) ==
  /\ ~aborted /\ pc[t] = "release"
  /\ header' = [header EXCEPT ![loc[t].rec.raw] = Poison(@)]
  /\ RawFree(loc[t].rec.raw)
  /\ Goto(t, "done")
  /\ UNCHANGED <<tracker, config, initialized, depth, loc, app, history>>

\* No record: look for a header in front of the pointer.
FreeCandidate(t) ==
  /\ ~aborted /\ pc[t] = "candidate"
  /\ Goto(t, IF Candidate(loc[t].ptr) THEN "adopt" ELSE "rawfree")
  /\ UNCHANGED <<tracker, config, initialized, memory, depth, loc, app, aborted, history>>

FreeAdopt(t) ==
  /\ ~aborted /\ pc[t] = "adopt"
  /\ header' = [header EXCEPT ![loc[t].ptr - 1] = Poison(@)]
  /\ RawFree(loc[t].ptr - 1)
  /\ Goto(t, "done")
  /\ UNCHANGED <<tracker, config, initialized, depth, loc, app, history>>

FreeUntracked(t) ==
  /\ ~aborted /\ pc[t] = "rawfree"
  /\ RawFree(loc[t].ptr)
  /\ Goto(t, "done")
  /\ UNCHANGED <<tracker, config, initialized, header, depth, loc, app, history>>

\* A mutant: the guard is entered but never left.
FreeReturnGuarded(t) ==
  /\ ~aborted /\ pc[t] = "done"
  /\ IF loc[t].goal = "realloc" THEN Give(t, loc[t].new) ELSE UNCHANGED app
  /\ loc' = [loc EXCEPT ![t] = NoLoc]
  /\ Goto(t, "app")
  /\ UNCHANGED <<tracker, config, initialized, memory, depth, aborted, history>>

\* deallocate returns; a reallocate returns the new block with it.
FreeReturn(t) ==
  /\ ~aborted /\ pc[t] = "done"
  /\ IF loc[t].goal = "realloc" THEN Give(t, loc[t].new) ELSE UNCHANGED app
  /\ loc' = [loc EXCEPT ![t] = NoLoc]
  /\ LeaveGuard(t)
  /\ Goto(t, "app")
  /\ UNCHANGED <<tracker, config, initialized, memory, aborted, history>>

-----------------------------------------------------------------------------
(* reallocate                                                              *)

CallRealloc(t) ==
  /\ Call(t)
  /\ "realloc" \in Calls
  /\ IdsLeft
  /\ \E p \in owned :
       /\ loc' = [loc EXCEPT ![t] = [NoLoc EXCEPT !.ptr = p, !.goal = "realloc"]]
       /\ UNCHANGED misuses
       /\ Part(p)
  /\ Goto(t, "find")
  /\ UNCHANGED <<tracker, config, initialized, memory, depth, aborted, history>>

\* Without a record, or when not initialised, the system reallocates.
ReallocFind(t) ==
  /\ ~aborted /\ pc[t] = "find"
  /\ LET p == loc[t].ptr IN
       IF initialized /\ p \in Tracked(shards[ShardOf[p]])
       THEN /\ loc' = [loc EXCEPT ![t].rec = shards[ShardOf[p]].records[p]]
            /\ Goto(t, "rverify")
       ELSE Goto(t, "rawrealloc") /\ UNCHANGED loc
  /\ UNCHANGED <<tracker, config, initialized, memory, depth, app, aborted, history>>

\* realloc of the system, to a size above zero: in place (or out of memory, which leaves the caller
\* the old block), or moved.
ReallocRaw(t) ==
  /\ ~aborted /\ pc[t] = "rawrealloc"
  /\ LET p == loc[t].ptr IN
       IF heap[p] = 0
       THEN aborted' = TRUE /\ UNCHANGED <<memory, app, damaged>>
       ELSE /\ UNCHANGED aborted
            /\ \/ Give(t, p) /\ UNCHANGED <<memory, damaged>>
               \/ \E r \in Room(1) :
                    /\ heap' = [heap EXCEPT ![p] = 0, ![r] = 1]
                    /\ header' = [header EXCEPT ![r] = NoHeader]
                    /\ damaged' = damaged \ {r}
                    /\ Give(t, r)
  /\ loc' = [loc EXCEPT ![t] = NoLoc]
  /\ Goto(t, "app")
  /\ UNCHANGED <<tracker, config, initialized, depth, recent>>

\* A realloc to size zero when the tool is not initialised is the system's free,
\* past the tracker.  Like the calls of realloc it may get any block, or, as
\* "late_free", an untracked one only.
ReallocNothing(t) ==
  /\ Call(t)
  /\ ~initialized
  /\ \E p \in owned :
       /\ "realloc" \in Calls \/ ("late_free" \in Calls /\ heap[p] = 1)
       /\ UNCHANGED misuses
       /\ Part(p)
       /\ RawFree(p)
  /\ UNCHANGED <<tracker, config, initialized, header, pc, depth, loc, history>>

\* The canary is looked at, a bad one is reported, and the move goes on.
ReallocVerify(t) ==
  /\ ~aborted /\ pc[t] = "rverify"
  /\ loc' = [loc EXCEPT ![t].alarm =
       IF config.canary THEN VerifyCanary(header[loc[t].rec.raw], config.footer) ELSE "NONE"]
  /\ Goto(t, "alloc")
  /\ UNCHANGED <<tracker, config, initialized, memory, depth, app, aborted, history>>

\* A mutant: the old block is not freed after the copy.
ReallocKeepsOld(t) ==
  /\ ~aborted /\ pc[t] = "copy"
  /\ Give(t, IF loc[t].new = Null THEN loc[t].ptr ELSE loc[t].new)
  /\ loc' = [loc EXCEPT ![t] = NoLoc]
  /\ Goto(t, "app")
  /\ UNCHANGED <<tracker, config, initialized, memory, depth, aborted, history>>

\* Copy the payload and free the old block; a failed allocate leaves it be.
ReallocCopy(t) ==
  /\ ~aborted /\ pc[t] = "copy"
  /\ IF loc[t].new = Null
     THEN /\ Give(t, loc[t].ptr)
          /\ loc' = [loc EXCEPT ![t] = NoLoc]
          /\ Goto(t, "app")
          /\ UNCHANGED depth
     ELSE /\ EnterGuard(t)
          /\ Goto(t, "erase")
          /\ UNCHANGED <<app, loc>>
  /\ UNCHANGED <<tracker, config, initialized, memory, aborted, history>>

-----------------------------------------------------------------------------
(* The rest of the application.                                            *)

\* It overruns a block it owns into the footer, or underruns it as far as the
\* magic of the header; what a shorter underrun changes, verify_canary does not
\* look at, and no action stands for it.
Damage(t) ==
  /\ Call(t)
  /\ "damage" \in Calls
  /\ \E p \in owned :
       /\ p - 1 \in Addr /\ heap[p - 1] = 2
       /\ \/ header' = [header EXCEPT ![p - 1].words = 0] /\ header[p - 1].words > 0
          \/ header' = [header EXCEPT ![p - 1].magic = "none"]
       /\ damaged' = damaged \cup {p}
  /\ UNCHANGED <<tracker, config, initialized, heap, pc, depth, loc, app, aborted, recent>>

\* get_active_allocations and its like build their result under the guard, so
\* the memory of the vector they return is untracked and the caller frees it.
TakeReport(t) ==
  /\ Call(t)
  /\ "report" \in Calls
  /\ \E r \in Room(1) : RawAlloc(r) /\ Give(t, r)
  /\ UNCHANGED <<tracker, config, initialized, pc, depth, loc, aborted, recent>>

Shutdown(t) ==
  /\ Call(t)
  /\ "shutdown" \in Calls
  /\ initialized
  /\ initialized' = FALSE
  /\ UNCHANGED <<tracker, config, memory, pc, depth, loc, app, aborted, history>>

\* init; the application calls it while no other thread is inside the Manager
\* (config_ is a plain structure).
Initialize(t) ==
  /\ Call(t)
  /\ "shutdown" \in Calls
  /\ \A u \in Threads : pc[u] = "app"
  /\ config' \in Configs
  /\ initialized' = TRUE
  /\ UNCHANGED <<tracker, memory, pc, depth, loc, app, aborted, history>>

\* The process has ended, or the application is content.
Rest == (aborted \/ \A t \in Threads : pc[t] = "app") /\ UNCHANGED vars

Alloc(t) == CallAlloc(t) \/ AllocFallback(t) \/ AllocUnsampled(t) \/ AllocBlock(t) \/ AllocCount(t)
            \/ AllocInsert(t) \/ AllocWatchdog(t) \/ CallbackReturns(t) \/ CallbackFrees(t)

Dealloc(t) == CallFree(t) \/ FreeErase(t) \/ FreeVerify(t) \/ FreeUncount(t) \/ FreeRelease(t)
              \/ FreeCandidate(t) \/ FreeAdopt(t) \/ FreeUntracked(t) \/ FreeReturn(t)

Realloc(t) == CallRealloc(t) \/ ReallocFind(t) \/ ReallocRaw(t) \/ ReallocNothing(t) \/ ReallocVerify(t)
              \/ ReallocCopy(t)

Next ==
  \/ \E t \in Threads : Alloc(t) \/ Dealloc(t) \/ Realloc(t) \/ Damage(t) \/ TakeReport(t)
                        \/ Shutdown(t) \/ Initialize(t)
  \/ Rest

Spec == Init /\ [][Next]_vars

-----------------------------------------------------------------------------
(* Properties.                                                             *)

Labels == {"app", "alloc", "count", "insert", "watchdog", "callback", "erase", "verify", "uncount",
           "release", "candidate", "adopt", "rawfree", "done", "find", "rawrealloc", "rverify", "copy"}

Verdicts == {"NONE", "HEADER_CORRUPTED", "FOOTER_CORRUPTED", "DOUBLE_FREE"}

LocType == [ptr : Addr \cup {Null}, new : Addr \cup {Null}, rec : Rec \cup {NoRecord},
            verdict : Verdicts, alarm : Verdicts,
            goal : {"none", "alloc", "realloc"}]

\* The types of the Manager's fields; a thread is inside the guard exactly
\* between the entry and the return of allocate or deallocate, never when
\* application code runs outside the callback (memsentry.cpp:204, 296).
TypeOK ==
  /\ shards \in [Shards -> ShardType]
  /\ active \in Nat
  /\ counter \in 1 .. MaxAllocs + 1
  /\ config \in Configs
  /\ initialized \in BOOLEAN
  /\ heap \in [Addr -> 0 .. 2]
  /\ header \in [Addr -> [magic : {"none", "header", "freed"}, canary : BOOLEAN, words : Nat]]
  /\ pc \in [Threads -> Labels]
  /\ depth \in [Threads -> 0 .. 1]
  /\ \A t \in Threads : depth[t] = 0 <=> pc[t] \in {"app", "alloc", "find", "rawrealloc", "rverify", "copy"}
  /\ loc \in [Threads -> LocType]
  /\ owned \subseteq Addr /\ stale \subseteq Addr /\ damaged \subseteq Addr

AllTracked == UNION {Tracked(shards[i]) : i \in Shards}

\* The application has freed only what it owns, and in its callback only
\* untracked blocks.
ProperUse == misuses = 0

At(labels) == {t \in Threads : pc[t] \in labels}

Quiescent == At({"app"}) = Threads

\* A record leads to a block that is allocated and whose header the Manager
\* wrote, as long as the application frees only what it owns: no record ever
\* outlives its memory (memsentry.cpp:237-266 against 299-314).
RecordsAreLive ==
  ProperUse => \A p \in AllTracked :
    LET r == shards[ShardOf[p]].records[p].raw
    IN heap[r] = 2 /\ p = r + 1 /\ (header[r].magic = "header" \/ p \in damaged)

\* An application that frees only what it owns never makes the Manager hand
\* the system a pointer that malloc did not return (memsentry.cpp:299-334).
HeapNeverMisused == ProperUse => ~aborted

\* A block with a broken canary is reported when it is freed, and its memory
\* never goes back to the system to be handed out again
\* (memsentry.cpp:301-315).
DamageContained ==
  ProperUse =>
    /\ \A p \in damaged : heap[p - 1] = 2
    /\ \A t \in At({"uncount"}) : loc[t].ptr \in damaged => loc[t].alarm # "NONE"

\* An application that frees only what it owns is told of corruption only on
\* a block it overran, and of a double free only on an untracked block that
\* lies where a quarantined payload was (memsentry.cpp:305-317, 357-360).
AlertsJustified ==
  ProperUse => \A t \in Threads :
    /\ loc[t].alarm \in {"HEADER_CORRUPTED", "FOOTER_CORRUPTED"} => loc[t].ptr \in damaged
    /\ loc[t].alarm = "DOUBLE_FREE" => heap[loc[t].ptr] = 1

\* The active count is the number of records, plus the blocks counted before
\* they are recorded and those still counted after their record is gone: it
\* never runs below what is tracked (memsentry.cpp:265-266, 299-309).
ActiveAccountsForRecords ==
  ProperUse =>
    active = Cardinality(AllTracked) + Cardinality(At({"insert"}))
             + Cardinality(At({"verify", "uncount"}))

\* When no call is running, every tracked block that is still allocated is
\* held by the application or was overrun and kept; and all that the
\* application holds is there (memsentry.cpp:312-315, 363-370).
NothingLost ==
  Quiescent /\ ProperUse =>
    /\ \A r \in Addr : heap[r] = 2 => (r + 1 \in owned /\ r + 1 \in AllTracked) \/ r + 1 \in damaged
    /\ \A p \in owned : heap[p] = 1 \/ (p - 1 \in Addr /\ heap[p - 1] = 2 /\ p \in AllTracked)

\* When no call is running, each untracked block that is still allocated is
\* held by the application: unsampled allocations are freed like the others
\* (tests/test_sampling.cpp:70).
UntrackedReleased ==
  Quiescent /\ ~aborted => \A r \in Addr : heap[r] = 1 => r \in owned

\* A second free of a pointer is not passed on as an untracked block while the
\* pointer is among the last QuarantineSize erasures of its shard
\* (memsentry.cpp:316-334).
DoubleFreeCaught ==
  [][\A t \in Threads :
       pc[t] = "erase" /\ pc'[t] = "candidate" =>
         \A j \in DOMAIN recent[ShardOf[loc[t].ptr]] : recent[ShardOf[loc[t].ptr]][j] # loc[t].ptr]_vars

=============================================================================
