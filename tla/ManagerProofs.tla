---------------------------- MODULE ManagerProofs ----------------------------
(***************************************************************************)
(* The Manager for any threads, any heap, any number of shards, any ring   *)
(* size and any configurations.                                            *)
(*                                                                         *)
(* Base gives the types and what a thread's locals hold at each of its     *)
(* labels.  Safe is about who is responsible for a block: every pointer    *)
(* that the application holds or that a call has in hand leads to a block, *)
(* no two of them to the same, and the tracker knows exactly the sampled   *)
(* ones among them that no call is taking out or putting in.  Alerted adds *)
(* that a block which was not overrun passes the check of its canary and   *)
(* that none is lost; Contained, that an overrun block fails that check    *)
(* and is not on the way back to the system.                               *)
(***************************************************************************)
EXTENDS Manager, FiniteSetTheorems, TLAPS

USE PtrAssumption, QuarantineAssumption, NullAssumption, NoRecordAssumption

HeaderType == [magic : {"none", "header", "freed"}, canary : BOOLEAN, words : Nat]

\* The labels at which the guard is not held.
Outside == {"app", "alloc", "find", "rawrealloc", "rverify", "copy"}

DepthAt(l) == IF l \in Outside THEN 0 ELSE 1

InAlloc == {"alloc", "count", "insert", "watchdog", "callback"}

Freeing == {"erase", "verify", "uncount", "release", "candidate", "adopt", "rawfree", "done"}

\* What the locals x of a thread hold at label l: the pointer to free or to
\* reallocate, the new block, the record.
LocFit(l, x) ==
  /\ l = "app" => x = NoLoc
  /\ l \in {"find", "rawrealloc", "rverify", "copy"} => x.goal = "realloc"
  /\ l \in InAlloc => x.goal \in {"alloc", "realloc"}
  /\ l \in Freeing => x.goal # "alloc"
  /\ x.goal = "realloc" \/ l \in Freeing => x.ptr # Null
  /\ x.goal = "alloc" => x.ptr = Null
  /\ l \in {"count", "insert", "watchdog", "callback"} => x.new # Null
  /\ l \in Freeing => (x.new # Null <=> x.goal = "realloc")
  /\ l \in {"app", "find", "rawrealloc", "rverify", "alloc"} => x.new = Null
  /\ l \in {"count", "insert", "verify", "uncount", "release", "rverify"} => x.rec \in Rec
  /\ l = "adopt" => x.ptr - 1 \in Addr

\* The tracker's entry for a pointer.
Known(p) == p \in Tracked(shards[ShardOf[p]])

Entry(p) == shards[ShardOf[p]].records[p]

\* A pointer is tracked in the shard it hashes to.
Homed == \A i \in Shards : \A p \in Tracked(shards[i]) : ShardOf[p] = i

\* All that is not one thread's.
Data ==
  /\ shards \in [Shards -> ShardType] /\ Homed
  /\ config \in Configs /\ initialized \in BOOLEAN
  /\ heap \in [Addr -> 0 .. 2]
  /\ header \in [Addr -> HeaderType]
  /\ owned \subseteq Addr /\ stale \subseteq Addr /\ damaged \subseteq Addr
  /\ misuses \in Nat

Types ==
  /\ Data
  /\ pc \in [Threads -> Labels]
  /\ depth \in [Threads -> 0 .. 1]
  /\ loc \in [Threads -> LocType]
  /\ counter \in Nat /\ counter >= 1

Threaded == \A t \in Threads : depth[t] = DepthAt(pc[t]) /\ LocFit(pc[t], loc[t])

\* The threads that are about to take an id are within the bound.
Taking == {"find", "rverify", "alloc"}

CounterInv == counter + Cardinality(At(Taking)) <= MaxAllocs + 1

Base == Types /\ Threaded /\ CounterInv

-----------------------------------------------------------------------------
(* What a step does to the thread that takes it.                           *)

\* Thread t is at l now, with the locals x, and in the guard or not.
Moves(t, l, x) ==
  /\ pc' = [pc EXCEPT ![t] = l]
  /\ loc' = [loc EXCEPT ![t] = x]
  /\ depth' = [depth EXCEPT ![t] = DepthAt(l)]

\* allocate has returned p.
Returned(t, p) ==
  \/ /\ loc[t].goal = "realloc"
     /\ Moves(t, "copy", [loc[t] EXCEPT !.new = p])
     /\ UNCHANGED app
  \/ /\ loc[t].goal = "alloc"
     /\ Moves(t, "app", NoLoc)
     /\ IF p = Null THEN UNCHANGED app ELSE Give(t, p)

\* A step changes the place and the locals of one thread.
LEMMA MovedControl ==
  ASSUME Base, NEW t \in Threads, NEW l \in Labels, NEW x \in LocType, LocFit(l, x), Moves(t, l, x)
  PROVE  /\ pc' \in [Threads -> Labels] /\ depth' \in [Threads -> 0 .. 1] /\ loc' \in [Threads -> LocType]
         /\ Threaded'
         /\ pc'[t] = l /\ loc'[t] = x
         /\ \A u \in Threads \ {t} : pc'[u] = pc[u] /\ loc'[u] = loc[u]
<1>1. /\ pc \in [Threads -> Labels] /\ depth \in [Threads -> 0 .. 1] /\ loc \in [Threads -> LocType]
      /\ \A u \in Threads : depth[u] = DepthAt(pc[u]) /\ LocFit(pc[u], loc[u])
  BY DEF Base, Types, Threaded
<1>2. DepthAt(l) \in 0 .. 1
  BY DEF DepthAt
<1>3. /\ pc' \in [Threads -> Labels] /\ depth' \in [Threads -> 0 .. 1] /\ loc' \in [Threads -> LocType]
      /\ pc'[t] = l /\ loc'[t] = x /\ depth'[t] = DepthAt(l)
      /\ \A u \in Threads \ {t} : pc'[u] = pc[u] /\ loc'[u] = loc[u] /\ depth'[u] = depth[u]
  BY <1>1, <1>2 DEF Moves
<1>4. \A u \in Threads : depth'[u] = DepthAt(pc'[u]) /\ LocFit(pc'[u], loc'[u])
  BY <1>1, <1>3
<1> QED
  BY <1>3, <1>4 DEF Threaded, DepthAt, LocFit

\* The threads at some labels are finitely many.
LEMMA CardAt ==
  ASSUME NEW L
  PROVE  /\ Cardinality(At(L)) \in Nat
         /\ \A t \in Threads : pc[t] \in L => Cardinality(At(L)) >= 1
<1>1. At(L) \subseteq Threads /\ IsFiniteSet(Threads)
  BY ManagerAssumption DEF At
<1>2. IsFiniteSet(At(L)) /\ Cardinality(At(L)) \in Nat
  BY <1>1, FS_Subset, FS_CardinalityType
<1>3. ASSUME NEW t \in Threads, pc[t] \in L PROVE Cardinality(At(L)) >= 1
  <2>1. t \in At(L)
    BY <1>3 DEF At
  <2>2. Cardinality(At(L)) # 0
    BY <1>2, <2>1, FS_EmptySet
  <2> QED
    BY <1>2, <2>2
<1> QED
  BY <1>2, <1>3

\* How many threads are at some labels changes by the one that moves.
LEMMA AtMoved ==
  ASSUME Types, NEW t \in Threads, NEW l, NEW L, pc' = [pc EXCEPT ![t] = l]
  PROVE  /\ Cardinality(At(L)) \in Nat
         /\ pc[t] \in L => Cardinality(At(L)) >= 1
         /\ Cardinality({u \in Threads : pc'[u] \in L}) =
              IF l \in L /\ pc[t] \notin L THEN Cardinality(At(L)) + 1
              ELSE IF l \notin L /\ pc[t] \in L THEN Cardinality(At(L)) - 1
              ELSE Cardinality(At(L))
<1> DEFINE A == At(L)
           B == {u \in Threads : pc'[u] \in L}
<1>1. IsFiniteSet(A) /\ Cardinality(A) \in Nat
  <2>1. A \subseteq Threads /\ IsFiniteSet(Threads)
    BY ManagerAssumption DEF At
  <2> QED
    BY <2>1, FS_Subset, FS_CardinalityType
<1>2. t \in A <=> pc[t] \in L
  BY DEF At
<1>3. B = IF l \in L THEN A \cup {t} ELSE A \ {t}
  BY DEF At, Types
<1> HIDE DEF A, B
<1>4. Cardinality(A \cup {t}) = IF t \in A THEN Cardinality(A) ELSE Cardinality(A) + 1
  BY <1>1, FS_AddElement
<1>5. Cardinality(A \ {t}) = IF t \in A THEN Cardinality(A) - 1 ELSE Cardinality(A)
  BY <1>1, FS_RemoveElement
<1>6. t \in A => Cardinality(A) >= 1
  <2> SUFFICES ASSUME t \in A PROVE Cardinality(A) >= 1
    OBVIOUS
  <2>1. Cardinality(A) # 0
    BY <1>1, FS_EmptySet
  <2> QED
    BY <1>1, <2>1
<1>7. Cardinality(B) = IF l \in L /\ t \notin A THEN Cardinality(A) + 1
                       ELSE IF l \notin L /\ t \in A THEN Cardinality(A) - 1
                       ELSE Cardinality(A)
  BY <1>3, <1>4, <1>5
<1> QED
  BY <1>1, <1>2, <1>6, <1>7 DEF A, B

\* The bound on ids is kept by a step that takes an id on leaving these labels
\* and by one that does not come to them.
LEMMA CounterKeeps ==
  ASSUME Base, NEW t \in Threads, NEW l, pc' = [pc EXCEPT ![t] = l],
         \/ counter' = counter /\ (l \in Taking => pc[t] \in Taking)
         \/ counter' = counter + 1 /\ l \notin Taking /\ pc[t] \in Taking
         \/ counter' = counter /\ IdsLeft
  PROVE  CounterInv' /\ counter' \in Nat /\ counter' >= 1
<1> DEFINE n == Cardinality(At(Taking))
           m == Cardinality({u \in Threads : pc'[u] \in Taking})
<1>0. /\ n \in Nat
      /\ m = IF l \in Taking /\ pc[t] \notin Taking THEN n + 1
             ELSE IF l \notin Taking /\ pc[t] \in Taking THEN n - 1
             ELSE n
  <2>1. Types
    BY DEF Base
  <2> HIDE DEF Taking
  <2> QED
    BY <2>1, AtMoved
<1>2. counter \in Nat /\ counter >= 1 /\ counter + n <= MaxAllocs + 1
  BY DEF Base, Types, CounterInv
<1>3. IdsLeft => counter + n <= MaxAllocs
  BY <1>0 DEF IdsLeft, At, Taking
<1> HIDE DEF n, m
<1>1. n \in Nat /\ m \in Int /\ m <= n + 1 /\ MaxAllocs \in Nat
      /\ (l \notin Taking => m <= n) /\ (pc[t] \in Taking => m <= n)
      /\ (l \notin Taking /\ pc[t] \in Taking => m = n - 1)
  BY <1>0, ManagerAssumption
<1>4. counter' + m <= MaxAllocs + 1 /\ counter' \in Nat /\ counter' >= 1
  BY <1>1, <1>2, <1>3
<1>5. Cardinality(At(Taking))' = m
  BY DEF At, Taking, m
<1> QED
  BY <1>4, <1>5 DEF CounterInv

\* A step that moves one thread and keeps the rest in type keeps the base.
LEMMA BaseMoves ==
  ASSUME Base, NEW t \in Threads, NEW l \in Labels, NEW x \in LocType, LocFit(l, x), Moves(t, l, x),
         Data',
         \/ counter' = counter /\ (l \in Taking => pc[t] \in Taking)
         \/ counter' = counter + 1 /\ l \notin Taking /\ pc[t] \in Taking
         \/ counter' = counter /\ IdsLeft
  PROVE  Base'
<1>1. /\ pc' \in [Threads -> Labels] /\ depth' \in [Threads -> 0 .. 1] /\ loc' \in [Threads -> LocType]
      /\ Threaded'
  BY MovedControl
<1>2. pc' = [pc EXCEPT ![t] = l]
  BY DEF Moves
<1>3. CounterInv' /\ counter' \in Nat /\ counter' >= 1
  <2> HIDE DEF Taking
  <2> QED
    BY <1>2, CounterKeeps
<1> QED
  BY <1>1, <1>3 DEF Base, Types

\* A step that moves no thread.
LEMMA StaysPut ==
  ASSUME Base, NEW t \in Threads, UNCHANGED <<pc, loc, depth>>
  PROVE  /\ pc[t] \in Labels /\ loc[t] \in LocType
         /\ LocFit(pc[t], loc[t]) /\ Moves(t, pc[t], loc[t])
<1>1. /\ pc \in [Threads -> Labels] /\ depth \in [Threads -> 0 .. 1] /\ loc \in [Threads -> LocType]
      /\ depth[t] = DepthAt(pc[t]) /\ LocFit(pc[t], loc[t])
  BY DEF Base, Types, Threaded
<1>2. pc = [pc EXCEPT ![t] = pc[t]] /\ loc = [loc EXCEPT ![t] = loc[t]] /\ depth = [depth EXCEPT ![t] = depth[t]]
  BY <1>1
<1> QED
  BY <1>1, <1>2 DEF Moves

\* What the base says of a thread.
LEMMA AtThread ==
  ASSUME Base, NEW t \in Threads
  PROVE  /\ pc[t] \in Labels /\ loc[t] \in LocType /\ depth[t] = DepthAt(pc[t])
         /\ LocFit(pc[t], loc[t])
         /\ depth = [depth EXCEPT ![t] = depth[t]]
         /\ loc = [loc EXCEPT ![t] = loc[t]]
  BY DEF Base, Types, Threaded

\* allocate goes back to its caller (memsentry.cpp:204-282).
LEMMA AllocReturns ==
  ASSUME Base, NEW t \in Threads, pc[t] \in InAlloc, NEW p \in Addr \cup {Null},
         AllocReturn(t, p), depth' = [depth EXCEPT ![t] = 0]
  PROVE  Returned(t, p)
<1>1. loc[t].goal \in {"alloc", "realloc"}
  BY AtThread DEF LocFit
<1>2. CASE loc[t].goal = "realloc"
  BY <1>2 DEF AllocReturn, Returned, Moves, Goto, DepthAt, Outside
<1>3. CASE loc[t].goal = "alloc"
  BY <1>3 DEF AllocReturn, Returned, Moves, Goto, DepthAt, Outside
<1> QED
  BY <1>1, <1>2, <1>3

\* It leaves the thread with the new block in a reallocate, or the application
\* with it.
LEMMA ReturnedMoves ==
  ASSUME Base, NEW t \in Threads, pc[t] \in InAlloc, NEW p \in Addr \cup {Null}, Returned(t, p)
  PROVE  /\ \E l \in {"app", "copy"}, x \in LocType : LocFit(l, x) /\ Moves(t, l, x)
         /\ owned' \subseteq Addr /\ stale' \subseteq Addr /\ misuses' \in Nat
<1>1. loc[t] \in LocType /\ LocFit(pc[t], loc[t]) /\ owned \subseteq Addr /\ stale \subseteq Addr /\ misuses \in Nat
  BY AtThread DEF Base, Types, Data
<1>2. CASE loc[t].goal = "realloc" /\ Moves(t, "copy", [loc[t] EXCEPT !.new = p]) /\ UNCHANGED app
  <2>1. [loc[t] EXCEPT !.new = p] \in LocType
    BY <1>1 DEF LocType
  <2>2. LocFit("copy", [loc[t] EXCEPT !.new = p])
    BY <1>1, <1>2 DEF LocFit, LocType, InAlloc, Freeing
  <2> QED
    BY <1>1, <1>2, <2>1, <2>2 DEF app
<1>3. CASE Moves(t, "app", NoLoc) /\ IF p = Null THEN UNCHANGED app ELSE Give(t, p)
  <2>1. NoLoc \in LocType /\ LocFit("app", NoLoc)
    BY DEF NoLoc, LocType, LocFit, Verdicts, InAlloc, Freeing
  <2> QED
    BY <1>1, <1>3, <2>1 DEF app, Give
<1> QED
  BY <1>2, <1>3 DEF Returned

\* insert adds one pointer to the tracked ones of its shard and changes the
\* record of no other (sharded_tracker.hpp:33-38).
LEMMA InsertData ==
  ASSUME Data, NEW p \in Ptr, NEW r \in Rec,
         shards' = [shards EXCEPT ![ShardOf[p]] = InsertInto(shards[ShardOf[p]], p, r)]
  PROVE  /\ shards' \in [Shards -> ShardType] /\ Homed'
         /\ \A q \in Ptr : /\ Known(q)' <=> Known(q) \/ q = p
                           /\ Entry(q)' = IF q = p THEN r ELSE Entry(q)
<1> DEFINE i == ShardOf[p]
           new == InsertInto(shards[i], p, r)
<1>1. i \in Shards /\ shards[i] \in ShardType /\ shards \in [Shards -> ShardType]
  BY ManagerAssumption DEF Data
<1>2. new.records = [shards[i].records EXCEPT ![p] = r]
  BY <1>1 DEF InsertInto, ShardType
<1>3. new \in ShardType
  BY <1>1 DEF InsertInto, ShardType
<1> HIDE DEF new
<1>4. shards' = [shards EXCEPT ![i] = new] /\ shards'[i] = new /\ \A j \in Shards \ {i} : shards'[j] = shards[j]
  BY <1>1 DEF new
<1>5. shards' \in [Shards -> ShardType]
  BY <1>1, <1>3, <1>4
<1>6. \A q \in Ptr : new.records[q] = IF q = p THEN r ELSE shards[i].records[q]
  BY <1>1, <1>2 DEF ShardType
<1>7. Tracked(new) = Tracked(shards[i]) \cup {p}
  BY <1>6 DEF Tracked
<1>8. Homed'
  BY <1>1, <1>4, <1>7 DEF Homed, Data
<1>9. ASSUME NEW q \in Ptr
      PROVE  /\ Known(q)' <=> Known(q) \/ q = p
             /\ Entry(q)' = IF q = p THEN r ELSE Entry(q)
  <2>1. ShardOf[q] \in Shards
    BY ManagerAssumption
  <2>2. CASE ShardOf[q] = i
    BY <1>4, <1>6, <1>7, <2>2 DEF Known, Entry
  <2>3. CASE ShardOf[q] # i
    BY <1>4, <2>1, <2>3 DEF Known, Entry
  <2> QED
    BY <2>2, <2>3
<1> QED
  BY <1>5, <1>8, <1>9

\* erase takes one pointer out and changes the record of no other
\* (sharded_tracker.hpp:46-62).
LEMMA EraseData ==
  ASSUME Data, NEW p \in Ptr,
         shards' = [shards EXCEPT ![ShardOf[p]] = AfterErase(shards[ShardOf[p]], p)]
  PROVE  /\ shards' \in [Shards -> ShardType] /\ Homed'
         /\ \A q \in Ptr : /\ Known(q)' <=> Known(q) /\ q # p
                           /\ q # p => Entry(q)' = Entry(q)
<1> DEFINE i == ShardOf[p]
           new == AfterErase(shards[i], p)
<1>1. i \in Shards /\ shards[i] \in ShardType /\ shards \in [Shards -> ShardType]
  BY ManagerAssumption DEF Data
<1>2. new \in ShardType /\ \A q \in Ptr : new.records[q] = IF q = p THEN NoRecord ELSE shards[i].records[q]
  <2>1. CASE p \notin Tracked(shards[i])
    BY <1>1, <2>1 DEF AfterErase, Tracked
  <2>2. CASE p \in Tracked(shards[i])
    <3>1. NextHead(shards[i].head) \in Slot /\ shards[i].head \in Slot
      BY <1>1 DEF NextHead, Slot, ShardType
    <3> QED
      BY <1>1, <2>2, <3>1 DEF AfterErase, EraseFrom, ShardType
  <2> QED
    BY <2>1, <2>2
<1> HIDE DEF new
<1>3. shards' = [shards EXCEPT ![i] = new] /\ shards'[i] = new /\ \A j \in Shards \ {i} : shards'[j] = shards[j]
  BY <1>1 DEF new
<1>4. shards' \in [Shards -> ShardType]
  BY <1>1, <1>2, <1>3
<1>5. Tracked(new) = Tracked(shards[i]) \ {p}
  BY <1>2 DEF Tracked
<1>6. Homed'
  BY <1>1, <1>3, <1>5 DEF Homed, Data
<1>7. ASSUME NEW q \in Ptr
      PROVE  /\ Known(q)' <=> Known(q) /\ q # p
             /\ q # p => Entry(q)' = Entry(q)
  <2>1. ShardOf[q] \in Shards
    BY ManagerAssumption
  <2>2. CASE ShardOf[q] = i
    BY <1>2, <1>3, <1>5, <2>2 DEF Known, Entry
  <2>3. CASE ShardOf[q] # i
    BY <1>3, <2>1, <2>3 DEF Known, Entry
  <2> QED
    BY <2>2, <2>3
<1> QED
  BY <1>4, <1>6, <1>7

-----------------------------------------------------------------------------
(* The base is kept by every action; where a call is after it.             *)

\* What the base says of the data.
LEMMA BaseData ==
  ASSUME Base
  PROVE  /\ shards \in [Shards -> ShardType] /\ Homed
         /\ config \in Configs /\ initialized \in BOOLEAN
         /\ heap \in [Addr -> 0 .. 2] /\ header \in [Addr -> HeaderType]
         /\ owned \subseteq Addr /\ stale \subseteq Addr /\ damaged \subseteq Addr
         /\ misuses \in Nat /\ counter \in Nat /\ Data
  BY DEF Base, Types, Data

\* Knowledge of the tracker depends on the shards alone.
LEMMA SameData ==
  ASSUME Base, shards' = shards, config' \in Configs, initialized' \in BOOLEAN,
         heap' \in [Addr -> 0 .. 2], header' \in [Addr -> HeaderType],
         owned' \subseteq Addr, stale' \subseteq Addr, damaged' \subseteq Addr, misuses' \in Nat
  PROVE  Data' /\ \A p : (Known(p)' <=> Known(p)) /\ Entry(p)' = Entry(p)
  BY BaseData DEF Data, Homed, Known, Entry

\* A call of allocate begins (memsentry.cpp:204).
LEMMA CallAllocBase ==
  ASSUME Base, NEW t \in Threads, CallAlloc(t)
  PROVE  Base' /\ Moves(t, "alloc", [NoLoc EXCEPT !.goal = "alloc"])
<1> DEFINE x == [NoLoc EXCEPT !.goal = "alloc"]
<1>1. Moves(t, "alloc", x)
  BY AtThread DEF CallAlloc, Call, Goto, Moves, DepthAt, Outside
<1>2. x \in LocType /\ LocFit("alloc", x) /\ "alloc" \in Labels
  BY DEF NoLoc, LocType, LocFit, Verdicts, InAlloc, Freeing, Labels
<1>3. Data'
  BY BaseData, SameData DEF CallAlloc, tracker, memory, app, history
<1>4. counter' = counter /\ IdsLeft
  BY DEF CallAlloc, tracker
<1> QED
  BY <1>1, <1>2, <1>3, <1>4, BaseMoves

\* Untracked memory for a request, or none (memsentry.cpp:207-208, 217-223).
LEMMA RawAllocBase ==
  ASSUME Base, NEW t \in Threads, pc[t] = "alloc",
         \/ \E r \in Room(1) : RawAlloc(r) /\ AllocReturn(t, r)
         \/ Room(1) = {} /\ AllocReturn(t, Null) /\ UNCHANGED <<heap, header, damaged>>,
         UNCHANGED <<shards, config, initialized, depth>>,
         counter' \in {counter, counter + 1}
  PROVE  /\ Base'
         /\ \/ \E r \in Room(1) : RawAlloc(r) /\ Returned(t, r)
            \/ Returned(t, Null) /\ UNCHANGED <<heap, header, damaged>>
<1>1. depth' = [depth EXCEPT ![t] = 0] /\ pc[t] \in InAlloc
  BY AtThread DEF DepthAt, Outside, InAlloc
<1>2. CASE Room(1) = {} /\ AllocReturn(t, Null) /\ UNCHANGED <<heap, header, damaged>>
  <2>1. Returned(t, Null)
    BY <1>1, <1>2, AllocReturns
  <2>2. PICK l \in {"app", "copy"}, x \in LocType :
             /\ LocFit(l, x) /\ Moves(t, l, x)
             /\ owned' \subseteq Addr /\ stale' \subseteq Addr /\ misuses' \in Nat
    BY <1>1, <2>1, ReturnedMoves
  <2>3. Data'
    BY <1>2, <2>2, BaseData, SameData
  <2>4. l \in Labels /\ l \notin Taking /\ pc[t] \in Taking
    BY DEF Labels, Taking
  <2>5. Base'
    BY <2>2, <2>3, <2>4, BaseMoves
  <2> QED
    BY <1>2, <2>1, <2>5
<1>3. ASSUME NEW r \in Room(1), RawAlloc(r), AllocReturn(t, r)
      PROVE  Base' /\ RawAlloc(r) /\ Returned(t, r)
  <2>0. r \in Addr
    BY DEF Room
  <2>1. Returned(t, r)
    BY <1>1, <1>3, <2>0, AllocReturns
  <2>2. PICK l \in {"app", "copy"}, x \in LocType :
             /\ LocFit(l, x) /\ Moves(t, l, x)
             /\ owned' \subseteq Addr /\ stale' \subseteq Addr /\ misuses' \in Nat
    BY <1>1, <2>0, <2>1, ReturnedMoves
  <2>3. heap' \in [Addr -> 0 .. 2] /\ header' \in [Addr -> HeaderType] /\ damaged' \subseteq Addr
    BY <1>3, <2>0, BaseData DEF RawAlloc, NoHeader, HeaderType
  <2>4. Data'
    BY <2>2, <2>3, BaseData, SameData
  <2>5. l \in Labels /\ l \notin Taking /\ pc[t] \in Taking
    BY DEF Labels, Taking
  <2> QED
    BY <1>3, <2>1, <2>2, <2>4, <2>5, BaseMoves
<1> QED
  BY <1>2, <1>3

\* Before init and after shutdown (memsentry.cpp:207-208).
LEMMA AllocFallbackBase ==
  ASSUME Base, NEW t \in Threads, AllocFallback(t)
  PROVE  /\ Base'
         /\ \/ \E r \in Room(1) : RawAlloc(r) /\ Returned(t, r)
            \/ Returned(t, Null) /\ UNCHANGED <<heap, header, damaged>>
  BY RawAllocBase DEF AllocFallback, tracker

\* A request that is not sampled (memsentry.cpp:211-223).
LEMMA AllocUnsampledBase ==
  ASSUME Base, NEW t \in Threads, AllocUnsampled(t)
  PROVE  /\ Base'
         /\ \/ \E r \in Room(1) : RawAlloc(r) /\ Returned(t, r)
            \/ Returned(t, Null) /\ UNCHANGED <<heap, header, damaged>>
  BY RawAllocBase DEF AllocUnsampled

\* The cells of a block and its header, with the thread inside the guard.
Sampled2(t, r) ==
  /\ heap' = [heap EXCEPT ![r] = 2]
  /\ header' = [header EXCEPT ![r] = InitBlock(config), ![r + 1] = NoHeader]
  /\ damaged' = damaged \ {r, r + 1}
  /\ Moves(t, "count", [loc[t] EXCEPT !.new = r + 1, !.rec = [id |-> counter, raw |-> r]])
  /\ UNCHANGED app

\* A sampled request (memsentry.cpp:225-247).
LEMMA AllocBlockBase ==
  ASSUME Base, NEW t \in Threads, AllocBlock(t)
  PROVE  /\ Base'
         /\ \/ \E r \in Room(2) : Sampled2(t, r)
            \/ Returned(t, Null) /\ UNCHANGED <<heap, header, damaged>>
<1>1. pc[t] = "alloc" /\ pc[t] \in InAlloc /\ depth[t] = 0 /\ loc[t] \in LocType /\ LocFit("alloc", loc[t])
  BY AtThread DEF AllocBlock, DepthAt, Outside, InAlloc
<1>2. shards' = shards /\ config' = config /\ initialized' = initialized /\ counter' = counter + 1
  BY DEF AllocBlock
<1>3. CASE Room(2) = {} /\ AllocReturn(t, Null) /\ UNCHANGED <<heap, header, damaged, depth>>
  <2>1. Returned(t, Null)
    BY <1>1, <1>3, AtThread, AllocReturns
  <2>2. PICK l \in {"app", "copy"}, x \in LocType :
             /\ LocFit(l, x) /\ Moves(t, l, x)
             /\ owned' \subseteq Addr /\ stale' \subseteq Addr /\ misuses' \in Nat
    BY <1>1, <2>1, ReturnedMoves
  <2>3. Data'
    BY <1>2, <1>3, <2>2, BaseData, SameData
  <2>4. l \in Labels /\ l \notin Taking /\ pc[t] \in Taking
    BY <1>1 DEF Labels, Taking
  <2>5. Base'
    BY <1>2, <2>2, <2>3, <2>4, BaseMoves
  <2> QED
    BY <1>3, <2>1, <2>5
<1>4. ASSUME NEW r \in Room(2),
             heap' = [heap EXCEPT ![r] = 2],
             header' = [header EXCEPT ![r] = InitBlock(config), ![r + 1] = NoHeader],
             damaged' = damaged \ {r, r + 1},
             loc' = [loc EXCEPT ![t].new = r + 1, ![t].rec = [id |-> counter, raw |-> r]],
             Goto(t, "count"), EnterGuard(t), UNCHANGED app
      PROVE  Base' /\ Sampled2(t, r)
  <2> DEFINE x == [loc[t] EXCEPT !.new = r + 1, !.rec = [id |-> counter, raw |-> r]]
  <2>1. r \in Addr /\ r + 1 \in Addr
    BY ManagerAssumption DEF Room, Addr
  <2>2. counter \in 0 .. MaxAllocs
    <3>1. CounterInv /\ Types /\ pc[t] \in Taking
      BY <1>1 DEF Base, Taking
    <3>2. Cardinality(At(Taking)) \in Nat /\ Cardinality(At(Taking)) >= 1
      <4> HIDE DEF Taking
      <4>1. pc = [pc EXCEPT ![t] = pc[t]]
        BY <3>1 DEF Types
      <4> QED
        BY <3>1, <4>1, CardAt
    <3> QED
      BY <3>1, <3>2, BaseData, ManagerAssumption DEF CounterInv
  <2>3. [id |-> counter, raw |-> r] \in Rec
    BY <2>1, <2>2, ManagerAssumption
  <2>4. x \in LocType
    BY <1>1, <2>1, <2>3 DEF LocType
  <2>5. LocFit("count", x)
    <3>1. x.new # Null /\ x.goal = loc[t].goal /\ x.ptr = loc[t].ptr /\ x.rec \in Rec
      BY <1>1, <2>1, <2>3, ManagerAssumption DEF LocType
    <3> QED
      BY <1>1, <3>1 DEF LocFit, InAlloc, Freeing
  <2>6. Moves(t, "count", x)
    <3>1. loc \in [Threads -> LocType]
      BY DEF Base, Types
    <3>2. loc' = [loc EXCEPT ![t] = x]
      BY <1>4, <3>1
    <3>3. depth' = [depth EXCEPT ![t] = 1] /\ pc' = [pc EXCEPT ![t] = "count"]
      BY <1>1, <1>4 DEF Goto, EnterGuard
    <3> HIDE DEF x
    <3> QED
      BY <3>2, <3>3 DEF Moves, DepthAt, Outside
  <2>7. config \in ConfigType
    BY BaseData, ManagerAssumption
  <2>8. InitBlock(config) \in HeaderType /\ NoHeader \in HeaderType
    BY <2>7 DEF InitBlock, NoHeader, HeaderType, ConfigType
  <2>9. Data'
    BY <1>2, <1>4, <2>1, <2>8, BaseData, SameData DEF app
  <2>10. "count" \in Labels /\ "count" \notin Taking /\ pc[t] \in Taking
    BY <1>1 DEF Labels, Taking
  <2>11. Base'
    <3> HIDE DEF x
    <3> QED
      BY <1>2, <2>4, <2>5, <2>6, <2>9, <2>10, BaseMoves
  <2> QED
    BY <1>4, <2>6, <2>11 DEF Sampled2
<1> QED
  BY <1>3, <1>4 DEF AllocBlock

\* A step that moves a thread to another label only.
LEMMA Relabels ==
  ASSUME Base, NEW t \in Threads, NEW l \in Labels, Goto(t, l), DepthAt(l) = DepthAt(pc[t]),
         UNCHANGED <<loc, depth>>
  PROVE  Moves(t, l, loc[t])
  BY AtThread DEF Moves, Goto

\* A step that moves a thread to another label and nothing else in the base.
LEMMA RelabelBase ==
  ASSUME Base, NEW t \in Threads, NEW l \in Labels, Moves(t, l, loc[t]), LocFit(l, loc[t]),
         l \in Taking => pc[t] \in Taking,
         UNCHANGED <<shards, counter, config, initialized, memory, app, damaged>>
  PROVE  Base'
<1>1. Data'
  BY BaseData, SameData DEF memory, app
<1>2. loc[t] \in LocType
  BY AtThread
<1> QED
  BY <1>1, <1>2, BaseMoves

\* The block is counted (memsentry.cpp:265).
LEMMA AllocCountBase ==
  ASSUME Base, NEW t \in Threads, AllocCount(t)
  PROVE  Base' /\ Moves(t, "insert", loc[t])
<1>1. pc[t] = "count" /\ LocFit("count", loc[t]) /\ "insert" \in Labels /\ "insert" \notin Taking
  BY AtThread DEF AllocCount, Labels, Taking
<1>2. LocFit("insert", loc[t])
  BY <1>1 DEF LocFit, InAlloc, Freeing
<1>3. Moves(t, "insert", loc[t])
  BY <1>1, Relabels DEF AllocCount, DepthAt, Outside
<1> QED
  BY <1>1, <1>2, <1>3, RelabelBase DEF AllocCount, history

\* The block is recorded (memsentry.cpp:266).
LEMMA AllocInsertBase ==
  ASSUME Base, NEW t \in Threads, AllocInsert(t)
  PROVE  /\ Base' /\ Moves(t, "watchdog", loc[t])
         /\ pc[t] = "insert" /\ loc[t].new \in Addr /\ loc[t].rec \in Rec
         /\ \A q \in Ptr : /\ Known(q)' <=> Known(q) \/ q = loc[t].new
                           /\ Entry(q)' = IF q = loc[t].new THEN loc[t].rec ELSE Entry(q)
<1>1. pc[t] = "insert" /\ LocFit("insert", loc[t]) /\ "watchdog" \in Labels /\ "watchdog" \notin Taking
      /\ loc[t] \in LocType
  BY AtThread DEF AllocInsert, Labels, Taking
<1>2. LocFit("watchdog", loc[t]) /\ loc[t].new \in Addr /\ loc[t].rec \in Rec
  BY <1>1 DEF LocFit, InAlloc, Freeing, LocType
<1>3. Moves(t, "watchdog", loc[t])
  BY <1>1, Relabels DEF AllocInsert, DepthAt, Outside
<1>4. /\ shards' \in [Shards -> ShardType] /\ Homed'
      /\ \A q \in Ptr : /\ Known(q)' <=> Known(q) \/ q = loc[t].new
                        /\ Entry(q)' = IF q = loc[t].new THEN loc[t].rec ELSE Entry(q)
  <2>1. loc[t].new \in Ptr
    BY <1>2, ManagerAssumption
  <2>2. shards' = [shards EXCEPT ![ShardOf[loc[t].new]] =
                     InsertInto(shards[ShardOf[loc[t].new]], loc[t].new, loc[t].rec)]
    BY DEF AllocInsert
  <2> QED
    BY <1>2, <2>1, <2>2, InsertData, BaseData
<1>5. Data'
  BY <1>4, BaseData DEF Data, AllocInsert, memory, app
<1> QED
  BY <1>1, <1>2, <1>3, <1>4, <1>5, BaseMoves DEF AllocInsert

\* The watchdog calls back, or allocate returns (memsentry.cpp:268-282).
LEMMA AllocWatchdogBase ==
  ASSUME Base, NEW t \in Threads, AllocWatchdog(t) \/ CallbackReturns(t)
  PROVE  /\ Base' /\ pc[t] \in {"watchdog", "callback"}
         /\ \/ Moves(t, "callback", loc[t]) /\ UNCHANGED app
            \/ Returned(t, loc[t].new)
<1>1. pc[t] \in {"watchdog", "callback"} /\ LocFit(pc[t], loc[t]) /\ loc[t] \in LocType /\ depth[t] = 1
  BY AtThread DEF AllocWatchdog, CallbackReturns, DepthAt, Outside
<1>2. shards' = shards /\ counter' = counter /\ config' = config /\ initialized' = initialized
      /\ heap' = heap /\ header' = header /\ damaged' = damaged
  BY DEF AllocWatchdog, CallbackReturns, tracker, memory, history
<1>3. CASE Goto(t, "callback") /\ UNCHANGED <<depth, loc, app>>
  <2>1. "callback" \in Labels /\ "callback" \notin Taking
    BY DEF Labels, Taking
  <2>2. LocFit("callback", loc[t])
    BY <1>1 DEF LocFit, InAlloc, Freeing
  <2>3. Moves(t, "callback", loc[t])
    BY <1>1, <1>3, <2>1, Relabels DEF DepthAt, Outside
  <2> QED
    BY <1>1, <1>2, <1>3, <2>1, <2>2, <2>3, RelabelBase DEF memory
<1>4. CASE AllocReturn(t, loc[t].new) /\ LeaveGuard(t)
  <2>1. pc[t] \in InAlloc /\ loc[t].new \in Addr \cup {Null} /\ depth' = [depth EXCEPT ![t] = 0]
    BY <1>1, <1>4 DEF InAlloc, LocType, LeaveGuard
  <2>2. Returned(t, loc[t].new)
    BY <1>4, <2>1, AllocReturns
  <2>3. PICK l \in {"app", "copy"}, x \in LocType :
             /\ LocFit(l, x) /\ Moves(t, l, x)
             /\ owned' \subseteq Addr /\ stale' \subseteq Addr /\ misuses' \in Nat
    BY <2>1, <2>2, ReturnedMoves
  <2>4. Data'
    BY <1>2, <2>3, BaseData, SameData
  <2>5. l \in Labels /\ l \notin Taking
    BY DEF Labels, Taking
  <2> QED
    BY <1>1, <1>2, <2>2, <2>3, <2>4, <2>5, BaseMoves
<1> QED
  BY <1>1, <1>3, <1>4 DEF AllocWatchdog, CallbackReturns

\* free of the system changes at most the cell it is given.
LEMMA RawFreeHeap ==
  ASSUME Base, NEW p \in Addr, RawFree(p)
  PROVE  heap' \in [Addr -> 0 .. 2]
  BY BaseData DEF RawFree

\* The application that parts with a pointer may remember it.
LEMMA PartTypes ==
  ASSUME Base, NEW p \in Addr, Part(p)
  PROVE  owned' \subseteq Addr /\ stale' \subseteq Addr
  BY BaseData DEF Part

\* A pointer of the application goes to the system, past the tracker.
Passes(t, p) ==
  /\ ~aborted /\ pc[t] \in {"app", "callback"}
  /\ p \in owned
  /\ misuses' \in Nat
  /\ Part(p) /\ RawFree(p)
  /\ UNCHANGED <<tracker, config, initialized, header, pc, depth, loc, history>>

\* A free inside the callback (memsentry.cpp:275-277, 292-296).
LEMMA CallbackPasses ==
  ASSUME Base, NEW t \in Threads, CallbackFrees(t)
  PROVE  \E p \in Addr : Passes(t, p) /\ (misuses' = misuses => heap[p] = 1)
<1>1. PICK p \in owned :
        /\ misuses' = IF heap[p] = 1 THEN misuses ELSE misuses + 1
        /\ Part(p) /\ RawFree(p)
  BY DEF CallbackFrees
<1>2. p \in Addr /\ misuses \in Nat
  BY BaseData
<1>3. Passes(t, p)
  BY <1>1, <1>2 DEF Passes, CallbackFrees
<1> QED
  BY <1>1, <1>2, <1>3

\* A realloc to size zero that the system serves (allocator_hooks.cpp:27-30).
LEMMA NothingPasses ==
  ASSUME Base, NEW t \in Threads, ReallocNothing(t)
  PROVE  /\ ~initialized
         /\ \E p \in Addr : Passes(t, p) /\ ("realloc" \notin Calls => heap[p] = 1)
<1>1. PICK p \in owned :
        /\ "realloc" \in Calls \/ heap[p] = 1
        /\ misuses' = misuses
        /\ Part(p) /\ RawFree(p)
  BY DEF ReallocNothing
<1>2. p \in Addr /\ misuses \in Nat
  BY BaseData
<1>3. Passes(t, p)
  BY <1>1, <1>2 DEF Passes, ReallocNothing, Call
<1> QED
  BY <1>1, <1>2, <1>3 DEF ReallocNothing

\* Such a free keeps the base.
LEMMA PassesBase ==
  ASSUME Base, NEW t \in Threads, NEW p \in Addr, Passes(t, p)
  PROVE  Base' /\ Moves(t, pc[t], loc[t])
<1>1. misuses' \in Nat /\ heap' \in [Addr -> 0 .. 2] /\ owned' \subseteq Addr /\ stale' \subseteq Addr
  BY BaseData, RawFreeHeap, PartTypes DEF Passes
<1>2. Data'
  BY <1>1, BaseData, SameData DEF Passes, tracker, history
<1>3. pc[t] \in Labels /\ loc[t] \in LocType /\ LocFit(pc[t], loc[t]) /\ Moves(t, pc[t], loc[t])
  BY StaysPut DEF Passes
<1> QED
  BY <1>2, <1>3, BaseMoves DEF Passes, tracker

\* A call of deallocate begins (memsentry.cpp:286-297).
LEMMA CallFreeBase ==
  ASSUME Base, NEW t \in Threads, CallFree(t)
  PROVE  /\ Base'
         /\ \E p \in owned \cup stale :
              /\ Moves(t, "erase", [NoLoc EXCEPT !.ptr = p])
              /\ p \notin owned => misuses' = misuses + 1
              /\ p \in owned => misuses' = misuses
              /\ owned' = owned \ {p}
<1>1. PICK p \in owned \cup stale :
        /\ loc' = [loc EXCEPT ![t] = [NoLoc EXCEPT !.ptr = p]]
        /\ misuses' = IF p \in owned THEN misuses ELSE misuses + 1
        /\ Part(p)
  BY DEF CallFree
<1>2. p \in Addr
  BY BaseData
<1> DEFINE x == [NoLoc EXCEPT !.ptr = p]
<1>3. x \in LocType /\ LocFit("erase", x) /\ "erase" \in Labels /\ "erase" \notin Taking
  <2>1. p # Null
    BY <1>2, ManagerAssumption
  <2> QED
    BY <1>2, <2>1 DEF NoLoc, LocType, LocFit, Verdicts, InAlloc, Freeing, Labels, Taking
<1>4. Moves(t, "erase", x)
  <2>1. depth[t] = 0
    BY DEF CallFree, Call
  <2> HIDE DEF x
  <2>2. loc' = [loc EXCEPT ![t] = x]
    BY <1>1 DEF x
  <2>3. depth' = [depth EXCEPT ![t] = 1] /\ pc' = [pc EXCEPT ![t] = "erase"]
    BY <2>1 DEF CallFree, EnterGuard, Goto
  <2> QED
    BY <2>2, <2>3 DEF Moves, DepthAt, Outside
<1>5. misuses' \in Nat /\ owned' \subseteq Addr /\ stale' \subseteq Addr
  BY <1>1, <1>2, BaseData, PartTypes
<1>6. Data'
  BY <1>5, BaseData, SameData DEF CallFree, tracker, memory, history
<1>7. Base'
  <2> HIDE DEF x
  <2> QED
    BY <1>3, <1>4, <1>6, BaseMoves DEF CallFree, tracker
<1> QED
  BY <1>1, <1>4, <1>7 DEF Part

\* The tracker takes the record out, or answers why it has none
\* (memsentry.cpp:298-317).
LEMMA FreeEraseBase ==
  ASSUME Base, NEW t \in Threads, FreeErase(t)
  PROVE  /\ Base' /\ pc[t] = "erase" /\ loc[t].ptr \in Addr
         /\ \A q \in Ptr : /\ Known(q)' <=> Known(q) /\ q # loc[t].ptr
                           /\ q # loc[t].ptr => Entry(q)' = Entry(q)
         /\ \/ /\ Known(loc[t].ptr)
               /\ Moves(t, "verify", [loc[t] EXCEPT !.rec = Entry(loc[t].ptr)])
            \/ /\ ~Known(loc[t].ptr)
               /\ \E i \in Slot : shards[ShardOf[loc[t].ptr]].quarantine[i] = loc[t].ptr
               /\ Moves(t, "done", [loc[t] EXCEPT !.alarm = "DOUBLE_FREE"])
            \/ /\ ~Known(loc[t].ptr)
               /\ Moves(t, "candidate", loc[t])
<1> DEFINE p == loc[t].ptr
           s == shards[ShardOf[p]]
<1>1. pc[t] = "erase" /\ LocFit("erase", loc[t]) /\ loc[t] \in LocType /\ depth[t] = 1
      /\ loc \in [Threads -> LocType]
  BY AtThread DEF FreeErase, Base, Types, DepthAt, Outside
<1>2. p \in Addr /\ p \in Ptr
  BY <1>1, ManagerAssumption DEF LocFit, LocType, Freeing
<1>3. s \in ShardType
  BY <1>2, BaseData, ManagerAssumption
<1>4. /\ shards' \in [Shards -> ShardType] /\ Homed'
      /\ \A q \in Ptr : /\ Known(q)' <=> Known(q) /\ q # p
                        /\ q # p => Entry(q)' = Entry(q)
  <2>1. shards' = [shards EXCEPT ![ShardOf[p]] = AfterErase(shards[ShardOf[p]], p)]
    BY DEF FreeErase
  <2> QED
    BY <1>2, <2>1, EraseData, BaseData
<1>5. Data'
  BY <1>4, BaseData DEF Data, FreeErase, memory, app
<1>6. counter' = counter /\ depth' = depth
  BY DEF FreeErase
<1>7. CASE /\ EraseStatus(s, p) = "SUCCESS"
           /\ loc' = [loc EXCEPT ![t].rec = s.records[p]]
           /\ Goto(t, "verify")
  <2> DEFINE x == [loc[t] EXCEPT !.rec = Entry(p)]
  <2>1. Known(p) /\ Entry(p) \in Rec
    BY <1>2, <1>3, <1>7 DEF EraseStatus, Known, Entry, Tracked, ShardType
  <2>2. x \in LocType /\ LocFit("verify", x)
    BY <1>1, <2>1 DEF LocType, LocFit, InAlloc, Freeing
  <2>3. Moves(t, "verify", x)
    <3>1. loc' = [loc EXCEPT ![t] = x]
      BY <1>1, <1>7 DEF Entry
    <3> HIDE DEF x
    <3> QED
      BY <1>1, <1>6, <1>7, <3>1, AtThread DEF Moves, Goto, DepthAt, Outside
  <2>4. "verify" \in Labels /\ "verify" \notin Taking
    BY DEF Labels, Taking
  <2>5. Base'
    <3> HIDE DEF x
    <3> QED
      BY <1>5, <1>6, <2>2, <2>3, <2>4, BaseMoves
  <2> QED
    BY <1>1, <1>2, <1>4, <2>1, <2>3, <2>5
<1>8. CASE /\ EraseStatus(s, p) = "DOUBLE_FREE_DETECTED"
           /\ loc' = [loc EXCEPT ![t].alarm = "DOUBLE_FREE"]
           /\ Goto(t, "done")
  <2> DEFINE x == [loc[t] EXCEPT !.alarm = "DOUBLE_FREE"]
  <2>1. ~Known(p) /\ \E i \in Slot : s.quarantine[i] = p
    BY <1>2, <1>3, <1>8 DEF EraseStatus, Known, Quarantined
  <2>2. x \in LocType /\ LocFit("done", x)
    BY <1>1 DEF LocType, LocFit, InAlloc, Freeing, Verdicts
  <2>3. Moves(t, "done", x)
    <3>1. loc' = [loc EXCEPT ![t] = x]
      BY <1>1, <1>8
    <3> HIDE DEF x
    <3> QED
      BY <1>1, <1>6, <1>8, <3>1, AtThread DEF Moves, Goto, DepthAt, Outside
  <2>4. "done" \in Labels /\ "done" \notin Taking
    BY DEF Labels, Taking
  <2>5. Base'
    <3> HIDE DEF x
    <3> QED
      BY <1>5, <1>6, <2>2, <2>3, <2>4, BaseMoves
  <2> QED
    BY <1>1, <1>2, <1>4, <2>1, <2>3, <2>5
<1>9. CASE /\ EraseStatus(s, p) = "NOT_FOUND"
           /\ Goto(t, "candidate")
           /\ UNCHANGED loc
  <2>1. ~Known(p)
    BY <1>9 DEF EraseStatus, Known
  <2>2. LocFit("candidate", loc[t])
    BY <1>1 DEF LocFit, InAlloc, Freeing
  <2>3. "candidate" \in Labels /\ "candidate" \notin Taking /\ DepthAt("candidate") = DepthAt(pc[t])
    BY <1>1 DEF Labels, Taking, DepthAt, Outside
  <2>4. Moves(t, "candidate", loc[t])
    BY <1>6, <1>9, <2>3, Relabels
  <2>5. Base'
    BY <1>1, <1>5, <1>6, <2>2, <2>3, <2>4, BaseMoves
  <2> QED
    BY <1>1, <1>2, <1>4, <2>1, <2>4, <2>5
<1> QED
  BY <1>7, <1>8, <1>9 DEF FreeErase

\* The verdict on the block (memsentry.cpp:301-307).
Verdict(t) == VerifyCanary(header[loc[t].rec.raw], FooterSize(config))

\* verify_canary has four answers (header.hpp:76-104).
LEMMA VerdictType == \A h, n : VerifyCanary(h, n) \in Verdicts
  BY DEF VerifyCanary, Verdicts

\* The canary is looked at and the verdict kept (memsentry.cpp:301-307).
LEMMA FreeVerifyBase ==
  ASSUME Base, NEW t \in Threads, FreeVerify(t)
  PROVE  Base' /\ Moves(t, "uncount", [loc[t] EXCEPT !.verdict = Verdict(t), !.alarm = Verdict(t)])
<1> DEFINE x == [loc[t] EXCEPT !.verdict = Verdict(t), !.alarm = Verdict(t)]
<1>1. pc[t] = "verify" /\ LocFit("verify", loc[t]) /\ loc[t] \in LocType /\ depth[t] = 1
      /\ loc \in [Threads -> LocType]
  BY AtThread DEF FreeVerify, Base, Types, DepthAt, Outside
<1>2. Verdict(t) \in Verdicts
  BY VerdictType DEF Verdict
<1>3. x \in LocType /\ LocFit("uncount", x)
  BY <1>1, <1>2 DEF LocType, LocFit, InAlloc, Freeing
<1>4. "uncount" \in Labels /\ "uncount" \notin Taking
  BY DEF Labels, Taking
<1>5. Moves(t, "uncount", x)
  <2>1. loc' = [loc EXCEPT ![t] = x]
    BY <1>1 DEF FreeVerify, Verdict
  <2> HIDE DEF x
  <2> QED
    BY <1>1, <2>1, AtThread DEF FreeVerify, Moves, Goto, DepthAt, Outside
<1>6. Data' /\ counter' = counter
  BY BaseData, SameData DEF FreeVerify, tracker, memory, app, history
<1>7. Base'
  <2> HIDE DEF x
  <2> QED
    BY <1>3, <1>4, <1>5, <1>6, BaseMoves
<1> QED
  BY <1>5, <1>7

\* The block is no longer counted; a broken one is kept (memsentry.cpp:308-315).
LEMMA FreeUncountBase ==
  ASSUME Base, NEW t \in Threads, FreeUncount(t)
  PROVE  Base' /\ Moves(t, IF loc[t].verdict = "NONE" THEN "release" ELSE "done", loc[t])
<1> DEFINE l == IF loc[t].verdict = "NONE" THEN "release" ELSE "done"
<1>1. pc[t] = "uncount" /\ LocFit("uncount", loc[t])
  BY AtThread DEF FreeUncount
<1>2. l \in Labels /\ l \notin Taking /\ DepthAt(l) = DepthAt(pc[t])
  BY <1>1 DEF Labels, Taking, DepthAt, Outside
<1>3. LocFit(l, loc[t])
  BY <1>1 DEF LocFit, InAlloc, Freeing
<1>4. Goto(t, l)
  BY DEF FreeUncount
<1> HIDE DEF l
<1>5. Moves(t, l, loc[t])
  BY <1>2, <1>4, Relabels DEF FreeUncount
<1>6. Base'
  BY <1>2, <1>3, <1>5, RelabelBase DEF FreeUncount, history
<1> QED
  BY <1>5, <1>6 DEF l

\* A block goes back to the system and the call is over
\* (memsentry.cpp:311-314, 319-334).
LEMMA ReleaseBase ==
  ASSUME Base, NEW t \in Threads, pc[t] \in {"release", "adopt", "rawfree"},
         Goto(t, "done"), header' \in [Addr -> HeaderType], heap' \in [Addr -> 0 .. 2],
         UNCHANGED <<tracker, config, initialized, depth, loc, app, damaged>>
  PROVE  Base' /\ Moves(t, "done", loc[t])
<1>1. LocFit(pc[t], loc[t]) /\ loc[t] \in LocType
  BY AtThread
<1>2. "done" \in Labels /\ "done" \notin Taking /\ DepthAt("done") = DepthAt(pc[t])
  BY DEF Labels, Taking, DepthAt, Outside
<1>3. LocFit("done", loc[t])
  BY <1>1 DEF LocFit, InAlloc, Freeing
<1>4. Moves(t, "done", loc[t])
  BY <1>2, Relabels
<1>5. Data' /\ counter' = counter
  BY BaseData, SameData DEF tracker, app
<1> QED
  BY <1>1, <1>2, <1>3, <1>4, <1>5, BaseMoves

\* Poisoning keeps a header a header.
LEMMA PoisonType ==
  ASSUME Base, NEW a
  PROVE  [header EXCEPT ![a] = Poison(header[a])] \in [Addr -> HeaderType]
<1>1. header \in [Addr -> HeaderType]
  BY BaseData
<1>2. \A h \in HeaderType : Poison(h) \in HeaderType
  BY DEF Poison, HeaderType
<1> QED
  BY <1>1, <1>2

\* The sound block is poisoned and returned (memsentry.cpp:311-314).
LEMMA FreeReleaseBase ==
  ASSUME Base, NEW t \in Threads, FreeRelease(t)
  PROVE  Base' /\ Moves(t, "done", loc[t]) /\ loc[t].rec.raw \in Addr
<1>1. pc[t] = "release" /\ LocFit("release", loc[t])
  BY AtThread DEF FreeRelease
<1>2. loc[t].rec.raw \in Addr
  BY <1>1, ManagerAssumption DEF LocFit
<1>3. header' \in [Addr -> HeaderType] /\ heap' \in [Addr -> 0 .. 2]
  BY <1>2, PoisonType, RawFreeHeap DEF FreeRelease
<1> QED
  BY <1>1, <1>2, <1>3, ReleaseBase DEF FreeRelease, history

\* The candidate header is looked at (memsentry.cpp:318-322).
LEMMA FreeCandidateBase ==
  ASSUME Base, NEW t \in Threads, FreeCandidate(t)
  PROVE  Base' /\ Moves(t, IF Candidate(loc[t].ptr) THEN "adopt" ELSE "rawfree", loc[t])
<1> DEFINE l == IF Candidate(loc[t].ptr) THEN "adopt" ELSE "rawfree"
<1>1. pc[t] = "candidate" /\ LocFit("candidate", loc[t])
  BY AtThread DEF FreeCandidate
<1>2. l \in Labels /\ l \notin Taking /\ DepthAt(l) = DepthAt(pc[t])
  BY <1>1 DEF Labels, Taking, DepthAt, Outside
<1>3. LocFit(l, loc[t])
  <2>1. LocFit("rawfree", loc[t])
    BY <1>1 DEF LocFit, InAlloc, Freeing
  <2>2. Candidate(loc[t].ptr) => LocFit("adopt", loc[t])
    BY <1>1 DEF LocFit, InAlloc, Freeing, Candidate
  <2> QED
    BY <2>1, <2>2
<1>4. Goto(t, l)
  BY DEF FreeCandidate
<1> HIDE DEF l
<1>5. Moves(t, l, loc[t])
  BY <1>2, <1>4, Relabels DEF FreeCandidate
<1>6. Base'
  BY <1>2, <1>3, <1>5, RelabelBase DEF FreeCandidate, tracker, history
<1> QED
  BY <1>5, <1>6 DEF l

\* An orphan with a header is poisoned and returned (memsentry.cpp:322-328).
LEMMA FreeAdoptBase ==
  ASSUME Base, NEW t \in Threads, FreeAdopt(t)
  PROVE  Base' /\ Moves(t, "done", loc[t])
<1>1. pc[t] = "adopt" /\ LocFit("adopt", loc[t])
  BY AtThread DEF FreeAdopt
<1>2. loc[t].ptr - 1 \in Addr
  BY <1>1 DEF LocFit
<1>3. header' \in [Addr -> HeaderType] /\ heap' \in [Addr -> 0 .. 2]
  BY <1>2, PoisonType, RawFreeHeap DEF FreeAdopt
<1> QED
  BY <1>1, <1>3, ReleaseBase DEF FreeAdopt, history

\* A pointer the Manager does not know goes to the system (memsentry.cpp:330-334).
LEMMA FreeUntrackedBase ==
  ASSUME Base, NEW t \in Threads, FreeUntracked(t)
  PROVE  Base' /\ Moves(t, "done", loc[t]) /\ loc[t].ptr \in Addr
<1>1. pc[t] = "rawfree" /\ LocFit("rawfree", loc[t]) /\ loc[t] \in LocType
  BY AtThread DEF FreeUntracked
<1>2. loc[t].ptr \in Addr
  BY <1>1 DEF LocFit, LocType, Freeing
<1>3. header' \in [Addr -> HeaderType] /\ heap' \in [Addr -> 0 .. 2]
  BY <1>2, BaseData, RawFreeHeap DEF FreeUntracked
<1> QED
  BY <1>1, <1>2, <1>3, ReleaseBase DEF FreeUntracked, history

\* The rest of a call: the thread is the application again.
LEMMA BackToApp ==
  ASSUME Base, NEW t \in Threads, Moves(t, "app", NoLoc), Data', counter' = counter
  PROVE  Base'
<1>1. NoLoc \in LocType /\ LocFit("app", NoLoc) /\ "app" \in Labels /\ "app" \notin Taking
  BY DEF NoLoc, LocType, LocFit, Verdicts, InAlloc, Freeing, Labels, Taking
<1> QED
  BY <1>1, BaseMoves

\* deallocate returns, and a reallocate that moved returns its new block
\* (memsentry.cpp:335, 372).
LEMMA FreeReturnBase ==
  ASSUME Base, NEW t \in Threads, FreeReturn(t)
  PROVE  /\ Base' /\ Moves(t, "app", NoLoc)
         /\ IF loc[t].goal = "realloc" THEN loc[t].new \in Addr /\ Give(t, loc[t].new) ELSE UNCHANGED app
<1>1. pc[t] = "done" /\ LocFit("done", loc[t]) /\ loc[t] \in LocType /\ depth[t] = 1
  BY AtThread DEF FreeReturn, DepthAt, Outside
<1>2. loc[t].goal = "realloc" => loc[t].new \in Addr
  BY <1>1 DEF LocFit, LocType, Freeing
<1>3. Moves(t, "app", NoLoc)
  <2>1. depth' = [depth EXCEPT ![t] = 0]
    BY <1>1 DEF FreeReturn, LeaveGuard
  <2> QED
    BY <2>1 DEF FreeReturn, Moves, Goto, DepthAt, Outside
<1>4. owned' \subseteq Addr /\ stale' \subseteq Addr /\ misuses' \in Nat
  BY <1>2, BaseData DEF FreeReturn, Give, app
<1>5. Data' /\ counter' = counter
  BY <1>4, BaseData, SameData DEF FreeReturn, tracker, memory, history
<1> QED
  BY <1>2, <1>3, <1>5, BackToApp DEF FreeReturn

\* A call of reallocate begins (memsentry.cpp:338-345).
LEMMA CallReallocBase ==
  ASSUME Base, NEW t \in Threads, CallRealloc(t)
  PROVE  /\ Base' /\ UNCHANGED misuses /\ "realloc" \in Calls
         /\ \E p \in owned : /\ Moves(t, "find", [NoLoc EXCEPT !.ptr = p, !.goal = "realloc"])
                             /\ owned' = owned \ {p}
<1>1. PICK p \in owned :
        /\ loc' = [loc EXCEPT ![t] = [NoLoc EXCEPT !.ptr = p, !.goal = "realloc"]]
        /\ UNCHANGED misuses /\ Part(p)
  BY DEF CallRealloc
<1>2. p \in Addr
  BY BaseData
<1> DEFINE x == [NoLoc EXCEPT !.ptr = p, !.goal = "realloc"]
<1>3. x \in LocType /\ LocFit("find", x) /\ "find" \in Labels
  <2>1. p # Null
    BY <1>2, ManagerAssumption
  <2> QED
    BY <1>2, <2>1 DEF NoLoc, LocType, LocFit, Verdicts, InAlloc, Freeing, Labels
<1>4. Moves(t, "find", x)
  <2>1. depth' = [depth EXCEPT ![t] = 0]
    BY AtThread DEF CallRealloc, Call
  <2> HIDE DEF x
  <2>2. loc' = [loc EXCEPT ![t] = x]
    BY <1>1 DEF x
  <2> QED
    BY <2>1, <2>2 DEF CallRealloc, Goto, Moves, DepthAt, Outside
<1>5. owned' \subseteq Addr /\ stale' \subseteq Addr /\ misuses' \in Nat
  BY <1>1, <1>2, BaseData, PartTypes
<1>6. Data' /\ counter' = counter /\ IdsLeft
  BY <1>5, BaseData, SameData DEF CallRealloc, tracker, memory, history
<1>7. Base'
  <2> HIDE DEF x
  <2> QED
    BY <1>3, <1>4, <1>6, BaseMoves
<1> QED
  BY <1>1, <1>4, <1>7 DEF Part, CallRealloc

\* The tracker is asked for the record (memsentry.cpp:346-352).
LEMMA ReallocFindBase ==
  ASSUME Base, NEW t \in Threads, ReallocFind(t)
  PROVE  /\ Base' /\ loc[t].ptr \in Addr
         /\ \/ Known(loc[t].ptr) /\ Moves(t, "rverify", [loc[t] EXCEPT !.rec = Entry(loc[t].ptr)])
            \/ /\ initialized => ~Known(loc[t].ptr)
               /\ Moves(t, "rawrealloc", loc[t])
<1> DEFINE p == loc[t].ptr
<1>1. pc[t] = "find" /\ LocFit("find", loc[t]) /\ loc[t] \in LocType /\ depth[t] = 0
      /\ loc \in [Threads -> LocType]
  BY AtThread DEF ReallocFind, Base, Types, DepthAt, Outside
<1>2. p \in Addr /\ p \in Ptr
  BY <1>1, ManagerAssumption DEF LocFit, LocType
<1>3. shards[ShardOf[p]] \in ShardType
  BY <1>2, BaseData, ManagerAssumption
<1>4. Data' /\ counter' = counter /\ depth' = depth
  BY BaseData, SameData DEF ReallocFind, tracker, memory, app, history
<1>5. CASE /\ initialized /\ p \in Tracked(shards[ShardOf[p]])
           /\ loc' = [loc EXCEPT ![t].rec = shards[ShardOf[p]].records[p]]
           /\ Goto(t, "rverify")
  <2> DEFINE x == [loc[t] EXCEPT !.rec = Entry(p)]
  <2>1. Known(p) /\ Entry(p) \in Rec
    BY <1>2, <1>3, <1>5 DEF Known, Entry, Tracked, ShardType
  <2>2. x \in LocType /\ LocFit("rverify", x)
    BY <1>1, <2>1 DEF LocType, LocFit, InAlloc, Freeing
  <2>3. Moves(t, "rverify", x)
    <3>1. loc' = [loc EXCEPT ![t] = x]
      BY <1>1, <1>5 DEF Entry
    <3> HIDE DEF x
    <3> QED
      BY <1>1, <1>4, <1>5, <3>1, AtThread DEF Moves, Goto, DepthAt, Outside
  <2>4. "rverify" \in Labels /\ pc[t] \in Taking
    BY <1>1 DEF Labels, Taking
  <2>5. Base'
    <3> HIDE DEF x
    <3> QED
      BY <1>4, <2>2, <2>3, <2>4, BaseMoves
  <2> QED
    BY <1>2, <2>1, <2>3, <2>5
<1>6. CASE /\ ~(initialized /\ p \in Tracked(shards[ShardOf[p]]))
           /\ Goto(t, "rawrealloc") /\ UNCHANGED loc
  <2>1. initialized => ~Known(p)
    BY <1>6 DEF Known
  <2>2. LocFit("rawrealloc", loc[t])
    BY <1>1 DEF LocFit, InAlloc, Freeing
  <2>3. "rawrealloc" \in Labels /\ "rawrealloc" \notin Taking /\ DepthAt("rawrealloc") = DepthAt(pc[t])
    BY <1>1 DEF Labels, Taking, DepthAt, Outside
  <2>4. Moves(t, "rawrealloc", loc[t])
    BY <1>4, <1>6, <2>3, Relabels
  <2>5. Base'
    BY <1>1, <1>4, <2>2, <2>3, <2>4, BaseMoves
  <2> QED
    BY <1>2, <2>1, <2>4, <2>5
<1> QED
  BY <1>5, <1>6 DEF ReallocFind

\* realloc of the system (memsentry.cpp:341-344, 349-352).
LEMMA ReallocRawBase ==
  ASSUME Base, NEW t \in Threads, ReallocRaw(t)
  PROVE  /\ Base' /\ loc[t].ptr \in Addr /\ Moves(t, "app", NoLoc) /\ UNCHANGED misuses
         /\ \/ heap[loc[t].ptr] = 0
            \/ Give(t, loc[t].ptr) /\ UNCHANGED <<aborted, memory, damaged>>
            \/ \E r \in Room(1) :
                 /\ UNCHANGED aborted
                 /\ heap' = [heap EXCEPT ![loc[t].ptr] = 0, ![r] = 1]
                 /\ header' = [header EXCEPT ![r] = NoHeader]
                 /\ damaged' = damaged \ {r}
                 /\ Give(t, r)
<1> DEFINE p == loc[t].ptr
<1>1. pc[t] = "rawrealloc" /\ LocFit("rawrealloc", loc[t]) /\ loc[t] \in LocType /\ depth[t] = 0
  BY AtThread DEF ReallocRaw, DepthAt, Outside
<1>2. p \in Addr
  BY <1>1 DEF LocFit, LocType
<1>3. Moves(t, "app", NoLoc)
  <2>1. depth' = [depth EXCEPT ![t] = 0]
    BY <1>1, AtThread DEF ReallocRaw
  <2> QED
    BY <2>1 DEF ReallocRaw, Moves, Goto, DepthAt, Outside
<1>4. \/ heap[p] = 0 /\ UNCHANGED <<memory, app, damaged>>
      \/ Give(t, p) /\ UNCHANGED <<aborted, memory, damaged>>
      \/ \E r \in Room(1) :
           /\ UNCHANGED aborted
           /\ heap' = [heap EXCEPT ![p] = 0, ![r] = 1]
           /\ header' = [header EXCEPT ![r] = NoHeader]
           /\ damaged' = damaged \ {r}
           /\ Give(t, r)
  BY DEF ReallocRaw
<1>5. /\ heap' \in [Addr -> 0 .. 2] /\ header' \in [Addr -> HeaderType]
      /\ owned' \subseteq Addr /\ stale' \subseteq Addr /\ misuses' = misuses /\ damaged' \subseteq Addr
  <2>1. CASE heap[p] = 0 /\ UNCHANGED <<memory, app, damaged>>
    BY <2>1, BaseData DEF memory, app
  <2>2. CASE Give(t, p) /\ UNCHANGED <<aborted, memory, damaged>>
    BY <1>2, <2>2, BaseData DEF memory, Give
  <2>3. ASSUME NEW r \in Room(1), heap' = [heap EXCEPT ![p] = 0, ![r] = 1],
               header' = [header EXCEPT ![r] = NoHeader], damaged' = damaged \ {r}, Give(t, r)
        PROVE  /\ heap' \in [Addr -> 0 .. 2] /\ header' \in [Addr -> HeaderType]
               /\ owned' \subseteq Addr /\ stale' \subseteq Addr /\ misuses' = misuses /\ damaged' \subseteq Addr
    BY <1>2, <2>3, BaseData DEF Room, Give, NoHeader, HeaderType
  <2> QED
    BY <1>4, <2>1, <2>2, <2>3
<1>6. Data' /\ counter' = counter
  BY <1>5, BaseData, SameData DEF ReallocRaw, tracker
<1>7. Base'
  BY <1>3, <1>6, BackToApp
<1> QED
  BY <1>2, <1>3, <1>4, <1>5, <1>7

\* reallocate looks at the canary of the old block (memsentry.cpp:355-360).
LEMMA ReallocVerifyBase ==
  ASSUME Base, NEW t \in Threads, ReallocVerify(t)
  PROVE  /\ Base' /\ pc[t] = "rverify" /\ loc[t].rec.raw \in Addr
         /\ \/ Moves(t, "alloc", [loc[t] EXCEPT !.alarm = "NONE"])
            \/ /\ config.canary
               /\ Moves(t, "alloc", [loc[t] EXCEPT !.alarm = VerifyCanary(header[loc[t].rec.raw], config.footer)])
<1>1. pc[t] = "rverify" /\ LocFit("rverify", loc[t]) /\ loc[t] \in LocType /\ depth[t] = 0
      /\ loc \in [Threads -> LocType]
  BY AtThread DEF ReallocVerify, Base, Types, DepthAt, Outside
<1>2. Data' /\ counter' = counter /\ depth' = depth
  BY BaseData, SameData DEF ReallocVerify, tracker, memory, app, history
<1>3. ASSUME NEW a \in Verdicts, loc' = [loc EXCEPT ![t].alarm = a]
      PROVE  Base' /\ Moves(t, "alloc", [loc[t] EXCEPT !.alarm = a])
  <2> DEFINE x == [loc[t] EXCEPT !.alarm = a]
  <2>1. x \in LocType /\ LocFit("alloc", x)
    BY <1>1 DEF LocType, LocFit, InAlloc, Freeing
  <2>2. Moves(t, "alloc", x)
    <3>1. loc' = [loc EXCEPT ![t] = x]
      BY <1>1, <1>3
    <3> HIDE DEF x
    <3> QED
      BY <1>1, <1>2, <3>1, AtThread DEF ReallocVerify, Moves, Goto, DepthAt, Outside
  <2>3. "alloc" \in Labels /\ pc[t] \in Taking
    BY <1>1 DEF Labels, Taking
  <2>4. Base'
    <3> HIDE DEF x
    <3> QED
      BY <1>2, <2>1, <2>2, <2>3, BaseMoves
  <2> QED
    BY <2>2, <2>4
<1>4. loc[t].rec.raw \in Addr
  BY <1>1, ManagerAssumption DEF LocFit
<1>5. CASE config.canary
  <2>1. loc' = [loc EXCEPT ![t].alarm = VerifyCanary(header[loc[t].rec.raw], config.footer)]
    BY <1>5 DEF ReallocVerify
  <2> QED
    BY <1>1, <1>3, <1>4, <1>5, <2>1, VerdictType
<1>6. CASE ~config.canary
  <2>1. loc' = [loc EXCEPT ![t].alarm = "NONE"] /\ "NONE" \in Verdicts
    BY <1>6 DEF ReallocVerify, Verdicts
  <2> QED
    BY <1>1, <1>3, <1>4, <2>1
<1> QED
  BY <1>5, <1>6

\* The copy is made and the old block is freed, unless there is no new one
\* (memsentry.cpp:362-371).
LEMMA ReallocCopyBase ==
  ASSUME Base, NEW t \in Threads, ReallocCopy(t)
  PROVE  /\ Base' /\ pc[t] = "copy" /\ loc[t].ptr \in Addr
         /\ \/ loc[t].new = Null /\ Give(t, loc[t].ptr) /\ Moves(t, "app", NoLoc)
            \/ loc[t].new # Null /\ UNCHANGED app /\ Moves(t, "erase", loc[t])
<1>1. pc[t] = "copy" /\ LocFit("copy", loc[t]) /\ loc[t] \in LocType /\ depth[t] = 0
      /\ loc \in [Threads -> LocType]
  BY AtThread DEF ReallocCopy, Base, Types, DepthAt, Outside
<1>2. loc[t].ptr \in Addr
  BY <1>1 DEF LocFit, LocType
<1>3. CASE loc[t].new = Null
  <2>1. Give(t, loc[t].ptr) /\ Moves(t, "app", NoLoc)
    <3>1. depth' = [depth EXCEPT ![t] = 0]
      BY <1>1, <1>3, AtThread DEF ReallocCopy
    <3> QED
      BY <1>3, <3>1 DEF ReallocCopy, Moves, Goto, DepthAt, Outside
  <2>2. owned' \subseteq Addr /\ stale' \subseteq Addr /\ misuses' \in Nat
    BY <1>2, <2>1, BaseData DEF Give
  <2>3. Data' /\ counter' = counter
    BY <2>2, BaseData, SameData DEF ReallocCopy, tracker, memory, history
  <2> QED
    BY <1>1, <1>2, <1>3, <2>1, <2>3, BackToApp
<1>4. CASE loc[t].new # Null
  <2>1. UNCHANGED app /\ Goto(t, "erase") /\ loc' = loc /\ depth' = [depth EXCEPT ![t] = 1]
    BY <1>1, <1>4 DEF ReallocCopy, EnterGuard
  <2>2. Moves(t, "erase", loc[t])
    BY <2>1, AtThread DEF Moves, Goto, DepthAt, Outside
  <2>3. LocFit("erase", loc[t]) /\ "erase" \in Labels /\ "erase" \notin Taking
    BY <1>1, <1>4 DEF LocFit, InAlloc, Freeing, Labels, Taking
  <2>4. Base'
    BY <2>1, <2>2, <2>3, RelabelBase DEF ReallocCopy, tracker, history
  <2> QED
    BY <1>1, <1>2, <1>4, <2>1, <2>2, <2>4
<1> QED
  BY <1>3, <1>4

\* The application overruns or underruns a block it owns.
LEMMA DamageBase ==
  ASSUME Base, NEW t \in Threads, Damage(t)
  PROVE  Base' /\ Moves(t, pc[t], loc[t])
<1>1. PICK p \in owned :
        /\ p - 1 \in Addr /\ heap[p - 1] = 2
        /\ \/ header' = [header EXCEPT ![p - 1].words = 0]
           \/ header' = [header EXCEPT ![p - 1].magic = "none"]
        /\ damaged' = damaged \cup {p}
  BY DEF Damage
<1>2. header' \in [Addr -> HeaderType] /\ damaged' \subseteq Addr
  BY <1>1, BaseData DEF HeaderType
<1>3. Data' /\ counter' = counter
  BY <1>2, BaseData, SameData DEF Damage, tracker, app
<1>4. pc[t] \in Labels /\ loc[t] \in LocType /\ LocFit(pc[t], loc[t]) /\ Moves(t, pc[t], loc[t])
  BY StaysPut DEF Damage
<1> QED
  BY <1>3, <1>4, BaseMoves

\* A report hands the application an untracked block (memsentry.cpp:392-436).
LEMMA TakeReportBase ==
  ASSUME Base, NEW t \in Threads, TakeReport(t)
  PROVE  Base' /\ Moves(t, pc[t], loc[t])
<1>1. PICK r \in Room(1) : RawAlloc(r) /\ Give(t, r)
  BY DEF TakeReport
<1>2. r \in Addr
  BY DEF Room
<1>3. /\ heap' \in [Addr -> 0 .. 2] /\ header' \in [Addr -> HeaderType] /\ damaged' \subseteq Addr
      /\ owned' \subseteq Addr /\ stale' \subseteq Addr /\ misuses' \in Nat
  BY <1>1, <1>2, BaseData DEF RawAlloc, Give, NoHeader, HeaderType
<1>4. Data' /\ counter' = counter
  BY <1>3, BaseData, SameData DEF TakeReport, tracker
<1>5. pc[t] \in Labels /\ loc[t] \in LocType /\ LocFit(pc[t], loc[t]) /\ Moves(t, pc[t], loc[t])
  BY StaysPut DEF TakeReport
<1> QED
  BY <1>4, <1>5, BaseMoves

\* shutdown and init set the flag and the configuration
\* (memsentry.cpp:130-199).
LEMMA LifecycleBase ==
  ASSUME Base, NEW t \in Threads, Shutdown(t) \/ Initialize(t)
  PROVE  Base' /\ Moves(t, pc[t], loc[t])
<1>1. Data' /\ counter' = counter
  <2>1. config' \in Configs /\ initialized' \in BOOLEAN
    BY BaseData DEF Shutdown, Initialize
  <2> QED
    BY <2>1, BaseData, SameData DEF Shutdown, Initialize, tracker, memory, app, history
<1>2. pc[t] \in Labels /\ loc[t] \in LocType /\ LocFit(pc[t], loc[t]) /\ Moves(t, pc[t], loc[t])
  BY StaysPut DEF Shutdown, Initialize
<1> QED
  BY <1>1, <1>2, BaseMoves

\* A step that changes nothing.
LEMMA IdleBase ==
  ASSUME Base, UNCHANGED vars
  PROVE  Base'
<1>1. /\ UNCHANGED <<shards, counter, config, initialized, heap, header, pc, depth, loc, owned, stale,
                    misuses, damaged>>
  BY DEF vars, tracker, memory, app, history
<1>2. Data'
  BY <1>1, BaseData, SameData
<1> QED
  BY <1>1, <1>2 DEF Base, Types, Threaded, CounterInv, At

\* A thread of the program that starts is the application.
LEMMA InitBase == Init => Base
<1> SUFFICES ASSUME Init PROVE Base
  OBVIOUS
<1>1. EmptyShard \in ShardType /\ Tracked(EmptyShard) = {}
  BY DEF EmptyShard, ShardType, Slot, Tracked
<1>2. Data
  BY <1>1 DEF Init, Data, Homed, NoHeader, HeaderType
<1>3. NoLoc \in LocType /\ LocFit("app", NoLoc) /\ "app" \in Labels /\ DepthAt("app") = 0
  BY DEF NoLoc, LocType, LocFit, Verdicts, InAlloc, Freeing, Labels, DepthAt, Outside
<1>4. Types /\ Threaded
  BY <1>2, <1>3 DEF Init, Types, Threaded
<1>5. CounterInv
  <2>1. At(Taking) = {}
    BY DEF Init, At, Taking
  <2> QED
    BY <2>1, FS_EmptySet, ManagerAssumption DEF Init, CounterInv
<1> QED
  BY <1>4, <1>5 DEF Base


\* Every step keeps the base.
LEMMA StepBase == Base /\ [Next]_vars => Base'
<1> SUFFICES ASSUME Base, [Next]_vars PROVE Base'
  OBVIOUS
<1>1. CASE UNCHANGED vars
  BY <1>1, IdleBase
<1>2. ASSUME NEW t \in Threads, Alloc(t) PROVE Base'
  BY <1>2, CallAllocBase, AllocFallbackBase, AllocUnsampledBase, AllocBlockBase, AllocCountBase,
     AllocInsertBase, AllocWatchdogBase, CallbackPasses, PassesBase DEF Alloc
<1>3. ASSUME NEW t \in Threads, Dealloc(t) PROVE Base'
  BY <1>3, CallFreeBase, FreeEraseBase, FreeVerifyBase, FreeUncountBase, FreeReleaseBase,
     FreeCandidateBase, FreeAdoptBase, FreeUntrackedBase, FreeReturnBase DEF Dealloc
<1>4. ASSUME NEW t \in Threads, Realloc(t) PROVE Base'
  BY <1>4, CallReallocBase, ReallocFindBase, ReallocRawBase, NothingPasses, PassesBase, ReallocVerifyBase,
     ReallocCopyBase DEF Realloc
<1>5. ASSUME NEW t \in Threads, Damage(t) \/ TakeReport(t) \/ Shutdown(t) \/ Initialize(t) PROVE Base'
  BY <1>5, DamageBase, TakeReportBase, LifecycleBase
<1> QED
  BY <1>1, <1>2, <1>3, <1>4, <1>5 DEF Next, Rest

\* The types of all but the statistics, and where every call is, throughout.
LEMMA BaseInvariance == Spec => []Base
  BY InitBase, StepBase, PTL DEF Spec

-----------------------------------------------------------------------------
(* The active count.                                                       *)

\* The blocks that are counted and not recorded.
Between == {"insert", "verify", "uncount"}

Weight(l) == IF l \in Between THEN 1 ELSE 0

Accounted == Cardinality(AllTracked) + Cardinality(At({"insert"})) + Cardinality(At({"verify", "uncount"}))

ActiveLow == active \in Nat /\ active >= Accounted

\* A block is recorded under a pointer that is not.
Fresh == \A t \in Threads : pc[t] = "insert" => ~Known(loc[t].new)

\* The pointers all shards track are those the tracker knows.
LEMMA TrackedIsKnown ==
  ASSUME Base
  PROVE  /\ AllTracked = {p \in Ptr : Known(p)}
         /\ IsFiniteSet(AllTracked) /\ Cardinality(AllTracked) \in Nat
<1>1. \A i \in Shards : Tracked(shards[i]) \subseteq Ptr /\ \A p \in Tracked(shards[i]) : ShardOf[p] = i
  BY BaseData DEF Homed, Tracked
<1>2. \A p \in Ptr : ShardOf[p] \in Shards
  BY ManagerAssumption
<1>3. AllTracked = {p \in Ptr : Known(p)}
  BY <1>1, <1>2 DEF AllTracked, Known
<1>4. IsFiniteSet(AllTracked)
  BY <1>3, FS_Subset
<1> QED
  BY <1>3, <1>4, FS_CardinalityType

\* How the account changes with the thread that moves.
LEMMA AccountMoves ==
  ASSUME Base, Base', NEW t \in Threads, NEW l \in Labels, pc' = [pc EXCEPT ![t] = l]
  PROVE  /\ Accounted \in Nat /\ Accounted' \in Nat /\ Accounted >= Weight(pc[t])
         /\ Accounted' = Accounted + Cardinality(AllTracked') - Cardinality(AllTracked)
                         + Weight(l) - Weight(pc[t])
<1> DEFINE k == Cardinality(AllTracked)
           k2 == Cardinality(AllTracked')
           n == Cardinality(At({"insert"}))
           n2 == Cardinality({u \in Threads : pc'[u] \in {"insert"}})
           m == Cardinality(At({"verify", "uncount"}))
           m2 == Cardinality({u \in Threads : pc'[u] \in {"verify", "uncount"}})
<1>1. Types
  BY DEF Base
<1>2. n \in Nat /\ (pc[t] = "insert" => n >= 1)
      /\ n2 = IF l = "insert" /\ pc[t] # "insert" THEN n + 1
              ELSE IF l # "insert" /\ pc[t] = "insert" THEN n - 1 ELSE n
  <2>1. \A a : a \in {"insert"} <=> a = "insert"
    OBVIOUS
  <2> QED
    BY <1>1, <2>1, AtMoved
<1>3. m \in Nat /\ (pc[t] \in {"verify", "uncount"} => m >= 1)
      /\ m2 = IF l \in {"verify", "uncount"} /\ pc[t] \notin {"verify", "uncount"} THEN m + 1
              ELSE IF l \notin {"verify", "uncount"} /\ pc[t] \in {"verify", "uncount"} THEN m - 1 ELSE m
  BY <1>1, AtMoved
<1>4. k \in Nat /\ k2 \in Nat
  <2>1. k \in Nat
    BY TrackedIsKnown
  <2>2. k2 \in Nat
    <3>1. AllTracked' \subseteq Ptr
      BY DEF AllTracked, Tracked
    <3> QED
      BY <3>1, FS_Subset, FS_CardinalityType
  <2> QED
    BY <2>1, <2>2
<1>5. Accounted = k + n + m
  BY DEF Accounted
<1>6. Accounted' = k2 + n2 + m2
  BY DEF Accounted, At
<1>7. /\ Weight(pc[t]) = IF pc[t] = "insert" \/ pc[t] \in {"verify", "uncount"} THEN 1 ELSE 0
      /\ Weight(l) = IF l = "insert" \/ l \in {"verify", "uncount"} THEN 1 ELSE 0
      /\ pc[t] = "insert" => pc[t] \notin {"verify", "uncount"}
      /\ l = "insert" => l \notin {"verify", "uncount"}
  BY DEF Weight, Between
<1> HIDE DEF k, k2, n, n2, m, m2
<1>8. n2 + m2 = n + m + Weight(l) - Weight(pc[t]) /\ n + m >= Weight(pc[t]) /\ n2 + m2 \in Nat
  BY <1>2, <1>3, <1>7
<1>9. Weight(l) \in {0, 1} /\ Weight(pc[t]) \in {0, 1} /\ n2 \in Int /\ m2 \in Int
  BY <1>2, <1>3, <1>7
<1> QED
  BY <1>2, <1>3, <1>4, <1>5, <1>6, <1>8, <1>9 DEF k, k2

\* A step that neither counts nor records nor takes out.
LEMMA ActiveQuiet ==
  ASSUME Base, Base', ActiveLow, NEW t \in Threads, NEW l \in Labels, pc' = [pc EXCEPT ![t] = l],
         Weight(l) = Weight(pc[t]), active' = active, AllTracked' = AllTracked
  PROVE  ActiveLow' /\ (active = Accounted => active' = Accounted')
<1>1. /\ Accounted \in Nat /\ Accounted' \in Nat
      /\ Accounted' = Accounted + Cardinality(AllTracked') - Cardinality(AllTracked) + Weight(l) - Weight(pc[t])
  BY AccountMoves
<1>2. Cardinality(AllTracked) \in Nat /\ Weight(l) \in Nat
  BY TrackedIsKnown DEF Weight
<1>3. Accounted' = Accounted
  BY <1>1, <1>2
<1> QED
  BY <1>3 DEF ActiveLow

\* A step of a thread outside the account that leaves the tracker alone.
LEMMA ActiveElsewhere ==
  ASSUME Base, Base', ActiveLow, NEW t \in Threads, pc[t] \notin Between,
         \E l \in Labels \ Between : pc' = [pc EXCEPT ![t] = l],
         shards' = shards, active' = active
  PROVE  ActiveLow' /\ (active = Accounted => active' = Accounted')
<1>1. PICK l \in Labels \ Between : pc' = [pc EXCEPT ![t] = l]
  OBVIOUS
<1>2. AllTracked' = AllTracked /\ Weight(l) = Weight(pc[t])
  BY DEF AllTracked, Weight
<1> QED
  BY <1>1, <1>2, ActiveQuiet

\* The count goes up before the record (memsentry.cpp:265).
LEMMA CountActive ==
  ASSUME Base, Base', ActiveLow, NEW t \in Threads, AllocCount(t)
  PROVE  ActiveLow' /\ (active = Accounted => active' = Accounted')
<1>1. /\ pc' = [pc EXCEPT ![t] = "insert"] /\ "insert" \in Labels
      /\ Weight(pc[t]) = 0 /\ Weight("insert") = 1
      /\ active' = active + 1 /\ AllTracked' = AllTracked
  BY DEF AllocCount, Goto, Labels, Weight, Between, AllTracked
<1>2. /\ Accounted \in Nat
      /\ Accounted' = Accounted + Cardinality(AllTracked') - Cardinality(AllTracked) + Weight("insert") - Weight(pc[t])
  BY <1>1, AccountMoves
<1>3. Cardinality(AllTracked) \in Nat
  BY TrackedIsKnown
<1>4. Accounted' = Accounted + 1
  BY <1>1, <1>2, <1>3
<1> QED
  BY <1>1, <1>2, <1>4 DEF ActiveLow

\* The record takes the place of the thread that puts it in; under a pointer
\* that has one already it replaces it (memsentry.cpp:266).
LEMMA InsertActive ==
  ASSUME Base, Base', ActiveLow, NEW t \in Threads, AllocInsert(t)
  PROVE  ActiveLow' /\ (Fresh /\ active = Accounted => active' = Accounted')
<1> DEFINE p == loc[t].new
<1>1. /\ pc[t] = "insert" /\ pc' = [pc EXCEPT ![t] = "watchdog"] /\ "watchdog" \in Labels
      /\ Weight(pc[t]) = 1 /\ Weight("watchdog") = 0 /\ active' = active
  BY DEF AllocInsert, Goto, Labels, Weight, Between
<1>2. p \in Addr /\ \A q \in Ptr : Known(q)' <=> Known(q) \/ q = p
  BY AllocInsertBase
<1>3. AllTracked = {q \in Ptr : Known(q)} /\ IsFiniteSet(AllTracked) /\ Cardinality(AllTracked) \in Nat
  BY TrackedIsKnown
<1>4. AllTracked' = AllTracked \cup {p}
  <2>1. AllTracked' = {q \in Ptr : Known(q)'}
    <3>1. /\ \A i \in Shards : Tracked(shards'[i]) \subseteq Ptr /\ \A q \in Tracked(shards'[i]) : ShardOf[q] = i
          /\ \A q \in Ptr : ShardOf[q] \in Shards
      BY ManagerAssumption DEF Base, Types, Data, Homed, Tracked
    <3> QED
      BY <3>1 DEF AllTracked, Known
  <2> QED
    BY <1>2, <1>3, <2>1, ManagerAssumption
<1>5. Cardinality(AllTracked') = Cardinality(AllTracked) + IF Known(p) THEN 0 ELSE 1
  <2>1. p \in AllTracked <=> Known(p)
    BY <1>2, <1>3, ManagerAssumption
  <2> HIDE DEF p
  <2>2. Cardinality(AllTracked \cup {p}) =
          IF p \in AllTracked THEN Cardinality(AllTracked) ELSE Cardinality(AllTracked) + 1
    BY <1>3, FS_AddElement
  <2> QED
    BY <1>3, <1>4, <2>1, <2>2
<1>6. /\ Accounted \in Nat /\ Accounted' \in Nat
      /\ Accounted' = Accounted + Cardinality(AllTracked') - Cardinality(AllTracked) + Weight("watchdog") - Weight(pc[t])
  BY <1>1, AccountMoves
<1>7. Accounted' = IF Known(p) THEN Accounted - 1 ELSE Accounted
  BY <1>1, <1>3, <1>5, <1>6
<1>8. Fresh => ~Known(p)
  BY <1>1 DEF Fresh
<1> QED
  BY <1>1, <1>6, <1>7, <1>8 DEF ActiveLow

\* A record that is taken out leaves the thread that took it to be accounted
\* for (memsentry.cpp:298-309).
LEMMA EraseActive ==
  ASSUME Base, Base', ActiveLow, NEW t \in Threads, FreeErase(t)
  PROVE  ActiveLow' /\ (active = Accounted => active' = Accounted')
<1> DEFINE p == loc[t].ptr
<1>1. /\ pc[t] = "erase" /\ p \in Addr
      /\ \A q \in Ptr : Known(q)' <=> Known(q) /\ q # p
      /\ \/ Known(p) /\ pc' = [pc EXCEPT ![t] = "verify"]
         \/ ~Known(p) /\ \E l \in {"done", "candidate"} : pc' = [pc EXCEPT ![t] = l]
  BY FreeEraseBase DEF Moves
<1>2. active' = active /\ Weight(pc[t]) = 0 /\ Weight("verify") = 1
      /\ \A l \in {"done", "candidate"} : l \in Labels /\ Weight(l) = 0
  BY <1>1 DEF FreeErase, Weight, Between, Labels
<1>3. AllTracked = {q \in Ptr : Known(q)} /\ IsFiniteSet(AllTracked) /\ Cardinality(AllTracked) \in Nat
  BY TrackedIsKnown
<1>4. AllTracked' = AllTracked \ {p}
  <2>1. AllTracked' = {q \in Ptr : Known(q)'}
    <3>1. /\ \A i \in Shards : Tracked(shards'[i]) \subseteq Ptr /\ \A q \in Tracked(shards'[i]) : ShardOf[q] = i
          /\ \A q \in Ptr : ShardOf[q] \in Shards
      BY ManagerAssumption DEF Base, Types, Data, Homed, Tracked
    <3> QED
      BY <3>1 DEF AllTracked, Known
  <2> QED
    BY <1>1, <1>3, <2>1
<1>5. p \in AllTracked <=> Known(p)
  BY <1>1, <1>3, ManagerAssumption
<1>6. CASE Known(p) /\ pc' = [pc EXCEPT ![t] = "verify"]
  <2>1. Cardinality(AllTracked') = Cardinality(AllTracked) - 1
    <3> HIDE DEF p
    <3>1. Cardinality(AllTracked \ {p}) = IF p \in AllTracked THEN Cardinality(AllTracked) - 1 ELSE Cardinality(AllTracked)
      BY <1>3, FS_RemoveElement
    <3> QED
      BY <1>3, <1>4, <1>5, <1>6, <3>1
  <2>2. "verify" \in Labels
    BY DEF Labels
  <2>3. /\ Accounted \in Nat /\ Accounted' \in Nat
        /\ Accounted' = Accounted + Cardinality(AllTracked') - Cardinality(AllTracked) + Weight("verify") - Weight(pc[t])
    BY <1>6, <2>2, AccountMoves
  <2>4. Accounted' = Accounted
    BY <1>2, <1>3, <2>1, <2>3
  <2> QED
    BY <1>2, <2>4 DEF ActiveLow
<1>7. CASE ~Known(p) /\ \E l \in {"done", "candidate"} : pc' = [pc EXCEPT ![t] = l]
  <2>1. AllTracked' = AllTracked
    BY <1>4, <1>5, <1>7
  <2>2. PICK l \in {"done", "candidate"} : pc' = [pc EXCEPT ![t] = l]
    BY <1>7
  <2> QED
    BY <1>2, <2>1, <2>2, ActiveQuiet
<1> QED
  BY <1>1, <1>6, <1>7

\* The count goes down (memsentry.cpp:308-309).
LEMMA UncountActive ==
  ASSUME Base, Base', ActiveLow, NEW t \in Threads, FreeUncount(t)
  PROVE  ActiveLow' /\ (active = Accounted => active' = Accounted')
<1> DEFINE l == IF loc[t].verdict = "NONE" THEN "release" ELSE "done"
<1>1. /\ pc' = [pc EXCEPT ![t] = l] /\ l \in Labels /\ Weight(pc[t]) = 1 /\ Weight(l) = 0
      /\ active' = active - 1 /\ AllTracked' = AllTracked
  BY DEF FreeUncount, Goto, Labels, Weight, Between, AllTracked
<1> HIDE DEF l
<1>2. /\ Accounted \in Nat /\ Accounted >= Weight(pc[t])
      /\ Accounted' = Accounted + Cardinality(AllTracked') - Cardinality(AllTracked) + Weight(l) - Weight(pc[t])
  BY <1>1, AccountMoves
<1>3. Cardinality(AllTracked) \in Nat
  BY TrackedIsKnown
<1>4. Accounted' = Accounted - 1 /\ Accounted >= 1
  BY <1>1, <1>2, <1>3
<1> QED
  BY <1>1, <1>2, <1>4 DEF ActiveLow

\* Every step keeps the count at least as high as the account, and equal to it
\* when records go to fresh pointers.
LEMMA StepActive ==
  ASSUME Base, Base', ActiveLow, [Next]_vars
  PROVE  ActiveLow' /\ (Fresh /\ active = Accounted => active' = Accounted')
<1>1. CASE UNCHANGED vars
  BY <1>1 DEF vars, tracker, ActiveLow, Accounted, AllTracked, At
<1>2. ASSUME NEW t \in Threads,
             \/ CallAlloc(t) \/ AllocFallback(t) \/ AllocUnsampled(t) \/ AllocBlock(t)
             \/ AllocWatchdog(t) \/ CallbackReturns(t)
             \/ CallFree(t) \/ FreeRelease(t) \/ FreeCandidate(t) \/ FreeAdopt(t) \/ FreeUntracked(t)
             \/ FreeReturn(t) \/ CallRealloc(t) \/ ReallocFind(t) \/ ReallocRaw(t) \/ ReallocVerify(t)
             \/ ReallocCopy(t)
      PROVE  ActiveLow' /\ (active = Accounted => active' = Accounted')
  <2>1. shards' = shards /\ active' = active /\ pc[t] \notin Between
    BY <1>2 DEF CallAlloc, AllocFallback, AllocUnsampled, AllocBlock, AllocWatchdog, CallbackReturns, CallFree,
         FreeRelease, FreeCandidate, FreeAdopt, FreeUntracked, FreeReturn, CallRealloc, ReallocFind, ReallocRaw,
         ReallocVerify, ReallocCopy, tracker, Call, Between
  <2>2. \E l \in Labels \ Between : pc' = [pc EXCEPT ![t] = l]
    BY <1>2 DEF CallAlloc, AllocFallback, AllocUnsampled, AllocBlock, AllocWatchdog, CallbackReturns, CallFree,
         FreeRelease, FreeCandidate, FreeAdopt, FreeUntracked, FreeReturn, CallRealloc, ReallocFind, ReallocRaw,
         ReallocVerify, ReallocCopy, AllocReturn, Goto, Labels, Between
  <2> QED
    BY <2>1, <2>2, ActiveElsewhere
<1>3. ASSUME NEW t \in Threads,
             \/ CallbackFrees(t) \/ ReallocNothing(t) \/ Damage(t) \/ TakeReport(t) \/ Shutdown(t)
             \/ Initialize(t)
      PROVE  ActiveLow' /\ (active = Accounted => active' = Accounted')
  <2>1. shards' = shards /\ active' = active /\ pc' = pc
    BY <1>3 DEF CallbackFrees, ReallocNothing, Damage, TakeReport, Shutdown, Initialize, tracker
  <2> QED
    BY <2>1 DEF ActiveLow, Accounted, AllTracked, At
<1>4. ASSUME NEW t \in Threads, FreeVerify(t)
      PROVE  ActiveLow' /\ (active = Accounted => active' = Accounted')
  <2>1. /\ pc' = [pc EXCEPT ![t] = "uncount"] /\ "uncount" \in Labels /\ Weight("uncount") = Weight(pc[t])
        /\ AllTracked' = AllTracked /\ active' = active
    BY <1>4 DEF FreeVerify, Goto, Labels, Weight, Between, AllTracked, tracker
  <2> QED
    BY <2>1, ActiveQuiet
<1> QED
  BY <1>1, <1>2, <1>3, <1>4, CountActive, InsertActive, EraseActive, UncountActive
     DEF Next, Alloc, Dealloc, Realloc, Rest

\* Nothing is counted in the beginning.
LEMMA InitActive == Init => ActiveLow /\ active = Accounted
<1> SUFFICES ASSUME Init PROVE ActiveLow /\ active = Accounted
  OBVIOUS
<1>1. AllTracked = {} /\ At({"insert"}) = {} /\ At({"verify", "uncount"}) = {}
  BY DEF Init, AllTracked, EmptyShard, Tracked, At
<1>2. Accounted = 0
  BY <1>1, FS_EmptySet DEF Accounted
<1> QED
  BY <1>2 DEF Init, ActiveLow

\* The counter of active blocks never falls behind.
LEMMA ActiveInvariance == Spec => []ActiveLow
  BY BaseInvariance, InitActive, StepActive, PTL DEF Spec

\* The fields, the locals of every call and the guard are as they should be;
\* above all the active count never wraps below zero, whatever the
\* application frees (memsentry.cpp:204, 265-266, 296, 308-309).
THEOREM TypeCorrect == Spec => []TypeOK
<1>1. Base /\ ActiveLow => TypeOK
  <2> SUFFICES ASSUME Base, ActiveLow PROVE TypeOK
    OBVIOUS
  <2>1. counter \in 1 .. MaxAllocs + 1
    <3> HIDE DEF Taking
    <3>1. Cardinality(At(Taking)) \in Nat
      BY CardAt
    <3> QED
      BY <3>1, ManagerAssumption DEF Base, Types, CounterInv
  <2>2. \A t \in Threads : depth[t] = 0 <=> pc[t] \in {"app", "alloc", "find", "rawrealloc", "rverify", "copy"}
    BY DEF Base, Threaded, DepthAt, Outside
  <2> QED
    BY <2>1, <2>2 DEF TypeOK, Base, Types, Data, ActiveLow, HeaderType
<1> QED
  BY <1>1, BaseInvariance, ActiveInvariance, PTL

-----------------------------------------------------------------------------
(* The quarantine remembers the last erasures.                             *)

\* The slot written k erasures ago when the head is h.
RingAt(h, k) == IF h >= k THEN h - k ELSE h - k + QuarantineSize

Mirrors(seq, sh) ==
  /\ seq \in Seq(Ptr \cup {Null})
  /\ Len(seq) <= QuarantineSize
  /\ \A k \in 1 .. Len(seq) : seq[Len(seq) - k + 1] = sh.quarantine[RingAt(sh.head, k)]

\* What is remembered of a shard is what its ring holds, read backwards from
\* the head.
RecentInv ==
  /\ recent \in [Shards -> Seq(Ptr \cup {Null})]
  /\ \A i \in Shards : Mirrors(recent[i], shards[i])

\* A slot of the ring (sharded_tracker.hpp:52-53).
LEMMA RingSlots ==
  ASSUME NEW h \in Slot, NEW k \in 1 .. QuarantineSize
  PROVE  /\ RingAt(h, k) \in Slot
         /\ RingAt(NextHead(h), 1) = h
         /\ k > 1 => /\ RingAt(NextHead(h), k) = RingAt(h, k - 1)
                     /\ RingAt(NextHead(h), k) # h
  BY DEF RingAt, Slot, NextHead

\* Read backwards, new is p and then what seq is.
Shifted(new, seq, p) ==
  \A k \in 1 .. Len(new) :
    /\ k = 1 => new[Len(new) - k + 1] = p
    /\ k > 1 => k - 1 \in 1 .. Len(seq) /\ new[Len(new) - k + 1] = seq[Len(seq) - (k - 1) + 1]

\* One erasure more is remembered, and the oldest is dropped when there is no
\* room for it.
LEMMA Remembered ==
  ASSUME NEW S, NEW seq \in Seq(S), Len(seq) <= QuarantineSize, NEW p \in S,
         NEW new, new = Remember(seq, p)
  PROVE  new \in Seq(S) /\ Len(new) <= QuarantineSize /\ Shifted(new, seq, p)
<1> DEFINE longer == Append(seq, p)
<1>1. /\ longer \in Seq(S) /\ Len(longer) = Len(seq) + 1 /\ Len(seq) \in Nat
      /\ longer[Len(seq) + 1] = p /\ \A j \in 1 .. Len(seq) : longer[j] = seq[j]
  OBVIOUS
<1> HIDE DEF longer
<1>2. Len(longer) > QuarantineSize =>
        /\ Tail(longer) \in Seq(S) /\ Len(Tail(longer)) = Len(longer) - 1
        /\ \A j \in 1 .. Len(longer) - 1 : Tail(longer)[j] = longer[j + 1]
  BY <1>1
<1>3. Remember(seq, p) = IF Len(longer) > QuarantineSize THEN Tail(longer) ELSE longer
  BY DEF Remember, longer
<1>4. CASE Len(longer) > QuarantineSize
  <2> DEFINE short == Tail(longer)
  <2>1. short \in Seq(S) /\ Len(short) = Len(seq) /\ \A j \in 1 .. Len(seq) : short[j] = longer[j + 1]
    BY <1>1, <1>2, <1>4
  <2> HIDE DEF short
  <2>2. ASSUME NEW k \in 1 .. Len(short)
        PROVE  /\ k = 1 => short[Len(short) - k + 1] = p
               /\ k > 1 => k - 1 \in 1 .. Len(seq) /\ short[Len(short) - k + 1] = seq[Len(seq) - (k - 1) + 1]
    <3>1. k \in Int /\ 1 <= k /\ k <= Len(seq) /\ Len(seq) \in Int /\ Len(short) = Len(seq)
      BY <1>1, <2>1
    <3>2. Len(short) - k + 1 \in 1 .. Len(seq) /\ Len(short) - k + 1 + 1 = Len(seq) + 2 - k
      BY <3>1
    <3>3. short[Len(short) - k + 1] = longer[Len(seq) + 2 - k]
      BY <2>1, <3>2
    <3>4. CASE k = 1
      <4>1. Len(seq) + 2 - k = Len(seq) + 1
        BY <3>1, <3>4
      <4> QED
        BY <1>1, <3>3, <3>4, <4>1
    <3>5. CASE k > 1
      <4>1. /\ Len(seq) + 2 - k = Len(seq) - (k - 1) + 1
            /\ Len(seq) - (k - 1) + 1 \in 1 .. Len(seq) /\ k - 1 \in 1 .. Len(seq)
        BY <3>1, <3>5
      <4> QED
        BY <1>1, <3>1, <3>3, <3>5, <4>1
    <3> QED
      BY <3>1, <3>4, <3>5
  <2>3. Len(short) <= QuarantineSize /\ Remember(seq, p) = short
    BY <1>3, <1>4, <2>1 DEF short
  <2> QED
    BY <2>1, <2>2, <2>3 DEF Shifted
<1>5. CASE ~(Len(longer) > QuarantineSize)
  <2>1. ASSUME NEW k \in 1 .. Len(longer)
        PROVE  /\ k = 1 => longer[Len(longer) - k + 1] = p
               /\ k > 1 => k - 1 \in 1 .. Len(seq) /\ longer[Len(longer) - k + 1] = seq[Len(seq) - (k - 1) + 1]
    <3>1. k \in Int /\ 1 <= k /\ k <= Len(seq) + 1 /\ Len(seq) \in Int /\ Len(longer) = Len(seq) + 1
      BY <1>1
    <3>2. CASE k = 1
      <4>1. Len(longer) - k + 1 = Len(seq) + 1
        BY <3>1, <3>2
      <4> QED
        BY <1>1, <3>2, <4>1
    <3>3. CASE k > 1
      <4>1. /\ Len(longer) - k + 1 = Len(seq) - (k - 1) + 1
            /\ Len(seq) - (k - 1) + 1 \in 1 .. Len(seq) /\ k - 1 \in 1 .. Len(seq)
        BY <3>1, <3>3
      <4> QED
        BY <1>1, <3>1, <3>3, <4>1
    <3> QED
      BY <3>1, <3>2, <3>3
  <2>2. Len(longer) <= QuarantineSize
    BY <1>1, <1>5
  <2> QED
    BY <1>1, <1>3, <1>5, <2>1, <2>2 DEF Shifted
<1> QED
  BY <1>4, <1>5

\* insert scrubs the pointer from both (sharded_tracker.hpp:34-37).
LEMMA InsertMirrors ==
  ASSUME NEW seq, NEW sh \in ShardType, Mirrors(seq, sh), NEW p \in Ptr, NEW r \in Rec
  PROVE  Mirrors([j \in DOMAIN seq |-> IF seq[j] = p THEN Null ELSE seq[j]], InsertInto(sh, p, r))
<1> DEFINE new == [j \in DOMAIN seq |-> IF seq[j] = p THEN Null ELSE seq[j]]
           q == [i \in Slot |-> IF sh.quarantine[i] = p THEN Null ELSE sh.quarantine[i]]
<1>1. InsertInto(sh, p, r).quarantine = q /\ InsertInto(sh, p, r).head = sh.head
  BY DEF InsertInto, ShardType
<1>2. seq \in Seq(Ptr \cup {Null}) /\ Len(seq) \in Nat /\ DOMAIN seq = 1 .. Len(seq)
  BY DEF Mirrors
<1>3. \A j \in 1 .. Len(seq) : seq[j] \in Ptr \cup {Null}
  BY <1>2
<1>4. new \in [1 .. Len(seq) -> Ptr \cup {Null}]
  BY <1>2, <1>3
<1>5. new \in Seq(Ptr \cup {Null}) /\ Len(new) = Len(seq)
  BY <1>2, <1>4
<1>6. ASSUME NEW k \in 1 .. Len(new)
      PROVE  new[Len(new) - k + 1] = q[RingAt(sh.head, k)]
  <2>1. Len(new) - k + 1 \in 1 .. Len(seq) /\ k \in 1 .. Len(seq) /\ k \in 1 .. QuarantineSize
    BY <1>2, <1>5, <1>6 DEF Mirrors
  <2>2. RingAt(sh.head, k) \in Slot
    BY <2>1, RingSlots DEF ShardType
  <2>3. seq[Len(seq) - k + 1] = sh.quarantine[RingAt(sh.head, k)]
    BY <2>1 DEF Mirrors
  <2>4. new[Len(new) - k + 1] = IF seq[Len(new) - k + 1] = p THEN Null ELSE seq[Len(new) - k + 1]
    BY <1>2, <2>1
  <2>5. q[RingAt(sh.head, k)] = IF sh.quarantine[RingAt(sh.head, k)] = p THEN Null ELSE sh.quarantine[RingAt(sh.head, k)]
    BY <2>2
  <2> HIDE DEF new, q
  <2> QED
    BY <1>5, <2>3, <2>4, <2>5
<1> HIDE DEF new, q
<1> QED
  BY <1>1, <1>5, <1>6 DEF Mirrors, new

\* erase writes both (sharded_tracker.hpp:51-53).
LEMMA EraseMirrors ==
  ASSUME NEW seq, NEW sh \in ShardType, Mirrors(seq, sh), NEW p \in Ptr
  PROVE  Mirrors(Remember(seq, p), EraseFrom(sh, p))
<1> DEFINE new == Remember(seq, p)
           h == sh.head
           q == [sh.quarantine EXCEPT ![h] = p]
<1>1. EraseFrom(sh, p).quarantine = q /\ EraseFrom(sh, p).head = NextHead(h) /\ h \in Slot
  BY DEF EraseFrom, ShardType
<1>2. /\ new \in Seq(Ptr \cup {Null}) /\ Len(new) <= QuarantineSize /\ Len(new) \in Nat /\ Len(seq) \in Nat
      /\ \A k \in 1 .. Len(new) :
           /\ k = 1 => new[Len(new) - k + 1] = p
           /\ k > 1 => k - 1 \in 1 .. Len(seq) /\ new[Len(new) - k + 1] = seq[Len(seq) - (k - 1) + 1]
  <2>1. seq \in Seq(Ptr \cup {Null}) /\ Len(seq) <= QuarantineSize /\ p \in Ptr \cup {Null}
    BY DEF Mirrors
  <2>0. new = Remember(seq, p)
    OBVIOUS
  <2> HIDE DEF new
  <2>2. new \in Seq(Ptr \cup {Null}) /\ Len(new) <= QuarantineSize /\ Shifted(new, seq, p)
    BY <2>0, <2>1, Remembered
  <2>3. Len(new) \in Nat /\ Len(seq) \in Nat
    BY <2>1, <2>2
  <2> QED
    BY <2>2, <2>3 DEF Shifted
<1> HIDE DEF new
<1>3. ASSUME NEW k \in 1 .. Len(new)
      PROVE  new[Len(new) - k + 1] = q[RingAt(NextHead(h), k)]
  <2>1. k \in 1 .. QuarantineSize /\ k \in Int
    BY <1>2
  <2>2. CASE k = 1
    <3>1. RingAt(NextHead(h), k) = h
      BY <1>1, <2>1, <2>2, RingSlots
    <3>2. q[h] = p
      BY <1>1 DEF ShardType
    <3> QED
      BY <1>2, <2>2, <3>1, <3>2
  <2>3. CASE k > 1
    <3>1. RingAt(NextHead(h), k) = RingAt(h, k - 1) /\ RingAt(NextHead(h), k) # h
      BY <1>1, <2>1, <2>3, RingSlots
    <3>2. RingAt(NextHead(h), k) \in Slot
      <4>1. k - 1 \in 1 .. QuarantineSize
        BY <2>1, <2>3
      <4> QED
        BY <1>1, <3>1, <4>1, RingSlots
    <3>3. q[RingAt(NextHead(h), k)] = sh.quarantine[RingAt(h, k - 1)]
      BY <3>1, <3>2 DEF ShardType
    <3>4. k - 1 \in 1 .. Len(seq) /\ new[Len(new) - k + 1] = seq[Len(seq) - (k - 1) + 1]
      BY <1>2, <2>3
    <3>5. seq[Len(seq) - (k - 1) + 1] = sh.quarantine[RingAt(h, k - 1)]
      BY <3>4 DEF Mirrors
    <3> QED
      BY <3>3, <3>4, <3>5
  <2> QED
    BY <2>1, <2>2, <2>3
<1> HIDE DEF q
<1> QED
  BY <1>1, <1>2, <1>3 DEF Mirrors, new

\* A step that touches neither the shards nor what is remembered of them.
LEMMA RecentSame ==
  ASSUME RecentInv, shards' = shards, recent' = recent
  PROVE  RecentInv'
  BY DEF RecentInv

\* A step that replaces one shard and what is remembered of it.
LEMMA RecentReplaced ==
  ASSUME Base, RecentInv, NEW i \in Shards, NEW seq, NEW sh, Mirrors(seq, sh),
         shards' = [shards EXCEPT ![i] = sh], recent' = [recent EXCEPT ![i] = seq]
  PROVE  RecentInv'
<1>1. seq \in Seq(Ptr \cup {Null})
  BY DEF Mirrors
<1>2. recent' \in [Shards -> Seq(Ptr \cup {Null})]
  BY <1>1 DEF RecentInv
<1>3. \A j \in Shards : /\ shards'[j] = IF j = i THEN sh ELSE shards[j]
                        /\ recent'[j] = IF j = i THEN seq ELSE recent[j]
  BY BaseData DEF RecentInv
<1>4. \A j \in Shards : Mirrors(recent'[j], shards'[j])
  BY <1>3 DEF RecentInv
<1> QED
  BY <1>2, <1>4 DEF RecentInv

\* The labels a step of a thread leads to, but for the search for a header.
NotToCandidate(t) == \E l \in Labels \ {"candidate"} : pc' = [pc EXCEPT ![t] = l]

\* Only an insert and an erase touch the ring; only an erase that finds nothing
\* sends its call on to look for a header.
LEMMA RingSteps ==
  ASSUME Base, [Next]_vars
  PROVE  \/ shards' = shards /\ recent' = recent /\ pc' = pc
         \/ \E t \in Threads : shards' = shards /\ recent' = recent /\ NotToCandidate(t)
         \/ \E t \in Threads : AllocInsert(t) /\ NotToCandidate(t)
         \/ \E t \in Threads : FreeErase(t)
<1>1. CASE UNCHANGED vars
  BY <1>1 DEF vars, tracker, history
<1>2. ASSUME NEW t \in Threads,
             \/ CallbackFrees(t) \/ ReallocNothing(t) \/ Damage(t) \/ TakeReport(t) \/ Shutdown(t)
             \/ Initialize(t)
      PROVE  shards' = shards /\ recent' = recent /\ pc' = pc
  BY <1>2 DEF CallbackFrees, ReallocNothing, Damage, TakeReport, Shutdown, Initialize, tracker, history
<1>3. ASSUME NEW t \in Threads,
             \/ CallAlloc(t) \/ AllocFallback(t) \/ AllocUnsampled(t) \/ AllocBlock(t) \/ AllocCount(t)
             \/ AllocWatchdog(t) \/ CallbackReturns(t)
      PROVE  shards' = shards /\ recent' = recent /\ NotToCandidate(t)
  BY <1>3 DEF CallAlloc, AllocFallback, AllocUnsampled, AllocBlock, AllocCount, AllocWatchdog, CallbackReturns,
       tracker, history, AllocReturn, Goto, Labels, NotToCandidate
<1>4. ASSUME NEW t \in Threads,
             \/ CallFree(t) \/ FreeVerify(t) \/ FreeUncount(t) \/ FreeRelease(t) \/ FreeAdopt(t)
             \/ FreeUntracked(t) \/ FreeReturn(t) \/ CallRealloc(t) \/ ReallocFind(t) \/ ReallocRaw(t)
             \/ ReallocVerify(t) \/ ReallocCopy(t)
      PROVE  shards' = shards /\ recent' = recent /\ NotToCandidate(t)
  BY <1>4 DEF CallFree, FreeVerify, FreeUncount, FreeRelease, FreeAdopt, FreeUntracked, FreeReturn, CallRealloc,
       ReallocFind, ReallocRaw, ReallocVerify, ReallocCopy, tracker, history, Goto, Labels, NotToCandidate
<1>5. ASSUME NEW t \in Threads, FreeCandidate(t)
      PROVE  shards' = shards /\ recent' = recent /\ NotToCandidate(t)
  <2>1. PICK l \in {"adopt", "rawfree"} : pc' = [pc EXCEPT ![t] = l]
    BY <1>5 DEF FreeCandidate, Goto
  <2>2. l \in Labels \ {"candidate"}
    BY DEF Labels
  <2> QED
    BY <1>5, <2>1, <2>2 DEF FreeCandidate, tracker, history, NotToCandidate
<1>6. ASSUME NEW t \in Threads, AllocInsert(t) PROVE NotToCandidate(t)
  BY <1>6 DEF AllocInsert, Goto, Labels, NotToCandidate
<1>7. CASE \E t \in Threads : Alloc(t)
  BY <1>2, <1>3, <1>6, <1>7 DEF Alloc
<1>8. CASE \E t \in Threads : Dealloc(t) \/ Realloc(t)
  BY <1>2, <1>4, <1>5, <1>8 DEF Dealloc, Realloc
<1> QED
  BY <1>1, <1>2, <1>7, <1>8 DEF Next, Rest

\* The quarantine is what is remembered after every step.
LEMMA StepRecent == Base /\ RecentInv /\ [Next]_vars => RecentInv'
<1> SUFFICES ASSUME Base, RecentInv, [Next]_vars PROVE RecentInv'
  OBVIOUS
<1>1. CASE shards' = shards /\ recent' = recent
  BY <1>1, RecentSame
<1>2. ASSUME NEW t \in Threads, AllocInsert(t) PROVE RecentInv'
  <2> DEFINE p == loc[t].new
             i == ShardOf[p]
  <2>1. p \in Ptr /\ loc[t].rec \in Rec /\ i \in Shards
    BY <1>2, AllocInsertBase, ManagerAssumption
  <2>2. shards[i] \in ShardType /\ Mirrors(recent[i], shards[i])
    BY <2>1, BaseData DEF RecentInv
  <2> DEFINE seq == [j \in DOMAIN recent[i] |-> IF recent[i][j] = p THEN Null ELSE recent[i][j]]
             sh == InsertInto(shards[i], p, loc[t].rec)
  <2>3. Mirrors(seq, sh)
    BY <2>1, <2>2, InsertMirrors
  <2>4. shards' = [shards EXCEPT ![i] = sh] /\ recent' = [recent EXCEPT ![i] = seq]
    BY <1>2 DEF AllocInsert
  <2> HIDE DEF seq, sh, i
  <2> QED
    BY <2>1, <2>3, <2>4, RecentReplaced
<1>3. ASSUME NEW t \in Threads, FreeErase(t) PROVE RecentInv'
  <2> DEFINE p == loc[t].ptr
             i == ShardOf[p]
  <2>1. p \in Ptr /\ i \in Shards
    BY <1>3, FreeEraseBase, ManagerAssumption
  <2>2. shards[i] \in ShardType /\ Mirrors(recent[i], shards[i])
    BY <2>1, BaseData DEF RecentInv
  <2>3. CASE p \in Tracked(shards[i])
    <3> DEFINE seq == Remember(recent[i], p)
               sh == EraseFrom(shards[i], p)
    <3>1. Mirrors(seq, sh)
      BY <2>1, <2>2, EraseMirrors
    <3>2. shards' = [shards EXCEPT ![i] = sh] /\ recent' = [recent EXCEPT ![i] = seq]
      BY <1>3, <2>3 DEF FreeErase, AfterErase, EraseStatus
    <3> HIDE DEF seq, sh, i
    <3> QED
      BY <2>1, <3>1, <3>2, RecentReplaced
  <2>4. CASE p \notin Tracked(shards[i])
    <3>1. shards' = [shards EXCEPT ![i] = shards[i]] /\ recent' = recent
      BY <1>3, <2>4 DEF FreeErase, AfterErase, EraseStatus
    <3>2. shards' = shards
      BY <2>1, <3>1, BaseData
    <3> QED
      BY <3>1, <3>2, RecentSame
  <2> QED
    BY <2>3, <2>4
<1> QED
  BY <1>1, <1>2, <1>3, RingSteps

\* No erasure is remembered in the beginning.
LEMMA InitRecent == Init => RecentInv
<1> SUFFICES ASSUME Init PROVE RecentInv
  OBVIOUS
<1>1. << >> \in Seq(Ptr \cup {Null}) /\ Len(<< >>) = 0 /\ 1 .. 0 = {}
  OBVIOUS
<1> QED
  BY <1>1 DEF Init, RecentInv, Mirrors

\* A second free of a pointer that its shard still remembers never passes for
\* the free of an untracked block (memsentry.cpp:316-334).
THEOREM DoubleFreeAlwaysCaught == Spec => DoubleFreeCaught
<1> DEFINE Caught ==
      \A t \in Threads :
        pc[t] = "erase" /\ pc'[t] = "candidate" =>
          \A j \in DOMAIN recent[ShardOf[loc[t].ptr]] : recent[ShardOf[loc[t].ptr]][j] # loc[t].ptr
<1>1. ASSUME Base, RecentInv, [Next]_vars PROVE Caught
  <2> SUFFICES ASSUME NEW t \in Threads, pc[t] = "erase", pc'[t] = "candidate",
                      NEW j \in DOMAIN recent[ShardOf[loc[t].ptr]]
               PROVE  recent[ShardOf[loc[t].ptr]][j] # loc[t].ptr
    OBVIOUS
  <2> DEFINE p == loc[t].ptr
             i == ShardOf[p]
  <2>1. pc \in [Threads -> Labels]
    BY <1>1 DEF Base, Types
  <2>2. ~\E u \in Threads : NotToCandidate(u)
    BY <2>1 DEF NotToCandidate
  <2>3. PICK u \in Threads : FreeErase(u)
    <3>1. pc' # pc
      OBVIOUS
    <3> QED
      BY <1>1, <2>2, <3>1, RingSteps
  <2>4. u = t
    BY <2>1, <2>3 DEF FreeErase, Goto
  <2>5. EraseStatus(shards[i], p) = "NOT_FOUND" /\ p \in Ptr /\ i \in Shards
    <3>1. p \in Ptr /\ i \in Shards
      BY <1>1, <2>3, <2>4, FreeEraseBase, ManagerAssumption
    <3>2. pc' = [pc EXCEPT ![t] = "verify"] \/ pc' = [pc EXCEPT ![t] = "done"]
          \/ EraseStatus(shards[i], p) = "NOT_FOUND"
      BY <2>3, <2>4 DEF FreeErase, Goto
    <3> QED
      BY <2>1, <3>1, <3>2
  <2>6. \A s \in Slot : shards[i].quarantine[s] # p
    BY <2>5 DEF EraseStatus, Quarantined
  <2>7. Mirrors(recent[i], shards[i]) /\ shards[i].head \in Slot
    BY <1>1, <2>5, BaseData DEF RecentInv, ShardType
  <2> DEFINE n == Len(recent[i])
             k == n - j + 1
  <2>8. n \in Nat /\ n <= QuarantineSize /\ j \in 1 .. n
    BY <2>7 DEF Mirrors
  <2>9. k \in 1 .. n /\ k \in 1 .. QuarantineSize /\ n - k + 1 = j
    <3> HIDE DEF n
    <3> QED
      BY <2>8
  <2>10. recent[i][j] = shards[i].quarantine[RingAt(shards[i].head, k)]
    BY <2>7, <2>9 DEF Mirrors
  <2>11. RingAt(shards[i].head, k) \in Slot
    BY <2>7, <2>9, RingSlots
  <2> QED
    BY <2>6, <2>10, <2>11
<1>2. Base /\ RecentInv /\ [Next]_vars => [Caught]_vars
  BY <1>1
<1>3. Spec => []RecentInv
  BY InitRecent, StepRecent, BaseInvariance, PTL DEF Spec
<1> QED
  BY <1>2, <1>3, BaseInvariance, PTL DEF Spec, DoubleFreeCaught

-----------------------------------------------------------------------------
(* Who is responsible for which block.                                     *)

\* The system block of an untracked pointer, and that of a tracked one.
Whole(p) == heap[p] = 1

Block(p) == p - 1 \in Addr /\ heap[p - 1] = 2

Live(p) == Whole(p) \/ Block(p)

\* What the application may hold.
Good(p) == Whole(p) \/ (Block(p) /\ Known(p))

\* The pointers a thread at l with the locals x is responsible for.  A block
\* that deallocate has given back is no longer the thread's.
OldOf(l, x) == IF l = "done" /\ x.alarm = "NONE" THEN {} ELSE {x.ptr} \ {Null}

NewOf(x) == {x.new} \ {Null}

HandOf(l, x) == OldOf(l, x) \cup NewOf(x)

Hand(t) == HandOf(pc[t], loc[t])

Moving == {"rverify", "alloc", "count", "insert", "watchdog", "callback", "copy"}

\* The old pointer leads to a block all along; reallocate goes beyond its
\* search for the record with a tracked block only; the record that deallocate
\* took out leads to the block.
OldFit(l, x) ==
  /\ l # "adopt"
  /\ l \in {"find", "erase"} => Good(x.ptr)
  /\ l \in {"rawrealloc", "candidate", "rawfree"} => Whole(x.ptr)
  /\ l \in Moving \cup {"erase"} /\ x.goal = "realloc" => Block(x.ptr) /\ Known(x.ptr)
  /\ l = "rverify" => x.rec.raw = x.ptr - 1
  /\ l \in {"verify", "uncount", "release"} => Block(x.ptr) /\ ~Known(x.ptr) /\ x.rec.raw = x.ptr - 1
  /\ l = "done" /\ x.alarm \in {"HEADER_CORRUPTED", "FOOTER_CORRUPTED"} => Block(x.ptr) /\ ~Known(x.ptr)

\* The new pointer is recorded by the time the watchdog looks.
NewFit(l, x) ==
  x.new # Null =>
    IF l \in {"count", "insert"} THEN Block(x.new) /\ ~Known(x.new) /\ x.rec.raw = x.new - 1
    ELSE Good(x.new)

AlarmFit(l, x) ==
  /\ x.alarm # "NONE" => l \in {"uncount", "done"} \/ x.goal = "realloc"
  /\ l \in {"find", "rawrealloc", "candidate", "rawfree", "release"} => x.alarm = "NONE"
  /\ x.alarm = "DOUBLE_FREE" => l = "done" /\ Whole(x.ptr)
  /\ l = "uncount" => x.verdict = x.alarm

ThreadSafe(l, x) == OldFit(l, x) /\ NewFit(l, x) /\ AlarmFit(l, x)

\* The second cell of a block lies free.
Layout == \A a \in Addr : heap[a] = 2 => a + 1 \in Addr /\ heap[a + 1] = 0

Headers == \A a \in Addr :
  /\ header[a].magic = "header" => heap[a] = 2
  /\ heap[a] = 2 => header[a].magic # "freed"
  /\ heap[a] = 2 /\ header[a].magic = "none" => a + 1 \in damaged

Records == \A p \in Addr : Known(p) => Block(p) /\ Entry(p).raw = p - 1

Apart ==
  /\ \A t \in Threads : Hand(t) \cap owned = {} /\ OldOf(pc[t], loc[t]) \cap NewOf(loc[t]) = {}
  /\ \A t, u \in Threads : t # u => Hand(t) \cap Hand(u) = {}

Safe ==
  /\ ~aborted
  /\ Layout /\ Headers /\ Records /\ Apart
  /\ \A p \in owned : Good(p)
  /\ \A t \in Threads : ThreadSafe(pc[t], loc[t])

\* A step leaves p as it is.
Same(p) ==
  /\ heap'[p] = 1 <=> heap[p] = 1
  /\ p - 1 \in Addr => (heap'[p - 1] = 2 <=> heap[p - 1] = 2)
  /\ p \in Tracked(shards'[ShardOf[p]]) <=> p \in Tracked(shards[ShardOf[p]])

\* What a thread is responsible for are blocks.
LEMMA HandLive ==
  ASSUME Base, Safe, NEW t \in Threads
  PROVE  Hand(t) \subseteq Addr /\ \A p \in Hand(t) : Live(p)
<1>1. pc[t] \in Labels /\ loc[t] \in LocType /\ LocFit(pc[t], loc[t]) /\ ThreadSafe(pc[t], loc[t])
  BY AtThread DEF Safe
<1> DEFINE l == pc[t]
           x == loc[t]
<1>2. x.ptr \in Addr \cup {Null} /\ x.new \in Addr \cup {Null} /\ x.alarm \in Verdicts
      /\ x.goal \in {"none", "alloc", "realloc"}
  BY <1>1 DEF LocType
<1>3. Hand(t) = HandOf(l, x)
  BY DEF Hand
<1> HIDE DEF l, x
<1>4. LocFit(l, x) /\ ThreadSafe(l, x) /\ l \in Labels
  BY <1>1 DEF l, x
<1>5. x.new # Null => Live(x.new)
  BY <1>4 DEF ThreadSafe, NewFit, Good, Live
<1>6. OldOf(l, x) # {} => Live(x.ptr)
  <2> SUFFICES ASSUME x.ptr # Null, ~(l = "done" /\ x.alarm = "NONE") PROVE Live(x.ptr)
    BY DEF OldOf
  <2>1. CASE l \in {"find", "erase", "rawrealloc", "candidate", "rawfree", "verify", "uncount", "release", "adopt"}
    BY <1>4, <2>1 DEF ThreadSafe, OldFit, Good, Live
  <2>2. CASE l = "done"
    <3>1. x.alarm \in {"HEADER_CORRUPTED", "FOOTER_CORRUPTED", "DOUBLE_FREE"}
      BY <1>2, <2>2 DEF Verdicts
    <3> QED
      BY <1>4, <2>2, <3>1 DEF ThreadSafe, OldFit, AlarmFit, Live
  <2>3. CASE l \in Moving
    <3>1. x.goal = "realloc"
      BY <1>4, <2>3 DEF LocFit, Moving, InAlloc
    <3> QED
      BY <1>4, <2>3, <3>1 DEF ThreadSafe, OldFit, Live
  <2>4. l # "app"
    BY <1>4 DEF LocFit, NoLoc
  <2> QED
    BY <1>4, <2>1, <2>2, <2>3, <2>4 DEF Labels, Moving
<1> QED
  BY <1>2, <1>3, <1>5, <1>6 DEF HandOf, NewOf, OldOf

\* What the application holds are blocks.
LEMMA OwnedLive ==
  ASSUME Base, Safe
  PROVE  owned \subseteq Addr /\ \A p \in owned : Live(p)
  BY BaseData DEF Safe, Good, Live

\* A thread that a step does not concern stays safe.
LEMMA ThreadKept ==
  ASSUME NEW l \in Labels, NEW x \in LocType, LocFit(l, x), ThreadSafe(l, x),
         \A p \in HandOf(l, x) : Same(p)
  PROVE  ThreadSafe(l, x)'
<1>1. x.new # Null => Same(x.new)
  BY DEF HandOf, NewOf
<1>2. x.ptr # Null /\ ~(l = "done" /\ x.alarm = "NONE") => Same(x.ptr)
  BY DEF HandOf, OldOf
<1>3. NewFit(l, x)'
  BY <1>1 DEF ThreadSafe, NewFit, Good, Whole, Block, Known, Same
<1>4. x.goal = "realloc" \/ l \in Freeing \/ l \in {"find", "rawrealloc", "rverify"} => x.ptr # Null
  BY DEF LocFit
<1>5. AlarmFit(l, x)'
  <2>1. x.alarm = "DOUBLE_FREE" => l = "done" /\ Same(x.ptr)
    BY <1>2, <1>4 DEF ThreadSafe, AlarmFit, Freeing
  <2> QED
    BY <2>1 DEF ThreadSafe, AlarmFit, Whole, Same
<1>6. OldFit(l, x)'
  <2>1. l \in {"find", "erase", "rawrealloc", "candidate", "rawfree", "verify", "uncount", "release"} => Same(x.ptr)
    BY <1>2, <1>4 DEF Freeing
  <2>2. l \in Moving \cup {"erase"} /\ x.goal = "realloc" => Same(x.ptr)
    BY <1>2, <1>4 DEF Moving
  <2>3. l = "done" /\ x.alarm \in {"HEADER_CORRUPTED", "FOOTER_CORRUPTED"} => Same(x.ptr)
    BY <1>2, <1>4 DEF Freeing
  <2> QED
    BY <2>1, <2>2, <2>3 DEF ThreadSafe, OldFit, Good, Whole, Block, Known, Same
<1> QED
  BY <1>3, <1>5, <1>6 DEF ThreadSafe

\* A step of one thread that touches the block of at most one pointer f, its
\* own, the application's or nobody's.  All others keep what they had.
LEMMA SafeStep ==
  ASSUME Base, Safe, NEW t \in Threads, NEW l \in Labels, NEW x \in LocType, LocFit(l, x), Moves(t, l, x),
         NEW f,
         \A q \in Addr \ {f} : Live(q) => Same(q),
         f \in Addr /\ Live(f) => f \in Hand(t) \cup owned,
         ThreadSafe(l, x)',
         \A q \in HandOf(l, x) \cup owned' : q \in Addr /\ (Live(q) => q \in Hand(t) \cup owned),
         HandOf(l, x) \cap owned' = {}, OldOf(l, x) \cap NewOf(x) = {},
         \A q \in owned' : Good(q)',
         ~aborted', Layout', Headers', Records'
  PROVE  Safe'
<1>1. /\ pc'[t] = l /\ loc'[t] = x
      /\ \A u \in Threads \ {t} : pc'[u] = pc[u] /\ loc'[u] = loc[u]
  BY MovedControl
<1>2. Hand(t)' = HandOf(l, x) /\ \A u \in Threads \ {t} : Hand(u)' = Hand(u)
  BY <1>1 DEF Hand
<1>3. ASSUME NEW u \in Threads \ {t}
      PROVE  /\ ThreadSafe(pc[u], loc[u])'
             /\ Hand(u) \cap owned' = {} /\ Hand(u) \cap HandOf(l, x) = {}
             /\ OldOf(pc[u], loc[u]) \cap NewOf(loc[u]) = {}
  <2>1. Hand(u) \subseteq Addr /\ \A p \in Hand(u) : Live(p)
    BY HandLive
  <2>2. Hand(u) \cap Hand(t) = {} /\ Hand(u) \cap owned = {} /\ OldOf(pc[u], loc[u]) \cap NewOf(loc[u]) = {}
    BY DEF Safe, Apart
  <2>3. f \notin Hand(u)
    BY <2>1, <2>2
  <2>4. \A q \in Hand(u) : Same(q)
    BY <2>1, <2>3
  <2>5. Hand(u) \cap owned' = {} /\ Hand(u) \cap HandOf(l, x) = {}
    BY <2>1, <2>2
  <2>6. PICK k \in Labels, y \in LocType : k = pc[u] /\ y = loc[u] /\ LocFit(k, y)
    BY AtThread
  <2>7. ThreadSafe(k, y) /\ \A q \in HandOf(k, y) : Same(q)
    BY <2>4, <2>6 DEF Safe, Hand
  <2>8. ThreadSafe(k, y)'
    BY <2>6, <2>7, ThreadKept
  <2>9. ThreadSafe(pc[u], loc[u])'
    BY <1>1, <2>6, <2>8 DEF ThreadSafe, OldFit, NewFit, AlarmFit, Good, Whole, Block, Known
  <2> QED
    BY <2>2, <2>5, <2>9
<1>4. ASSUME NEW u \in Threads PROVE ThreadSafe(pc[u], loc[u])'
  <2>1. CASE u # t
    BY <1>3, <2>1
  <2>2. CASE u = t
    BY <1>1, <2>2 DEF ThreadSafe, OldFit, NewFit, AlarmFit, Good, Whole, Block, Known
  <2> QED
    BY <2>1, <2>2
<1>5. Apart'
  <2>1. ASSUME NEW u \in Threads
        PROVE  (Hand(u) \cap owned = {})' /\ (OldOf(pc[u], loc[u]) \cap NewOf(loc[u]) = {})'
    BY <1>1, <1>2, <1>3 DEF OldOf, NewOf
  <2>2. ASSUME NEW u \in Threads, NEW v \in Threads, u # v
        PROVE  (Hand(u) \cap Hand(v) = {})'
    <3>1. Hand(u) \cap Hand(v) = {}
      BY <2>2 DEF Safe, Apart
    <3> QED
      BY <1>2, <1>3, <2>2, <3>1
  <2> QED
    BY <2>1, <2>2 DEF Apart
<1> QED
  BY <1>4, <1>5 DEF Safe

\* A step that leaves the heap, the headers and the tracker alone: pointers
\* only change hands between the thread and the application.
LEMMA SafeControl ==
  ASSUME Base, Safe, NEW t \in Threads, NEW l \in Labels, NEW x \in LocType, LocFit(l, x), Moves(t, l, x),
         UNCHANGED <<shards, heap, header, damaged, aborted>>,
         ThreadSafe(l, x),
         HandOf(l, x) \cup owned' \subseteq Hand(t) \cup owned,
         HandOf(l, x) \cap owned' = {}, OldOf(l, x) \cap NewOf(x) = {},
         \A q \in owned' : Good(q)
  PROVE  Safe'
<1>1. \A q \in Addr \ {Null} : Same(q)
  BY DEF Same
<1>2. ThreadSafe(l, x)'
  BY DEF ThreadSafe, OldFit, NewFit, AlarmFit, Good, Whole, Block, Known
<1>3. \A q \in owned' : Good(q)'
  BY DEF Good, Whole, Block, Known
<1>4. ~aborted' /\ Layout' /\ Headers' /\ Records'
  BY DEF Safe, Layout, Headers, Records, Known, Block, Entry
<1>5. \A q \in HandOf(l, x) \cup owned' : q \in Addr /\ (Live(q) => q \in Hand(t) \cup owned)
  BY HandLive, OwnedLive
<1>6. Null \notin Addr
  BY ManagerAssumption
<1> QED
  BY <1>1, <1>2, <1>3, <1>4, <1>5, <1>6, SafeStep

\* The thread's facts, and where its pointers are.
LEMMA SafeAt ==
  ASSUME Base, Safe, NEW t \in Threads
  PROVE  /\ ThreadSafe(pc[t], loc[t])
         /\ Hand(t) = HandOf(pc[t], loc[t]) /\ Hand(t) \cap owned = {}
         /\ OldOf(pc[t], loc[t]) \cap NewOf(loc[t]) = {}
         /\ \A p \in owned : Good(p)
  BY DEF Safe, Apart, Hand

\* A pointer with no record whose block is whole, and the other way round.
LEMMA GoodCases ==
  ASSUME Base, Safe, NEW p \in Addr
  PROVE  /\ Known(p) => Block(p) /\ ~Whole(p) /\ Entry(p).raw = p - 1
         /\ ~(Block(p) /\ Whole(p))
         /\ Good(p) /\ ~Known(p) => Whole(p)
<1>1. ~(Block(p) /\ Whole(p))
  <2> SUFFICES ASSUME Block(p), Whole(p) PROVE FALSE
    OBVIOUS
  <2>1. p - 1 + 1 = p
    BY ManagerAssumption DEF Addr
  <2> QED
    BY <2>1 DEF Safe, Layout, Block, Whole
<1>2. Known(p) => Block(p) /\ Entry(p).raw = p - 1
  BY DEF Safe, Records
<1> QED
  BY <1>1, <1>2 DEF Good

\* The application calls allocate.
LEMMA CallAllocSafe ==
  ASSUME Base, Safe, NEW t \in Threads, CallAlloc(t)
  PROVE  Safe'
<1> DEFINE x == [NoLoc EXCEPT !.goal = "alloc"]
<1>1. Moves(t, "alloc", x)
  BY CallAllocBase
<1>2. x.ptr = Null /\ x.new = Null /\ x.alarm = "NONE" /\ x.goal = "alloc" /\ x \in LocType
  BY DEF NoLoc, LocType, Verdicts
<1>3. LocFit("alloc", x) /\ "alloc" \in Labels
  BY <1>2 DEF LocFit, InAlloc, Freeing, Labels
<1> HIDE DEF x
<1>4. ThreadSafe("alloc", x) /\ HandOf("alloc", x) = {} /\ OldOf("alloc", x) = {}
  BY <1>2 DEF ThreadSafe, OldFit, NewFit, AlarmFit, HandOf, OldOf, NewOf, Moving
<1>5. UNCHANGED <<shards, heap, header, damaged, aborted, owned>>
  BY DEF CallAlloc, tracker, memory, app, history
<1> QED
  BY <1>1, <1>2, <1>3, <1>4, <1>5, SafeControl, SafeAt

\* The application calls deallocate with a pointer that it holds.
LEMMA CallFreeSafe ==
  ASSUME Base, Safe, NEW t \in Threads, CallFree(t), misuses' = misuses
  PROVE  Safe'
<1>1. PICK p \in owned \cup stale :
        /\ Moves(t, "erase", [NoLoc EXCEPT !.ptr = p])
        /\ p \notin owned => misuses' = misuses + 1
        /\ owned' = owned \ {p}
  BY CallFreeBase
<1>2. p \in owned /\ p \in Addr /\ p # Null
  BY <1>1, BaseData, ManagerAssumption
<1> DEFINE x == [NoLoc EXCEPT !.ptr = p]
<1>3. x.ptr = p /\ x.new = Null /\ x.alarm = "NONE" /\ x.goal = "none" /\ x \in LocType
  BY <1>2 DEF NoLoc, LocType, Verdicts
<1>4. LocFit("erase", x) /\ "erase" \in Labels
  BY <1>2, <1>3 DEF LocFit, InAlloc, Freeing, Labels
<1>5. Moves(t, "erase", x)
  BY <1>1
<1> HIDE DEF x
<1>6. Good(p)
  BY <1>2, SafeAt
<1>7. ThreadSafe("erase", x) /\ HandOf("erase", x) = {p} /\ OldOf("erase", x) \cap NewOf(x) = {}
  BY <1>2, <1>3, <1>6 DEF ThreadSafe, OldFit, NewFit, AlarmFit, HandOf, OldOf, NewOf, Moving
<1>8. UNCHANGED <<shards, heap, header, damaged, aborted>>
  BY DEF CallFree, tracker, memory, history
<1> QED
  BY <1>1, <1>2, <1>3, <1>4, <1>5, <1>7, <1>8, SafeControl, SafeAt

\* The application calls reallocate.
LEMMA CallReallocSafe ==
  ASSUME Base, Safe, NEW t \in Threads, CallRealloc(t)
  PROVE  Safe'
<1>1. PICK p \in owned : /\ Moves(t, "find", [NoLoc EXCEPT !.ptr = p, !.goal = "realloc"])
                         /\ owned' = owned \ {p}
  BY CallReallocBase
<1>2. p \in Addr /\ p # Null
  BY <1>1, BaseData, ManagerAssumption
<1> DEFINE x == [NoLoc EXCEPT !.ptr = p, !.goal = "realloc"]
<1>3. x.ptr = p /\ x.new = Null /\ x.alarm = "NONE" /\ x.goal = "realloc" /\ x \in LocType
  BY <1>2 DEF NoLoc, LocType, Verdicts
<1>4. LocFit("find", x) /\ "find" \in Labels
  BY <1>2, <1>3 DEF LocFit, InAlloc, Freeing, Labels
<1>5. Moves(t, "find", x)
  BY <1>1
<1> HIDE DEF x
<1>6. Good(p)
  BY SafeAt
<1>7. ThreadSafe("find", x) /\ HandOf("find", x) = {p} /\ OldOf("find", x) \cap NewOf(x) = {}
  BY <1>2, <1>3, <1>6 DEF ThreadSafe, OldFit, NewFit, AlarmFit, HandOf, OldOf, NewOf, Moving
<1>8. UNCHANGED <<shards, heap, header, damaged, aborted>>
  BY DEF CallRealloc, tracker, memory, history
<1> QED
  BY <1>1, <1>2, <1>3, <1>4, <1>5, <1>7, <1>8, SafeControl, SafeAt

\* A thread moves to another label with the locals it has.
LEMMA SafeRelabel ==
  ASSUME Base, Safe, NEW t \in Threads, NEW l \in Labels \ {"done"}, Moves(t, l, loc[t]), LocFit(l, loc[t]),
         UNCHANGED <<shards, heap, header, damaged, aborted, owned>>,
         ThreadSafe(l, loc[t]), pc[t] # "done"
  PROVE  Safe'
<1>1. PICK x \in LocType : x = loc[t] /\ HandOf(l, x) = Hand(t) /\ OldOf(l, x) = OldOf(pc[t], x)
  BY AtThread DEF Hand, HandOf, OldOf
<1>2. \A q \in owned : Good(q)
  BY SafeAt
<1>3. Hand(t) \cap owned = {} /\ OldOf(l, x) \cap NewOf(x) = {}
  BY <1>1, SafeAt
<1>4. Moves(t, l, x) /\ LocFit(l, x) /\ ThreadSafe(l, x)
  BY <1>1
<1> QED
  BY <1>1, <1>2, <1>3, <1>4, SafeControl

\* The block is counted.
LEMMA AllocCountSafe ==
  ASSUME Base, Safe, NEW t \in Threads, AllocCount(t)
  PROVE  Safe'
<1>1. pc[t] = "count" /\ Moves(t, "insert", loc[t])
  BY AllocCountBase DEF AllocCount
<1>2. "insert" \in Labels \ {"done"} /\ LocFit("insert", loc[t]) /\ ThreadSafe("count", loc[t])
  BY <1>1, AtThread, SafeAt DEF Labels, LocFit, InAlloc, Freeing
<1>3. ThreadSafe("insert", loc[t])
  BY <1>2 DEF ThreadSafe, OldFit, NewFit, AlarmFit, Moving
<1> QED
  BY <1>1, <1>2, <1>3, SafeRelabel DEF AllocCount, memory, app, history

\* allocate goes back to its caller with what it has in hand, or with nothing.
LEMMA ReturnedSafe ==
  ASSUME Base, Safe, NEW t \in Threads, pc[t] \in {"alloc", "watchdog", "callback"}, NEW p, p = loc[t].new,
         Returned(t, p), UNCHANGED <<shards, heap, header, damaged, aborted>>
  PROVE  Safe'
<1>1. pc[t] \in InAlloc /\ LocFit(pc[t], loc[t]) /\ loc[t] \in LocType /\ ThreadSafe(pc[t], loc[t])
  BY AtThread, SafeAt DEF InAlloc
<1>2. CASE loc[t].goal = "realloc" /\ Moves(t, "copy", [loc[t] EXCEPT !.new = p]) /\ UNCHANGED app
  <2>1. [loc[t] EXCEPT !.new = p] = loc[t]
    BY <1>1 DEF LocType
  <2>2. "copy" \in Labels \ {"done"} /\ LocFit("copy", loc[t])
    BY <1>1, <1>2 DEF Labels, LocFit, InAlloc, Freeing
  <2>3. ThreadSafe("copy", loc[t])
    BY <1>1, <1>2 DEF ThreadSafe, OldFit, NewFit, AlarmFit, Moving
  <2>4. Moves(t, "copy", loc[t])
    BY <1>2, <2>1
  <2> QED
    BY <1>2, <2>2, <2>3, <2>4, SafeRelabel DEF app
<1>3. CASE Moves(t, "app", NoLoc) /\ (IF p = Null THEN UNCHANGED app ELSE Give(t, p))
  <2>1. /\ NoLoc \in LocType /\ LocFit("app", NoLoc) /\ "app" \in Labels /\ ThreadSafe("app", NoLoc)
        /\ HandOf("app", NoLoc) = {} /\ OldOf("app", NoLoc) = {}
    BY DEF NoLoc, LocType, LocFit, Verdicts, InAlloc, Freeing, Labels, ThreadSafe, OldFit, NewFit, AlarmFit,
           Moving, HandOf, OldOf, NewOf
  <2>2. p # Null => Good(p) /\ p \in Hand(t)
    BY <1>1 DEF ThreadSafe, NewFit, Hand, HandOf, NewOf
  <2>3. owned' = owned \cup ({p} \ {Null}) \/ owned' = owned
    BY <1>3 DEF Give, app
  <2>4. \A q \in owned' : Good(q) /\ q \in Hand(t) \cup owned
    BY <2>2, <2>3, SafeAt
  <2> QED
    BY <1>3, <2>1, <2>4, SafeControl
<1> QED
  BY <1>2, <1>3 DEF Returned

\* The watchdog.
LEMMA AllocWatchdogSafe ==
  ASSUME Base, Safe, NEW t \in Threads, AllocWatchdog(t) \/ CallbackReturns(t)
  PROVE  Safe'
<1>1. pc[t] \in {"watchdog", "callback"}
      /\ \/ Moves(t, "callback", loc[t]) /\ UNCHANGED app
         \/ Returned(t, loc[t].new)
  BY AllocWatchdogBase
<1>2. UNCHANGED <<shards, heap, header, damaged, aborted>>
  BY DEF AllocWatchdog, CallbackReturns, tracker, memory, history
<1>3. CASE Moves(t, "callback", loc[t]) /\ UNCHANGED app
  <2>1. "callback" \in Labels \ {"done"} /\ LocFit("callback", loc[t]) /\ ThreadSafe(pc[t], loc[t])
    BY <1>1, AtThread, SafeAt DEF Labels, LocFit, InAlloc, Freeing
  <2>2. ThreadSafe("callback", loc[t])
    BY <1>1, <2>1 DEF ThreadSafe, OldFit, NewFit, AlarmFit, Moving
  <2> QED
    BY <1>1, <1>2, <1>3, <2>1, <2>2, SafeRelabel DEF app
<1>4. CASE Returned(t, loc[t].new)
  BY <1>1, <1>2, <1>4, ReturnedSafe
<1> QED
  BY <1>1, <1>3, <1>4

\* The header of a block that is there has not been poisoned.
LEMMA VerdictOfLive ==
  ASSUME Base, Safe, NEW a \in Addr, heap[a] = 2, NEW n
  PROVE  VerifyCanary(header[a], n) \in Verdicts \ {"DOUBLE_FREE"}
<1>1. header[a].magic # "freed"
  BY DEF Safe, Headers
<1> QED
  BY <1>1 DEF VerifyCanary, Verdicts

\* The canary of the block is looked at.
LEMMA FreeVerifySafe ==
  ASSUME Base, Safe, NEW t \in Threads, FreeVerify(t)
  PROVE  Safe'
<1>1. pc[t] = "verify" /\ LocFit("verify", loc[t]) /\ loc[t] \in LocType /\ ThreadSafe("verify", loc[t])
  BY AtThread, SafeAt DEF FreeVerify
<1>2. Moves(t, "uncount", [loc[t] EXCEPT !.verdict = Verdict(t), !.alarm = Verdict(t)])
  BY FreeVerifyBase
<1>3. PICK v : v = Verdict(t)
  OBVIOUS
<1>4. v \in Verdicts \ {"DOUBLE_FREE"}
  <2>1. loc[t].rec.raw \in Addr /\ heap[loc[t].rec.raw] = 2
    BY <1>1 DEF ThreadSafe, OldFit, Block
  <2> QED
    BY <1>3, <2>1, VerdictOfLive DEF Verdict
<1>5. PICK x \in LocType : x = [loc[t] EXCEPT !.verdict = v, !.alarm = v]
  BY <1>1, <1>4 DEF LocType
<1>6. /\ x.ptr = loc[t].ptr /\ x.new = loc[t].new /\ x.goal = loc[t].goal /\ x.rec = loc[t].rec
      /\ x.alarm = v /\ x.verdict = v
  BY <1>1, <1>5 DEF LocType
<1>7. LocFit("uncount", x) /\ "uncount" \in Labels
  BY <1>1, <1>6 DEF LocFit, InAlloc, Freeing, Labels
<1>8. ThreadSafe("uncount", x)
  BY <1>1, <1>4, <1>6 DEF ThreadSafe, OldFit, NewFit, AlarmFit, Moving
<1>9. HandOf("uncount", x) = Hand(t) /\ OldOf("uncount", x) = OldOf(pc[t], loc[t]) /\ NewOf(x) = NewOf(loc[t])
  BY <1>1, <1>6 DEF Hand, HandOf, OldOf, NewOf
<1>10. Moves(t, "uncount", x)
  BY <1>2, <1>3, <1>5
<1>11. UNCHANGED <<shards, heap, header, damaged, aborted, owned>>
  BY DEF FreeVerify, tracker, memory, app, history
<1> QED
  BY <1>7, <1>8, <1>9, <1>10, <1>11, SafeControl, SafeAt

\* A broken block is kept, a sound one released.
LEMMA FreeUncountSafe ==
  ASSUME Base, Safe, NEW t \in Threads, FreeUncount(t)
  PROVE  Safe'
<1>1. pc[t] = "uncount" /\ LocFit("uncount", loc[t]) /\ loc[t] \in LocType /\ ThreadSafe("uncount", loc[t])
  BY AtThread, SafeAt DEF FreeUncount
<1>2. Moves(t, IF loc[t].verdict = "NONE" THEN "release" ELSE "done", loc[t])
  BY FreeUncountBase
<1>3. UNCHANGED <<shards, heap, header, damaged, aborted, owned>>
  BY DEF FreeUncount, memory, app, history
<1>4. loc[t].alarm = loc[t].verdict /\ loc[t].alarm \in Verdicts \ {"DOUBLE_FREE"}
  BY <1>1 DEF ThreadSafe, AlarmFit, LocType
<1>5. CASE loc[t].verdict = "NONE"
  <2>1. "release" \in Labels \ {"done"} /\ LocFit("release", loc[t])
    BY <1>1 DEF Labels, LocFit, InAlloc, Freeing
  <2>2. ThreadSafe("release", loc[t])
    BY <1>1, <1>4, <1>5 DEF ThreadSafe, OldFit, NewFit, AlarmFit, Moving
  <2> QED
    BY <1>1, <1>2, <1>3, <1>5, <2>1, <2>2, SafeRelabel
<1>6. CASE loc[t].verdict # "NONE"
  <2>1. PICK x \in LocType : x = loc[t]
    BY <1>1
  <2>2. "done" \in Labels /\ LocFit("done", x)
    BY <1>1, <2>1 DEF Labels, LocFit, InAlloc, Freeing
  <2>3. ThreadSafe("done", x)
    BY <1>1, <1>4, <1>6, <2>1 DEF ThreadSafe, OldFit, NewFit, AlarmFit, Moving, Verdicts
  <2>4. HandOf("done", x) = Hand(t) /\ OldOf("done", x) = OldOf(pc[t], loc[t])
    BY <1>1, <1>4, <1>6, <2>1 DEF Hand, HandOf, OldOf
  <2>5. Moves(t, "done", x)
    BY <1>2, <1>6, <2>1
  <2> QED
    BY <1>3, <2>1, <2>2, <2>3, <2>4, <2>5, SafeControl, SafeAt
<1> QED
  BY <1>5, <1>6

\* In front of an untracked block there is no header: the search finds none.
LEMMA FreeCandidateSafe ==
  ASSUME Base, Safe, NEW t \in Threads, FreeCandidate(t)
  PROVE  Safe'
<1>1. pc[t] = "candidate" /\ LocFit("candidate", loc[t]) /\ loc[t] \in LocType /\ ThreadSafe("candidate", loc[t])
  BY AtThread, SafeAt DEF FreeCandidate
<1>2. loc[t].ptr \in Addr /\ Whole(loc[t].ptr)
  BY <1>1 DEF LocFit, LocType, Freeing, ThreadSafe, OldFit
<1>3. ~Candidate(loc[t].ptr)
  <2>1. ~Block(loc[t].ptr)
    BY <1>2, GoodCases
  <2> QED
    BY <2>1 DEF Candidate, Safe, Headers, Block
<1>4. Moves(t, "rawfree", loc[t])
  BY <1>3, FreeCandidateBase
<1>5. "rawfree" \in Labels \ {"done"} /\ LocFit("rawfree", loc[t])
  BY <1>1 DEF Labels, LocFit, InAlloc, Freeing
<1>6. ThreadSafe("rawfree", loc[t])
  BY <1>1 DEF ThreadSafe, OldFit, NewFit, AlarmFit, Moving
<1> QED
  BY <1>1, <1>4, <1>5, <1>6, SafeRelabel DEF FreeCandidate, tracker, memory, app, history

\* deallocate returns; a reallocate that moved gives its new block away.
LEMMA FreeReturnSafe ==
  ASSUME Base, Safe, NEW t \in Threads, FreeReturn(t)
  PROVE  Safe'
<1>1. pc[t] = "done" /\ ThreadSafe("done", loc[t])
  BY SafeAt DEF FreeReturn
<1>2. /\ Moves(t, "app", NoLoc)
      /\ IF loc[t].goal = "realloc" THEN loc[t].new \in Addr /\ Give(t, loc[t].new) ELSE UNCHANGED app
  BY FreeReturnBase
<1>3. /\ NoLoc \in LocType /\ LocFit("app", NoLoc) /\ "app" \in Labels /\ ThreadSafe("app", NoLoc)
      /\ HandOf("app", NoLoc) = {} /\ OldOf("app", NoLoc) = {}
  BY DEF NoLoc, LocType, LocFit, Verdicts, InAlloc, Freeing, Labels, ThreadSafe, OldFit, NewFit, AlarmFit,
         Moving, HandOf, OldOf, NewOf
<1>4. loc[t].goal = "realloc" => Good(loc[t].new) /\ loc[t].new \in Hand(t)
  <2>1. loc[t].new \in Addr => loc[t].new # Null
    BY ManagerAssumption
  <2> QED
    BY <1>1, <1>2, <2>1 DEF ThreadSafe, NewFit, Hand, HandOf, NewOf
<1>5. \A q \in owned' : Good(q) /\ q \in Hand(t) \cup owned
  <2>1. owned' = owned \/ (loc[t].goal = "realloc" /\ owned' = owned \cup {loc[t].new})
    BY <1>2 DEF Give, app
  <2> QED
    BY <1>4, <2>1, SafeAt
<1>6. UNCHANGED <<shards, heap, header, damaged, aborted>>
  BY DEF FreeReturn, tracker, memory, history
<1> QED
  BY <1>2, <1>3, <1>5, <1>6, SafeControl

\* Only a program that reallocates is in a reallocate, and only one that shuts
\* down finds the Manager not initialised.
CallsInv ==
  /\ "shutdown" \notin Calls => initialized
  /\ \A t \in Threads : loc[t].goal = "realloc" => "realloc" \in Calls

\* The application does not both reallocate and shut down, but for reallocs to
\* size zero of untracked blocks.  The code asks whether it is initialised and
\* not the tracker: a shutdown between an allocation and its reallocate hands a
\* tracked block to the system's realloc or free (memsentry.cpp:616-617, 345-346).
NoLateRealloc == ~({"realloc", "shutdown"} \subseteq Calls)

\* A pointer without a record is an untracked block.
LEMMA ReallocFindSafe ==
  ASSUME Base, Safe, CallsInv, NoLateRealloc, NEW t \in Threads, ReallocFind(t)
  PROVE  Safe'
<1>1. pc[t] = "find" /\ LocFit("find", loc[t]) /\ loc[t] \in LocType /\ ThreadSafe("find", loc[t])
  BY AtThread, SafeAt DEF ReallocFind
<1>2. /\ loc[t].ptr \in Addr
      /\ \/ Known(loc[t].ptr) /\ Moves(t, "rverify", [loc[t] EXCEPT !.rec = Entry(loc[t].ptr)])
         \/ /\ initialized => ~Known(loc[t].ptr)
            /\ Moves(t, "rawrealloc", loc[t])
  BY ReallocFindBase
<1>3. UNCHANGED <<shards, heap, header, damaged, aborted, owned>>
  BY DEF ReallocFind, tracker, memory, app, history
<1>4. CASE Known(loc[t].ptr) /\ Moves(t, "rverify", [loc[t] EXCEPT !.rec = Entry(loc[t].ptr)])
  <2>1. PICK r : r = Entry(loc[t].ptr)
    OBVIOUS
  <2>2. r \in Rec /\ r.raw = loc[t].ptr - 1 /\ Block(loc[t].ptr)
    <3>1. loc[t].ptr \in Ptr /\ ShardOf[loc[t].ptr] \in Shards
      BY <1>2, ManagerAssumption
    <3>2. r \in Rec
      BY <1>4, <2>1, <3>1, BaseData DEF Known, Tracked, Entry, ShardType
    <3> QED
      BY <1>2, <1>4, <2>1, <3>2, GoodCases
  <2>3. PICK x \in LocType : x = [loc[t] EXCEPT !.rec = r]
    BY <1>1, <2>2 DEF LocType
  <2>4. x.ptr = loc[t].ptr /\ x.new = loc[t].new /\ x.goal = loc[t].goal /\ x.rec = r /\ x.alarm = loc[t].alarm
    BY <1>1, <2>3 DEF LocType
  <2>5. LocFit("rverify", x) /\ "rverify" \in Labels
    BY <1>1, <2>2, <2>4 DEF LocFit, InAlloc, Freeing, Labels
  <2>6. ThreadSafe("rverify", x)
    BY <1>1, <1>4, <2>2, <2>4 DEF ThreadSafe, OldFit, NewFit, AlarmFit, Moving
  <2>7. HandOf("rverify", x) = Hand(t) /\ OldOf("rverify", x) = OldOf(pc[t], loc[t]) /\ NewOf(x) = NewOf(loc[t])
    BY <1>1, <2>4 DEF Hand, HandOf, OldOf, NewOf
  <2>8. Moves(t, "rverify", x)
    BY <1>4, <2>1, <2>3
  <2> QED
    BY <1>3, <2>5, <2>6, <2>7, <2>8, SafeControl, SafeAt
<1>5. CASE (initialized => ~Known(loc[t].ptr)) /\ Moves(t, "rawrealloc", loc[t])
  <2>1. loc[t].goal = "realloc"
    BY <1>1 DEF LocFit
  <2>2. initialized
    BY <2>1 DEF CallsInv, NoLateRealloc
  <2>3. Whole(loc[t].ptr) /\ ~Known(loc[t].ptr)
    BY <1>1, <1>2, <1>5, <2>2, GoodCases DEF ThreadSafe, OldFit
  <2>4. "rawrealloc" \in Labels \ {"done"} /\ LocFit("rawrealloc", loc[t])
    BY <1>1 DEF Labels, LocFit, InAlloc, Freeing
  <2>5. ThreadSafe("rawrealloc", loc[t])
    BY <1>1, <2>3 DEF ThreadSafe, OldFit, NewFit, AlarmFit, Moving
  <2> QED
    BY <1>1, <1>3, <1>5, <2>4, <2>5, SafeRelabel
<1> QED
  BY <1>2, <1>4, <1>5

\* reallocate looks at the canary of the old block.
LEMMA ReallocVerifySafe ==
  ASSUME Base, Safe, NEW t \in Threads, ReallocVerify(t)
  PROVE  Safe'
<1>1. pc[t] = "rverify" /\ LocFit("rverify", loc[t]) /\ loc[t] \in LocType /\ ThreadSafe("rverify", loc[t])
  BY AtThread, SafeAt DEF ReallocVerify
<1>2. loc[t].rec.raw \in Addr /\ heap[loc[t].rec.raw] = 2 /\ loc[t].goal = "realloc"
  BY <1>1, ReallocVerifyBase DEF ThreadSafe, OldFit, Block, LocFit, Moving
<1>3. PICK v \in Verdicts \ {"DOUBLE_FREE"} : Moves(t, "alloc", [loc[t] EXCEPT !.alarm = v])
  <2>1. CASE Moves(t, "alloc", [loc[t] EXCEPT !.alarm = "NONE"])
    BY <2>1 DEF Verdicts
  <2>2. CASE Moves(t, "alloc", [loc[t] EXCEPT !.alarm = VerifyCanary(header[loc[t].rec.raw], config.footer)])
    BY <1>2, <2>2, VerdictOfLive
  <2> QED
    BY <2>1, <2>2, ReallocVerifyBase
<1>4. PICK x \in LocType : x = [loc[t] EXCEPT !.alarm = v]
  BY <1>1 DEF LocType
<1>5. x.ptr = loc[t].ptr /\ x.new = loc[t].new /\ x.goal = loc[t].goal /\ x.rec = loc[t].rec /\ x.alarm = v
  BY <1>1, <1>4 DEF LocType
<1>6. LocFit("alloc", x) /\ "alloc" \in Labels
  BY <1>1, <1>5 DEF LocFit, InAlloc, Freeing, Labels
<1>7. ThreadSafe("alloc", x)
  BY <1>1, <1>2, <1>5 DEF ThreadSafe, OldFit, NewFit, AlarmFit, Moving
<1>8. HandOf("alloc", x) = Hand(t) /\ OldOf("alloc", x) = OldOf(pc[t], loc[t]) /\ NewOf(x) = NewOf(loc[t])
  BY <1>1, <1>5 DEF Hand, HandOf, OldOf, NewOf
<1>9. Moves(t, "alloc", x)
  BY <1>3, <1>4
<1>10. UNCHANGED <<shards, heap, header, damaged, aborted, owned>>
  BY DEF ReallocVerify, tracker, memory, app, history
<1> QED
  BY <1>6, <1>7, <1>8, <1>9, <1>10, SafeControl, SafeAt

\* The copy is made, or the old block goes back to the caller.
LEMMA ReallocCopySafe ==
  ASSUME Base, Safe, NEW t \in Threads, ReallocCopy(t)
  PROVE  Safe'
<1>1. pc[t] = "copy" /\ LocFit("copy", loc[t]) /\ loc[t] \in LocType /\ ThreadSafe("copy", loc[t])
  BY AtThread, SafeAt DEF ReallocCopy
<1>2. /\ loc[t].ptr \in Addr
      /\ \/ loc[t].new = Null /\ Give(t, loc[t].ptr) /\ Moves(t, "app", NoLoc)
         \/ loc[t].new # Null /\ UNCHANGED app /\ Moves(t, "erase", loc[t])
  BY ReallocCopyBase
<1>3. UNCHANGED <<shards, heap, header, damaged, aborted>>
  BY DEF ReallocCopy, tracker, memory, history
<1>4. loc[t].goal = "realloc" /\ Good(loc[t].ptr)
  BY <1>1 DEF LocFit, ThreadSafe, OldFit, Moving, Good
<1>5. CASE loc[t].new = Null /\ Give(t, loc[t].ptr) /\ Moves(t, "app", NoLoc)
  <2>1. /\ NoLoc \in LocType /\ LocFit("app", NoLoc) /\ "app" \in Labels /\ ThreadSafe("app", NoLoc)
        /\ HandOf("app", NoLoc) = {} /\ OldOf("app", NoLoc) = {}
    BY DEF NoLoc, LocType, LocFit, Verdicts, InAlloc, Freeing, Labels, ThreadSafe, OldFit, NewFit, AlarmFit,
           Moving, HandOf, OldOf, NewOf
  <2>2. loc[t].ptr \in Hand(t)
    BY <1>1, <1>2, ManagerAssumption DEF Hand, HandOf, OldOf
  <2>3. \A q \in owned' : Good(q) /\ q \in Hand(t) \cup owned
    BY <1>4, <1>5, <2>2, SafeAt DEF Give
  <2> QED
    BY <1>3, <1>5, <2>1, <2>3, SafeControl
<1>6. CASE loc[t].new # Null /\ UNCHANGED app /\ Moves(t, "erase", loc[t])
  <2>1. "erase" \in Labels \ {"done"} /\ LocFit("erase", loc[t])
    BY <1>1, <1>6 DEF Labels, LocFit, InAlloc, Freeing
  <2>2. ThreadSafe("erase", loc[t])
    BY <1>1, <1>4 DEF ThreadSafe, OldFit, NewFit, AlarmFit, Moving
  <2> QED
    BY <1>1, <1>3, <1>6, <2>1, <2>2, SafeRelabel DEF app
<1> QED
  BY <1>2, <1>5, <1>6

\* shutdown and init concern no block.
LEMMA LifecycleSafe ==
  ASSUME Base, Safe, NEW t \in Threads, Shutdown(t) \/ Initialize(t)
  PROVE  Safe'
<1>1. Moves(t, pc[t], loc[t]) /\ pc[t] \in Labels \ {"done"} /\ LocFit(pc[t], loc[t]) /\ pc[t] # "done"
  BY LifecycleBase, AtThread DEF Shutdown, Initialize, Call
<1>2. ThreadSafe(pc[t], loc[t])
  BY SafeAt
<1>3. UNCHANGED <<shards, heap, header, damaged, aborted, owned>>
  BY DEF Shutdown, Initialize, tracker, memory, app, history
<1>4. PICK l \in Labels \ {"done"} : l = pc[t]
  BY <1>1
<1>5. Moves(t, l, loc[t]) /\ LocFit(l, loc[t]) /\ ThreadSafe(l, loc[t])
  BY <1>1, <1>2, <1>4
<1> QED
  BY <1>1, <1>3, <1>5, SafeRelabel

\* Where malloc puts a block there was none, and none was next to it.
LEMMA RoomFree ==
  ASSUME Base, Safe, NEW n \in {1, 2}, NEW r \in Room(n)
  PROVE  /\ r \in Addr /\ r + n - 1 \in Addr /\ r \in Int /\ heap[r] = 0 /\ heap[r + n - 1] = 0
         /\ \A a \in Addr : heap[a] = 2 => a + 1 # r
         /\ ~Live(r + n - 1) /\ ~Known(r + n - 1) /\ r + n - 1 # Null
<1>1. r \in Addr /\ r \in Int /\ r + n - 1 <= Cells /\ \A a \in r .. r + n - 1 : ~Covered(a)
  BY DEF Room, Addr
<1>2. r + n - 1 \in Addr /\ r \in r .. r + n - 1 /\ r + n - 1 \in r .. r + n - 1
  BY <1>1, ManagerAssumption DEF Addr
<1>3. ~Covered(r) /\ ~Covered(r + n - 1)
  BY <1>1, <1>2
<1>4. \A a \in Addr : heap[a] \in 0 .. 2
  BY BaseData
<1>5. ASSUME NEW a \in Addr, ~Covered(a) PROVE heap[a] = 0
  BY <1>4, <1>5 DEF Covered, Addr
<1>6. heap[r] = 0 /\ heap[r + n - 1] = 0
  BY <1>1, <1>2, <1>3, <1>5
<1>7. \A a \in Addr : heap[a] = 2 => a + 1 # r
  BY <1>1, <1>3, <1>4 DEF Covered, Addr
<1>8. ~Live(r + n - 1)
  <2>1. CASE n = 1
    <3>1. r + n - 1 = r
      BY <1>1, <2>1
    <3>2. ~Block(r)
      <4> SUFFICES ASSUME r - 1 \in Addr, heap[r - 1] = 2 PROVE FALSE
        BY DEF Block
      <4>1. r - 1 + 1 = r
        BY <1>1
      <4> QED
        BY <1>7, <4>1
    <3> QED
      BY <1>6, <3>1, <3>2 DEF Live, Whole
  <2>2. CASE n = 2
    <3>1. PICK s \in Int : s = r + n - 1
      BY <1>1
    <3>2. s - 1 = r
      BY <1>1, <2>2, <3>1
    <3>3. heap[s] = 0
      BY <1>6, <3>1
    <3>4. ~Live(s)
      BY <1>6, <3>2, <3>3 DEF Live, Whole, Block
    <3> QED
      BY <3>1, <3>4
  <2> QED
    BY <2>1, <2>2
<1>9. ~Known(r + n - 1) /\ r + n - 1 # Null
  BY <1>2, <1>8, GoodCases, ManagerAssumption DEF Live
<1> QED
  BY <1>1, <1>2, <1>6, <1>7, <1>8, <1>9

\* An untracked block is new, and nothing else changes.
LEMMA RawAllocFacts ==
  ASSUME Base, Safe, NEW r \in Room(1), RawAlloc(r), shards' = shards
  PROVE  /\ r \in Addr /\ r # Null /\ ~Live(r) /\ heap'[r] = 1
         /\ \A q \in Addr \ {r} : Same(q)
         /\ Layout' /\ Headers' /\ Records'
<1>1. r + 1 - 1 = r
  BY DEF Room, Addr
<1>2. /\ r \in Addr /\ heap[r] = 0 /\ ~Live(r) /\ r # Null
      /\ \A a \in Addr : heap[a] = 2 => a + 1 # r
  BY <1>1, RoomFree
<1>3. /\ heap' = [heap EXCEPT ![r] = 1] /\ header' = [header EXCEPT ![r] = NoHeader]
      /\ damaged' = damaged \ {r}
  BY DEF RawAlloc
<1>4. \A a \in Addr : heap'[a] = IF a = r THEN 1 ELSE heap[a]
  BY <1>2, <1>3, BaseData
<1>5. \A a \in Addr : heap'[a] = 2 <=> heap[a] = 2
  BY <1>2, <1>4
<1>6. \A q \in Addr \ {r} : Same(q)
  BY <1>4, <1>5 DEF Same
<1>7. Layout'
  BY <1>2, <1>4, <1>5 DEF Safe, Layout
<1>8. Headers'
  <2>1. \A a \in Addr : header'[a] = IF a = r THEN NoHeader ELSE header[a]
    BY <1>2, <1>3, BaseData
  <2>2. NoHeader.magic = "none"
    BY DEF NoHeader
  <2>3. heap[r] # 2
    BY <1>2
  <2> QED
    BY <1>2, <1>3, <1>5, <2>1, <2>2, <2>3 DEF Safe, Headers
<1>9. Records'
  BY <1>5 DEF Safe, Records, Known, Block, Entry
<1> QED
  BY <1>2, <1>4, <1>6, <1>7, <1>8, <1>9

\* A thread that has the locals of another but for a new block that is good.
LEMMA NewGood ==
  ASSUME NEW l \in Labels, NEW x \in LocType, NEW y \in LocType, ThreadSafe(l, x)', l \notin {"count", "insert"},
         y.ptr = x.ptr, y.goal = x.goal, y.rec = x.rec, y.alarm = x.alarm, y.verdict = x.verdict,
         y.new # Null => Good(y.new)'
  PROVE  ThreadSafe(l, y)'
  BY DEF ThreadSafe, OldFit, NewFit, AlarmFit, Good, Whole, Block, Known

\* allocate returns an untracked block.
LEMMA RawReturnedSafe ==
  ASSUME Base, Safe, NEW t \in Threads, pc[t] = "alloc", NEW r \in Room(1), RawAlloc(r), Returned(t, r),
         shards' = shards, aborted' = aborted
  PROVE  Safe'
<1>1. LocFit("alloc", loc[t]) /\ loc[t] \in LocType /\ ThreadSafe("alloc", loc[t]) /\ loc[t].new = Null
  BY AtThread, SafeAt DEF LocFit
<1>2. /\ r \in Addr /\ r # Null /\ ~Live(r) /\ heap'[r] = 1
      /\ \A q \in Addr \ {r} : Same(q)
      /\ Layout' /\ Headers' /\ Records'
  BY RawAllocFacts
<1>3. r \notin Hand(t) /\ r \notin owned
  BY <1>2, HandLive, OwnedLive
<1>4. \A q \in owned : q \in Addr /\ Good(q)'
  BY <1>2, <1>3, OwnedLive, SafeAt DEF Good, Whole, Block, Known, Same
<1>5. CASE loc[t].goal = "realloc" /\ Moves(t, "copy", [loc[t] EXCEPT !.new = r]) /\ UNCHANGED app
  <2>1. PICK y \in LocType : y = loc[t]
    BY <1>1
  <2>2. PICK x \in LocType : x = [loc[t] EXCEPT !.new = r]
    BY <1>1, <1>2 DEF LocType
  <2>3. /\ x.ptr = y.ptr /\ x.goal = y.goal /\ x.rec = y.rec /\ x.alarm = y.alarm /\ x.verdict = y.verdict
        /\ x.new = r /\ y.new = Null
    BY <1>1, <2>1, <2>2 DEF LocType
  <2>4. "copy" \in Labels /\ LocFit("copy", y) /\ LocFit("copy", x)
    BY <1>1, <1>5, <2>1, <2>3 DEF Labels, LocFit, InAlloc, Freeing
  <2>5. ThreadSafe("copy", y) /\ HandOf("copy", y) = Hand(t)
    BY <1>1, <1>5, <2>1 DEF ThreadSafe, OldFit, NewFit, AlarmFit, Moving, Hand, HandOf, OldOf
  <2>6. \A q \in HandOf("copy", y) : Same(q)
    BY <1>2, <1>3, <2>5, HandLive
  <2>7. ThreadSafe("copy", y)'
    BY <2>4, <2>5, <2>6, ThreadKept
  <2>8. Good(r)'
    BY <1>2 DEF Good, Whole
  <2>9. ThreadSafe("copy", x)'
    <3>1. Good(x.new)'
      BY <2>3, <2>8 DEF Good, Whole, Block, Known
    <3> QED
      BY <2>3, <2>4, <2>7, <3>1, NewGood
  <2>10. HandOf("copy", x) = Hand(t) \cup {r} /\ OldOf("copy", x) = OldOf("copy", y) /\ NewOf(x) = {r}
    BY <1>2, <2>3, <2>5 DEF HandOf, OldOf, NewOf
  <2>11. OldOf("copy", x) \cap NewOf(x) = {} /\ HandOf("copy", x) \cap owned = {}
    BY <1>3, <2>5, <2>10, SafeAt DEF HandOf
  <2>12. \A q \in HandOf("copy", x) \cup owned' : q \in Addr /\ (Live(q) => q \in Hand(t) \cup owned)
    BY <1>2, <1>4, <1>5, <2>10, HandLive DEF app
  <2>13. Moves(t, "copy", x) /\ owned' = owned /\ ~aborted'
    BY <1>5, <2>2 DEF app, Safe
  <2> QED
    BY <1>2, <1>4, <2>4, <2>9, <2>11, <2>12, <2>13, SafeStep
<1>6. CASE Moves(t, "app", NoLoc) /\ Give(t, r)
  <2>1. /\ NoLoc \in LocType /\ LocFit("app", NoLoc) /\ "app" \in Labels /\ ThreadSafe("app", NoLoc)'
        /\ HandOf("app", NoLoc) = {} /\ OldOf("app", NoLoc) = {}
    BY DEF NoLoc, LocType, LocFit, Verdicts, InAlloc, Freeing, Labels, ThreadSafe, OldFit, NewFit, AlarmFit,
           Moving, HandOf, OldOf, NewOf
  <2>2. Good(r)' /\ owned' = owned \cup {r} /\ ~aborted'
    BY <1>2, <1>6 DEF Good, Whole, Give, Safe
  <2>3. \A q \in owned' : q \in Addr /\ Good(q)' /\ (Live(q) => q \in Hand(t) \cup owned)
    BY <1>2, <1>4, <2>2 DEF Good, Whole, Block, Known
  <2> QED
    BY <1>2, <1>6, <2>1, <2>2, <2>3, SafeStep
<1> QED
  BY <1>2, <1>5, <1>6 DEF Returned

\* A call that gets no memory returns nothing.
LEMMA NothingReturnedSafe ==
  ASSUME Base, Safe, NEW t \in Threads, pc[t] = "alloc", Returned(t, Null),
         UNCHANGED <<shards, heap, header, damaged, aborted>>
  PROVE  Safe'
<1>1. loc[t].new = Null
  BY AtThread DEF LocFit
<1> QED
  BY <1>1, ReturnedSafe

\* A request the system serves.
LEMMA AllocRawSafe ==
  ASSUME Base, Safe, NEW t \in Threads, AllocFallback(t) \/ AllocUnsampled(t)
  PROVE  Safe'
<1>1. pc[t] = "alloc" /\ shards' = shards /\ aborted' = aborted
  BY DEF AllocFallback, AllocUnsampled, tracker
<1>2. \/ \E r \in Room(1) : RawAlloc(r) /\ Returned(t, r)
      \/ Returned(t, Null) /\ UNCHANGED <<heap, header, damaged>>
  BY AllocFallbackBase, AllocUnsampledBase
<1> QED
  BY <1>1, <1>2, RawReturnedSafe, NothingReturnedSafe

\* A tracked block is new, and nothing else changes.
LEMMA SampledFacts ==
  ASSUME Base, Safe, NEW t \in Threads, NEW r \in Room(2), Sampled2(t, r), shards' = shards
  PROVE  /\ r \in Addr /\ r + 1 \in Addr /\ r + 1 # Null /\ r + 1 - 1 = r /\ ~Live(r + 1) /\ ~Known(r + 1)
         /\ heap'[r] = 2
         /\ \A q \in Addr \ {r + 1} : Same(q)
         /\ Layout' /\ Headers' /\ Records'
<1>1. /\ r \in Addr /\ r + 2 - 1 \in Addr /\ r \in Int /\ heap[r] = 0 /\ heap[r + 2 - 1] = 0
      /\ \A a \in Addr : heap[a] = 2 => a + 1 # r
      /\ ~Live(r + 2 - 1) /\ ~Known(r + 2 - 1) /\ r + 2 - 1 # Null
  BY RoomFree
<1>2. PICK s \in Int : s = r + 1 /\ r + 2 - 1 = s /\ s - 1 = r /\ s # r
  BY <1>1
<1>3. /\ s \in Addr /\ heap[s] = 0 /\ ~Live(s) /\ ~Known(s) /\ s # Null
  BY <1>1, <1>2
<1>4. /\ heap' = [heap EXCEPT ![r] = 2]
      /\ header' = [header EXCEPT ![r] = InitBlock(config), ![s] = NoHeader]
      /\ damaged' = damaged \ {r, s}
  BY <1>2 DEF Sampled2
<1>5. \A a \in Addr : heap'[a] = IF a = r THEN 2 ELSE heap[a]
  BY <1>1, <1>4, BaseData
<1>6. \A q \in Addr : q # s /\ q - 1 \in Addr => q - 1 # r
  BY <1>1, <1>2 DEF Addr
<1>7. \A q \in Addr \ {s} : Same(q)
  <2>1. \A q \in Addr : heap'[q] = 1 <=> heap[q] = 1
    BY <1>1, <1>5
  <2>2. \A q \in Addr \ {s} : q - 1 \in Addr => heap'[q - 1] = heap[q - 1]
    BY <1>5, <1>6
  <2> QED
    BY <2>1, <2>2 DEF Same
<1>8. Layout'
  BY <1>1, <1>2, <1>3, <1>5 DEF Safe, Layout
<1>9. Headers'
  <2>1. \A a \in Addr : header'[a] = IF a = s THEN NoHeader ELSE IF a = r THEN InitBlock(config) ELSE header[a]
    BY <1>1, <1>2, <1>3, <1>4, BaseData
  <2>2. NoHeader.magic = "none" /\ InitBlock(config).magic = "header"
    BY DEF NoHeader, InitBlock
  <2>3. ASSUME NEW a \in Addr
        PROVE  /\ header'[a].magic = "header" => heap'[a] = 2
               /\ heap'[a] = 2 => header'[a].magic # "freed"
               /\ heap'[a] = 2 /\ header'[a].magic = "none" => a + 1 \in damaged'
    <3>1. CASE a = s
      BY <1>2, <1>3, <1>5, <2>1, <2>2, <3>1
    <3>2. CASE a = r
      BY <1>1, <1>2, <1>5, <2>1, <2>2, <3>2
    <3>3. CASE a # s /\ a # r
      <4>1. heap'[a] = heap[a] /\ header'[a] = header[a]
        BY <1>5, <2>1, <3>3
      <4>2. heap[a] = 2 => a + 1 # r /\ a + 1 # s
        BY <1>1, <1>2, <3>3 DEF Addr
      <4> QED
        BY <1>4, <4>1, <4>2 DEF Safe, Headers
    <3> QED
      BY <3>1, <3>2, <3>3
  <2> QED
    BY <2>3 DEF Headers
<1>10. Records'
  <2>1. \A p \in Addr : Known(p) => p # s
    BY <1>3
  <2> QED
    BY <1>5, <1>6, <2>1 DEF Safe, Records, Known, Block, Entry
<1> QED
  BY <1>1, <1>2, <1>3, <1>5, <1>7, <1>8, <1>9, <1>10

\* A request the Manager tracks.
LEMMA AllocBlockSafe ==
  ASSUME Base, Safe, NEW t \in Threads, AllocBlock(t)
  PROVE  Safe'
<1>1. pc[t] = "alloc" /\ shards' = shards /\ aborted' = aborted
  BY DEF AllocBlock
<1>2. LocFit("alloc", loc[t]) /\ loc[t] \in LocType /\ ThreadSafe("alloc", loc[t]) /\ loc[t].new = Null
  BY <1>1, AtThread, SafeAt DEF LocFit
<1>3. CASE Returned(t, Null) /\ UNCHANGED <<heap, header, damaged>>
  BY <1>1, <1>3, NothingReturnedSafe
<1>4. ASSUME NEW r \in Room(2), Sampled2(t, r) PROVE Safe'
  <2>1. /\ r \in Addr /\ r + 1 \in Addr /\ r + 1 # Null /\ r + 1 - 1 = r /\ ~Live(r + 1) /\ ~Known(r + 1)
        /\ heap'[r] = 2
        /\ \A q \in Addr \ {r + 1} : Same(q)
        /\ Layout' /\ Headers' /\ Records'
    BY <1>1, <1>4, SampledFacts
  <2>0. PICK s \in Addr : s = r + 1
    BY <2>1
  <2>2. s = r + 1 /\ s - 1 = r /\ s # Null /\ ~Live(s) /\ ~Known(s)
    BY <2>1, <2>0
  <2>3. s \notin Hand(t) /\ s \notin owned
    BY <2>2, HandLive, OwnedLive
  <2>4. PICK y \in LocType : y = loc[t]
    BY <1>2
  <2>5. PICK c : c = [id |-> counter, raw |-> r]
    OBVIOUS
  <2>6. c \in Rec
    <3>1. Base'
      BY AllocBlockBase
    <3>2. pc'[t] = "count" /\ loc'[t].rec = c
      BY <1>2, <1>4, <2>5 DEF Sampled2, Moves, Base, Types, LocType
    <3> QED
      BY <3>1, <3>2 DEF Base, Threaded, LocFit
  <2>7. PICK x \in LocType : x = [y EXCEPT !.new = s, !.rec = c]
    BY <2>2, <2>4, <2>6 DEF LocType
  <2>8. /\ x.ptr = y.ptr /\ x.goal = y.goal /\ x.rec = c /\ x.alarm = y.alarm /\ x.verdict = y.verdict
        /\ x.new = s /\ y.new = Null /\ c.raw = s - 1
    BY <1>2, <2>2, <2>4, <2>5, <2>7 DEF LocType
  <2>9. "count" \in Labels /\ LocFit("alloc", y) /\ LocFit("count", x) /\ "alloc" \in Labels
    BY <1>2, <2>2, <2>4, <2>6, <2>8 DEF Labels, LocFit, InAlloc, Freeing
  <2>10. ThreadSafe("alloc", y) /\ HandOf("alloc", y) = Hand(t)
    BY <1>1, <1>2, <2>4 DEF Hand
  <2>11. \A q \in HandOf("alloc", y) : Same(q)
    BY <2>1, <2>2, <2>3, <2>10, HandLive
  <2>12. ThreadSafe("alloc", y)'
    BY <2>9, <2>10, <2>11, ThreadKept
  <2>13. Block(s)' /\ ~Known(s)'
    BY <1>1, <2>1, <2>2 DEF Block, Known
  <2>14. ThreadSafe("count", x)'
    <3>1. OldFit("count", x)' /\ AlarmFit("count", x)'
      BY <2>8, <2>12 DEF ThreadSafe, OldFit, AlarmFit, Moving, Good, Whole, Block, Known
    <3>2. NewFit("count", x)'
      BY <2>8, <2>13 DEF NewFit, Block, Known
    <3> QED
      BY <3>1, <3>2 DEF ThreadSafe
  <2>15. HandOf("count", x) = Hand(t) \cup {s} /\ OldOf("count", x) = OldOf("alloc", y) /\ NewOf(x) = {s}
    BY <2>2, <2>8, <2>10 DEF HandOf, OldOf, NewOf
  <2>16. OldOf("count", x) \cap NewOf(x) = {} /\ HandOf("count", x) \cap owned = {}
    BY <2>3, <2>10, <2>15, SafeAt DEF HandOf
  <2>17. owned' = owned /\ ~aborted'
    BY <1>1, <1>4 DEF Sampled2, app, Safe
  <2>18. \A q \in HandOf("count", x) \cup owned' : q \in Addr /\ (Live(q) => q \in Hand(t) \cup owned)
    BY <2>2, <2>15, <2>17, HandLive, OwnedLive
  <2>19. \A q \in owned' : Good(q)'
    BY <2>1, <2>2, <2>3, <2>17, OwnedLive, SafeAt DEF Good, Whole, Block, Known, Same
  <2>20. Moves(t, "count", x)
    BY <1>4, <2>2, <2>4, <2>5, <2>7 DEF Sampled2
  <2>21. \A q \in Addr \ {s} : Live(q) => Same(q)
    BY <2>1, <2>2
  <2> QED
    BY <2>1, <2>2, <2>9, <2>14, <2>16, <2>17, <2>18, <2>19, <2>20, <2>21, SafeStep
<1> QED
  BY <1>3, <1>4, AllocBlockBase

\* What the application gets is good, and what it had stays so.
LEMMA GivenGood ==
  ASSUME Base, Safe, NEW f, f \notin owned, \A q \in Addr \ {f} : Live(q) => Same(q),
         NEW S, \A q \in S : Good(q)', owned' = owned \cup S
  PROVE  \A q \in owned' : Good(q)'
<1>1. ASSUME NEW q \in owned PROVE Good(q)'
  <2>1. Same(q) /\ Good(q)
    BY OwnedLive, SafeAt DEF Safe
  <2> QED
    BY <2>1 DEF Good, Whole, Block, Known, Same
<1> QED
  BY <1>1

\* A report is an untracked block of the application.
LEMMA TakeReportSafe ==
  ASSUME Base, Safe, NEW t \in Threads, TakeReport(t)
  PROVE  Safe'
<1>1. PICK r \in Room(1) : RawAlloc(r) /\ Give(t, r)
  BY DEF TakeReport
<1>2. shards' = shards /\ aborted' = aborted /\ pc[t] = "app" /\ Moves(t, pc[t], loc[t])
  BY TakeReportBase DEF TakeReport, tracker, Call
<1>3. /\ r \in Addr /\ r # Null /\ ~Live(r) /\ heap'[r] = 1
      /\ \A q \in Addr \ {r} : Same(q)
      /\ Layout' /\ Headers' /\ Records'
  BY <1>1, <1>2, RawAllocFacts
<1>4. loc[t] = NoLoc
  BY <1>2, AtThread DEF LocFit
<1>5. /\ NoLoc \in LocType /\ LocFit("app", NoLoc) /\ "app" \in Labels /\ ThreadSafe("app", NoLoc)'
      /\ HandOf("app", NoLoc) = {} /\ OldOf("app", NoLoc) = {}
  BY DEF NoLoc, LocType, LocFit, Verdicts, InAlloc, Freeing, Labels, ThreadSafe, OldFit, NewFit, AlarmFit,
         Moving, HandOf, OldOf, NewOf
<1>6. Good(r)' /\ owned' = owned \cup {r} /\ r \notin owned
  BY <1>1, <1>3, OwnedLive DEF Good, Whole, Give
<1>7. \A q \in owned' : Good(q)'
  <2>1. \A q \in {r} : Good(q)'
    BY <1>6 DEF Good, Whole, Block, Known
  <2> QED
    BY <1>3, <1>6, <2>1, GivenGood
<1>8. \A q \in owned' : q \in Addr /\ (Live(q) => q \in Hand(t) \cup owned)
  BY <1>3, <1>6, OwnedLive
<1>9. Moves(t, "app", NoLoc) /\ ~aborted'
  BY <1>2, <1>4 DEF Safe
<1> QED
  BY <1>3, <1>5, <1>7, <1>8, <1>9, SafeStep

\* realloc of the system gets a block of the system.
LEMMA ReallocRawSafe ==
  ASSUME Base, Safe, NEW t \in Threads, ReallocRaw(t)
  PROVE  Safe'
<1>1. PICK p \in Addr : p = loc[t].ptr
  BY ReallocRawBase
<1>2. pc[t] = "rawrealloc" /\ Whole(p) /\ p # Null /\ p \in Hand(t) /\ p \notin owned
  <2>1. pc[t] = "rawrealloc" /\ p # Null
    BY ManagerAssumption DEF ReallocRaw
  <2>2. p \in Hand(t)
    BY <1>1, <2>1 DEF Hand, HandOf, OldOf
  <2> QED
    BY <1>1, <2>1, <2>2, SafeAt DEF ThreadSafe, OldFit
<1>3. heap[p] = 1 /\ ~Block(p) /\ ~Known(p)
  BY <1>2, GoodCases DEF Whole
<1>4. /\ Moves(t, "app", NoLoc)
      /\ \/ Give(t, p) /\ UNCHANGED <<aborted, memory, damaged>>
         \/ \E r \in Room(1) :
              /\ UNCHANGED aborted
              /\ heap' = [heap EXCEPT ![p] = 0, ![r] = 1]
              /\ header' = [header EXCEPT ![r] = NoHeader]
              /\ damaged' = damaged \ {r}
              /\ Give(t, r)
  BY <1>1, <1>3, ReallocRawBase
<1>5. shards' = shards
  BY DEF ReallocRaw, tracker
<1>6. /\ NoLoc \in LocType /\ LocFit("app", NoLoc) /\ "app" \in Labels /\ ThreadSafe("app", NoLoc)
      /\ ThreadSafe("app", NoLoc)'
      /\ HandOf("app", NoLoc) = {} /\ OldOf("app", NoLoc) = {}
  BY DEF NoLoc, LocType, LocFit, Verdicts, InAlloc, Freeing, Labels, ThreadSafe, OldFit, NewFit, AlarmFit,
         Moving, HandOf, OldOf, NewOf
<1>7. CASE Give(t, p) /\ UNCHANGED <<aborted, memory, damaged>>
  <2>1. \A q \in owned' : Good(q) /\ q \in Hand(t) \cup owned
    BY <1>2, <1>7, SafeAt DEF Give, Good
  <2> QED
    BY <1>4, <1>5, <1>6, <1>7, <2>1, SafeControl DEF memory
<1>8. ASSUME NEW r \in Room(1), UNCHANGED aborted,
             heap' = [heap EXCEPT ![p] = 0, ![r] = 1],
             header' = [header EXCEPT ![r] = NoHeader],
             damaged' = damaged \ {r},
             Give(t, r)
      PROVE  Safe'
  <2>1. /\ r \in Addr /\ heap[r] = 0 /\ ~Live(r) /\ r # Null
        /\ \A a \in Addr : heap[a] = 2 => a + 1 # r
    <3>1. r + 1 - 1 = r
      BY DEF Room, Addr
    <3> QED
      BY <3>1, RoomFree
  <2>2. \A a \in Addr : heap'[a] = IF a = r THEN 1 ELSE IF a = p THEN 0 ELSE heap[a]
    BY <1>8, <2>1, BaseData
  <2>3. \A a \in Addr : heap'[a] = 2 <=> heap[a] = 2
    BY <1>3, <2>1, <2>2
  <2>4. \A q \in Addr \ {p} : Live(q) => Same(q)
    <3>1. \A q \in Addr \ {p} : Live(q) => (heap'[q] = 1 <=> heap[q] = 1)
      BY <2>1, <2>2
    <3> QED
      BY <1>5, <2>3, <3>1 DEF Same
  <2>5. Layout'
    <3>1. \A a \in Addr : heap[a] = 2 => a + 1 \in Addr /\ heap[a + 1] = 0 /\ a + 1 # r
      BY <2>1 DEF Safe, Layout
    <3> QED
      BY <2>2, <2>3, <3>1 DEF Layout
  <2>6. Headers'
    <3>1. \A a \in Addr : header'[a] = IF a = r THEN NoHeader ELSE header[a]
      BY <1>8, <2>1, BaseData
    <3>2. NoHeader.magic = "none" /\ heap[r] # 2
      BY <2>1 DEF NoHeader
    <3>3. ASSUME NEW a \in Addr
          PROVE  /\ header'[a].magic = "header" => heap'[a] = 2
                 /\ heap'[a] = 2 => header'[a].magic # "freed"
                 /\ heap'[a] = 2 /\ header'[a].magic = "none" => a + 1 \in damaged'
      <4>1. CASE a = r
        BY <2>3, <3>1, <3>2, <4>1
      <4>2. CASE a # r
        <5>1. header'[a] = header[a] /\ (heap'[a] = 2 <=> heap[a] = 2) /\ (heap[a] = 2 => a + 1 # r)
          BY <2>1, <2>3, <3>1, <4>2
        <5> QED
          BY <1>8, <5>1 DEF Safe, Headers
      <4> QED
        BY <4>1, <4>2
    <3> QED
      BY <3>3 DEF Headers
  <2>7. Records'
    BY <1>5, <2>3 DEF Safe, Records, Known, Block, Entry
  <2>8. owned' = owned \cup {r} /\ ~aborted' /\ \A q \in {r} : Good(q)'
    BY <1>8, <2>1, <2>2 DEF Give, Safe, Good, Whole
  <2>9. \A q \in owned' : Good(q)'
    BY <1>2, <2>4, <2>8, GivenGood
  <2>10. \A q \in owned' : q \in Addr /\ (Live(q) => q \in Hand(t) \cup owned)
    BY <2>1, <2>8, OwnedLive
  <2> QED
    BY <1>2, <1>4, <1>6, <2>4, <2>5, <2>6, <2>7, <2>8, <2>9, <2>10, SafeStep
<1> QED
  BY <1>4, <1>7, <1>8

\* A step that only takes the system block at a away.
LEMMA OneFreed ==
  ASSUME Base, Safe, NEW a \in Addr, heap' = [heap EXCEPT ![a] = 0], heap[a] # 0, shards' = shards
  PROVE  /\ \A b \in Addr : heap'[b] = IF b = a THEN 0 ELSE heap[b]
         /\ \A b \in Addr : heap'[b] = 2 => heap[b] = 2
         /\ Layout'
<1>1. \A b \in Addr : heap'[b] = IF b = a THEN 0 ELSE heap[b]
  BY BaseData
<1>2. \A b \in Addr : heap'[b] = 2 => heap[b] = 2
  BY <1>1
<1>3. Layout'
  BY <1>1, <1>2 DEF Safe, Layout
<1> QED
  BY <1>1, <1>2, <1>3

\* The block is poisoned and goes back to the system.
LEMMA FreeReleaseSafe ==
  ASSUME Base, Safe, NEW t \in Threads, FreeRelease(t)
  PROVE  Safe'
<1>1. pc[t] = "release" /\ LocFit("release", loc[t]) /\ loc[t] \in LocType /\ ThreadSafe("release", loc[t])
  BY AtThread, SafeAt DEF FreeRelease
<1>2. PICK x \in LocType : x = loc[t]
  BY <1>1
<1>3. PICK a \in Addr : a = x.rec.raw
  BY <1>2, FreeReleaseBase
<1>4. PICK p : p = x.ptr
  OBVIOUS
<1>5. /\ p \in Addr /\ p # Null /\ p - 1 = a /\ a + 1 = p /\ heap[a] = 2 /\ ~Known(p) /\ x.alarm = "NONE"
      /\ p \in Hand(t)
  <2>1. p # Null /\ Block(p) /\ ~Known(p) /\ a = p - 1 /\ x.alarm = "NONE"
    BY <1>1, <1>2, <1>3, <1>4 DEF LocFit, Freeing, ThreadSafe, OldFit, AlarmFit
  <2>2. p \in Addr
    BY <1>2, <1>4, <2>1 DEF LocType
  <2>3. p \in Hand(t)
    BY <1>1, <1>2, <1>4, <2>1 DEF Hand, HandOf, OldOf
  <2>4. p - 1 = a /\ a + 1 = p
    BY <2>1, <2>2 DEF Addr
  <2> QED
    BY <2>1, <2>2, <2>3, <2>4 DEF Block
<1>6. /\ header' = [header EXCEPT ![a] = Poison(header[a])]
      /\ heap' = [heap EXCEPT ![a] = 0] /\ aborted' = aborted /\ shards' = shards
      /\ damaged' = damaged /\ owned' = owned
  BY <1>2, <1>3, <1>5 DEF FreeRelease, RawFree, tracker, app, history
<1>7. /\ \A b \in Addr : heap'[b] = IF b = a THEN 0 ELSE heap[b]
      /\ \A b \in Addr : heap'[b] = 2 => heap[b] = 2
      /\ Layout'
  <2>1. heap[a] # 0
    BY <1>5
  <2> QED
    BY <1>6, <2>1, OneFreed
<1>8. \A q \in Addr : q # p /\ q - 1 \in Addr => q - 1 # a
  BY <1>5 DEF Addr
<1>9. \A q \in Addr \ {p} : Same(q)
  <2>1. \A q \in Addr : heap'[q] = 1 <=> heap[q] = 1
    BY <1>5, <1>7
  <2>2. \A q \in Addr \ {p} : q - 1 \in Addr => heap'[q - 1] = heap[q - 1]
    BY <1>7, <1>8
  <2> QED
    BY <1>6, <2>1, <2>2 DEF Same
<1>10. Headers'
  <2>1. \A b \in Addr : header'[b] = IF b = a THEN Poison(header[a]) ELSE header[b]
    BY <1>6, BaseData
  <2>2. Poison(header[a]).magic = "freed"
    BY BaseData DEF Poison, HeaderType
  <2>3. ASSUME NEW b \in Addr
        PROVE  /\ header'[b].magic = "header" => heap'[b] = 2
               /\ heap'[b] = 2 => header'[b].magic # "freed"
               /\ heap'[b] = 2 /\ header'[b].magic = "none" => b + 1 \in damaged'
    <3>1. CASE b = a
      BY <1>7, <2>1, <2>2, <3>1
    <3>2. CASE b # a
      <4>1. header'[b] = header[b] /\ heap'[b] = heap[b]
        BY <1>7, <2>1, <3>2
      <4> QED
        BY <1>6, <4>1 DEF Safe, Headers
    <3> QED
      BY <3>1, <3>2
  <2> QED
    BY <2>3 DEF Headers
<1>11. Records'
  <2>1. \A q \in Addr : Known(q) => q # p /\ q - 1 # a
    BY <1>5 DEF Addr
  <2> QED
    BY <1>6, <1>7, <2>1 DEF Safe, Records, Known, Block, Entry
<1>12. "done" \in Labels /\ LocFit("done", x)
  BY <1>1, <1>2 DEF Labels, LocFit, InAlloc, Freeing
<1>13. ThreadSafe("done", x) /\ HandOf("done", x) = NewOf(x) /\ OldOf("done", x) = {}
  BY <1>1, <1>2, <1>5 DEF ThreadSafe, OldFit, NewFit, AlarmFit, Moving, HandOf, OldOf
<1>14. NewOf(x) \subseteq Hand(t) /\ p \notin NewOf(x)
  BY <1>1, <1>2, <1>4, <1>5, SafeAt DEF Hand, HandOf, OldOf
<1>15. ThreadSafe("done", x)'
  <2>1. \A q \in HandOf("done", x) : Same(q)
    BY <1>9, <1>13, <1>14, HandLive
  <2> QED
    BY <1>12, <1>13, <2>1, ThreadKept
<1>16. \A q \in owned' : Good(q)'
  <2>1. \A q \in owned : Same(q) /\ Good(q)
    BY <1>5, <1>9, OwnedLive, SafeAt
  <2> QED
    BY <1>6, <2>1 DEF Good, Whole, Block, Known, Same
<1>17. HandOf("done", x) \cap owned' = {} /\ ~aborted'
  BY <1>6, <1>13, <1>14, SafeAt DEF Safe
<1>18. \A q \in HandOf("done", x) \cup owned' : q \in Addr /\ (Live(q) => q \in Hand(t) \cup owned)
  BY <1>6, <1>13, <1>14, HandLive, OwnedLive
<1>19. Moves(t, "done", x)
  BY <1>2, FreeReleaseBase
<1> QED
  BY <1>5, <1>7, <1>9, <1>10, <1>11, <1>12, <1>13, <1>15, <1>16, <1>17, <1>18, <1>19, SafeStep

\* An untracked block goes back to the system.
LEMMA WholeFreed ==
  ASSUME Base, Safe, NEW p \in Addr, Whole(p), ~aborted, RawFree(p), UNCHANGED <<shards, header, damaged>>
  PROVE  /\ ~aborted' /\ Layout' /\ Headers' /\ Records'
         /\ \A q \in Addr \ {p} : Same(q)
<1>1. heap[p] = 1 /\ ~Block(p) /\ ~Known(p)
  BY GoodCases DEF Whole
<1>2. heap' = [heap EXCEPT ![p] = 0] /\ ~aborted'
  BY <1>1 DEF RawFree
<1>3. /\ \A b \in Addr : heap'[b] = IF b = p THEN 0 ELSE heap[b]
      /\ Layout'
  <2>1. heap[p] # 0 /\ shards' = shards
    BY <1>1
  <2> QED
    BY <1>2, <2>1, OneFreed
<1>4. \A b \in Addr : heap'[b] = 2 <=> heap[b] = 2
  BY <1>1, <1>3
<1>5. \A q \in Addr \ {p} : Same(q)
  BY <1>3, <1>4 DEF Same
<1>6. Headers' /\ Records'
  BY <1>4 DEF Safe, Headers, Records, Known, Block, Entry
<1> QED
  BY <1>2, <1>3, <1>5, <1>6

\* deallocate of an untracked block.
LEMMA FreeUntrackedSafe ==
  ASSUME Base, Safe, NEW t \in Threads, FreeUntracked(t)
  PROVE  Safe'
<1>1. pc[t] = "rawfree" /\ LocFit("rawfree", loc[t]) /\ loc[t] \in LocType /\ ThreadSafe("rawfree", loc[t])
  BY AtThread, SafeAt DEF FreeUntracked
<1>2. PICK x \in LocType : x = loc[t]
  BY <1>1
<1>3. PICK p \in Addr : p = x.ptr
  BY <1>2, FreeUntrackedBase
<1>4. Whole(p) /\ p # Null /\ x.alarm = "NONE" /\ p \in Hand(t)
  <2>1. Whole(p) /\ p # Null /\ x.alarm = "NONE"
    BY <1>1, <1>2, <1>3 DEF LocFit, Freeing, ThreadSafe, OldFit, AlarmFit
  <2> QED
    BY <1>1, <1>2, <1>3, <2>1 DEF Hand, HandOf, OldOf
<1>5. RawFree(p) /\ UNCHANGED <<shards, header, damaged, owned>> /\ ~aborted
  BY <1>2, <1>3 DEF FreeUntracked, tracker, app, history
<1>6. /\ ~aborted' /\ Layout' /\ Headers' /\ Records'
      /\ \A q \in Addr \ {p} : Same(q)
  BY <1>4, <1>5, WholeFreed
<1>7. "done" \in Labels /\ LocFit("done", x)
  BY <1>1, <1>2 DEF Labels, LocFit, InAlloc, Freeing
<1>8. ThreadSafe("done", x) /\ HandOf("done", x) = NewOf(x) /\ OldOf("done", x) = {}
  BY <1>1, <1>2, <1>4 DEF ThreadSafe, OldFit, NewFit, AlarmFit, Moving, HandOf, OldOf
<1>9. NewOf(x) \subseteq Hand(t) /\ p \notin NewOf(x) /\ p \notin owned
  BY <1>1, <1>2, <1>3, <1>4, SafeAt DEF Hand, HandOf, OldOf
<1>10. ThreadSafe("done", x)'
  <2>1. \A q \in HandOf("done", x) : Same(q)
    BY <1>6, <1>8, <1>9, HandLive
  <2> QED
    BY <1>7, <1>8, <2>1, ThreadKept
<1>11. \A q \in owned' : Good(q)'
  <2>1. \A q \in owned : Same(q) /\ Good(q)
    BY <1>6, <1>9, OwnedLive, SafeAt
  <2> QED
    BY <1>5, <2>1 DEF Good, Whole, Block, Known, Same
<1>12. HandOf("done", x) \cap owned' = {}
  BY <1>5, <1>8, <1>9, SafeAt
<1>13. \A q \in HandOf("done", x) \cup owned' : q \in Addr /\ (Live(q) => q \in Hand(t) \cup owned)
  BY <1>5, <1>8, <1>9, HandLive, OwnedLive
<1>14. Moves(t, "done", x)
  BY <1>2, FreeUntrackedBase
<1> QED
  BY <1>4, <1>6, <1>7, <1>8, <1>10, <1>11, <1>12, <1>13, <1>14, SafeStep

\* Nothing is found by its header alone.
LEMMA FreeAdoptSafe ==
  ASSUME Base, Safe, NEW t \in Threads
  PROVE  ~FreeAdopt(t)
  BY SafeAt DEF ThreadSafe, OldFit, FreeAdopt

\* An untracked block of the application goes to the system.
LEMMA PassesSafe ==
  ASSUME Base, Safe, NEW t \in Threads, NEW p \in Addr, Passes(t, p), heap[p] = 1
  PROVE  Safe'
<1>1. p \in owned /\ owned' = owned \ {p} /\ RawFree(p)
  BY DEF Passes, Part
<1>2. Whole(p) /\ p \in Addr /\ p \notin Hand(t)
  BY <1>1, SafeAt DEF Whole
<1>3. UNCHANGED <<shards, header, damaged>> /\ ~aborted
  BY DEF Passes, tracker, history
<1>4. /\ ~aborted' /\ Layout' /\ Headers' /\ Records'
      /\ \A q \in Addr \ {p} : Same(q)
  BY <1>1, <1>2, <1>3, WholeFreed
<1>5. PICK l \in Labels, x \in LocType :
        /\ l = pc[t] /\ x = loc[t] /\ LocFit(l, x) /\ ThreadSafe(l, x) /\ HandOf(l, x) = Hand(t)
        /\ OldOf(l, x) \cap NewOf(x) = {}
  BY AtThread, SafeAt
<1>6. ThreadSafe(l, x)'
  <2>1. \A q \in HandOf(l, x) : Same(q)
    BY <1>2, <1>4, <1>5, HandLive
  <2> QED
    BY <1>5, <2>1, ThreadKept
<1>7. \A q \in owned' : Good(q)'
  <2>1. \A q \in owned' : Same(q) /\ Good(q)
    BY <1>1, <1>4, OwnedLive, SafeAt
  <2> QED
    BY <2>1 DEF Good, Whole, Block, Known, Same
<1>8. HandOf(l, x) \cap owned' = {}
  BY <1>1, <1>5, SafeAt
<1>9. \A q \in HandOf(l, x) \cup owned' : q \in Addr /\ (Live(q) => q \in Hand(t) \cup owned)
  BY <1>1, <1>5, HandLive, OwnedLive
<1>10. Moves(t, l, x)
  BY <1>5, PassesBase
<1> QED
  BY <1>1, <1>2, <1>4, <1>5, <1>6, <1>7, <1>8, <1>9, <1>10, SafeStep

\* The record is there.
LEMMA AllocInsertSafe ==
  ASSUME Base, Safe, NEW t \in Threads, AllocInsert(t)
  PROVE  Safe'
<1>1. pc[t] = "insert" /\ LocFit("insert", loc[t]) /\ loc[t] \in LocType /\ ThreadSafe("insert", loc[t])
  BY AtThread, SafeAt DEF AllocInsert
<1>2. PICK x \in LocType : x = loc[t]
  BY <1>1
<1>3. PICK p \in Addr : p = x.new
  BY <1>2, AllocInsertBase
<1>4. /\ \A q \in Addr : /\ Known(q)' <=> Known(q) \/ q = p
                         /\ Entry(q)' = IF q = p THEN x.rec ELSE Entry(q)
      /\ Moves(t, "watchdog", x)
  BY <1>2, <1>3, AllocInsertBase, ManagerAssumption
<1>5. UNCHANGED <<heap, header, damaged, aborted, owned>>
  BY DEF AllocInsert, memory, app
<1>6. p # Null /\ Block(p) /\ x.rec.raw = p - 1 /\ p \in Hand(t)
  <2>1. p # Null
    BY ManagerAssumption
  <2> QED
    BY <1>1, <1>2, <1>3, <2>1 DEF ThreadSafe, NewFit, Hand, HandOf, NewOf
<1>7. \A q \in Addr \ {p} : Same(q)
  BY <1>4, <1>5 DEF Same, Known
<1>8. Records'
  <2>1. \A q \in Addr : Block(q)' <=> Block(q)
    BY <1>5 DEF Block
  <2>2. ASSUME NEW q \in Addr, Known(q)' PROVE Block(q)' /\ Entry(q)' .raw = q - 1
    <3>1. CASE q = p
      BY <1>4, <1>6, <2>1, <3>1
    <3>2. CASE q # p
      <4>1. Known(q) /\ Entry(q)' = Entry(q)
        BY <1>4, <2>2, <3>2
      <4> QED
        BY <2>1, <4>1 DEF Safe, Records
    <3> QED
      BY <3>1, <3>2
  <2> QED
    BY <2>2 DEF Records
<1>9. ~aborted' /\ Layout' /\ Headers'
  BY <1>5 DEF Safe, Layout, Headers
<1>10. "watchdog" \in Labels /\ LocFit("watchdog", x)
  BY <1>1, <1>2 DEF Labels, LocFit, InAlloc, Freeing
<1>11. /\ HandOf("watchdog", x) = Hand(t) /\ OldOf("watchdog", x) = OldOf(pc[t], loc[t]) /\ NewOf(x) = NewOf(loc[t])
       /\ NewOf(x) = {p}
  BY <1>1, <1>2, <1>3, <1>6 DEF Hand, HandOf, OldOf, NewOf
<1>12. ThreadSafe("watchdog", x)'
  <2>1. Good(p)'
    <3>1. Known(p)' /\ Block(p)'
      BY <1>4, <1>5, <1>6 DEF Block
    <3> QED
      BY <3>1 DEF Good
  <2>2. NewFit("watchdog", x)'
    BY <1>3, <2>1 DEF NewFit, Good, Whole, Block, Known
  <2>3. x.goal = "realloc" => x.ptr \in Addr /\ Block(x.ptr) /\ Known(x.ptr)
    <3>1. x.goal = "realloc" => x.ptr # Null
      BY <1>1, <1>2 DEF LocFit
    <3> QED
      BY <1>1, <1>2, <3>1 DEF ThreadSafe, OldFit, Moving, LocType
  <2>4. x.goal = "realloc" => Block(x.ptr)' /\ Known(x.ptr)'
    BY <1>4, <1>5, <2>3 DEF Block
  <2>5. OldFit("watchdog", x)'
    BY <2>4 DEF OldFit, Moving, Block, Known
  <2>6. AlarmFit("watchdog", x)'
    BY <1>1, <1>2 DEF ThreadSafe, AlarmFit
  <2> QED
    BY <2>2, <2>5, <2>6 DEF ThreadSafe
<1>13. \A q \in owned' : Good(q)'
  <2>1. \A q \in owned : Same(q) /\ Good(q)
    BY <1>6, <1>7, OwnedLive, SafeAt
  <2> QED
    BY <1>5, <2>1 DEF Good, Whole, Block, Known, Same
<1>14. HandOf("watchdog", x) \cap owned' = {} /\ OldOf("watchdog", x) \cap NewOf(x) = {}
  BY <1>5, <1>11, SafeAt
<1>15. \A q \in HandOf("watchdog", x) \cup owned' : q \in Addr /\ (Live(q) => q \in Hand(t) \cup owned)
  BY <1>5, <1>11, HandLive, OwnedLive
<1> QED
  BY <1>4, <1>6, <1>7, <1>8, <1>9, <1>10, <1>12, <1>13, <1>14, <1>15, SafeStep

\* What erase of p leaves alone.
LEMMA EraseFacts ==
  ASSUME Base, Safe, NEW p \in Addr,
         \A q \in Addr : /\ Known(q)' <=> Known(q) /\ q # p
                         /\ q # p => Entry(q)' = Entry(q),
         UNCHANGED <<heap, header, damaged, aborted, owned>>, p \notin owned
  PROVE  /\ \A q \in Addr \ {p} : Same(q)
         /\ ~aborted' /\ Layout' /\ Headers' /\ Records'
         /\ \A q \in owned' : Good(q)'
<1>1. \A q \in Addr \ {p} : Same(q)
  BY DEF Same, Known
<1>2. ~aborted' /\ Layout' /\ Headers'
  BY DEF Safe, Layout, Headers
<1>3. Records'
  <2>1. ASSUME NEW q \in Addr, Known(q)' PROVE Block(q)' /\ Entry(q)' .raw = q - 1
    <3>1. Known(q) /\ Entry(q)' = Entry(q)
      BY <2>1
    <3>2. Block(q)' <=> Block(q)
      BY DEF Block
    <3> QED
      BY <3>1, <3>2 DEF Safe, Records
  <2> QED
    BY <2>1 DEF Records
<1>4. \A q \in owned' : Good(q)'
  <2>1. \A q \in owned : Same(q) /\ Good(q)
    BY <1>1, OwnedLive DEF Safe
  <2> QED
    BY <2>1 DEF Good, Whole, Block, Known, Same
<1> QED
  BY <1>1, <1>2, <1>3, <1>4

\* The tracker is asked for the record.
LEMMA FreeEraseSafe ==
  ASSUME Base, Safe, NEW t \in Threads, FreeErase(t)
  PROVE  Safe'
<1>1. pc[t] = "erase" /\ LocFit("erase", loc[t]) /\ loc[t] \in LocType /\ ThreadSafe("erase", loc[t])
  BY AtThread, SafeAt DEF FreeErase
<1>2. PICK y \in LocType : y = loc[t]
  BY <1>1
<1>3. PICK p \in Addr : p = y.ptr
  BY <1>2, FreeEraseBase
<1>4. /\ \A q \in Addr : /\ Known(q)' <=> Known(q) /\ q # p
                         /\ q # p => Entry(q)' = Entry(q)
      /\ \/ Known(p) /\ Moves(t, "verify", [y EXCEPT !.rec = Entry(p)])
         \/ ~Known(p) /\ Moves(t, "done", [y EXCEPT !.alarm = "DOUBLE_FREE"])
         \/ ~Known(p) /\ Moves(t, "candidate", y)
  <2>1. Addr = Ptr
    BY ManagerAssumption
  <2> QED
    BY <1>2, <1>3, <2>1, FreeEraseBase
<1>5. UNCHANGED <<heap, header, damaged, aborted, owned>>
  BY DEF FreeErase, memory, app
<1>6. /\ p # Null /\ Good(p) /\ p \in Hand(t) /\ p \notin owned
      /\ y.goal = "realloc" => Known(p)
      /\ y.alarm # "NONE" => y.goal = "realloc" /\ y.alarm # "DOUBLE_FREE"
      /\ y.new # Null => Good(y.new) /\ y.new \in Addr \ {p} /\ y.goal = "realloc"
      /\ HandOf("erase", y) = Hand(t) /\ OldOf("erase", y) = {p} /\ p \notin NewOf(y)
  <2>1. p # Null /\ Good(p)
    BY <1>1, <1>2, <1>3, ManagerAssumption DEF ThreadSafe, OldFit
  <2>2. HandOf("erase", y) = Hand(t) /\ OldOf("erase", y) = {p} /\ p \notin NewOf(y)
    BY <1>1, <1>2, <1>3, <2>1, SafeAt DEF OldOf
  <2>3. p \in Hand(t) /\ p \notin owned
    BY <2>2, SafeAt DEF HandOf
  <2>4. y.goal = "realloc" => Known(p)
    BY <1>1, <1>2, <1>3 DEF ThreadSafe, OldFit
  <2>5. y.alarm # "NONE" => y.goal = "realloc" /\ y.alarm # "DOUBLE_FREE"
    BY <1>1, <1>2 DEF ThreadSafe, AlarmFit
  <2>6. y.new # Null => Good(y.new) /\ y.goal = "realloc"
    BY <1>1, <1>2 DEF ThreadSafe, NewFit, LocFit, Freeing
  <2>7. y.new # Null => y.new \in Addr \ {p}
    BY <2>2 DEF NewOf, LocType
  <2> QED
    BY <2>1, <2>2, <2>3, <2>4, <2>5, <2>6, <2>7
<1>7. /\ \A q \in Addr \ {p} : Same(q)
      /\ ~aborted' /\ Layout' /\ Headers' /\ Records'
      /\ \A q \in owned' : Good(q)'
  BY <1>4, <1>5, <1>6, EraseFacts
<1>8. y.new # Null => Good(y.new)'
  BY <1>6, <1>7 DEF Good, Whole, Block, Known, Same
<1>9. ~Known(p)' /\ (Block(p) => Block(p)') /\ (Whole(p) => Whole(p)')
  BY <1>4, <1>5 DEF Block, Whole
<1>10. ASSUME NEW l \in Labels, NEW x \in LocType, LocFit(l, x), Moves(t, l, x), ThreadSafe(l, x)',
              x.ptr = p, x.new = y.new, l = "done" => x.alarm # "NONE"
       PROVE  Safe'
  <2>1. HandOf(l, x) = Hand(t) /\ OldOf(l, x) = {p} /\ NewOf(x) = NewOf(y)
    BY <1>6, <1>10 DEF HandOf, OldOf, NewOf
  <2>2. OldOf(l, x) \cap NewOf(x) = {} /\ HandOf(l, x) \cap owned' = {}
    BY <1>5, <1>6, <2>1, SafeAt
  <2>3. \A q \in HandOf(l, x) \cup owned' : q \in Addr /\ (Live(q) => q \in Hand(t) \cup owned)
    BY <1>5, <2>1, HandLive, OwnedLive
  <2> QED
    BY <1>6, <1>7, <1>10, <2>2, <2>3, SafeStep
<1>11. CASE Known(p) /\ Moves(t, "verify", [y EXCEPT !.rec = Entry(p)])
  <2>1. PICK r : r = Entry(p)
    OBVIOUS
  <2>2. r \in Rec /\ r.raw = p - 1 /\ Block(p)
    <3>1. p \in Ptr /\ ShardOf[p] \in Shards
      BY ManagerAssumption
    <3>2. r \in Rec
      BY <1>11, <2>1, <3>1, BaseData DEF Known, Tracked, Entry, ShardType
    <3> QED
      BY <1>11, <2>1, <3>2, GoodCases
  <2>3. PICK x \in LocType : x = [y EXCEPT !.rec = r]
    BY <2>2 DEF LocType
  <2>4. x.ptr = p /\ x.new = y.new /\ x.goal = y.goal /\ x.rec = r /\ x.alarm = y.alarm
    BY <1>3, <2>3 DEF LocType
  <2>5. LocFit("verify", x) /\ "verify" \in Labels
    BY <1>1, <1>2, <1>3, <2>2, <2>4 DEF LocFit, InAlloc, Freeing, Labels
  <2>6. OldFit("verify", x)'
    BY <1>9, <2>2, <2>4 DEF OldFit, Moving, Block, Known
  <2>7. NewFit("verify", x)'
    BY <1>8, <2>4 DEF NewFit, Good, Whole, Block, Known
  <2>8. AlarmFit("verify", x)'
    BY <1>6, <2>4 DEF AlarmFit, Whole
  <2>9. ThreadSafe("verify", x)' /\ Moves(t, "verify", x)
    BY <1>11, <2>1, <2>3, <2>6, <2>7, <2>8 DEF ThreadSafe
  <2> QED
    BY <1>10, <2>4, <2>5, <2>9
<1>12. CASE ~Known(p) /\ Moves(t, "done", [y EXCEPT !.alarm = "DOUBLE_FREE"])
  <2>1. Whole(p)' /\ y.goal # "realloc"
    BY <1>6, <1>9, <1>12, GoodCases
  <2>2. PICK x \in LocType : x = [y EXCEPT !.alarm = "DOUBLE_FREE"]
    BY DEF LocType, Verdicts
  <2>3. x.ptr = p /\ x.new = y.new /\ x.goal = y.goal /\ x.alarm = "DOUBLE_FREE"
    BY <1>3, <2>2 DEF LocType
  <2>4. LocFit("done", x) /\ "done" \in Labels
    BY <1>1, <1>2, <1>3, <2>3 DEF LocFit, InAlloc, Freeing, Labels
  <2>5. OldFit("done", x)'
    BY <2>3 DEF OldFit, Moving
  <2>6. NewFit("done", x)'
    BY <1>8, <2>3 DEF NewFit, Good, Whole, Block, Known
  <2>7. AlarmFit("done", x)'
    BY <2>1, <2>3 DEF AlarmFit, Whole
  <2>8. ThreadSafe("done", x)' /\ Moves(t, "done", x)
    BY <1>12, <2>2, <2>5, <2>6, <2>7 DEF ThreadSafe
  <2> QED
    BY <1>10, <2>3, <2>4, <2>8
<1>13. CASE ~Known(p) /\ Moves(t, "candidate", y)
  <2>1. Whole(p)' /\ y.goal # "realloc" /\ y.alarm = "NONE"
    BY <1>6, <1>9, <1>13, GoodCases
  <2>2. LocFit("candidate", y) /\ "candidate" \in Labels
    BY <1>1, <1>2 DEF LocFit, InAlloc, Freeing, Labels
  <2>3. OldFit("candidate", y)'
    BY <1>3, <2>1 DEF OldFit, Moving, Whole
  <2>4. NewFit("candidate", y)'
    BY <1>8 DEF NewFit, Good, Whole, Block, Known
  <2>5. AlarmFit("candidate", y)'
    BY <2>1 DEF AlarmFit
  <2>6. ThreadSafe("candidate", y)'
    BY <2>3, <2>4, <2>5 DEF ThreadSafe
  <2> QED
    BY <1>3, <1>10, <1>13, <2>2, <2>6
<1> QED
  BY <1>4, <1>11, <1>12, <1>13

\* The application overruns a block that it holds.
LEMMA DamageSafe ==
  ASSUME Base, Safe, NEW t \in Threads, Damage(t)
  PROVE  Safe'
<1>1. PICK p \in owned :
        /\ p - 1 \in Addr /\ heap[p - 1] = 2
        /\ \/ header' = [header EXCEPT ![p - 1].words = 0]
           \/ header' = [header EXCEPT ![p - 1].magic = "none"]
        /\ damaged' = damaged \cup {p}
  BY DEF Damage
<1>2. PICK a \in Addr : a = p - 1 /\ a + 1 = p
  BY <1>1, BaseData DEF Addr
<1>3. UNCHANGED <<shards, heap, aborted, owned>> /\ pc[t] = "app"
  BY DEF Damage, tracker, app, Call
<1>4. /\ header[a].magic # "freed" /\ heap[a] = 2
      /\ \A b \in Addr \ {a} : header'[b] = header[b]
      /\ header'[a].magic \in {header[a].magic, "none"}
  <2>1. heap[a] = 2 /\ header[a].magic # "freed"
    BY <1>1, <1>2 DEF Safe, Headers
  <2>2. header \in [Addr -> HeaderType]
    BY BaseData
  <2>3. CASE header' = [header EXCEPT ![a].words = 0]
    BY <2>1, <2>2, <2>3 DEF HeaderType
  <2>4. CASE header' = [header EXCEPT ![a].magic = "none"]
    BY <2>1, <2>2, <2>4 DEF HeaderType
  <2> QED
    BY <1>1, <1>2, <2>3, <2>4
<1>5. Headers'
  <2>1. ASSUME NEW b \in Addr
        PROVE  /\ header'[b].magic = "header" => heap'[b] = 2
               /\ heap'[b] = 2 => header'[b].magic # "freed"
               /\ heap'[b] = 2 /\ header'[b].magic = "none" => b + 1 \in damaged'
    <3>1. CASE b = a
      BY <1>1, <1>2, <1>3, <1>4, <3>1
    <3>2. CASE b # a
      BY <1>1, <1>3, <1>4, <3>2 DEF Safe, Headers
    <3> QED
      BY <3>1, <3>2
  <2> QED
    BY <2>1 DEF Headers
<1>6. ~aborted' /\ Layout' /\ Records'
  BY <1>3 DEF Safe, Layout, Records, Known, Block, Entry
<1>7. \A q \in Addr : Same(q)
  BY <1>3 DEF Same
<1>8. PICK l \in Labels, x \in LocType :
        /\ l = pc[t] /\ x = loc[t] /\ LocFit(l, x) /\ ThreadSafe(l, x) /\ HandOf(l, x) = Hand(t)
        /\ OldOf(l, x) \cap NewOf(x) = {}
  BY AtThread, SafeAt
<1>9. ThreadSafe(l, x)' /\ \A q \in owned' : Good(q)'
  BY <1>3, <1>8, SafeAt DEF ThreadSafe, OldFit, NewFit, AlarmFit, Good, Whole, Block, Known
<1>10. HandOf(l, x) \cap owned' = {}
  BY <1>3, <1>8, SafeAt
<1>11. \A q \in HandOf(l, x) \cup owned' : q \in Addr /\ (Live(q) => q \in Hand(t) \cup owned)
  BY <1>3, <1>8, HandLive, OwnedLive
<1>12. Moves(t, l, x) /\ Null \notin Addr
  BY <1>8, DamageBase, ManagerAssumption
<1> QED
  BY <1>5, <1>6, <1>7, <1>8, <1>9, <1>10, <1>11, <1>12, SafeStep

\* The program starts with nothing in hand.
LEMMA InitSafe == Init => Safe
<1> SUFFICES ASSUME Init PROVE Safe
  OBVIOUS
<1>1. /\ NoLoc \in LocType /\ ThreadSafe("app", NoLoc)
      /\ HandOf("app", NoLoc) = {} /\ OldOf("app", NoLoc) = {}
  BY DEF NoLoc, LocType, LocFit, Verdicts, InAlloc, Freeing, Labels, ThreadSafe, OldFit, NewFit, AlarmFit,
         Moving, HandOf, OldOf, NewOf
<1>2. \A t \in Threads : pc[t] = "app" /\ loc[t] = NoLoc
  BY DEF Init
<1>3. Apart /\ \A t \in Threads : ThreadSafe(pc[t], loc[t])
  BY <1>1, <1>2 DEF Init, Apart, Hand
<1>4. \A a \in Addr : heap[a] = 0 /\ header[a].magic = "none"
  BY DEF Init, NoHeader
<1>5. \A p \in Addr : ~Known(p)
  BY ManagerAssumption DEF Init, Known, EmptyShard, Tracked
<1> QED
  BY <1>3, <1>4, <1>5 DEF Init, Safe, Layout, Headers, Records

\* No step takes a misuse back.
LEMMA MisusesGrow ==
  ASSUME Base, [Next]_vars
  PROVE  misuses' \in {misuses, misuses + 1} /\ (ProperUse' => ProperUse /\ misuses' = misuses)
<1>1. misuses' \in {misuses, misuses + 1}
  <2>1. CASE UNCHANGED vars
    BY <2>1 DEF vars, app
  <2>2. ASSUME NEW t \in Threads, CallAlloc(t) \/ AllocFallback(t) \/ AllocUnsampled(t) \/ AllocBlock(t)
                                  \/ AllocCount(t) \/ AllocInsert(t) \/ AllocWatchdog(t) \/ CallbackReturns(t)
        PROVE  misuses' = misuses
    BY <2>2 DEF CallAlloc, AllocFallback, AllocUnsampled, AllocBlock, AllocCount, AllocInsert, AllocWatchdog,
                CallbackReturns, AllocReturn, Give, app
  <2>3. ASSUME NEW t \in Threads, CallFree(t) \/ CallbackFrees(t)
        PROVE  misuses' \in {misuses, misuses + 1}
    BY <2>3 DEF CallFree, CallbackFrees
  <2>4. ASSUME NEW t \in Threads, FreeErase(t) \/ FreeVerify(t) \/ FreeUncount(t) \/ FreeRelease(t)
                                  \/ FreeCandidate(t) \/ FreeAdopt(t) \/ FreeUntracked(t) \/ FreeReturn(t)
        PROVE  misuses' = misuses
    BY <2>4 DEF FreeErase, FreeVerify, FreeUncount, FreeRelease, FreeCandidate, FreeAdopt, FreeUntracked,
                FreeReturn, Give, app
  <2>5. ASSUME NEW t \in Threads, Realloc(t) \/ Damage(t) \/ TakeReport(t) \/ Shutdown(t) \/ Initialize(t)
        PROVE  misuses' = misuses
    BY <2>5 DEF Realloc, CallRealloc, ReallocFind, ReallocRaw, ReallocNothing, ReallocVerify, ReallocCopy,
                Damage, TakeReport, Shutdown, Initialize, Give, app
  <2> QED
    BY <2>1, <2>2, <2>3, <2>4, <2>5 DEF Next, Rest, Alloc, Dealloc
<1>2. misuses \in Nat
  BY BaseData
<1> QED
  BY <1>1, <1>2 DEF ProperUse

\* Only a reallocate of the application makes a thread move a block.
LEMMA StepCalls ==
  ASSUME Base, CallsInv, [Next]_vars
  PROVE  CallsInv'
<1>1. "shutdown" \notin Calls => initialized'
  <2> DEFINE Stays == initialized' = initialized \/ initialized' = TRUE \/ "shutdown" \in Calls
  <2>1. ASSUME NEW t \in Threads, Alloc(t) PROVE Stays
    BY <2>1 DEF Alloc, CallAlloc, AllocFallback, AllocUnsampled, AllocBlock, AllocCount, AllocInsert,
                AllocWatchdog, CallbackReturns, CallbackFrees
  <2>2. ASSUME NEW t \in Threads, Dealloc(t) PROVE Stays
    BY <2>2 DEF Dealloc, CallFree, FreeErase, FreeVerify, FreeUncount, FreeRelease, FreeCandidate, FreeAdopt,
                FreeUntracked, FreeReturn
  <2>3. ASSUME NEW t \in Threads,
               Realloc(t) \/ Damage(t) \/ TakeReport(t) \/ Shutdown(t) \/ Initialize(t)
        PROVE  Stays
    BY <2>3 DEF Realloc, CallRealloc, ReallocFind, ReallocRaw, ReallocNothing, ReallocVerify, ReallocCopy,
                Damage, TakeReport, Shutdown, Initialize
  <2>4. Stays
    BY <2>1, <2>2, <2>3 DEF Next, Rest, vars
  <2> QED
    BY <2>4 DEF CallsInv
<1> DEFINE Keeps(u) == loc'[u].goal = "realloc" => loc[u].goal = "realloc" \/ "realloc" \in Calls
<1>2. loc \in [Threads -> LocType]
  BY DEF Base, Types
<1>3. ASSUME NEW t \in Threads, NEW x, x.goal = "realloc" => loc[t].goal = "realloc" \/ "realloc" \in Calls,
             loc' = [loc EXCEPT ![t] = x]
      PROVE  \A u \in Threads : Keeps(u)
  BY <1>2, <1>3
<1>4. NoLoc.goal = "none"
  BY DEF NoLoc
<1>5. ASSUME NEW t \in Threads, NEW p, AllocReturn(t, p)
      PROVE  \A u \in Threads : Keeps(u)
  BY <1>2, <1>4, <1>5 DEF AllocReturn, LocType
<1>6. ASSUME NEW t \in Threads, Alloc(t) PROVE \A u \in Threads : Keeps(u)
  <2>1. CASE CallAlloc(t)
    <3>1. [NoLoc EXCEPT !.goal = "alloc"].goal = "alloc"
      BY DEF NoLoc
    <3> QED
      BY <1>3, <2>1, <3>1 DEF CallAlloc
  <2>2. CASE AllocFallback(t) \/ AllocUnsampled(t) \/ AllocWatchdog(t) \/ CallbackReturns(t)
    BY <1>5, <2>2 DEF AllocFallback, AllocUnsampled, AllocWatchdog, CallbackReturns
  <2>3. CASE AllocBlock(t)
    <3>1. CASE AllocReturn(t, Null)
      BY <1>5, <3>1
    <3>2. ASSUME NEW r, loc' = [loc EXCEPT ![t].new = r + 1, ![t].rec = [id |-> counter, raw |-> r]]
          PROVE  \A u \in Threads : Keeps(u)
      <4>1. PICK s, c : s = r + 1 /\ c = [id |-> counter, raw |-> r]
        OBVIOUS
      <4>2. loc' = [loc EXCEPT ![t].new = s, ![t].rec = c]
        BY <3>2, <4>1
      <4> QED
        BY <1>2, <4>2 DEF LocType
    <3> QED
      BY <2>3, <3>1, <3>2 DEF AllocBlock
  <2>4. CASE AllocCount(t) \/ AllocInsert(t) \/ CallbackFrees(t)
    BY <2>4 DEF AllocCount, AllocInsert, CallbackFrees
  <2> QED
    BY <1>6, <2>1, <2>2, <2>3, <2>4 DEF Alloc
<1>7. ASSUME NEW t \in Threads, Dealloc(t) PROVE \A u \in Threads : Keeps(u)
  <2>1. CASE CallFree(t)
    <3>1. PICK p : loc' = [loc EXCEPT ![t] = [NoLoc EXCEPT !.ptr = p]]
      BY <2>1 DEF CallFree
    <3>2. [NoLoc EXCEPT !.ptr = p].goal = "none"
      BY DEF NoLoc
    <3> QED
      BY <1>3, <3>1, <3>2
  <2>2. CASE FreeErase(t) \/ FreeVerify(t)
    BY <1>2, <2>2 DEF FreeErase, FreeVerify, LocType
  <2>3. CASE FreeUncount(t) \/ FreeRelease(t) \/ FreeCandidate(t) \/ FreeAdopt(t) \/ FreeUntracked(t)
    BY <2>3 DEF FreeUncount, FreeRelease, FreeCandidate, FreeAdopt, FreeUntracked
  <2>4. CASE FreeReturn(t)
    BY <1>3, <1>4, <2>4 DEF FreeReturn
  <2> QED
    BY <1>7, <2>1, <2>2, <2>3, <2>4 DEF Dealloc
<1>8. ASSUME NEW t \in Threads, Realloc(t) PROVE \A u \in Threads : Keeps(u)
  <2>1. CASE CallRealloc(t)
    <3>1. "realloc" \in Calls
      BY <2>1 DEF CallRealloc
    <3> QED
      BY <3>1
  <2>2. CASE ReallocFind(t) \/ ReallocVerify(t)
    BY <1>2, <2>2 DEF ReallocFind, ReallocVerify, LocType
  <2>3. CASE ReallocRaw(t)
    BY <1>3, <1>4, <2>3 DEF ReallocRaw
  <2>4. CASE ReallocCopy(t)
    BY <1>3, <1>4, <2>4 DEF ReallocCopy
  <2>5. CASE ReallocNothing(t)
    BY <2>5 DEF ReallocNothing
  <2> QED
    BY <1>8, <2>1, <2>2, <2>3, <2>4, <2>5 DEF Realloc
<1>9. \A u \in Threads : Keeps(u)
  BY <1>6, <1>7, <1>8 DEF Next, Rest, vars, Damage, TakeReport, Shutdown, Initialize
<1> QED
  BY <1>1, <1>9 DEF CallsInv

\* The Manager starts initialised, and no thread in a call.
LEMMA InitCalls == Init => CallsInv
  BY DEF Init, CallsInv, NoLoc

\* A realloc to size zero past the tracker gets an untracked block.
LEMMA NothingUntracked ==
  ASSUME Base, CallsInv, NoLateRealloc, NEW t \in Threads, ReallocNothing(t)
  PROVE  \E p \in Addr : Passes(t, p) /\ heap[p] = 1
  BY NothingPasses DEF CallsInv, NoLateRealloc

\* Every step of a program that frees what it owns keeps the blocks apart.
LEMMA StepSafe ==
  ASSUME Base, CallsInv, NoLateRealloc, Safe, [Next]_vars, misuses' = misuses
  PROVE  Safe'
<1>1. CASE UNCHANGED vars
  <2>1. /\ UNCHANGED <<shards, heap, header, pc, loc, owned, aborted, damaged>>
    BY <1>1 DEF vars, tracker, memory, app, history
  <2> QED
    BY <2>1 DEF Safe, Layout, Headers, Records, Apart, Hand, HandOf, OldOf, NewOf, ThreadSafe, OldFit, NewFit,
                AlarmFit, Good, Whole, Block, Known, Entry
<1>2. ASSUME NEW t \in Threads, Alloc(t) PROVE Safe'
  BY <1>2, CallAllocSafe, AllocRawSafe, AllocBlockSafe, AllocCountSafe, AllocInsertSafe, AllocWatchdogSafe,
     CallbackPasses, PassesSafe DEF Alloc
<1>3. ASSUME NEW t \in Threads, Dealloc(t) PROVE Safe'
  BY <1>3, CallFreeSafe, FreeEraseSafe, FreeVerifySafe, FreeUncountSafe, FreeReleaseSafe, FreeCandidateSafe,
     FreeAdoptSafe, FreeUntrackedSafe, FreeReturnSafe DEF Dealloc
<1>4. ASSUME NEW t \in Threads, Realloc(t) PROVE Safe'
  BY <1>4, CallReallocSafe, ReallocFindSafe, ReallocRawSafe, NothingUntracked, PassesSafe, ReallocVerifySafe,
     ReallocCopySafe DEF Realloc
<1>5. ASSUME NEW t \in Threads, Damage(t) \/ TakeReport(t) \/ Shutdown(t) \/ Initialize(t) PROVE Safe'
  BY <1>5, DamageSafe, TakeReportSafe, LifecycleSafe
<1> QED
  BY <1>1, <1>2, <1>3, <1>4, <1>5 DEF Next, Rest

\* As long as the application frees what it owns, all is safe.
SafeInv == Base /\ CallsInv /\ (ProperUse => Safe)

\* Every step keeps the blocks of a program safe that frees what it owns.
LEMMA StepSafeInv == NoLateRealloc /\ SafeInv /\ [Next]_vars => SafeInv'
<1> SUFFICES ASSUME NoLateRealloc, SafeInv, [Next]_vars PROVE SafeInv'
  OBVIOUS
<1>1. Base' /\ CallsInv'
  BY StepBase, StepCalls DEF SafeInv
<1>2. ProperUse' => ProperUse /\ misuses' = misuses
  BY MisusesGrow DEF SafeInv
<1>3. ProperUse' => Safe'
  BY <1>2, StepSafe DEF SafeInv
<1> QED
  BY <1>1, <1>3 DEF SafeInv

\* They are safe throughout.
LEMMA SafeInvariance ==
  ASSUME NoLateRealloc
  PROVE  Spec => []SafeInv
<1>1. Init => SafeInv
  BY InitBase, InitCalls, InitSafe DEF SafeInv
<1>2. SafeInv /\ [Next]_vars => SafeInv'
  BY StepSafeInv
<1> QED
  BY <1>1, <1>2, PTL DEF Spec

\* An application that frees only what it owns never makes the Manager hand the
\* system a pointer that malloc did not return (memsentry.cpp:299-334).
THEOREM HeapNeverMisusedHolds ==
  ASSUME NoLateRealloc
  PROVE  Spec => []HeapNeverMisused
<1>1. SafeInv => HeapNeverMisused
  BY DEF SafeInv, Safe, HeapNeverMisused
<1> QED
  BY <1>1, SafeInvariance, PTL

\* A record leads to a block that is allocated and whose header the Manager
\* wrote: no record ever outlives its memory (memsentry.cpp:237-266, 299-314).
THEOREM RecordsStayLive ==
  ASSUME NoLateRealloc
  PROVE  Spec => []RecordsAreLive
<1>1. SafeInv => RecordsAreLive
  <2> SUFFICES ASSUME SafeInv, ProperUse, NEW p \in AllTracked
               PROVE  LET r == shards[ShardOf[p]].records[p].raw
                      IN heap[r] = 2 /\ p = r + 1 /\ (header[r].magic = "header" \/ p \in damaged)
    BY DEF RecordsAreLive
  <2>1. p \in Addr /\ Known(p)
    <3>1. PICK i \in Shards : p \in Tracked(shards[i])
      BY DEF AllTracked
    <3>2. p \in Addr
      BY <3>1, ManagerAssumption DEF Tracked
    <3>3. ShardOf[p] = i
      BY <3>1, BaseData DEF SafeInv, Homed
    <3> QED
      BY <3>1, <3>2, <3>3 DEF Known
  <2>2. PICK r : r = Entry(p).raw
    OBVIOUS
  <2>3. r \in Addr /\ heap[r] = 2 /\ r = p - 1
    BY <2>1, <2>2 DEF SafeInv, Safe, Records, Block
  <2>4. p = r + 1
    BY <2>1, <2>3 DEF Addr
  <2>5. header[r].magic = "header" \/ p \in damaged
    <3>1. header[r].magic \in {"none", "header", "freed"}
      BY <2>3, BaseData DEF SafeInv, HeaderType
    <3> QED
      BY <2>3, <2>4, <3>1 DEF SafeInv, Safe, Headers
  <2> QED
    BY <2>2, <2>3, <2>4, <2>5 DEF Entry
<1> QED
  BY <1>1, SafeInvariance, PTL

\* The active count is what the tracker and the calls on their way account
\* for (memsentry.cpp:265-266, 299-309).
THEOREM ActiveAccounts ==
  ASSUME NoLateRealloc
  PROVE  Spec => []ActiveAccountsForRecords
<1> DEFINE Exact == ProperUse => active = Accounted
<1>1. Init => Exact
  BY InitActive
<1>2. SafeInv /\ ActiveLow /\ Exact /\ [Next]_vars => Exact'
  <2> SUFFICES ASSUME SafeInv, ActiveLow, Exact, [Next]_vars, ProperUse'
               PROVE  active' = Accounted'
    OBVIOUS
  <2>1. Base /\ Base' /\ ProperUse /\ Safe
    BY StepBase, MisusesGrow DEF SafeInv
  <2>2. Fresh
    <3> SUFFICES ASSUME NEW t \in Threads, pc[t] = "insert" PROVE ~Known(loc[t].new)
      BY DEF Fresh
    <3>1. LocFit("insert", loc[t]) /\ ThreadSafe("insert", loc[t])
      BY <2>1, AtThread, SafeAt
    <3> QED
      BY <3>1 DEF LocFit, ThreadSafe, NewFit
  <2> QED
    BY <2>1, <2>2, StepActive
<1>3. Exact => ActiveAccountsForRecords
  BY DEF ActiveAccountsForRecords, Accounted
<1> QED
  BY <1>1, <1>2, <1>3, SafeInvariance, ActiveInvariance, PTL DEF Spec

-----------------------------------------------------------------------------
(* What the application is told, and that no block is lost.                *)

\* A block the application has not overrun passes the check of its canary.
Sealed == \A a \in Addr :
  heap[a] = 2 /\ a + 1 \notin damaged =>
    header[a].magic = "header" /\ (header[a].canary => header[a].words >= config.footer)

Corrupted == {"HEADER_CORRUPTED", "FOOTER_CORRUPTED"}

\* The application is told of a block it has overrun.
Blames(x, S) == x.alarm \in Corrupted => x.ptr \in S

Blamed == \A t \in Threads : Blames(loc[t], damaged)

\* A block is the application's, or a call has it in hand, or it was overrun.
Held == \A a \in Addr : heap[a] = 2 => a + 1 \in damaged \cup owned \cup UNION {Hand(t) : t \in Threads}

Alerted == Sealed /\ Blamed /\ Held

\* A program that calls init again asks for footers of the same length.  The
\* code compares a block with the footer of the day, not with the one it was
\* written with (memsentry.cpp:303-304, 353-355).
SameFooter == "shutdown" \in Calls => \A c, d \in Configs : c.footer = d.footer

\* Where a thread is after its step, and what it has in hand.
LEMMA Moved ==
  ASSUME Base, NEW t \in Threads, NEW l, NEW x, Moves(t, l, x)
  PROVE  /\ pc'[t] = l /\ loc'[t] = x
         /\ \A u \in Threads \ {t} : pc'[u] = pc[u] /\ loc'[u] = loc[u]
         /\ Hand(t)' = HandOf(l, x)
         /\ \A u \in Threads \ {t} : Hand(u)' = Hand(u)
<1>1. /\ pc'[t] = l /\ loc'[t] = x
      /\ \A u \in Threads \ {t} : pc'[u] = pc[u] /\ loc'[u] = loc[u]
  BY DEF Base, Types, Moves
<1> QED
  BY <1>1 DEF Hand

\* A thread that has been told of a broken block has it in hand.
LEMMA BlamedLive ==
  ASSUME Base, Safe, Blamed, NEW t \in Threads, loc[t].alarm \in Corrupted
  PROVE  loc[t].ptr \in damaged /\ Live(loc[t].ptr) /\ loc[t].ptr \in Hand(t)
<1>1. loc[t].ptr \in damaged
  BY DEF Blamed, Blames
<1>2. loc[t].ptr # Null
  BY <1>1, BaseData, ManagerAssumption
<1>3. loc[t].ptr \in Hand(t)
  BY <1>2 DEF Hand, HandOf, OldOf, Corrupted
<1> QED
  BY <1>1, <1>3, HandLive

\* One thread's step: what was overrun stays known as such as long as it is
\* there, and what the thread or the application had somebody still has.
LEMMA AlertStep ==
  ASSUME Base, Safe, Alerted, NEW t \in Threads, NEW l, NEW x, Moves(t, l, x),
         Sealed', Blames(x, damaged'),
         \A q \in damaged : Live(q) => q \in damaged',
         \A a \in Addr : heap'[a] = 2 => heap[a] = 2 \/ a + 1 \in HandOf(l, x),
         \A q \in Hand(t) \cup owned : Block(q)' => q \in HandOf(l, x) \cup owned' \cup damaged'
  PROVE  Alerted'
<1>1. /\ loc'[t] = x /\ Hand(t)' = HandOf(l, x)
      /\ \A u \in Threads \ {t} : loc'[u] = loc[u] /\ Hand(u)' = Hand(u)
  BY Moved
<1>2. Blamed'
  <2>1. ASSUME NEW u \in Threads PROVE Blames(loc[u], damaged)'
    <3>1. CASE u = t
      BY <1>1, <3>1 DEF Blames
    <3>2. CASE u # t
      <4>1. loc[u].alarm \in Corrupted => loc[u].ptr \in damaged /\ Live(loc[u].ptr)
        BY BlamedLive DEF Alerted
      <4> QED
        BY <1>1, <3>2, <4>1 DEF Blames
    <3> QED
      BY <3>1, <3>2
  <2> QED
    BY <2>1 DEF Blamed
<1>3. Held'
  <2>1. ASSUME NEW a \in Addr, heap'[a] = 2, heap[a] = 2
        PROVE  a + 1 \in damaged' \cup owned' \cup HandOf(l, x) \cup UNION {Hand(u) : u \in Threads \ {t}}
    <3>1. PICK p : p = a + 1 /\ p - 1 = a
      BY DEF Addr
    <3>2. Block(p) /\ Block(p)' /\ Live(p)
      BY <2>1, <3>1 DEF Block, Live
    <3>3. p \in damaged \cup owned \cup Hand(t) \cup UNION {Hand(u) : u \in Threads \ {t}}
      BY <2>1, <3>1 DEF Alerted, Held
    <3> QED
      BY <3>1, <3>2, <3>3
  <2>2. ASSUME NEW a \in Addr, heap'[a] = 2
        PROVE  a + 1 \in damaged' \cup owned' \cup UNION {Hand(u)' : u \in Threads}
    <3>1. HandOf(l, x) \cup UNION {Hand(u) : u \in Threads \ {t}} \subseteq UNION {Hand(u)' : u \in Threads}
      BY <1>1
    <3> QED
      BY <2>1, <2>2, <3>1
  <2> QED
    BY <2>2 DEF Held
<1> QED
  BY <1>2, <1>3 DEF Alerted

\* A step that leaves the blocks alone.
LEMMA AlertControl ==
  ASSUME Base, Safe, Alerted, NEW t \in Threads, NEW l, NEW x, Moves(t, l, x),
         UNCHANGED <<heap, header, damaged>>, config'.footer = config.footer,
         Blames(x, damaged),
         \A q \in Hand(t) \cup owned : Block(q) => q \in HandOf(l, x) \cup owned' \cup damaged
  PROVE  Alerted'
<1>1. Sealed'
  BY DEF Alerted, Sealed
<1>2. \A q : Block(q)' <=> Block(q)
  BY DEF Block
<1> QED
  BY <1>1, <1>2, AlertStep

\* The thread goes on with the pointers it has.
LEMMA AlertSame ==
  ASSUME Base, Safe, Alerted, NEW t \in Threads, NEW l, NEW x, Moves(t, l, x),
         UNCHANGED <<heap, header, damaged, owned>>, config'.footer = config.footer,
         x.ptr = loc[t].ptr, x.new = loc[t].new, Blames(x, damaged),
         l # "done" \/ x.alarm # "NONE"
  PROVE  Alerted'
<1>1. Hand(t) \subseteq HandOf(l, x)
  BY DEF Hand, HandOf, OldOf, NewOf
<1> QED
  BY <1>1, AlertControl

\* The thread goes on with its locals.
LEMMA AlertRelabel ==
  ASSUME Base, Safe, Alerted, NEW t \in Threads, NEW l, Moves(t, l, loc[t]),
         UNCHANGED <<heap, header, damaged, owned>>, config'.footer = config.footer,
         l # "done" \/ loc[t].alarm # "NONE"
  PROVE  Alerted'
<1>1. Blames(loc[t], damaged)
  BY DEF Alerted, Blamed
<1>2. PICK x : x = loc[t]
  OBVIOUS
<1> QED
  BY <1>1, <1>2, AlertSame

\* The calls of the application.
LEMMA CallsAlert ==
  ASSUME Base, Safe, Alerted, NEW t \in Threads, CallAlloc(t) \/ CallFree(t) \/ CallRealloc(t), misuses' = misuses
  PROVE  Alerted'
<1>1. Hand(t) = {}
  <2>1. pc[t] = "app" /\ loc[t] = NoLoc
    BY AtThread DEF LocFit, CallAlloc, CallFree, CallRealloc, Call
  <2> QED
    BY <2>1 DEF Hand, HandOf, OldOf, NewOf, NoLoc
<1>2. UNCHANGED <<heap, header, damaged, config>>
  BY DEF CallAlloc, CallFree, CallRealloc, memory, history
<1>3. \E l, x, S : /\ l \in Labels /\ Moves(t, l, x) /\ x.alarm = "NONE" /\ l # "done"
                   /\ owned \subseteq owned' \cup S /\ S \subseteq HandOf(l, x)
  <2>1. CASE CallAlloc(t)
    <3>1. PICK x : x = [NoLoc EXCEPT !.goal = "alloc"]
      OBVIOUS
    <3>2. x.alarm = "NONE" /\ "alloc" \in Labels /\ owned' = owned
      BY <2>1, <3>1 DEF NoLoc, CallAlloc, app, Labels
    <3>3. Moves(t, "alloc", x)
      BY <2>1, <3>1, CallAllocBase
    <3> QED
      BY <3>2, <3>3
  <2>2. CASE CallFree(t)
    <3>1. PICK p \in owned \cup stale : Moves(t, "erase", [NoLoc EXCEPT !.ptr = p]) /\ owned' = owned \ {p}
      BY <2>2, CallFreeBase
    <3>2. PICK x : x = [NoLoc EXCEPT !.ptr = p]
      OBVIOUS
    <3>3. x.alarm = "NONE" /\ x.ptr = p /\ "erase" \in Labels
      BY <3>2 DEF NoLoc, Labels
    <3>4. p # Null
      BY <3>1, BaseData, ManagerAssumption
    <3>5. {p} \subseteq HandOf("erase", x)
      BY <3>3, <3>4 DEF HandOf, OldOf
    <3> QED
      BY <3>1, <3>2, <3>3, <3>5
  <2>3. CASE CallRealloc(t)
    <3>1. PICK p \in owned : /\ Moves(t, "find", [NoLoc EXCEPT !.ptr = p, !.goal = "realloc"])
                             /\ owned' = owned \ {p}
      BY <2>3, CallReallocBase
    <3>2. PICK x : x = [NoLoc EXCEPT !.ptr = p, !.goal = "realloc"]
      OBVIOUS
    <3>3. x.alarm = "NONE" /\ x.ptr = p /\ "find" \in Labels
      BY <3>2 DEF NoLoc, Labels
    <3>4. p # Null
      BY <3>1, BaseData, ManagerAssumption
    <3>5. {p} \subseteq HandOf("find", x)
      BY <3>3, <3>4 DEF HandOf, OldOf
    <3> QED
      BY <3>1, <3>2, <3>3, <3>5
  <2> QED
    BY <2>1, <2>2, <2>3
<1>4. PICK l, x, S : /\ l \in Labels /\ Moves(t, l, x) /\ x.alarm = "NONE"
                     /\ owned \subseteq owned' \cup S /\ S \subseteq HandOf(l, x)
  BY <1>3
<1>5. Blames(x, damaged)
  BY <1>4 DEF Blames, Corrupted
<1> QED
  BY <1>1, <1>2, <1>4, <1>5, AlertControl

\* allocate goes back to its caller with what it has in hand.
LEMMA ReturnedAlert ==
  ASSUME Base, Safe, Alerted, NEW t \in Threads, pc[t] \in {"alloc", "watchdog", "callback"},
         Returned(t, loc[t].new), UNCHANGED <<heap, header, damaged, config>>
  PROVE  Alerted'
<1>1. pc[t] \in InAlloc /\ LocFit(pc[t], loc[t]) /\ loc[t] \in LocType
  BY AtThread DEF InAlloc
<1>2. CASE loc[t].goal = "realloc" /\ Moves(t, "copy", [loc[t] EXCEPT !.new = loc[t].new]) /\ UNCHANGED app
  <2>1. [loc[t] EXCEPT !.new = loc[t].new] = loc[t]
    BY <1>1 DEF LocType
  <2> QED
    BY <1>2, <2>1, AlertRelabel DEF app
<1>3. CASE /\ loc[t].goal = "alloc" /\ Moves(t, "app", NoLoc)
           /\ IF loc[t].new = Null THEN UNCHANGED app ELSE Give(t, loc[t].new)
  <2>1. Hand(t) \subseteq {loc[t].new} \ {Null}
    BY <1>1, <1>3 DEF LocFit, Hand, HandOf, OldOf, NewOf
  <2>2. Hand(t) \cup owned \subseteq owned'
    BY <1>3, <2>1 DEF Give, app
  <2>3. Blames(NoLoc, damaged)
    BY DEF Blames, NoLoc, Corrupted
  <2> QED
    BY <1>3, <2>2, <2>3, AlertControl
<1> QED
  BY <1>2, <1>3 DEF Returned

\* The steps of allocate after the block is there.
LEMMA AllocAlert ==
  ASSUME Base, Safe, Alerted, NEW t \in Threads,
         AllocCount(t) \/ AllocInsert(t) \/ AllocWatchdog(t) \/ CallbackReturns(t)
  PROVE  Alerted'
<1>1. UNCHANGED <<heap, header, damaged, config>>
  BY DEF AllocCount, AllocInsert, AllocWatchdog, CallbackReturns, memory, history
<1>2. CASE AllocCount(t)
  BY <1>1, <1>2, AllocCountBase, AlertRelabel DEF AllocCount, app
<1>3. CASE AllocInsert(t)
  BY <1>1, <1>3, AllocInsertBase, AlertRelabel DEF AllocInsert, app
<1>4. CASE AllocWatchdog(t) \/ CallbackReturns(t)
  <2>1. pc[t] \in {"watchdog", "callback"}
        /\ \/ Moves(t, "callback", loc[t]) /\ UNCHANGED app
           \/ Returned(t, loc[t].new)
    BY <1>4, AllocWatchdogBase
  <2> QED
    BY <1>1, <2>1, AlertRelabel, ReturnedAlert DEF app
<1> QED
  BY <1>2, <1>3, <1>4

\* A block whose canary does not verify was overrun.
LEMMA VerdictJust ==
  ASSUME Base, Safe, Sealed, NEW a \in Addr, heap[a] = 2, NEW n \in Nat, n <= config.footer,
         VerifyCanary(header[a], n) \in Corrupted
  PROVE  a + 1 \in damaged
<1> SUFFICES ASSUME a + 1 \notin damaged PROVE FALSE
  OBVIOUS
<1>1. header[a].magic = "header" /\ (header[a].canary => header[a].words >= config.footer)
  BY DEF Sealed
<1>2. header[a].words \in Nat /\ config.footer \in Nat
  BY BaseData, ManagerAssumption DEF HeaderType, ConfigType
<1>3. ~(header[a].canary /\ header[a].words < n)
  BY <1>1, <1>2
<1>4. VerifyCanary(header[a], n) = "NONE"
  BY <1>1, <1>3 DEF VerifyCanary
<1> QED
  BY <1>4 DEF Corrupted

\* The steps of deallocate that leave the block alone.
LEMMA DeallocAlert ==
  ASSUME Base, Safe, Alerted, NEW t \in Threads,
         FreeErase(t) \/ FreeVerify(t) \/ FreeUncount(t) \/ FreeCandidate(t)
  PROVE  Alerted'
<1>1. UNCHANGED <<heap, header, damaged, config, owned>>
  BY DEF FreeErase, FreeVerify, FreeUncount, FreeCandidate, memory, history, app
<1>2. loc[t] \in LocType /\ Blames(loc[t], damaged) /\ ThreadSafe(pc[t], loc[t]) /\ LocFit(pc[t], loc[t])
  BY AtThread, SafeAt DEF Alerted, Blamed
<1>3. CASE FreeErase(t)
  <2>1. ASSUME NEW r, Moves(t, "verify", [loc[t] EXCEPT !.rec = r]) PROVE Alerted'
    <3>1. PICK x : x = [loc[t] EXCEPT !.rec = r]
      OBVIOUS
    <3>2. x.ptr = loc[t].ptr /\ x.new = loc[t].new /\ x.alarm = loc[t].alarm
      BY <1>2, <3>1 DEF LocType
    <3>3. Blames(x, damaged)
      BY <1>2, <3>2 DEF Blames
    <3> QED
      BY <1>1, <2>1, <3>1, <3>2, <3>3, AlertSame
  <2>2. ASSUME Moves(t, "done", [loc[t] EXCEPT !.alarm = "DOUBLE_FREE"]) PROVE Alerted'
    <3>1. PICK x : x = [loc[t] EXCEPT !.alarm = "DOUBLE_FREE"]
      OBVIOUS
    <3>2. x.ptr = loc[t].ptr /\ x.new = loc[t].new /\ x.alarm = "DOUBLE_FREE"
      BY <1>2, <3>1 DEF LocType
    <3>3. Blames(x, damaged)
      BY <3>2 DEF Blames, Corrupted
    <3> QED
      BY <1>1, <2>2, <3>1, <3>2, <3>3, AlertSame
  <2>3. ASSUME Moves(t, "candidate", loc[t]) PROVE Alerted'
    BY <1>1, <2>3, AlertRelabel
  <2> QED
    BY <1>3, <2>1, <2>2, <2>3, FreeEraseBase
<1>4. CASE FreeVerify(t)
  <2>1. pc[t] = "verify" /\ Moves(t, "uncount", [loc[t] EXCEPT !.verdict = Verdict(t), !.alarm = Verdict(t)])
    BY <1>4, FreeVerifyBase DEF FreeVerify
  <2>2. PICK v : v = Verdict(t)
    OBVIOUS
  <2>3. v \in Corrupted => loc[t].ptr \in damaged
    <3>1. PICK a \in Addr : a = loc[t].rec.raw /\ heap[a] = 2 /\ a = loc[t].ptr - 1 /\ loc[t].ptr # Null
      BY <1>2, <2>1 DEF ThreadSafe, OldFit, Block, LocFit, Freeing
    <3>2. a + 1 = loc[t].ptr
      BY <1>2, <3>1 DEF LocType, Addr
    <3>3. FooterSize(config) \in Nat /\ FooterSize(config) <= config.footer
      BY BaseData, ManagerAssumption DEF FooterSize, ConfigType
    <3>4. v = VerifyCanary(header[a], FooterSize(config))
      BY <2>2, <3>1 DEF Verdict
    <3> QED
      BY <3>1, <3>2, <3>3, <3>4, VerdictJust DEF Alerted
  <2>4. PICK x : x = [loc[t] EXCEPT !.verdict = v, !.alarm = v]
    OBVIOUS
  <2>5. x.ptr = loc[t].ptr /\ x.new = loc[t].new /\ x.alarm = v
    BY <1>2, <2>4 DEF LocType
  <2>6. Blames(x, damaged)
    BY <2>3, <2>5 DEF Blames
  <2>7. Moves(t, "uncount", x)
    BY <2>1, <2>2, <2>4
  <2> QED
    BY <1>1, <2>5, <2>6, <2>7, AlertSame
<1>5. CASE FreeUncount(t)
  <2>1. pc[t] = "uncount"
    BY <1>5 DEF FreeUncount
  <2>2. loc[t].verdict = loc[t].alarm
    BY <1>2, <2>1 DEF ThreadSafe, AlarmFit
  <2>3. PICK l : l = IF loc[t].verdict = "NONE" THEN "release" ELSE "done"
    OBVIOUS
  <2>4. Moves(t, l, loc[t]) /\ (l # "done" \/ loc[t].alarm # "NONE")
    BY <1>5, <2>2, <2>3, FreeUncountBase
  <2> QED
    BY <1>1, <2>4, AlertRelabel
<1>6. CASE FreeCandidate(t)
  <2>1. \E l \in {"adopt", "rawfree"} : Moves(t, l, loc[t])
    BY <1>6, FreeCandidateBase
  <2> QED
    BY <1>1, <2>1, AlertRelabel
<1> QED
  BY <1>3, <1>4, <1>5, <1>6

\* deallocate returns: what it drops has been given back, was overrun, or is
\* an untracked block.
LEMMA FreeReturnAlert ==
  ASSUME Base, Safe, Alerted, NEW t \in Threads, FreeReturn(t)
  PROVE  Alerted'
<1>1. /\ UNCHANGED <<heap, header, damaged, config>>
      /\ pc[t] = "done" /\ LocFit("done", loc[t]) /\ ThreadSafe("done", loc[t]) /\ loc[t] \in LocType
  BY AtThread, SafeAt DEF FreeReturn, memory, history
<1>2. /\ Moves(t, "app", NoLoc)
      /\ IF loc[t].goal = "realloc" THEN Give(t, loc[t].new) ELSE UNCHANGED app
  BY FreeReturnBase
<1>3. Blames(NoLoc, damaged)
  BY DEF Blames, NoLoc, Corrupted
<1>4. owned \subseteq owned' /\ NewOf(loc[t]) \subseteq owned'
  BY <1>1, <1>2 DEF Give, app, NewOf, LocFit, Freeing
<1>5. ASSUME NEW q \in OldOf(pc[t], loc[t]), Block(q) PROVE q \in damaged
  <2>1. q = loc[t].ptr /\ q # Null /\ loc[t].alarm # "NONE" /\ q \in Addr
    BY <1>1, <1>5 DEF OldOf, LocType
  <2>2. loc[t].alarm # "DOUBLE_FREE"
    BY <1>1, <1>5, <2>1, GoodCases DEF ThreadSafe, AlarmFit
  <2>3. loc[t].alarm \in Corrupted
    BY <1>1, <2>1, <2>2 DEF LocType, Verdicts, Corrupted
  <2> QED
    BY <2>1, <2>3 DEF Alerted, Blamed, Blames
<1>6. \A q \in Hand(t) \cup owned : Block(q) => q \in owned' \cup damaged
  BY <1>4, <1>5 DEF Hand, HandOf
<1> QED
  BY <1>1, <1>2, <1>3, <1>6, AlertControl

\* The steps of reallocate that leave the block alone.
LEMMA ReallocAlert ==
  ASSUME Base, Safe, Alerted, NEW t \in Threads, ReallocFind(t) \/ ReallocVerify(t) \/ ReallocCopy(t)
  PROVE  Alerted'
<1>1. UNCHANGED <<heap, header, damaged, config>>
  BY DEF ReallocFind, ReallocVerify, ReallocCopy, memory, history
<1>2. loc[t] \in LocType /\ Blames(loc[t], damaged) /\ ThreadSafe(pc[t], loc[t]) /\ LocFit(pc[t], loc[t])
  BY AtThread, SafeAt DEF Alerted, Blamed
<1>3. CASE ReallocFind(t)
  <2>1. owned' = owned
    BY <1>3 DEF ReallocFind, app
  <2>2. ASSUME NEW r, Moves(t, "rverify", [loc[t] EXCEPT !.rec = r]) PROVE Alerted'
    <3>1. PICK x : x = [loc[t] EXCEPT !.rec = r]
      OBVIOUS
    <3>2. x.ptr = loc[t].ptr /\ x.new = loc[t].new /\ x.alarm = loc[t].alarm
      BY <1>2, <3>1 DEF LocType
    <3>3. Blames(x, damaged)
      BY <1>2, <3>2 DEF Blames
    <3> QED
      BY <1>1, <2>1, <2>2, <3>1, <3>2, <3>3, AlertSame
  <2>3. ASSUME Moves(t, "rawrealloc", loc[t]) PROVE Alerted'
    BY <1>1, <2>1, <2>3, AlertRelabel
  <2> QED
    BY <1>3, <2>2, <2>3, ReallocFindBase
<1>4. CASE ReallocVerify(t)
  <2>1. pc[t] = "rverify" /\ owned' = owned
    BY <1>4 DEF ReallocVerify, app
  <2>2. PICK v : /\ Moves(t, "alloc", [loc[t] EXCEPT !.alarm = v])
                 /\ v \in {"NONE", VerifyCanary(header[loc[t].rec.raw], config.footer)}
    BY <1>4, ReallocVerifyBase
  <2>3. v \in Corrupted => loc[t].ptr \in damaged
    <3>1. PICK a \in Addr : a = loc[t].rec.raw /\ heap[a] = 2 /\ a = loc[t].ptr - 1 /\ loc[t].ptr # Null
      BY <1>2, <2>1 DEF ThreadSafe, OldFit, Block, LocFit, Moving
    <3>2. a + 1 = loc[t].ptr
      BY <1>2, <3>1 DEF LocType, Addr
    <3>3. config.footer \in Nat /\ config.footer <= config.footer
      BY BaseData, ManagerAssumption DEF ConfigType
    <3>4. v # "NONE" => v = VerifyCanary(header[a], config.footer)
      BY <2>2, <3>1
    <3>5. "NONE" \notin Corrupted
      BY DEF Corrupted
    <3> QED
      BY <3>1, <3>2, <3>3, <3>4, <3>5, VerdictJust DEF Alerted
  <2>4. PICK x : x = [loc[t] EXCEPT !.alarm = v]
    OBVIOUS
  <2>5. x.ptr = loc[t].ptr /\ x.new = loc[t].new /\ x.alarm = v
    BY <1>2, <2>4 DEF LocType
  <2>6. Blames(x, damaged)
    BY <2>3, <2>5 DEF Blames
  <2>7. Moves(t, "alloc", x)
    BY <2>2, <2>4
  <2> QED
    BY <1>1, <2>1, <2>5, <2>6, <2>7, AlertSame
<1>5. CASE ReallocCopy(t)
  <2>1. \/ loc[t].new = Null /\ Give(t, loc[t].ptr) /\ Moves(t, "app", NoLoc)
        \/ loc[t].new # Null /\ UNCHANGED app /\ Moves(t, "erase", loc[t])
    BY <1>5, ReallocCopyBase
  <2>2. CASE loc[t].new = Null /\ Give(t, loc[t].ptr) /\ Moves(t, "app", NoLoc)
    <3>1. Hand(t) \cup owned \subseteq owned'
      BY <2>2 DEF Hand, HandOf, OldOf, NewOf, Give
    <3>2. Blames(NoLoc, damaged)
      BY DEF Blames, NoLoc, Corrupted
    <3> QED
      BY <1>1, <2>2, <3>1, <3>2, AlertControl
  <2>3. CASE UNCHANGED app /\ Moves(t, "erase", loc[t])
    BY <1>1, <2>3, AlertRelabel DEF app
  <2> QED
    BY <2>1, <2>2, <2>3
<1> QED
  BY <1>3, <1>4, <1>5

\* shutdown and init concern no block.
LEMMA LifecycleAlert ==
  ASSUME Base, Safe, Alerted, SameFooter, NEW t \in Threads, Shutdown(t) \/ Initialize(t)
  PROVE  Alerted'
<1>1. UNCHANGED <<heap, header, damaged, owned>> /\ pc[t] = "app" /\ Moves(t, pc[t], loc[t])
  BY LifecycleBase DEF Shutdown, Initialize, memory, history, app, Call
<1>2. config'.footer = config.footer
  <2>1. config \in Configs
    BY BaseData
  <2> QED
    BY <2>1 DEF Shutdown, Initialize, SameFooter
<1> QED
  BY <1>1, <1>2, AlertRelabel

\* A step that writes no header of a block that stays.
LEMMA SealedKept ==
  ASSUME Sealed, config'.footer = config.footer,
         \A a \in Addr : heap'[a] = 2 /\ a + 1 \notin damaged' =>
           heap[a] = 2 /\ a + 1 \notin damaged /\ header'[a] = header[a]
  PROVE  Sealed'
  BY DEF Sealed

\* A new untracked block lies where no block was.
LEMMA RawFacts ==
  ASSUME Base, Safe, Alerted, NEW r \in Room(1), config' = config,
         \A a \in Addr : heap'[a] = 2 => heap[a] = 2,
         header' = [header EXCEPT ![r] = NoHeader], damaged' = damaged \ {r}
  PROVE  Sealed' /\ \A q \in damaged : Live(q) => q \in damaged'
<1>1. r \in Addr /\ heap[r] = 0 /\ ~Live(r) /\ \A a \in Addr : heap[a] = 2 => a + 1 # r
  <2>1. r + 1 - 1 = r
    BY DEF Room, Addr
  <2> QED
    BY <2>1, RoomFree
<1>2. \A a \in Addr \ {r} : header'[a] = header[a]
  BY <1>1, BaseData
<1>3. ASSUME NEW a \in Addr, heap'[a] = 2, a + 1 \notin damaged'
      PROVE  heap[a] = 2 /\ a + 1 \notin damaged /\ header'[a] = header[a]
  <2>1. heap[a] = 2 /\ a # r /\ a + 1 # r
    BY <1>1, <1>3
  <2> QED
    BY <1>2, <1>3, <2>1
<1>4. Sealed'
  BY <1>3, SealedKept DEF Alerted
<1> QED
  BY <1>1, <1>4

\* A request the system serves, and a report.
LEMMA RawAlert ==
  ASSUME Base, Safe, Alerted, NEW t \in Threads, AllocFallback(t) \/ AllocUnsampled(t) \/ TakeReport(t)
  PROVE  Alerted'
<1>1. config' = config
  BY DEF AllocFallback, AllocUnsampled, TakeReport
<1>2. ASSUME NEW r \in Room(1), RawAlloc(r)
      PROVE  /\ Sealed' /\ \A q \in damaged : Live(q) => q \in damaged'
             /\ \A a \in Addr : heap'[a] = 2 => heap[a] = 2
  <2>1. r \in Addr
    BY DEF Room
  <2>2. \A a \in Addr : heap'[a] = 2 => heap[a] = 2
    BY <1>2, <2>1, BaseData DEF RawAlloc
  <2> QED
    BY <1>1, <1>2, <2>2, RawFacts DEF RawAlloc
<1>3. CASE AllocFallback(t) \/ AllocUnsampled(t)
  <2>1. pc[t] = "alloc" /\ LocFit("alloc", loc[t]) /\ loc[t] \in LocType /\ Blames(loc[t], damaged) /\ loc[t].new = Null
    BY <1>3, AtThread DEF AllocFallback, AllocUnsampled, LocFit, Alerted, Blamed
  <2>2. \/ \E r \in Room(1) : RawAlloc(r) /\ Returned(t, r)
        \/ Returned(t, Null) /\ UNCHANGED <<heap, header, damaged>>
    BY <1>3, AllocFallbackBase, AllocUnsampledBase
  <2>3. CASE Returned(t, Null) /\ UNCHANGED <<heap, header, damaged>>
    BY <1>1, <2>1, <2>3, ReturnedAlert
  <2>4. ASSUME NEW r \in Room(1), RawAlloc(r), Returned(t, r) PROVE Alerted'
    <3>1. /\ Sealed' /\ \A q \in damaged : Live(q) => q \in damaged'
          /\ \A a \in Addr : heap'[a] = 2 => heap[a] = 2
      BY <1>2, <2>4
    <3>2. CASE Moves(t, "copy", [loc[t] EXCEPT !.new = r]) /\ UNCHANGED app
      <4>1. PICK x : x = [loc[t] EXCEPT !.new = r]
        OBVIOUS
      <4>2. x.ptr = loc[t].ptr /\ x.alarm = loc[t].alarm
        BY <2>1, <4>1 DEF LocType
      <4>3. Blames(x, damaged')
        <5>1. loc[t].alarm \in Corrupted => loc[t].ptr \in damaged /\ Live(loc[t].ptr)
          BY BlamedLive DEF Alerted
        <5> QED
          BY <3>1, <4>2, <5>1 DEF Blames
      <4>4. Hand(t) \subseteq HandOf("copy", x) /\ owned' = owned
        BY <2>1, <3>2, <4>2 DEF Hand, HandOf, OldOf, NewOf, app
      <4>5. Moves(t, "copy", x)
        BY <3>2, <4>1
      <4> QED
        BY <3>1, <4>3, <4>4, <4>5, AlertStep
    <3>3. CASE loc[t].goal = "alloc" /\ Moves(t, "app", NoLoc) /\ Give(t, r)
      <4>1. Hand(t) = {}
        BY <2>1, <3>3 DEF LocFit, Hand, HandOf, OldOf, NewOf
      <4>2. Blames(NoLoc, damaged')
        BY DEF Blames, NoLoc, Corrupted
      <4>3. owned \subseteq owned'
        BY <3>3 DEF Give
      <4> QED
        BY <3>1, <3>3, <4>1, <4>2, <4>3, AlertStep
    <3>4. r # Null
      BY ManagerAssumption DEF Room
    <3> QED
      BY <2>4, <3>2, <3>3, <3>4 DEF Returned
  <2> QED
    BY <2>2, <2>3, <2>4
<1>4. CASE TakeReport(t)
  <2>1. PICK r \in Room(1) : RawAlloc(r) /\ Give(t, r)
    BY <1>4 DEF TakeReport
  <2>2. Moves(t, pc[t], loc[t]) /\ pc[t] = "app"
    BY <1>4, TakeReportBase DEF TakeReport, Call
  <2>3. loc[t] = NoLoc /\ Hand(t) = HandOf(pc[t], loc[t])
    BY <2>2, AtThread DEF LocFit, Hand
  <2>4. Blames(loc[t], damaged')
    BY <2>3 DEF Blames, NoLoc, Corrupted
  <2>5. owned \subseteq owned'
    BY <2>1 DEF Give
  <2> QED
    BY <1>2, <2>1, <2>2, <2>3, <2>4, <2>5, AlertStep
<1> QED
  BY <1>3, <1>4

\* A request the Manager tracks: the new block is in hand, and sealed.
LEMMA AllocBlockAlert ==
  ASSUME Base, Safe, Alerted, NEW t \in Threads, AllocBlock(t)
  PROVE  Alerted'
<1>1. pc[t] = "alloc" /\ config' = config
  BY DEF AllocBlock
<1>2. LocFit("alloc", loc[t]) /\ loc[t] \in LocType /\ Blames(loc[t], damaged) /\ loc[t].new = Null
  BY <1>1, AtThread DEF LocFit, Alerted, Blamed
<1>3. CASE Returned(t, Null) /\ UNCHANGED <<heap, header, damaged>>
  BY <1>1, <1>2, <1>3, ReturnedAlert
<1>4. ASSUME NEW r \in Room(2), Sampled2(t, r) PROVE Alerted'
  <2>1. /\ r \in Addr /\ r + 2 - 1 \in Addr /\ r \in Int /\ heap[r] = 0 /\ heap[r + 2 - 1] = 0
        /\ \A a \in Addr : heap[a] = 2 => a + 1 # r
        /\ ~Live(r + 2 - 1) /\ r + 2 - 1 # Null
    BY RoomFree
  <2>2. PICK s \in Addr : s = r + 1 /\ r + 2 - 1 = s /\ s # r
    BY <2>1 DEF Addr
  <2>3. heap[s] = 0 /\ ~Live(s) /\ s # Null /\ ~Live(r)
    <3>1. ~Block(r)
      BY <2>1 DEF Block, Addr
    <3> QED
      BY <2>1, <2>2, <3>1 DEF Live, Whole
  <2>4. /\ heap' = [heap EXCEPT ![r] = 2]
        /\ header' = [header EXCEPT ![r] = InitBlock(config), ![s] = NoHeader]
        /\ damaged' = damaged \ {r, s} /\ owned' = owned
    BY <1>4, <2>2 DEF Sampled2, app
  <2>5. \A a \in Addr : heap'[a] = IF a = r THEN 2 ELSE heap[a]
    BY <2>1, <2>4, BaseData
  <2>6. \A a \in Addr : header'[a] = IF a = s THEN NoHeader ELSE IF a = r THEN InitBlock(config) ELSE header[a]
    BY <2>1, <2>2, <2>4, BaseData
  <2>7. Sealed'
    <3>1. /\ InitBlock(config).magic = "header"
          /\ InitBlock(config).canary => InitBlock(config).words = config.footer
          /\ config.footer \in Nat
      BY BaseData, ManagerAssumption DEF InitBlock, ConfigType
    <3>2. ASSUME NEW a \in Addr, heap'[a] = 2, a + 1 \notin damaged'
          PROVE  header'[a].magic = "header" /\ (header'[a].canary => header'[a].words >= config.footer)
      <4>1. CASE a = r
        BY <2>2, <2>6, <3>1, <4>1
      <4>2. CASE a # r
        <5>1. heap[a] = 2 /\ a # s /\ a + 1 # r /\ a + 1 # s
          BY <2>1, <2>2, <2>3, <2>5, <3>2, <4>2 DEF Addr
        <5>2. a + 1 \notin damaged /\ header'[a] = header[a]
          BY <2>4, <2>6, <3>2, <4>2, <5>1
        <5> QED
          BY <5>1, <5>2 DEF Alerted, Sealed
      <4> QED
        BY <4>1, <4>2
    <3> QED
      BY <1>1, <3>2 DEF Sealed
  <2>8. PICK c : c = [id |-> counter, raw |-> r]
    OBVIOUS
  <2>9. PICK x : x = [loc[t] EXCEPT !.new = s, !.rec = c]
    OBVIOUS
  <2>10. x.ptr = loc[t].ptr /\ x.alarm = loc[t].alarm /\ x.new = s
    BY <1>2, <2>9 DEF LocType
  <2>11. Moves(t, "count", x)
    BY <1>4, <2>2, <2>8, <2>9 DEF Sampled2
  <2>12. Blames(x, damaged') /\ \A q \in damaged : Live(q) => q \in damaged'
    <3>1. loc[t].alarm \in Corrupted => loc[t].ptr \in damaged /\ Live(loc[t].ptr)
      BY BlamedLive DEF Alerted
    <3> QED
      BY <2>3, <2>4, <2>10, <3>1 DEF Blames
  <2>13. Hand(t) \subseteq HandOf("count", x) /\ s \in HandOf("count", x)
    BY <1>1, <1>2, <2>3, <2>10 DEF Hand, HandOf, OldOf, NewOf
  <2>14. \A a \in Addr : heap'[a] = 2 => heap[a] = 2 \/ a + 1 \in HandOf("count", x)
    BY <2>2, <2>5, <2>13
  <2> QED
    BY <2>4, <2>7, <2>11, <2>12, <2>13, <2>14, AlertStep
<1> QED
  BY <1>3, <1>4, AllocBlockBase

\* realloc of the system.
LEMMA ReallocRawAlert ==
  ASSUME Base, Safe, Alerted, NEW t \in Threads, ReallocRaw(t)
  PROVE  Alerted'
<1>1. PICK p \in Addr : p = loc[t].ptr
  BY ReallocRawBase
<1>2. pc[t] = "rawrealloc" /\ LocFit("rawrealloc", loc[t]) /\ ThreadSafe("rawrealloc", loc[t])
  BY AtThread, SafeAt DEF ReallocRaw
<1>3. heap[p] = 1 /\ ~Block(p) /\ loc[t].new = Null
  BY <1>1, <1>2, GoodCases DEF ThreadSafe, OldFit, LocFit, Whole
<1>4. /\ Moves(t, "app", NoLoc)
      /\ \/ Give(t, p) /\ UNCHANGED <<aborted, memory, damaged>>
         \/ \E r \in Room(1) :
              /\ UNCHANGED aborted
              /\ heap' = [heap EXCEPT ![p] = 0, ![r] = 1]
              /\ header' = [header EXCEPT ![r] = NoHeader]
              /\ damaged' = damaged \ {r}
              /\ Give(t, r)
  BY <1>1, <1>3, ReallocRawBase
<1>5. config' = config
  BY DEF ReallocRaw
<1>6. Hand(t) \subseteq {p}
  BY <1>1, <1>3 DEF Hand, HandOf, OldOf, NewOf
<1>7. \A S : Blames(NoLoc, S)
  BY DEF Blames, NoLoc, Corrupted
<1>8. CASE Give(t, p) /\ UNCHANGED <<aborted, memory, damaged>>
  <2>1. Hand(t) \cup owned \subseteq owned'
    BY <1>6, <1>8 DEF Give
  <2> QED
    BY <1>4, <1>5, <1>7, <1>8, <2>1, AlertControl DEF memory
<1>9. ASSUME NEW r \in Room(1), heap' = [heap EXCEPT ![p] = 0, ![r] = 1],
             header' = [header EXCEPT ![r] = NoHeader], damaged' = damaged \ {r}, Give(t, r)
      PROVE  Alerted'
  <2>1. r \in Addr
    BY DEF Room
  <2>2. \A a \in Addr : heap'[a] = 2 => heap[a] = 2
    BY <1>9, <2>1, BaseData
  <2>3. Sealed' /\ \A q \in damaged : Live(q) => q \in damaged'
    BY <1>5, <1>9, <2>2, RawFacts
  <2>4. ~Block(p)'
    BY <1>3, <2>2 DEF Block
  <2>5. \A q \in Hand(t) \cup owned : Block(q)' => q \in owned'
    BY <1>6, <1>9, <2>4 DEF Give
  <2> QED
    BY <1>4, <1>7, <2>2, <2>3, <2>5, AlertStep
<1> QED
  BY <1>4, <1>8, <1>9

\* The system block at a is gone, and no other cell and header has changed.
Emptied(a) ==
  /\ heap' = [heap EXCEPT ![a] = 0]
  /\ \A b \in Addr \ {a} : header'[b] = header[b]
  /\ UNCHANGED <<damaged, config>>

\* The thread gives the block of one of its pointers back, or the application
\* does.
LEMMA GivenBackAlert ==
  ASSUME Base, Safe, Alerted, NEW t \in Threads, NEW l, NEW x, Moves(t, l, x), NEW p, NEW a \in Addr,
         Emptied(a),
         Block(p) => a = p - 1, x.alarm = loc[t].alarm, x.ptr = loc[t].ptr,
         Hand(t) \cup owned \subseteq HandOf(l, x) \cup owned' \cup {p}
  PROVE  Alerted'
<1>1. \A b \in Addr : heap'[b] = IF b = a THEN 0 ELSE heap[b]
  BY BaseData DEF Emptied
<1>2. Sealed'
  <2>1. ASSUME NEW b \in Addr, heap'[b] = 2, b + 1 \notin damaged'
        PROVE  heap[b] = 2 /\ b + 1 \notin damaged /\ header'[b] = header[b]
    BY <1>1, <2>1 DEF Emptied
  <2> QED
    BY <2>1, SealedKept DEF Alerted, Emptied
<1>3. Blames(x, damaged')
  BY DEF Alerted, Blamed, Blames, Emptied
<1>4. ~Block(p)'
  <2> SUFFICES ASSUME p - 1 \in Addr, heap'[p - 1] = 2 PROVE FALSE
    BY DEF Block
  <2>1. p - 1 # a /\ heap[p - 1] = 2
    BY <1>1
  <2> QED
    BY <2>1 DEF Block
<1>5. \A b \in Addr : heap'[b] = 2 => heap[b] = 2
  BY <1>1
<1>6. \A q \in Hand(t) \cup owned : Block(q)' => q \in HandOf(l, x) \cup owned' \cup damaged'
  <2>1. ASSUME NEW q \in Hand(t) \cup owned, Block(q)' PROVE q \in HandOf(l, x) \cup owned'
    <3>1. q # p
      BY <1>4, <2>1 DEF Block
    <3> QED
      BY <3>1
  <2> QED
    BY <2>1
<1>7. damaged' = damaged
  BY DEF Emptied
<1> QED
  BY <1>2, <1>3, <1>5, <1>6, <1>7, AlertStep

\* A block goes back to the system.
LEMMA ReleaseAlert ==
  ASSUME Base, Safe, Alerted, NEW t \in Threads, FreeRelease(t) \/ FreeUntracked(t)
  PROVE  Alerted'
<1>1. LocFit(pc[t], loc[t]) /\ loc[t] \in LocType /\ ThreadSafe(pc[t], loc[t])
  BY AtThread, SafeAt
<1>2. PICK x : x = loc[t]
  OBVIOUS
<1>3. PICK p : p = x.ptr
  OBVIOUS
<1>4. Hand(t) \subseteq HandOf("done", x) \cup {p} /\ UNCHANGED <<damaged, config, owned>>
  BY <1>2, <1>3 DEF Hand, HandOf, OldOf, FreeRelease, FreeUntracked, history, app
<1>5. CASE FreeRelease(t)
  <2>1. pc[t] = "release"
    BY <1>5 DEF FreeRelease
  <2>2. PICK a \in Addr : a = x.rec.raw
    BY <1>2, <1>5, FreeReleaseBase
  <2>3. heap[a] = 2 /\ a = p - 1
    BY <1>1, <1>2, <1>3, <2>1, <2>2 DEF ThreadSafe, OldFit, Block
  <2>4. heap' = [heap EXCEPT ![a] = 0] /\ header' = [header EXCEPT ![a] = Poison(header[a])]
    BY <1>2, <1>5, <2>2, <2>3 DEF FreeRelease, RawFree
  <2>5. \A b \in Addr \ {a} : header'[b] = header[b]
    BY <2>4, BaseData
  <2>6. Moves(t, "done", x)
    BY <1>2, <1>5, FreeReleaseBase
  <2>7. Emptied(a)
    BY <1>4, <2>4, <2>5 DEF Emptied
  <2>8. Hand(t) \cup owned \subseteq HandOf("done", x) \cup owned' \cup {p}
    BY <1>4
  <2>9. /\ Block(p) => a = p - 1
        /\ x.alarm = loc[t].alarm /\ x.ptr = loc[t].ptr
    BY <1>2, <2>3
  <2> QED
    BY <2>6, <2>7, <2>8, <2>9, GivenBackAlert
<1>6. CASE FreeUntracked(t)
  <2>1. pc[t] = "rawfree" /\ p \in Addr
    BY <1>2, <1>3, <1>6, FreeUntrackedBase DEF FreeUntracked
  <2>2. heap[p] = 1 /\ ~Block(p)
    BY <1>1, <1>2, <1>3, <2>1, GoodCases DEF ThreadSafe, OldFit, Whole
  <2>3. heap' = [heap EXCEPT ![p] = 0] /\ header' = header
    BY <1>2, <1>3, <1>6, <2>2 DEF FreeUntracked, RawFree
  <2>4. Moves(t, "done", x)
    BY <1>2, <1>6, FreeUntrackedBase
  <2>5. Emptied(p)
    BY <1>4, <2>3 DEF Emptied
  <2> QED
    BY <1>2, <1>4, <2>1, <2>2, <2>4, <2>5, GivenBackAlert
<1> QED
  BY <1>5, <1>6

\* An untracked block of the application goes to the system.
LEMMA PassesAlert ==
  ASSUME Base, Safe, Alerted, NEW t \in Threads, NEW p \in Addr, Passes(t, p), heap[p] = 1
  PROVE  Alerted'
<1>1. p \in owned /\ owned' = owned \ {p} /\ RawFree(p)
  BY DEF Passes, Part
<1>2. p \in Addr /\ heap[p] = 1 /\ ~Block(p)
  BY <1>1, GoodCases DEF Whole
<1>3. heap' = [heap EXCEPT ![p] = 0] /\ UNCHANGED <<header, damaged, config>>
  BY <1>1, <1>2 DEF RawFree, Passes, history
<1>4. PICK l, x : l = pc[t] /\ x = loc[t]
  OBVIOUS
<1>5. Moves(t, l, x) /\ Hand(t) = HandOf(l, x)
  BY <1>4, PassesBase DEF Hand
<1>6. Hand(t) \cup owned \subseteq HandOf(l, x) \cup owned' \cup {p}
  BY <1>1, <1>5
<1>7. Emptied(p)
  BY <1>3 DEF Emptied
<1> QED
  BY <1>2, <1>4, <1>5, <1>6, <1>7, GivenBackAlert

\* A block that is overrun is known as such.
LEMMA DamageAlert ==
  ASSUME Base, Safe, Alerted, NEW t \in Threads, Damage(t)
  PROVE  Alerted'
<1>1. PICK p \in owned :
        /\ p - 1 \in Addr
        /\ \/ header' = [header EXCEPT ![p - 1].words = 0]
           \/ header' = [header EXCEPT ![p - 1].magic = "none"]
        /\ damaged' = damaged \cup {p}
  BY DEF Damage
<1>2. PICK a \in Addr : a = p - 1 /\ a + 1 = p
  BY <1>1, BaseData DEF Addr
<1>3. \A b \in Addr \ {a} : header'[b] = header[b]
  BY <1>1, <1>2, BaseData
<1>4. UNCHANGED <<heap, config, owned>> /\ pc[t] = "app"
  BY DEF Damage, app, Call
<1>5. Sealed'
  <2>1. ASSUME NEW b \in Addr, heap'[b] = 2, b + 1 \notin damaged'
        PROVE  heap[b] = 2 /\ b + 1 \notin damaged /\ header'[b] = header[b]
    <3>1. b # a
      BY <1>1, <1>2, <2>1
    <3> QED
      BY <1>1, <1>3, <1>4, <2>1, <3>1
  <2> QED
    BY <1>4, <2>1, SealedKept DEF Alerted
<1>6. PICK l, x : l = pc[t] /\ x = loc[t]
  OBVIOUS
<1>7. Moves(t, l, x) /\ Hand(t) = HandOf(l, x)
  BY <1>6, DamageBase DEF Hand
<1>8. Blames(x, damaged')
  BY <1>1, <1>6 DEF Alerted, Blamed, Blames
<1> QED
  BY <1>1, <1>4, <1>5, <1>7, <1>8, AlertStep

\* Every step of a program that frees what it owns.
LEMMA StepAlert ==
  ASSUME Base, CallsInv, NoLateRealloc, Safe, Alerted, SameFooter, [Next]_vars, misuses' = misuses
  PROVE  Alerted'
<1>1. CASE UNCHANGED vars
  <2>1. UNCHANGED <<heap, header, config, pc, loc, owned, damaged>>
    BY <1>1 DEF vars, memory, app, history
  <2> QED
    BY <2>1 DEF Alerted, Sealed, Blamed, Blames, Held, Hand, HandOf, OldOf, NewOf
<1>2. ASSUME NEW t \in Threads, Alloc(t) PROVE Alerted'
  BY <1>2, CallsAlert, RawAlert, AllocBlockAlert, AllocAlert, CallbackPasses,
     PassesAlert DEF Alloc
<1>3. ASSUME NEW t \in Threads, Dealloc(t) PROVE Alerted'
  BY <1>3, CallsAlert, DeallocAlert, ReleaseAlert, FreeAdoptSafe, FreeReturnAlert DEF Dealloc
<1>4. ASSUME NEW t \in Threads, Realloc(t) PROVE Alerted'
  BY <1>4, CallsAlert, ReallocAlert, ReallocRawAlert, NothingUntracked, PassesAlert DEF Realloc
<1>5. ASSUME NEW t \in Threads, Damage(t) \/ TakeReport(t) \/ Shutdown(t) \/ Initialize(t) PROVE Alerted'
  BY <1>5, DamageAlert, RawAlert, LifecycleAlert
<1> QED
  BY <1>1, <1>2, <1>3, <1>4, <1>5 DEF Next, Rest

\* There is no block in the beginning.
LEMMA InitAlert == Init => Alerted
<1> SUFFICES ASSUME Init PROVE Alerted
  OBVIOUS
<1>1. \A a \in Addr : heap[a] = 0
  BY DEF Init
<1>2. \A t \in Threads : Blames(loc[t], damaged)
  BY DEF Init, NoLoc, Blames, Corrupted
<1> QED
  BY <1>1, <1>2 DEF Alerted, Sealed, Blamed, Held

\* The application is told what is so, throughout.
LEMMA AlertInvariance ==
  ASSUME NoLateRealloc, SameFooter
  PROVE  Spec => [](SafeInv /\ (ProperUse => Alerted))
<1>1. Init => (ProperUse => Alerted)
  BY InitAlert
<1>2. SafeInv /\ (ProperUse => Alerted) /\ [Next]_vars => (ProperUse => Alerted)'
  <2> SUFFICES ASSUME SafeInv, ProperUse => Alerted, [Next]_vars, ProperUse' PROVE Alerted'
    OBVIOUS
  <2>1. ProperUse /\ misuses' = misuses
    BY MisusesGrow DEF SafeInv
  <2> QED
    BY <2>1, StepAlert DEF SafeInv
<1> QED
  BY <1>1, <1>2, SafeInvariance, PTL DEF Spec

\* An application that frees only what it owns is told of corruption only on a
\* block it overran, and of a double free only on an untracked block that lies
\* where a quarantined payload was (memsentry.cpp:305-317, 357-360).
THEOREM AlertsAreJustified ==
  ASSUME NoLateRealloc, SameFooter
  PROVE  Spec => []AlertsJustified
<1>1. SafeInv /\ (ProperUse => Alerted) => AlertsJustified
  <2> SUFFICES ASSUME SafeInv, Alerted, NEW t \in Threads
               PROVE  /\ loc[t].alarm \in {"HEADER_CORRUPTED", "FOOTER_CORRUPTED"} => loc[t].ptr \in damaged
                      /\ ProperUse /\ loc[t].alarm = "DOUBLE_FREE" => heap[loc[t].ptr] = 1
    BY DEF AlertsJustified
  <2>1. loc[t].alarm \in {"HEADER_CORRUPTED", "FOOTER_CORRUPTED"} => loc[t].ptr \in damaged
    BY DEF Alerted, Blamed, Blames, Corrupted
  <2>2. ProperUse /\ loc[t].alarm = "DOUBLE_FREE" => heap[loc[t].ptr] = 1
    BY SafeAt DEF SafeInv, ThreadSafe, AlarmFit, Whole
  <2> QED
    BY <2>1, <2>2
<1> QED
  BY <1>1, AlertInvariance, PTL

\* When no call is running, every tracked block that is still allocated is held
\* by the application or was overrun and kept; and all that the application
\* holds is there (memsentry.cpp:312-315, 363-370).
THEOREM NothingIsLost ==
  ASSUME NoLateRealloc, SameFooter
  PROVE  Spec => []NothingLost
<1>1. SafeInv /\ (ProperUse => Alerted) => NothingLost
  <2> SUFFICES ASSUME Base, Safe, Alerted, Quiescent PROVE NothingLost
    BY DEF SafeInv, NothingLost
  <2>1. ASSUME NEW p \in owned PROVE Whole(p) \/ (Block(p) /\ p \in AllTracked)
    <3>1. p \in Addr /\ Good(p)
      BY BaseData DEF Safe
    <3>2. ShardOf[p] \in Shards
      BY <3>1, ManagerAssumption
    <3> QED
      BY <3>1, <3>2 DEF Good, Known, AllTracked
  <2>2. \A t \in Threads : Hand(t) = {}
    <3> SUFFICES ASSUME NEW t \in Threads PROVE Hand(t) = {}
      OBVIOUS
    <3>1. pc[t] = "app"
      BY DEF Quiescent, At
    <3>2. loc[t] = NoLoc
      BY <3>1, AtThread DEF LocFit
    <3> QED
      BY <3>2 DEF Hand, HandOf, OldOf, NewOf, NoLoc
  <2>3. ASSUME NEW r \in Addr, heap[r] = 2
        PROVE  (r + 1 \in owned /\ r + 1 \in AllTracked) \/ r + 1 \in damaged
    <3>1. PICK p : p = r + 1 /\ p - 1 = r
      BY DEF Addr
    <3>2. p \in damaged \cup owned
      BY <2>2, <2>3, <3>1 DEF Alerted, Held
    <3>3. p \in owned => p \in Addr /\ Block(p)
      BY <2>3, <3>1, BaseData DEF Block
    <3>4. p \in owned => p \in AllTracked
      BY <2>1, <3>3, GoodCases
    <3> QED
      BY <3>1, <3>2, <3>4
  <2>4. \A p \in owned : heap[p] = 1 \/ (p - 1 \in Addr /\ heap[p - 1] = 2 /\ p \in AllTracked)
    BY <2>1 DEF Whole, Block
  <2> QED
    BY <2>3, <2>4 DEF NothingLost
<1> QED
  BY <1>1, AlertInvariance, PTL

-----------------------------------------------------------------------------
(* A block that was overrun is never handed out again.                     *)

\* The header of a block is written with the canaries of the day.
Marks == \A a \in Addr :
  heap[a] = 2 => header[a].canary = config.canary /\ (header[a].words > 0 => config.canary /\ config.footer > 0)

\* The canary of the block of p shows that it was overrun.
Broken(p) ==
  LET h == header[p - 1]
  IN h.magic # "header" \/ (config.canary /\ h.canary /\ h.words < config.footer)

Kept == \A p \in damaged : Block(p) /\ Broken(p)

\* A thread at l with the locals x has not passed over a broken block.
Notices(l, x, S) == x.ptr \in S => l # "release" /\ (l = "uncount" => x.alarm # "NONE")

Noticed == \A t \in Threads : Notices(pc[t], loc[t], damaged)

Contained == Marks /\ Kept /\ Noticed

\* A program that calls init again asks for the same canaries.  The code looks
\* for the canary of the day, not for the one the block was written with
\* (memsentry.cpp:303-304).
SameCanary == "shutdown" \in Calls => \A c, d \in Configs : c.footer = d.footer /\ c.canary = d.canary

\* The canaries are asked for as before.
SealKept == config'.canary = config.canary /\ config'.footer = config.footer

\* One thread's step, which the application may use to overrun what it holds.
LEMMA NoticeStep ==
  ASSUME Base, Safe, Contained, NEW t \in Threads, NEW l, NEW x, Moves(t, l, x),
         Notices(l, x, damaged'), damaged' \subseteq damaged \cup owned
  PROVE  Noticed'
<1>1. /\ pc'[t] = l /\ loc'[t] = x
      /\ \A u \in Threads \ {t} : pc'[u] = pc[u] /\ loc'[u] = loc[u]
  BY Moved
<1>2. ASSUME NEW u \in Threads PROVE Notices(pc[u], loc[u], damaged)'
  <2>1. CASE u = t
    BY <1>1, <2>1 DEF Notices
  <2>2. CASE u # t
    <3>1. SUFFICES ASSUME loc[u].ptr \in damaged', pc[u] \in {"uncount", "release"}
                   PROVE  pc[u] # "release" /\ (pc[u] = "uncount" => loc[u].alarm # "NONE")
      BY <1>1, <2>2 DEF Notices
    <3>2. loc[u].ptr \in Hand(u)
      <4>1. loc[u].ptr # Null
        BY <3>1, AtThread DEF LocFit, Freeing
      <4> QED
        BY <3>1, <4>1 DEF Hand, HandOf, OldOf
    <3>3. loc[u].ptr \in damaged
      BY <3>1, <3>2, SafeAt
    <3> QED
      BY <3>3 DEF Contained, Noticed, Notices
  <2> QED
    BY <2>1, <2>2
<1> QED
  BY <1>2 DEF Noticed

\* A step that writes no header of a block that stays, and takes no broken one.
LEMMA ContainStep ==
  ASSUME Base, Safe, Contained, SealKept, NEW t \in Threads, NEW l, NEW x, Moves(t, l, x),
         Notices(l, x, damaged'),
         \A a \in Addr : heap'[a] = 2 => heap[a] = 2 /\ header'[a] = header[a],
         damaged' \subseteq damaged,
         \A p \in damaged' : p - 1 \in Addr /\ heap[p - 1] = 2 => heap'[p - 1] = 2
  PROVE  Contained'
<1>1. Marks'
  BY DEF Contained, Marks, SealKept
<1>2. Kept'
  <2>1. ASSUME NEW p \in damaged' PROVE Block(p)' /\ Broken(p)'
    <3>1. Block(p) /\ Broken(p)
      BY <2>1 DEF Contained, Kept
    <3>2. p - 1 \in Addr /\ heap'[p - 1] = 2 /\ header'[p - 1] = header[p - 1]
      BY <2>1, <3>1 DEF Block
    <3> QED
      BY <3>1, <3>2 DEF Block, Broken, SealKept
  <2> QED
    BY <2>1 DEF Kept
<1>3. Noticed'
  BY NoticeStep
<1> QED
  BY <1>1, <1>2, <1>3 DEF Contained

\* The thread goes to where nothing is asked of it.
Elsewhere(t) == \E l, x : l \in Labels \ {"uncount", "release"} /\ Moves(t, l, x)

\* A step that touches no block and judges none.
LEMMA ContainElsewhere ==
  ASSUME Base, Safe, Contained, SealKept, NEW t \in Threads, Elsewhere(t),
         UNCHANGED <<heap, header, damaged>>
  PROVE  Contained'
<1>1. PICK l, x : l \in Labels \ {"uncount", "release"} /\ Moves(t, l, x)
  BY DEF Elsewhere
<1>2. Notices(l, x, damaged')
  BY <1>1 DEF Notices
<1> QED
  BY <1>1, <1>2, ContainStep

\* The steps that leave every block alone, but those that judge one.
LEMMA QuietContain ==
  ASSUME Base, Safe, Contained, SameCanary, NEW t \in Threads,
         \/ CallAlloc(t) \/ AllocCount(t) \/ AllocInsert(t) \/ AllocWatchdog(t) \/ CallbackReturns(t)
         \/ CallFree(t) \/ FreeErase(t) \/ FreeCandidate(t) \/ FreeReturn(t)
         \/ CallRealloc(t) \/ ReallocFind(t) \/ ReallocVerify(t) \/ ReallocCopy(t)
         \/ Shutdown(t) \/ Initialize(t)
  PROVE  Contained'
<1>1. UNCHANGED <<heap, header, damaged>>
  BY DEF CallAlloc, AllocCount, AllocInsert, AllocWatchdog, CallbackReturns, CallFree, FreeErase, FreeCandidate,
         FreeReturn, CallRealloc, ReallocFind, ReallocVerify, ReallocCopy, Shutdown, Initialize, memory, history
<1>2. SealKept
  <2>1. CASE Initialize(t)
    <3>1. config \in Configs
      BY BaseData
    <3> QED
      BY <2>1, <3>1 DEF Initialize, SameCanary, SealKept
  <2>2. CASE config' = config
    BY <2>2 DEF SealKept
  <2> QED
    BY <2>1, <2>2 DEF CallAlloc, AllocCount, AllocInsert, AllocWatchdog, CallbackReturns, CallFree, FreeErase,
         FreeCandidate, FreeReturn, CallRealloc, ReallocFind, ReallocVerify, ReallocCopy, Shutdown
<1>3. \A l, x : l \in Labels \ {"uncount", "release"} /\ Moves(t, l, x) => Elsewhere(t)
  BY DEF Elsewhere
<1>4. /\ {"app", "alloc", "insert", "watchdog", "callback", "copy", "erase", "verify", "done", "candidate",
           "adopt", "rawfree", "find", "rverify", "rawrealloc"} \subseteq Labels \ {"uncount", "release"}
  BY DEF Labels
<1>5. CASE CallAlloc(t) \/ AllocCount(t) \/ AllocInsert(t)
  BY <1>3, <1>4, <1>5, CallAllocBase, AllocCountBase, AllocInsertBase, <1>1, <1>2, ContainElsewhere
<1>6. CASE AllocWatchdog(t) \/ CallbackReturns(t)
  <2>1. Moves(t, "callback", loc[t]) \/ Returned(t, loc[t].new)
    BY <1>6, AllocWatchdogBase
  <2>2. Elsewhere(t)
    BY <1>3, <1>4, <2>1 DEF Returned
  <2> QED
    BY <1>1, <1>2, <2>2, ContainElsewhere
<1>7. CASE CallFree(t) \/ CallRealloc(t)
  <2>1. Elsewhere(t)
    BY <1>3, <1>4, <1>7, CallFreeBase, CallReallocBase
  <2> QED
    BY <1>1, <1>2, <2>1, ContainElsewhere
<1>8. CASE FreeErase(t)
  <2>1. Elsewhere(t)
    BY <1>3, <1>4, <1>8, FreeEraseBase
  <2> QED
    BY <1>1, <1>2, <2>1, ContainElsewhere
<1>9. CASE FreeCandidate(t) \/ FreeReturn(t)
  <2>1. Elsewhere(t)
    BY <1>3, <1>4, <1>9, FreeCandidateBase, FreeReturnBase
  <2> QED
    BY <1>1, <1>2, <2>1, ContainElsewhere
<1>10. CASE ReallocFind(t) \/ ReallocVerify(t) \/ ReallocCopy(t)
  <2>1. Elsewhere(t)
    BY <1>3, <1>4, <1>10, ReallocFindBase, ReallocVerifyBase, ReallocCopyBase
  <2> QED
    BY <1>1, <1>2, <2>1, ContainElsewhere
<1>11. CASE Shutdown(t) \/ Initialize(t)
  <2>1. Moves(t, "app", loc[t])
    BY <1>11, LifecycleBase DEF Shutdown, Initialize, Call
  <2>2. Elsewhere(t)
    BY <1>3, <1>4, <2>1
  <2> QED
    BY <1>1, <1>2, <2>2, ContainElsewhere
<1> QED
  BY <1>5, <1>6, <1>7, <1>8, <1>9, <1>10, <1>11

\* A broken block does not verify, and one that does not verify is not released.
LEMMA JudgeContain ==
  ASSUME Base, Safe, Contained, NEW t \in Threads, FreeVerify(t) \/ FreeUncount(t)
  PROVE  Contained'
<1>1. UNCHANGED <<heap, header, damaged>> /\ SealKept
  BY DEF FreeVerify, FreeUncount, memory, history, SealKept
<1>2. loc[t] \in LocType /\ ThreadSafe(pc[t], loc[t]) /\ Notices(pc[t], loc[t], damaged)
  BY AtThread, SafeAt DEF Contained, Noticed
<1>3. CASE FreeVerify(t)
  <2>1. pc[t] = "verify" /\ Moves(t, "uncount", [loc[t] EXCEPT !.verdict = Verdict(t), !.alarm = Verdict(t)])
    BY <1>3, FreeVerifyBase DEF FreeVerify
  <2>2. PICK v : v = Verdict(t)
    OBVIOUS
  <2>3. PICK a : a = loc[t].rec.raw /\ a = loc[t].ptr - 1
    BY <1>2, <2>1 DEF ThreadSafe, OldFit
  <2>4. loc[t].ptr \in damaged => v # "NONE"
    <3> SUFFICES ASSUME loc[t].ptr \in damaged PROVE v # "NONE"
      OBVIOUS
    <3>1. a \in Addr /\ Broken(loc[t].ptr)
      BY <2>3 DEF Contained, Kept, Block
    <3>2. header[a].magic # "header"
          \/ (config.canary /\ header[a].canary /\ header[a].words < FooterSize(config))
      BY <2>3, <3>1 DEF Broken, FooterSize
    <3>3. header[a].magic \in {"none", "header", "freed"}
      BY <3>1, BaseData DEF HeaderType
    <3> QED
      BY <2>2, <2>3, <3>2, <3>3 DEF Verdict, VerifyCanary
  <2>5. PICK x : x = [loc[t] EXCEPT !.verdict = v, !.alarm = v]
    OBVIOUS
  <2>6. x.ptr = loc[t].ptr /\ x.alarm = v
    BY <1>2, <2>5 DEF LocType
  <2>7. Notices("uncount", x, damaged')
    BY <1>1, <2>4, <2>6 DEF Notices
  <2>8. Moves(t, "uncount", x)
    BY <2>1, <2>2, <2>5
  <2> QED
    BY <1>1, <2>7, <2>8, ContainStep
<1>4. CASE FreeUncount(t)
  <2>1. pc[t] = "uncount"
    BY <1>4 DEF FreeUncount
  <2>2. loc[t].verdict = loc[t].alarm
    BY <1>2, <2>1 DEF ThreadSafe, AlarmFit
  <2>3. PICK l : l = IF loc[t].verdict = "NONE" THEN "release" ELSE "done"
    OBVIOUS
  <2>4. Moves(t, l, loc[t])
    BY <1>4, <2>3, FreeUncountBase
  <2>5. Notices(l, loc[t], damaged')
    BY <1>1, <1>2, <2>1, <2>2, <2>3 DEF Notices
  <2>6. PICK x : x = loc[t]
    OBVIOUS
  <2> QED
    BY <1>1, <2>4, <2>5, <2>6, ContainStep
<1> QED
  BY <1>3, <1>4

\* A cell that held no block has been written, and an untracked block may be gone.
LEMMA RawStep ==
  ASSUME Base, Safe, Contained, NEW t \in Threads, Elsewhere(t), NEW r \in Room(1),
         \A a \in Addr \ {r} : heap'[a] = heap[a] \/ (heap[a] = 1 /\ heap'[a] = 0),
         heap'[r] = 1, header' = [header EXCEPT ![r] = NoHeader],
         damaged' = damaged \ {r}, config' = config
  PROVE  Contained'
<1>1. r \in Addr /\ heap[r] = 0
  BY RoomFree
<1>2. \A a \in Addr : heap'[a] = 2 => heap[a] = 2 /\ header'[a] = header[a]
  BY <1>1, BaseData
<1>3. \A p \in damaged' : p - 1 \in Addr /\ heap[p - 1] = 2 => heap'[p - 1] = 2
  BY <1>1
<1>4. PICK l, x : l \in Labels \ {"uncount", "release"} /\ Moves(t, l, x)
  BY DEF Elsewhere
<1>5. Notices(l, x, damaged') /\ SealKept
  BY <1>4 DEF Notices, SealKept
<1>6. damaged' \subseteq damaged
  OBVIOUS
<1> QED
  BY <1>2, <1>3, <1>4, <1>5, <1>6, ContainStep

\* The steps that get an untracked block.
LEMMA RawContain ==
  ASSUME Base, Safe, Contained, NEW t \in Threads,
         AllocFallback(t) \/ AllocUnsampled(t) \/ TakeReport(t) \/ ReallocRaw(t)
  PROVE  Contained'
<1>1. config' = config /\ {"app", "copy"} \subseteq Labels \ {"uncount", "release"}
  BY DEF AllocFallback, AllocUnsampled, TakeReport, ReallocRaw, Labels
<1>2. ASSUME NEW p, Returned(t, p) PROVE Elsewhere(t)
  BY <1>1, <1>2 DEF Returned, Elsewhere
<1>3. ASSUME NEW r \in Room(1), RawAlloc(r), Elsewhere(t) PROVE Contained'
  <2>1. r \in Addr
    BY DEF Room
  <2>2. heap'[r] = 1 /\ \A a \in Addr \ {r} : heap'[a] = heap[a]
    BY <1>3, <2>1, BaseData DEF RawAlloc
  <2>3. header' = [header EXCEPT ![r] = NoHeader] /\ damaged' = damaged \ {r}
    BY <1>3 DEF RawAlloc
  <2> QED
    BY <1>1, <1>3, <2>2, <2>3, RawStep
<1>4. CASE AllocFallback(t) \/ AllocUnsampled(t)
  <2>1. \/ \E r \in Room(1) : RawAlloc(r) /\ Returned(t, r)
        \/ Returned(t, Null) /\ UNCHANGED <<heap, header, damaged>>
    BY <1>4, AllocFallbackBase, AllocUnsampledBase
  <2>2. SealKept
    BY <1>1 DEF SealKept
  <2> QED
    BY <1>2, <1>3, <2>1, <2>2, ContainElsewhere
<1>5. CASE TakeReport(t)
  <2>1. Moves(t, "app", loc[t])
    BY <1>5, TakeReportBase DEF TakeReport, Call
  <2>2. Elsewhere(t)
    BY <1>1, <2>1 DEF Elsewhere
  <2> QED
    BY <1>3, <1>5, <2>2 DEF TakeReport
<1>6. CASE ReallocRaw(t)
  <2>1. PICK p \in Addr : p = loc[t].ptr
    BY <1>6, ReallocRawBase
  <2>2. heap[p] = 1
    BY <1>6, <2>1, SafeAt DEF ReallocRaw, ThreadSafe, OldFit, Whole
  <2>3. /\ Moves(t, "app", NoLoc)
        /\ \/ UNCHANGED <<memory, damaged>>
           \/ \E r \in Room(1) : /\ heap' = [heap EXCEPT ![p] = 0, ![r] = 1]
                                 /\ header' = [header EXCEPT ![r] = NoHeader]
                                 /\ damaged' = damaged \ {r}
    BY <1>6, <2>1, <2>2, ReallocRawBase
  <2>4. Elsewhere(t) /\ SealKept
    BY <1>1, <2>3 DEF Elsewhere, SealKept
  <2>5. CASE UNCHANGED <<memory, damaged>>
    BY <2>4, <2>5, ContainElsewhere DEF memory
  <2>6. ASSUME NEW r \in Room(1), heap' = [heap EXCEPT ![p] = 0, ![r] = 1],
               header' = [header EXCEPT ![r] = NoHeader], damaged' = damaged \ {r}
        PROVE  Contained'
    <3>1. r \in Addr
      BY DEF Room
    <3>2. heap'[r] = 1 /\ \A a \in Addr \ {r} : heap'[a] = heap[a] \/ (heap[a] = 1 /\ heap'[a] = 0)
      BY <2>2, <2>6, <3>1, BaseData
    <3> QED
      BY <1>1, <2>4, <2>6, <3>2, RawStep
  <2> QED
    BY <2>3, <2>5, <2>6
<1> QED
  BY <1>4, <1>5, <1>6

\* A tracked block comes with the canaries of the day.
LEMMA AllocBlockContain ==
  ASSUME Base, Safe, Contained, NEW t \in Threads, AllocBlock(t)
  PROVE  Contained'
<1>1. SealKept /\ config' = config
  BY DEF AllocBlock, SealKept
<1>2. CASE Returned(t, Null) /\ UNCHANGED <<heap, header, damaged>>
  <2>1. Elsewhere(t)
    BY <1>2 DEF Returned, Elsewhere, Labels
  <2> QED
    BY <1>1, <1>2, <2>1, ContainElsewhere
<1>3. ASSUME NEW r \in Room(2), Sampled2(t, r) PROVE Contained'
  <2>1. r \in Addr /\ r + 2 - 1 \in Addr /\ r \in Int /\ heap[r] = 0 /\ heap[r + 2 - 1] = 0
    BY RoomFree
  <2>2. PICK s \in Addr : s = r + 1 /\ heap[s] = 0 /\ s # r
    <3>1. r + 2 - 1 = r + 1 /\ r + 1 # r
      BY <2>1
    <3> QED
      BY <2>1, <3>1
  <2>3. /\ heap' = [heap EXCEPT ![r] = 2]
        /\ header' = [header EXCEPT ![r] = InitBlock(config), ![s] = NoHeader]
        /\ damaged' = damaged \ {r, s}
    BY <1>3, <2>2 DEF Sampled2
  <2>4. \A a \in Addr : heap'[a] = IF a = r THEN 2 ELSE heap[a]
    BY <2>1, <2>3, BaseData
  <2>5. \A a \in Addr : header'[a] = IF a = s THEN NoHeader ELSE IF a = r THEN InitBlock(config) ELSE header[a]
    BY <2>1, <2>2, <2>3, BaseData
  <2>6. Marks'
    <3>1. InitBlock(config).canary = config.canary
          /\ (InitBlock(config).words > 0 => config.canary /\ config.footer > 0)
      BY BaseData, ManagerAssumption DEF InitBlock, ConfigType
    <3>2. ASSUME NEW a \in Addr, heap'[a] = 2
          PROVE  header'[a].canary = config.canary /\ (header'[a].words > 0 => config.canary /\ config.footer > 0)
      <4>1. CASE a = r
        BY <2>2, <2>5, <3>1, <4>1
      <4>2. CASE a # r
        <5>1. heap[a] = 2 /\ header'[a] = header[a]
          BY <2>2, <2>4, <2>5, <3>2, <4>2
        <5> QED
          BY <5>1 DEF Contained, Marks
      <4> QED
        BY <4>1, <4>2
    <3> QED
      BY <1>1, <3>2 DEF Marks
  <2>7. Kept'
    <3>1. ASSUME NEW p \in damaged' PROVE Block(p)' /\ Broken(p)'
      <4>1. Block(p) /\ Broken(p)
        BY <2>3, <3>1 DEF Contained, Kept
      <4>2. PICK a \in Addr : a = p - 1 /\ heap[a] = 2
        BY <4>1 DEF Block
      <4>3. a # r /\ a # s
        <5>1. heap[r] = 0 /\ heap[s] = 0
          BY <2>1, <2>2
        <5> QED
          BY <4>2, <5>1
      <4>4. heap'[a] = 2 /\ header'[a] = header[a]
        BY <2>4, <2>5, <4>2, <4>3
      <4> QED
        BY <1>1, <4>1, <4>2, <4>4 DEF Block, Broken
    <3> QED
      BY <3>1 DEF Kept
  <2>8. PICK x : Moves(t, "count", x)
    BY <1>3 DEF Sampled2
  <2>9. Notices("count", x, damaged')
    BY DEF Notices
  <2>10. Noticed'
    BY <2>3, <2>8, <2>9, NoticeStep
  <2> QED
    BY <2>6, <2>7, <2>10 DEF Contained
<1> QED
  BY <1>2, <1>3, AllocBlockBase

\* What goes back to the system was not overrun.
LEMMA ReleaseContain ==
  ASSUME Base, Safe, Contained, NEW t \in Threads,
         FreeRelease(t) \/ FreeUntracked(t) \/ \E p \in Addr : Passes(t, p) /\ heap[p] = 1
  PROVE  Contained'
<1>1. ASSUME NEW a \in Addr, Emptied(a), NEW l, NEW x, Moves(t, l, x), l \notin {"uncount", "release"},
             \A p \in damaged : p - 1 # a
      PROVE  Contained'
  <2>1. \A b \in Addr : heap'[b] = IF b = a THEN 0 ELSE heap[b]
    BY <1>1, BaseData DEF Emptied
  <2>2. \A b \in Addr : heap'[b] = 2 => heap[b] = 2 /\ header'[b] = header[b]
    BY <1>1, <2>1 DEF Emptied
  <2>3. damaged' = damaged /\ SealKept
    BY <1>1 DEF Emptied, SealKept
  <2>4. \A p \in damaged' : p - 1 \in Addr /\ heap[p - 1] = 2 => heap'[p - 1] = 2
    BY <1>1, <2>1, <2>3
  <2>5. Notices(l, x, damaged')
    BY <1>1 DEF Notices
  <2> QED
    BY <1>1, <2>2, <2>3, <2>4, <2>5, ContainStep
<1>2. ASSUME NEW a \in Addr, heap[a] # 2 PROVE \A p \in damaged : p - 1 # a
  BY <1>2 DEF Contained, Kept, Block
<1>3. CASE FreeRelease(t)
  <2>1. pc[t] = "release" /\ Moves(t, "done", loc[t])
    BY <1>3, FreeReleaseBase DEF FreeRelease
  <2>2. LocFit("release", loc[t]) /\ loc[t] \in LocType /\ ThreadSafe("release", loc[t]) /\ loc[t].ptr \notin damaged
    BY <2>1, AtThread, SafeAt DEF Contained, Noticed, Notices
  <2>3. PICK a \in Addr : a = loc[t].rec.raw
    BY <1>3, FreeReleaseBase
  <2>4. heap[a] = 2 /\ a = loc[t].ptr - 1 /\ loc[t].ptr \in Addr
    BY <2>2, <2>3 DEF ThreadSafe, OldFit, Block, LocFit, Freeing, LocType
  <2>5. \A p \in damaged : p - 1 # a
    <3>1. PICK q \in Addr : q = loc[t].ptr
      BY <2>4
    <3>2. q \notin damaged /\ a = q - 1
      BY <2>2, <2>4, <3>1
    <3>3. ASSUME NEW p \in damaged, p - 1 = a PROVE FALSE
      <4>1. p \in Addr
        BY BaseData, <3>3
      <4>2. p = q
        BY <3>2, <3>3, <4>1 DEF Addr
      <4> QED
        BY <3>2, <3>3, <4>2
    <3> QED
      BY <3>3
  <2>6. Emptied(a)
    <3>1. heap' = [heap EXCEPT ![a] = 0] /\ header' = [header EXCEPT ![a] = Poison(header[a])]
      BY <1>3, <2>3, <2>4 DEF FreeRelease, RawFree
    <3>2. UNCHANGED <<damaged, config>>
      BY <1>3 DEF FreeRelease, history
    <3> QED
      BY <3>1, <3>2, BaseData DEF Emptied
  <2>7. PICK x : Moves(t, "done", x)
    BY <2>1
  <2> QED
    BY <1>1, <2>5, <2>6, <2>7
<1>4. CASE FreeUntracked(t)
  <2>1. pc[t] = "rawfree" /\ Moves(t, "done", loc[t])
    BY <1>4, FreeUntrackedBase DEF FreeUntracked
  <2>2. PICK p \in Addr : p = loc[t].ptr
    BY <1>4, FreeUntrackedBase
  <2>3. heap[p] = 1
    BY <2>1, <2>2, SafeAt DEF ThreadSafe, OldFit, Whole
  <2>4. Emptied(p)
    <3>1. heap' = [heap EXCEPT ![p] = 0]
      BY <1>4, <2>2, <2>3 DEF FreeUntracked, RawFree
    <3>2. UNCHANGED <<header, damaged, config>>
      BY <1>4 DEF FreeUntracked, history
    <3> QED
      BY <3>1, <3>2 DEF Emptied
  <2>5. PICK x : Moves(t, "done", x)
    BY <2>1
  <2> QED
    BY <1>1, <1>2, <2>3, <2>4, <2>5
<1>5. CASE \E p \in Addr : Passes(t, p) /\ heap[p] = 1
  <2>1. PICK p \in Addr : Passes(t, p) /\ heap[p] = 1
    BY <1>5
  <2>2. p \in owned
    BY <2>1 DEF Passes
  <2>3. Emptied(p)
    <3>1. heap' = [heap EXCEPT ![p] = 0]
      BY <2>1 DEF Passes, RawFree
    <3>2. UNCHANGED <<header, damaged, config>>
      BY <2>1 DEF Passes, history
    <3> QED
      BY <3>1, <3>2 DEF Emptied
  <2>4. PICK l, x : l = pc[t] /\ x = loc[t]
    OBVIOUS
  <2>5. Moves(t, l, x) /\ l \notin {"uncount", "release"}
    BY <2>1, <2>4, PassesBase DEF Passes
  <2> QED
    BY <1>1, <1>2, <2>1, <2>2, <2>3, <2>5
<1> QED
  BY <1>3, <1>4, <1>5

\* An overrun breaks the canary or the magic.
LEMMA DamageContain ==
  ASSUME Base, Safe, Contained, NEW t \in Threads, Damage(t)
  PROVE  Contained'
<1>1. PICK p \in owned :
        /\ p - 1 \in Addr /\ heap[p - 1] = 2
        /\ \/ header' = [header EXCEPT ![p - 1].words = 0] /\ header[p - 1].words > 0
           \/ header' = [header EXCEPT ![p - 1].magic = "none"]
        /\ damaged' = damaged \cup {p}
  BY DEF Damage
<1>2. PICK a \in Addr : a = p - 1 /\ heap[a] = 2
  BY <1>1
<1>3. UNCHANGED <<heap, config>> /\ pc[t] = "app"
  BY DEF Damage, Call
<1>4. header[a].canary = config.canary /\ (header[a].words > 0 => config.canary /\ config.footer > 0)
  BY <1>2 DEF Contained, Marks
<1>5. header[a] \in HeaderType /\ config.footer \in Nat
  BY BaseData, ManagerAssumption DEF ConfigType
<1>6. /\ \A b \in Addr \ {a} : header'[b] = header[b]
      /\ header'[a].canary = header[a].canary
      /\ header'[a].words \in {header[a].words, 0}
      /\ header'[a].magic = "none" \/ (header[a].words > 0 /\ header'[a].words = 0)
      /\ header'[a].magic \in {header[a].magic, "none"}
  <2>1. header \in [Addr -> HeaderType]
    BY BaseData
  <2>2. CASE header' = [header EXCEPT ![a].words = 0] /\ header[a].words > 0
    BY <1>5, <2>1, <2>2 DEF HeaderType
  <2>3. CASE header' = [header EXCEPT ![a].magic = "none"]
    BY <1>5, <2>1, <2>3 DEF HeaderType
  <2> QED
    BY <1>1, <1>2, <2>2, <2>3
<1>7. Marks'
  <2>1. ASSUME NEW b \in Addr, heap'[b] = 2
        PROVE  header'[b].canary = config.canary /\ (header'[b].words > 0 => config.canary /\ config.footer > 0)
    <3>1. CASE b = a
      BY <1>4, <1>6, <3>1
    <3>2. CASE b # a
      BY <1>3, <1>6, <2>1, <3>2 DEF Contained, Marks
    <3> QED
      BY <3>1, <3>2
  <2> QED
    BY <1>3, <2>1 DEF Marks
<1>8. header'[a].magic # "header" \/ (config.canary /\ header'[a].canary /\ header'[a].words < config.footer)
  BY <1>4, <1>5, <1>6
<1>9. Kept'
  <2>1. ASSUME NEW q \in damaged' PROVE Block(q)' /\ Broken(q)'
    <3>1. CASE q - 1 = a
      BY <1>2, <1>3, <1>8, <3>1 DEF Block, Broken
    <3>2. CASE q - 1 # a
      <4>1. q # p
        BY <1>2, <3>2
      <4>2. Block(q) /\ Broken(q)
        BY <1>1, <2>1, <4>1 DEF Contained, Kept
      <4>3. q - 1 \in Addr /\ header'[q - 1] = header[q - 1]
        BY <1>6, <3>2, <4>2 DEF Block
      <4> QED
        BY <1>3, <4>2, <4>3 DEF Block, Broken
    <3> QED
      BY <3>1, <3>2
  <2> QED
    BY <2>1 DEF Kept
<1>10. Moves(t, "app", loc[t])
  BY <1>3, DamageBase
<1>11. PICK x : Moves(t, "app", x)
  BY <1>10
<1>12. Notices("app", x, damaged')
  BY DEF Notices
<1>13. Noticed'
  BY <1>1, <1>11, <1>12, NoticeStep
<1> QED
  BY <1>7, <1>9, <1>13 DEF Contained

\* Every step of a program that frees what it owns.
LEMMA StepContain ==
  ASSUME Base, CallsInv, NoLateRealloc, Safe, Contained, SameCanary, [Next]_vars, misuses' = misuses
  PROVE  Contained'
<1>1. CASE UNCHANGED vars
  <2>1. UNCHANGED <<heap, header, config, pc, loc, damaged>>
    BY <1>1 DEF vars, memory, history
  <2> QED
    BY <2>1 DEF Contained, Marks, Kept, Block, Broken, Noticed, Notices
<1>2. ASSUME NEW t \in Threads, Alloc(t) PROVE Contained'
  BY <1>2, QuietContain, RawContain, AllocBlockContain, CallbackPasses, ReleaseContain DEF Alloc
<1>3. ASSUME NEW t \in Threads, Dealloc(t) PROVE Contained'
  BY <1>3, QuietContain, JudgeContain, ReleaseContain, FreeAdoptSafe DEF Dealloc
<1>4. ASSUME NEW t \in Threads, Realloc(t) PROVE Contained'
  BY <1>4, QuietContain, RawContain, NothingUntracked, ReleaseContain DEF Realloc
<1>5. ASSUME NEW t \in Threads, Damage(t) \/ TakeReport(t) \/ Shutdown(t) \/ Initialize(t) PROVE Contained'
  BY <1>5, DamageContain, RawContain, QuietContain
<1> QED
  BY <1>1, <1>2, <1>3, <1>4, <1>5 DEF Next, Rest

\* A block with a broken canary is reported when it is freed, and its memory
\* never goes back to the system to be handed out again (memsentry.cpp:301-315).
THEOREM DamageIsContained ==
  ASSUME NoLateRealloc, SameCanary
  PROVE  Spec => []DamageContained
<1>1. Init => (ProperUse => Contained)
  BY DEF Init, NoLoc, Contained, Marks, Kept, Noticed, Notices
<1>2. SafeInv /\ (ProperUse => Contained) /\ [Next]_vars => (ProperUse => Contained)'
  <2> SUFFICES ASSUME SafeInv, ProperUse => Contained, [Next]_vars, ProperUse' PROVE Contained'
    OBVIOUS
  <2>1. ProperUse /\ misuses' = misuses
    BY MisusesGrow DEF SafeInv
  <2> QED
    BY <2>1, StepContain DEF SafeInv
<1>3. SafeInv /\ (ProperUse => Contained) => DamageContained
  BY DEF DamageContained, Contained, Kept, Block, Noticed, Notices, At
<1> QED
  BY <1>1, <1>2, <1>3, SafeInvariance, PTL DEF Spec

=============================================================================
