-------------------------- MODULE MemoryStatsProofs --------------------------
(***************************************************************************)
(* The statistics for every set of threads and blocks, every size and every *)
(* limit.                                                                  *)
(*                                                                         *)
(* Six of the seven counters count blocks, or the bytes of blocks: those   *)
(* counted in and, for two of the counters, not yet counted out.  Which    *)
(* blocks a counter holds at a moment depends on the updates that the      *)
(* running calls still have to make to it.  The peak is not counted: there *)
(* either it has reached the high-water mark or a thread that saw the mark *)
(* is still raising it.                                                    *)
(***************************************************************************)
EXTENDS MemoryStats, FiniteSetTheorems, TLAPS

USE NoneAssumption, SizeAssumption, LimitAssumption, BlocksAssumption, ReadersAssumption

PeakSteps == {"load_peak", "raise_peak"}

Types ==
  /\ stats \in [Fields -> Int]
  /\ block \in [Blocks -> {"new", "allocating", "tracked", "freeing", "gone"}]
  /\ op \in [Threads -> [name : {"idle", "alloc", "watchdog", "free", "snapshot"},
                         on : Blocks \cup {None}]]
  /\ todo \in [Threads -> SUBSET (Fields \cup PeakSteps)]
  /\ current \in [Threads -> Int]
  /\ peak \in [Threads -> Int]
  /\ snap \in [Threads -> [Fields -> Int]]
  /\ highWater \in Int
  /\ alarmed \in BOOLEAN

Allocates(t, b) == op[t].name = "alloc" /\ op[t].on = b

Frees(t, b) == op[t].name = "free" /\ op[t].on = b

\* A block that is allocated or freed is in the hands of one thread.
OneOwner ==
  /\ \A b \in Blocks : block[b] = "allocating" => \E t \in Threads : Allocates(t, b)
  /\ \A b \in Blocks : block[b] = "freeing" => \E t \in Threads : Frees(t, b)
  /\ \A t \in Updating : op[t].on \in Blocks
  /\ \A t \in Updating : block[op[t].on] = IF op[t].name = "alloc" THEN "allocating" ELSE "freeing"
  /\ \A t, u \in Updating : op[t].on = op[u].on => t = u

\* What a call has still to do.
TodoInv ==
  \A t \in Threads :
    /\ op[t].name = "alloc" => todo[t] \subseteq AllocFields \cup PeakSteps
    /\ op[t].name = "free" => todo[t] \subseteq FreeFields
    /\ op[t].name = "snapshot" => todo[t] \subseteq Fields
    /\ op[t].name \in {"idle", "watchdog"} => todo[t] = {}
    /\ "current_allocated_bytes" \in todo[t] => todo[t] \cap PeakSteps = {}

\* The blocks that a field has counted in, and out.
In(f) == {b \in Blocks : \/ block[b] \in {"tracked", "freeing", "gone"}
                         \/ \E t \in Threads : Allocates(t, b) /\ f \notin todo[t]}

Out(f) == {b \in Blocks : \/ block[b] = "gone"
                          \/ \E t \in Threads : Frees(t, b) /\ f \notin todo[t]}

Counted(f) ==
  CASE f \in {"total_allocated_bytes", "total_allocation_count"} -> In(f)
    [] f \in {"total_freed_bytes", "total_free_count"}           -> Out(f)
    [] OTHER                                                     -> In(f) \ Out(f)

ByteFields == {"total_allocated_bytes", "total_freed_bytes", "current_allocated_bytes"}

Amount(f, S) == IF f \in ByteFields THEN Cardinality(Bytes(S)) ELSE Cardinality(S)

Accounts == \A f \in Fields \ {"peak_allocated_bytes"} : stats[f] = Amount(f, Counted(f))

Raising(t) == op[t].name = "alloc" /\ todo[t] \cap PeakSteps # {}

PeakInv ==
  /\ 0 <= stats["peak_allocated_bytes"]
  /\ stats["peak_allocated_bytes"] <= highWater
  /\ stats["current_allocated_bytes"] <= highWater
  /\ \A t \in Threads : /\ current[t] <= highWater
                        /\ peak[t] <= stats["peak_allocated_bytes"]
                        /\ snap[t]["peak_allocated_bytes"] <= highWater
                        /\ snap[t]["current_allocated_bytes"] <= highWater
  /\ \/ stats["peak_allocated_bytes"] = highWater
     \/ \E t \in Threads : Raising(t) /\ current[t] = highWater

\* An excess that nobody has announced is known to a thread that will look.
NoticeInv ==
  stats["current_allocated_bytes"] > Limit =>
    \/ alarmed
    \/ \E t \in Threads : \/ op[t].name = "watchdog"
                          \/ op[t].name = "alloc" /\ "current_allocated_bytes" \notin todo[t]

\* Whose block it is, and what is left to be done with it.
Calls == Types /\ OneOwner /\ TodoInv

IInv == Calls /\ Accounts /\ PeakInv /\ NoticeInv

-----------------------------------------------------------------------------
(* Counting blocks and bytes.                                              *)

\* The counters by name.
LEMMA FieldsAre ==
  Fields = {"total_allocated_bytes", "total_freed_bytes", "current_allocated_bytes",
            "peak_allocated_bytes", "total_allocation_count", "total_free_count",
            "active_allocation_count"}
<1>1. 1 .. 7 = {1, 2, 3, 4, 5, 6, 7}
  OBVIOUS
<1> QED
  BY <1>1 DEF Fields, LoadOrder

\* A set of blocks has as many bytes as their sizes add up to; one block more
\* has its size more.
LEMMA BytesFinite ==
  ASSUME NEW S \in SUBSET Blocks
  PROVE  IsFiniteSet(Bytes(S))
<1> DEFINE B(b) == {b} \X (1 .. Size[b])
           F == {B(b) : b \in S}
<1>1. IsFiniteSet(S)
  BY FS_Subset
<1>2. IsFiniteSet(F)
  <2> DEFINE g == [b \in S |-> B(b)]
  <2>1. g \in Surjection(S, F)
    BY DEF Surjection
  <2> HIDE DEF g, F
  <2> QED
    BY <1>1, <2>1, FS_Surjection
<1>3. ASSUME NEW b \in S PROVE IsFiniteSet(B(b))
  <2>1. IsFiniteSet({b})
    BY FS_Singleton
  <2>2. 1 \in Int /\ Size[b] \in Int
    OBVIOUS
  <2>3. IsFiniteSet(1 .. Size[b])
    BY <2>2, FS_Interval
  <2> QED
    BY <2>1, <2>3, FS_Product
<1>4. IsFiniteSet(UNION F)
  BY <1>2, <1>3, FS_UNION
<1> QED
  BY <1>4 DEF Bytes

\* A block has as many bytes as its size.
LEMMA BytesOfOne ==
  ASSUME NEW b \in Blocks
  PROVE  Cardinality({b} \X (1 .. Size[b])) = Size[b]
<1>1. IsFiniteSet({b}) /\ Cardinality({b}) = 1
  BY FS_Singleton
<1>2. 1 \in Int /\ Size[b] \in Int /\ Size[b] \in Nat
  OBVIOUS
<1>3. IsFiniteSet(1 .. Size[b]) /\ Cardinality(1 .. Size[b]) = Size[b]
  BY <1>2, FS_Interval
<1>4. Cardinality({b} \X (1 .. Size[b])) = Cardinality({b}) * Cardinality(1 .. Size[b])
  BY <1>1, <1>3, FS_Product
<1> QED
  BY <1>1, <1>2, <1>3, <1>4

Weight(f, b) == IF f \in ByteFields THEN Size[b] ELSE 1

\* What a counter holds for a set of blocks is a natural number ...
LEMMA AmountType ==
  ASSUME NEW f, NEW S \in SUBSET Blocks
  PROVE  Amount(f, S) \in Nat
  BY BytesFinite, FS_Subset, FS_CardinalityType DEF Amount

\* ... that one block more adds its weight to ...
LEMMA AmountAdd ==
  ASSUME NEW f, NEW S \in SUBSET Blocks, NEW b \in Blocks, b \notin S
  PROVE  Amount(f, S \cup {b}) = Amount(f, S) + Weight(f, b)
<1>1. CASE f \in ByteFields
  <2> DEFINE one == {b} \X (1 .. Size[b])
  <2>1. Bytes(S \cup {b}) = Bytes(S) \cup one
    BY DEF Bytes
  <2>2. Bytes(S) \cap one = {}
    BY DEF Bytes
  <2>3. IsFiniteSet(Bytes(S)) /\ IsFiniteSet(one)
    <3>1. Bytes({b}) = one /\ {b} \in SUBSET Blocks
      BY DEF Bytes
    <3> QED
      BY <3>1, BytesFinite
  <2>4. Cardinality(one) = Size[b]
    BY BytesOfOne
  <2>5. Cardinality(Bytes(S) \cup one) =
          Cardinality(Bytes(S)) + Cardinality(one) - Cardinality(Bytes(S) \cap one)
    BY <2>3, FS_Union
  <2>6. Cardinality(Bytes(S) \cap one) = 0 /\ Cardinality(Bytes(S)) \in Nat
    BY <2>2, <2>3, FS_EmptySet, FS_CardinalityType
  <2>7. Cardinality(Bytes(S) \cup one) = Cardinality(Bytes(S)) + Size[b]
    <3> HIDE DEF one
    <3> QED
      BY <2>4, <2>5, <2>6
  <2>8. Cardinality(Bytes(S \cup {b})) = Cardinality(Bytes(S)) + Size[b]
    BY <2>1, <2>7
  <2> QED
    BY <1>1, <2>8 DEF Amount, Weight
<1>2. CASE f \notin ByteFields
  <2>1. IsFiniteSet(S)
    BY FS_Subset
  <2> QED
    BY <1>2, <2>1, FS_AddElement DEF Amount, Weight
<1> QED
  BY <1>1, <1>2

\* ... and one block less takes it off.
LEMMA AmountRemove ==
  ASSUME NEW f, NEW S \in SUBSET Blocks, NEW b \in S
  PROVE  Amount(f, S \ {b}) = Amount(f, S) - Weight(f, b)
<1>1. S \ {b} \in SUBSET Blocks /\ (S \ {b}) \cup {b} = S
  OBVIOUS
<1>2. Amount(f, S) = Amount(f, S \ {b}) + Weight(f, b)
  BY <1>1, AmountAdd
<1>3. Weight(f, b) \in Nat /\ Amount(f, S \ {b}) \in Nat
  BY <1>1, AmountType DEF Weight
<1> QED
  BY <1>2, <1>3

\* The blocks left over weigh the difference.
LEMMA AmountDifference ==
  ASSUME NEW f, NEW S \in SUBSET Blocks, NEW T \in SUBSET S
  PROVE  Amount(f, S \ T) = Amount(f, S) - Amount(f, T)
<1>1. CASE f \in ByteFields
  <2>1. Bytes(S \ T) = Bytes(S) \ Bytes(T) /\ Bytes(T) \subseteq Bytes(S)
    BY DEF Bytes
  <2>2. IsFiniteSet(Bytes(S)) /\ IsFiniteSet(Bytes(T))
    BY BytesFinite
  <2>3. Bytes(S) \cap Bytes(T) = Bytes(T)
    BY <2>1
  <2> QED
    BY <1>1, <2>1, <2>2, <2>3, FS_Difference DEF Amount
<1>2. CASE f \notin ByteFields
  <2>1. IsFiniteSet(S) /\ IsFiniteSet(T) /\ S \cap T = T
    BY FS_Subset
  <2> QED
    BY <1>2, <2>1, FS_Difference DEF Amount
<1> QED
  BY <1>1, <1>2

-----------------------------------------------------------------------------
(* Who does what.                                                          *)

\* An update moves a counter by the weight of the block.
LEMMA DeltaIs ==
  ASSUME Calls, NEW t \in Updating, NEW f \in todo[t] \cap Fields
  PROVE  /\ op[t].on \in Blocks
         /\ f # "peak_allocated_bytes"
         /\ op[t].name = "alloc" => Delta(op[t].name, f, op[t].on) = Weight(f, op[t].on)
         /\ op[t].name = "free" =>
              Delta(op[t].name, f, op[t].on) =
                IF f \in {"total_freed_bytes", "total_free_count"}
                THEN Weight(f, op[t].on) ELSE -Weight(f, op[t].on)
<1>1. op[t].on \in Blocks /\ op[t].name \in {"alloc", "free"}
  BY DEF Calls, OneOwner, Updating
<1>2. CASE op[t].name = "alloc"
  <2>1. f \in AllocFields
    BY <1>2, FieldsAre DEF Calls, TodoInv, Updating, PeakSteps
  <2> QED
    BY <1>1, <1>2, <2>1 DEF Delta, Weight, AllocFields, ByteFields
<1>3. CASE op[t].name = "free"
  <2>1. f \in FreeFields
    BY <1>3 DEF Calls, TodoInv, Updating
  <2> QED
    BY <1>1, <1>3, <2>1 DEF Delta, Weight, FreeFields, ByteFields
<1> QED
  BY <1>1, <1>2, <1>3

\* At the start no call runs.
LEMMA InitCalls == Init => Calls
<1> SUFFICES ASSUME Init PROVE Calls
  OBVIOUS
<1>1. Types
  <2>1. \A t \in Threads : op[t] = [name |-> "idle", on |-> None]
    BY DEF Init, Idle
  <2>2. op \in [Threads -> [name : {"idle", "alloc", "watchdog", "free", "snapshot"},
                           on : Blocks \cup {None}]]
    BY <2>1 DEF Init
  <2>3. /\ stats \in [Fields -> Int] /\ snap \in [Threads -> [Fields -> Int]]
        /\ current \in [Threads -> Int] /\ peak \in [Threads -> Int]
    BY DEF Init
  <2>4. todo \in [Threads -> SUBSET (Fields \cup PeakSteps)]
    BY DEF Init
  <2>5. block \in [Blocks -> {"new", "allocating", "tracked", "freeing", "gone"}]
    BY DEF Init
  <2>6. highWater \in Int
    BY DEF Init
  <2>7. alarmed \in BOOLEAN
    BY Zenon DEF Init
  <2> QED
    BY <2>2, <2>3, <2>4, <2>5, <2>6, <2>7 DEF Types
<1>2. Updating = {}
  BY DEF Init, Updating, Idle
<1> QED
  BY <1>1, <1>2 DEF Init, Calls, OneOwner, TodoInv, Idle

\* A call to count an allocation begins.
LEMMA BeginAllocCalls ==
  ASSUME Calls, NEW t \in Threads, BeginAlloc(t)
  PROVE  Calls'
<1>1. PICK b \in Blocks :
        /\ block[b] = "new"
        /\ block' = [block EXCEPT ![b] = "allocating"]
        /\ op' = [op EXCEPT ![t] = [name |-> "alloc", on |-> b]]
  BY DEF BeginAlloc
<1>2. /\ op[t].name = "idle" /\ todo' = [todo EXCEPT ![t] = AllocFields]
      /\ UNCHANGED <<stats, current, peak, snap, highWater, alarmed>>
  BY DEF BeginAlloc
<1>3. AllocFields \subseteq Fields
  BY FieldsAre DEF AllocFields
<1>4. Types'
  BY <1>1, <1>2, <1>3 DEF Calls, Types
<1>5. /\ op'[t].name = "alloc" /\ op'[t].on = b /\ block'[b] = "allocating"
      /\ todo'[t] = AllocFields
      /\ \A u \in Threads \ {t} : op'[u] = op[u] /\ todo'[u] = todo[u]
      /\ \A c \in Blocks \ {b} : block'[c] = block[c]
  BY <1>1, <1>2 DEF Calls, Types
<1>6. Updating' = Updating \cup {t}
  BY <1>5 DEF Updating
<1>7. \A u \in Updating : u # t /\ op[u].on # b
  BY <1>1, <1>2 DEF Calls, OneOwner, Updating
<1>8. OneOwner'
  BY <1>1, <1>2, <1>5, <1>6, <1>7 DEF Calls, OneOwner, Allocates, Frees
<1>9. TodoInv'
  BY <1>2, <1>5 DEF Calls, TodoInv, AllocFields, PeakSteps
<1> QED
  BY <1>4, <1>8, <1>9 DEF Calls

\* A call to count a free begins.
LEMMA BeginFreeCalls ==
  ASSUME Calls, NEW t \in Threads, BeginFree(t)
  PROVE  Calls'
<1>1. PICK b \in Blocks :
        /\ block[b] = "tracked"
        /\ block' = [block EXCEPT ![b] = "freeing"]
        /\ op' = [op EXCEPT ![t] = [name |-> "free", on |-> b]]
  BY DEF BeginFree
<1>2. /\ op[t].name = "idle" /\ todo' = [todo EXCEPT ![t] = FreeFields]
      /\ UNCHANGED <<stats, current, peak, snap, highWater, alarmed>>
  BY DEF BeginFree
<1>3. FreeFields \subseteq Fields
  BY FieldsAre DEF FreeFields
<1>4. Types'
  BY <1>1, <1>2, <1>3 DEF Calls, Types
<1>5. /\ op'[t].name = "free" /\ op'[t].on = b /\ block'[b] = "freeing"
      /\ todo'[t] = FreeFields
      /\ \A u \in Threads \ {t} : op'[u] = op[u] /\ todo'[u] = todo[u]
      /\ \A c \in Blocks \ {b} : block'[c] = block[c]
  BY <1>1, <1>2 DEF Calls, Types
<1>6. Updating' = Updating \cup {t}
  BY <1>5 DEF Updating
<1>7. \A u \in Updating : u # t /\ op[u].on # b
  BY <1>1, <1>2 DEF Calls, OneOwner, Updating
<1>8. OneOwner'
  BY <1>1, <1>2, <1>5, <1>6, <1>7 DEF Calls, OneOwner, Allocates, Frees
<1>9. TodoInv'
  BY <1>2, <1>5 DEF Calls, TodoInv, FreeFields, PeakSteps
<1> QED
  BY <1>4, <1>8, <1>9 DEF Calls

\* A step of a call on the atomics.
LEMMA UpdateCalls ==
  ASSUME Calls, NEW t \in Threads, NEW f \in Fields, Update(t, f)
  PROVE  Calls'
<1> DEFINE value == stats[f] + Delta(op[t].name, f, op[t].on)
           raises == op[t].name = "alloc" /\ f = "current_allocated_bytes"
           rest == (todo[t] \ {f}) \cup (IF raises THEN {"load_peak"} ELSE {})
<1>1. /\ op[t].name \in {"alloc", "free"} /\ f \in todo[t]
      /\ stats' = [stats EXCEPT ![f] = value]
      /\ current' = IF raises THEN [current EXCEPT ![t] = value] ELSE current
      /\ todo' = [todo EXCEPT ![t] = rest]
      /\ highWater' = IF raises /\ value > highWater THEN value ELSE highWater
      /\ alarmed' = IF f = "current_allocated_bytes" /\ value <= Limit THEN FALSE ELSE alarmed
      /\ UNCHANGED <<block, op, peak, snap>>
  BY DEF Update
<1>2. value \in Int
  <2>1. t \in Updating
    BY <1>1 DEF Updating
  <2>2. Delta(op[t].name, f, op[t].on) \in Int
    BY <1>1, <2>1, DeltaIs DEF Weight
  <2> QED
    BY <2>2 DEF Calls, Types
<1>3. rest \subseteq Fields \cup PeakSteps
  BY DEF Calls, Types, PeakSteps
<1> HIDE DEF value, rest
<1>4. Types'
  BY <1>1, <1>2, <1>3 DEF Calls, Types
<1>5. OneOwner'
  BY <1>1 DEF Calls, OneOwner, Allocates, Frees, Updating
<1>6. /\ todo'[t] = (todo[t] \ {f}) \cup (IF raises THEN {"load_peak"} ELSE {})
      /\ \A u \in Threads \ {t} : todo'[u] = todo[u]
  BY <1>1 DEF Calls, Types, rest
<1>7. TodoInv'
  <2> SUFFICES ASSUME NEW u \in Threads
               PROVE  /\ op[u].name = "alloc" => todo'[u] \subseteq AllocFields \cup PeakSteps
                      /\ op[u].name = "free" => todo'[u] \subseteq FreeFields
                      /\ op[u].name = "snapshot" => todo'[u] \subseteq Fields
                      /\ op[u].name \in {"idle", "watchdog"} => todo'[u] = {}
                      /\ "current_allocated_bytes" \in todo'[u] => todo'[u] \cap PeakSteps = {}
    BY <1>1 DEF TodoInv
  <2>1. CASE u # t
    BY <1>6, <2>1 DEF Calls, TodoInv
  <2>2. CASE u = t
    BY <1>1, <1>6, <2>2 DEF Calls, TodoInv, PeakSteps
  <2> QED
    BY <2>1, <2>2
<1> QED
  BY <1>4, <1>5, <1>7 DEF Calls

\* The two steps of the loop that raises the peak.
LEMMA PeakCalls ==
  ASSUME Calls, NEW t \in Threads, LoadPeak(t) \/ RaisePeak(t)
  PROVE  Calls'
<1>1. "peak_allocated_bytes" \in Fields
  BY FieldsAre
<1>2. Types'
  <2>1. CASE LoadPeak(t)
    BY <1>1, <2>1 DEF LoadPeak, Calls, Types, PeakSteps
  <2>2. CASE RaisePeak(t)
    <3>1. /\ stats' = stats \/ stats' = [stats EXCEPT !["peak_allocated_bytes"] = current[t]]
          /\ peak' = peak \/ peak' = [peak EXCEPT ![t] = stats["peak_allocated_bytes"]]
          /\ todo' = todo \/ todo' = [todo EXCEPT ![t] = todo[t] \ {"raise_peak"}]
          /\ UNCHANGED <<block, op, current, snap, highWater, alarmed>>
      BY <2>2 DEF RaisePeak
    <3>2. stats' \in [Fields -> Int] /\ peak' \in [Threads -> Int]
      BY <1>1, <3>1 DEF Calls, Types
    <3>3. todo' \in [Threads -> SUBSET (Fields \cup PeakSteps)]
      <4>1. todo[t] \ {"raise_peak"} \in SUBSET (Fields \cup PeakSteps)
        BY DEF Calls, Types
      <4> QED
        BY <3>1, <4>1 DEF Calls, Types
    <3> QED
      BY <3>1, <3>2, <3>3 DEF Calls, Types
  <2> QED
    BY <2>1, <2>2
<1>3. block' = block /\ op' = op /\ todo[t] \cap PeakSteps # {}
  BY DEF LoadPeak, RaisePeak, PeakSteps
<1>4. OneOwner'
  BY <1>3 DEF Calls, OneOwner, Allocates, Frees, Updating
<1>5. op[t].name = "alloc"
  BY <1>3, FieldsAre DEF Calls, Types, TodoInv, FreeFields, PeakSteps
<1>6. /\ \A u \in Threads \ {t} : todo'[u] = todo[u]
      /\ todo'[t] \subseteq todo[t] \cup PeakSteps
  BY DEF Calls, Types, LoadPeak, RaisePeak, PeakSteps
<1>7. TodoInv'
  <2> SUFFICES ASSUME NEW u \in Threads
               PROVE  /\ op[u].name = "alloc" => todo'[u] \subseteq AllocFields \cup PeakSteps
                      /\ op[u].name = "free" => todo'[u] \subseteq FreeFields
                      /\ op[u].name = "snapshot" => todo'[u] \subseteq Fields
                      /\ op[u].name \in {"idle", "watchdog"} => todo'[u] = {}
                      /\ "current_allocated_bytes" \in todo'[u] => todo'[u] \cap PeakSteps = {}
    BY <1>3 DEF TodoInv
  <2>1. CASE u # t
    BY <1>6, <2>1 DEF Calls, TodoInv
  <2>2. CASE u = t
    BY <1>3, <1>5, <1>6, <2>2 DEF Calls, TodoInv, PeakSteps
  <2> QED
    BY <2>1, <2>2
<1> QED
  BY <1>2, <1>4, <1>7 DEF Calls

\* A call that hands its block over or lets it go.
LEMMA EndUpdateCalls ==
  ASSUME Calls, NEW t \in Threads, Insert(t) \/ EndFree(t)
  PROVE  Calls'
<1> DEFINE b == op[t].on
           next == IF op[t].name = "alloc" THEN "tracked" ELSE "gone"
           o == IF op[t].name = "alloc" THEN [op[t] EXCEPT !.name = "watchdog"] ELSE Idle
<1>1. /\ op[t].name \in {"alloc", "free"} /\ todo[t] = {}
      /\ block' = [block EXCEPT ![b] = next]
      /\ op' = [op EXCEPT ![t] = o]
      /\ UNCHANGED <<stats, todo, snap, highWater, alarmed>>
      /\ current' = current \/ current' = [current EXCEPT ![t] = 0]
      /\ peak' = peak \/ peak' = [peak EXCEPT ![t] = 0]
  BY DEF Insert, EndFree
<1>2. b \in Blocks /\ t \in Updating
  BY <1>1 DEF Calls, OneOwner, Updating
<1>3. /\ o \in [name : {"idle", "alloc", "watchdog", "free", "snapshot"}, on : Blocks \cup {None}]
      /\ o.name \in {"idle", "watchdog"}
      /\ next \in {"tracked", "gone"}
  BY DEF Calls, Types, Idle
<1> HIDE DEF b, next, o
<1>4. Types'
  <2>1. current' \in [Threads -> Int] /\ peak' \in [Threads -> Int]
    BY <1>1 DEF Calls, Types
  <2>2. block' \in [Blocks -> {"new", "allocating", "tracked", "freeing", "gone"}]
    BY <1>1, <1>3 DEF Calls, Types
  <2> QED
    BY <1>1, <1>3, <2>1, <2>2 DEF Calls, Types
<1>5. /\ op'[t] = o /\ block'[b] = next /\ op[t].on = b
      /\ \A u \in Threads \ {t} : op'[u] = op[u]
      /\ \A c \in Blocks \ {b} : block'[c] = block[c]
  BY <1>1, <1>2 DEF Calls, Types, b
<1>6. Updating' = Updating \ {t}
  BY <1>3, <1>5 DEF Updating
<1>7. \A u \in Updating \ {t} : op[u].on # b
  BY <1>2, <1>5 DEF Calls, OneOwner
<1>8. OneOwner'
  <2>1. \A c \in Blocks : block'[c] = "allocating" => \E u \in Threads : Allocates(u, c)'
    BY <1>3, <1>5 DEF Calls, OneOwner, Allocates
  <2>2. \A c \in Blocks : block'[c] = "freeing" => \E u \in Threads : Frees(u, c)'
    BY <1>3, <1>5 DEF Calls, OneOwner, Frees
  <2>3. \A u \in Updating' : u \in Updating /\ u # t /\ op'[u] = op[u]
    BY <1>5, <1>6 DEF Updating
  <2> QED
    BY <1>5, <1>7, <2>1, <2>2, <2>3 DEF Calls, OneOwner
<1>9. TodoInv'
  BY <1>1, <1>3, <1>5 DEF Calls, TodoInv
<1> QED
  BY <1>4, <1>8, <1>9 DEF Calls

\* A step of a thread that has no block in its hands.
LEMMA OtherCalls ==
  ASSUME Calls, NEW t \in Threads,
         \/ Watchdog(t) \/ BeginSnapshot(t) \/ EndSnapshot(t)
         \/ \E i \in 1 .. 7 : Load(t, i)
  PROVE  Calls'
<1>1. /\ op[t].name \notin {"alloc", "free"}
      /\ UNCHANGED <<stats, block, current, peak, highWater>>
      /\ \A u \in Threads \ {t} : op'[u] = op[u] /\ todo'[u] = todo[u]
  BY DEF Calls, Types, Watchdog, BeginSnapshot, EndSnapshot, Load
<1>2. [Idle EXCEPT !.name = "snapshot"] = [name |-> "snapshot", on |-> None]
  BY DEF Idle
<1>3. /\ op'[t].name \in {"idle", "snapshot"}
      /\ todo'[t] \subseteq Fields
      /\ op'[t].name = "idle" => todo'[t] = {}
      /\ op' \in [Threads -> [name : {"idle", "alloc", "watchdog", "free", "snapshot"},
                              on : Blocks \cup {None}]]
      /\ todo' \in [Threads -> SUBSET (Fields \cup PeakSteps)]
      /\ snap' \in [Threads -> [Fields -> Int]]
      /\ alarmed' \in BOOLEAN
  <2>1. CASE Watchdog(t)
    BY <2>1 DEF Calls, Types, TodoInv, Watchdog, Idle
  <2>2. CASE BeginSnapshot(t)
    BY <1>2, <2>2 DEF Calls, Types, BeginSnapshot
  <2>3. CASE EndSnapshot(t)
    BY <2>3 DEF Calls, Types, EndSnapshot, Idle
  <2>4. CASE \E i \in 1 .. 7 : Load(t, i)
    <3>0. PICK i \in 1 .. 7 : Load(t, i)
      BY <2>4
    <3> DEFINE f == LoadOrder[i]
    <3>1. f \in Fields
      BY DEF Fields
    <3>2. /\ op[t].name = "snapshot" /\ op' = op /\ alarmed' = alarmed
          /\ snap' = [snap EXCEPT ![t] = [snap[t] EXCEPT ![f] = stats[f]]]
          /\ todo' = [todo EXCEPT ![t] = todo[t] \ {f}]
      BY <3>0 DEF Load
    <3> HIDE DEF f
    <3>3. todo[t] \ {f} \subseteq Fields
      BY <3>2 DEF Calls, TodoInv
    <3>4. [snap[t] EXCEPT ![f] = stats[f]] \in [Fields -> Int]
      BY <3>1 DEF Calls, Types
    <3> QED
      BY <3>1, <3>2, <3>3, <3>4 DEF Calls, Types
  <2> QED
    BY <2>1, <2>2, <2>3, <2>4
<1>4. Types'
  BY <1>1, <1>3 DEF Calls, Types
<1>5. Updating' = Updating
  BY <1>1, <1>3 DEF Updating
<1>6. OneOwner'
  <2>1. \A u \in Threads, c \in Blocks : /\ Allocates(u, c)' <=> Allocates(u, c)
                                         /\ Frees(u, c)' <=> Frees(u, c)
    BY <1>1, <1>3 DEF Allocates, Frees
  <2>2. \A u \in Updating : op'[u] = op[u]
    BY <1>1 DEF Updating
  <2> QED
    BY <1>1, <1>5, <2>1, <2>2 DEF Calls, OneOwner
<1>7. TodoInv'
  <2>1. "current_allocated_bytes" \in todo'[t] => todo'[t] \cap PeakSteps = {}
    BY <1>3, FieldsAre DEF PeakSteps
  <2> QED
    BY <1>1, <1>3, <2>1 DEF Calls, TodoInv
<1> QED
  BY <1>4, <1>6, <1>7 DEF Calls

\* Every step keeps what the calls have still to do.
LEMMA StepCalls == Calls /\ [Next]_vars => Calls'
<1> SUFFICES ASSUME Calls, [Next]_vars PROVE Calls'
  OBVIOUS
<1>1. CASE UNCHANGED vars
  BY <1>1 DEF vars, Calls, Types, OneOwner, TodoInv, Updating, Allocates, Frees
<1>2. CASE Done
  BY <1>1, <1>2 DEF Done
<1>3. ASSUME NEW t \in Threads, NEW f \in Fields, Update(t, f) PROVE Calls'
  BY <1>3, UpdateCalls
<1>4. ASSUME NEW t \in Threads, BeginAlloc(t) \/ BeginFree(t) PROVE Calls'
  BY <1>4, BeginAllocCalls, BeginFreeCalls
<1>5. ASSUME NEW t \in Threads, LoadPeak(t) \/ RaisePeak(t) PROVE Calls'
  BY <1>5, PeakCalls
<1>6. ASSUME NEW t \in Threads, Insert(t) \/ EndFree(t) PROVE Calls'
  BY <1>6, EndUpdateCalls
<1>7. ASSUME NEW t \in Threads,
             Watchdog(t) \/ BeginSnapshot(t) \/ EndSnapshot(t) \/ \E i \in 1 .. 7 : Load(t, i)
      PROVE  Calls'
  BY <1>7, OtherCalls
<1> QED
  BY <1>1, <1>2, <1>3, <1>4, <1>5, <1>6, <1>7 DEF Next

-----------------------------------------------------------------------------
(* What the counters hold.                                                 *)

\* A counter counts blocks.
LEMMA CountedType ==
  ASSUME NEW f
  PROVE  In(f) \in SUBSET Blocks /\ Out(f) \in SUBSET Blocks /\ Counted(f) \in SUBSET Blocks
  BY DEF In, Out, Counted

\* The total counts of one field do not move while those it is made of stay.
LEMMA CountedSame ==
  ASSUME \A f \in AllocFields : In(f)' = In(f),
         \A f \in FreeFields : Out(f)' = Out(f)
  PROVE  \A f \in Fields \ {"peak_allocated_bytes"} : Counted(f)' = Counted(f)
  BY FieldsAre DEF Counted, AllocFields, FreeFields

\* Only the updates change what is counted.
LEMMA KeepsCounted ==
  ASSUME Calls, NEW t \in Threads,
         \/ BeginAlloc(t) \/ BeginFree(t) \/ LoadPeak(t) \/ RaisePeak(t) \/ Insert(t) \/ EndFree(t)
         \/ Watchdog(t) \/ BeginSnapshot(t) \/ EndSnapshot(t) \/ \E i \in 1 .. 7 : Load(t, i)
  PROVE  \A f \in Fields \ {"peak_allocated_bytes"} : Counted(f)' = Counted(f)
<1>0. Types
  BY DEF Calls
<1>1. CASE BeginAlloc(t)
  <2>1. PICK b \in Blocks :
          /\ block[b] = "new"
          /\ block' = [block EXCEPT ![b] = "allocating"]
          /\ op' = [op EXCEPT ![t] = [name |-> "alloc", on |-> b]]
    BY <1>1 DEF BeginAlloc
  <2>2. op[t].name = "idle" /\ todo' = [todo EXCEPT ![t] = AllocFields]
    BY <1>1 DEF BeginAlloc
  <2>3. /\ op'[t].name = "alloc" /\ op'[t].on = b /\ todo'[t] = AllocFields /\ block'[b] = "allocating"
        /\ \A u \in Threads \ {t} : op'[u] = op[u] /\ todo'[u] = todo[u]
        /\ \A c \in Blocks \ {b} : block'[c] = block[c]
    BY <1>0, <2>1, <2>2 DEF Types
  <2>4. \A u \in Threads : ~Allocates(u, b)
    BY <2>1 DEF Calls, OneOwner, Updating, Allocates
  <2>5. \A f \in AllocFields : In(f)' = In(f)
    BY <2>1, <2>2, <2>3, <2>4 DEF In, Allocates
  <2>6. \A f : Out(f)' = Out(f)
    BY <2>1, <2>2, <2>3 DEF Out, Frees
  <2> QED
    BY <2>5, <2>6, CountedSame
<1>2. CASE BeginFree(t)
  <2>1. PICK b \in Blocks :
          /\ block[b] = "tracked"
          /\ block' = [block EXCEPT ![b] = "freeing"]
          /\ op' = [op EXCEPT ![t] = [name |-> "free", on |-> b]]
    BY <1>2 DEF BeginFree
  <2>2. op[t].name = "idle" /\ todo' = [todo EXCEPT ![t] = FreeFields]
    BY <1>2 DEF BeginFree
  <2>3. /\ op'[t].name = "free" /\ op'[t].on = b /\ todo'[t] = FreeFields /\ block'[b] = "freeing"
        /\ \A u \in Threads \ {t} : op'[u] = op[u] /\ todo'[u] = todo[u]
        /\ \A c \in Blocks \ {b} : block'[c] = block[c]
    BY <1>0, <2>1, <2>2 DEF Types
  <2>4. \A u \in Threads : ~Frees(u, b)
    BY <2>1 DEF Calls, OneOwner, Updating, Frees
  <2>5. \A f : In(f)' = In(f)
    BY <2>1, <2>2, <2>3 DEF In, Allocates
  <2>6. \A f \in FreeFields : Out(f)' = Out(f)
    BY <2>1, <2>2, <2>3, <2>4 DEF Out, Frees
  <2> QED
    BY <2>5, <2>6, CountedSame
<1>3. CASE LoadPeak(t) \/ RaisePeak(t)
  <2>1. block' = block /\ op' = op
    BY <1>3 DEF LoadPeak, RaisePeak
  <2>2. \A u \in Threads : \A f \in Fields : f \in todo'[u] <=> f \in todo[u]
    <3>1. "load_peak" \notin Fields /\ "raise_peak" \notin Fields
      BY FieldsAre
    <3> QED
      BY <1>0, <1>3, <3>1 DEF Types, LoadPeak, RaisePeak
  <2>3. \A f \in Fields : In(f)' = In(f) /\ Out(f)' = Out(f)
    BY <2>1, <2>2 DEF In, Out, Allocates, Frees
  <2> QED
    BY <2>3, CountedSame, FieldsAre DEF AllocFields, FreeFields
<1>4. CASE Insert(t) \/ EndFree(t)
  <2> DEFINE b == op[t].on
             next == IF op[t].name = "alloc" THEN "tracked" ELSE "gone"
  <2>1. /\ op[t].name \in {"alloc", "free"} /\ todo[t] = {} /\ todo' = todo
        /\ block' = [block EXCEPT ![b] = next]
        /\ op'[t].name \in {"idle", "watchdog"}
        /\ \A u \in Threads \ {t} : op'[u] = op[u]
    BY <1>0, <1>4 DEF Types, Insert, EndFree, Idle
  <2>2. b \in Blocks /\ block[b] = IF op[t].name = "alloc" THEN "allocating" ELSE "freeing"
    BY <2>1 DEF Calls, OneOwner, Updating
  <2>3. block'[b] = next /\ \A c \in Blocks \ {b} : block'[c] = block[c]
    BY <1>0, <2>1, <2>2 DEF Types
  <2>4. \A u \in Threads \ {t}, c \in Blocks :
          /\ Allocates(u, c)' <=> Allocates(u, c)
          /\ Frees(u, c)' <=> Frees(u, c)
    BY <2>1 DEF Allocates, Frees
  <2>5. \A c \in Blocks : ~Allocates(t, c)' /\ ~Frees(t, c)'
    BY <2>1 DEF Allocates, Frees
  <2>6. \A c \in Blocks \ {b} : ~Allocates(t, c) /\ ~Frees(t, c)
    BY DEF Allocates, Frees
  <2>7. \A f : b \in In(f) /\ b \in In(f)'
    BY <2>1, <2>2, <2>3 DEF In, Allocates
  <2>8. \A f : b \in Out(f) <=> b \in Out(f)'
    <3>1. CASE op[t].name = "alloc"
      <4>1. \A u \in Threads : ~Frees(u, b)
        BY <2>2, <3>1 DEF Calls, OneOwner, Updating, Frees
      <4> QED
        BY <2>2, <2>3, <2>4, <2>5, <3>1, <4>1 DEF Out
    <3>2. CASE op[t].name = "free"
      BY <2>1, <2>2, <2>3, <3>2 DEF Out, Frees
    <3> QED
      BY <2>1, <3>1, <3>2
  <2>9. \A f : \A c \in Blocks \ {b} : (c \in In(f)' <=> c \in In(f)) /\ (c \in Out(f)' <=> c \in Out(f))
    BY <2>1, <2>3, <2>4, <2>5, <2>6 DEF In, Out
  <2>10. \A f : In(f)' = In(f) /\ Out(f)' = Out(f)
    <3> SUFFICES ASSUME NEW f PROVE In(f)' = In(f) /\ Out(f)' = Out(f)
      OBVIOUS
    <3>1. In(f) \subseteq Blocks /\ Out(f) \subseteq Blocks
      BY CountedType
    <3>2. In(f)' \subseteq Blocks /\ Out(f)' \subseteq Blocks
      BY DEF In, Out
    <3> HIDE DEF b
    <3> QED
      BY <2>7, <2>8, <2>9, <3>1, <3>2
  <2> QED
    BY <2>10, CountedSame
<1>5. CASE Watchdog(t) \/ BeginSnapshot(t) \/ EndSnapshot(t) \/ \E i \in 1 .. 7 : Load(t, i)
  <2>1. /\ block' = block
        /\ op[t].name \notin {"alloc", "free"} /\ op'[t].name \notin {"alloc", "free"}
        /\ \A u \in Threads \ {t} : op'[u] = op[u] /\ todo'[u] = todo[u]
    <3>1. [Idle EXCEPT !.name = "snapshot"] = [name |-> "snapshot", on |-> None]
      BY DEF Idle
    <3> QED
      BY <1>0, <1>5, <3>1 DEF Types, Watchdog, BeginSnapshot, EndSnapshot, Load, Idle
  <2>2. \A f : In(f)' = In(f) /\ Out(f)' = Out(f)
    BY <2>1 DEF In, Out, Allocates, Frees
  <2> QED
    BY <2>2, CountedSame
<1> QED
  BY <1>1, <1>2, <1>3, <1>4, <1>5

\* An update counts its block in or out of one field.
LEMMA UpdateCounted ==
  ASSUME Calls, NEW t \in Threads, NEW f \in Fields, Update(t, f),
         NEW g \in Fields \ {"peak_allocated_bytes"}
  PROVE  LET b == op[t].on
             adds == op[t].name = "alloc" \/ f \in {"total_freed_bytes", "total_free_count"}
         IN /\ Counted(g)' = IF g # f THEN Counted(g)
                             ELSE IF adds THEN Counted(f) \cup {b} ELSE Counted(f) \ {b}
            /\ g = f => (b \in Counted(f) <=> ~adds)
<1> DEFINE b == op[t].on
<1>1. /\ op[t].name \in {"alloc", "free"} /\ f \in todo[t]
      /\ block' = block /\ op' = op
      /\ \A u \in Threads \ {t} : todo'[u] = todo[u]
      /\ todo'[t] \cap Fields = (todo[t] \cap Fields) \ {f}
  BY FieldsAre DEF Calls, Types, Update
<1>2. t \in Updating /\ b \in Blocks
  BY <1>1 DEF Calls, OneOwner, Updating
<1>3. CASE op[t].name = "alloc"
  <2>1. f \in AllocFields
    BY <1>1, <1>3, FieldsAre DEF Calls, TodoInv, PeakSteps
  <2>2. block[b] = "allocating" /\ \A u \in Threads \ {t} : ~Allocates(u, b) /\ ~Frees(u, b)
    BY <1>2, <1>3 DEF Calls, OneOwner, Updating, Allocates, Frees
  <2>3. \A h \in Fields : Out(h)' = Out(h)
    BY <1>1, <1>3 DEF Out, Frees
  <2>4. b \notin In(f) /\ b \notin Out(f)
    BY <1>1, <1>3, <2>2 DEF In, Out, Allocates, Frees
  <2>5. \A h \in Fields : In(h)' = IF h = f THEN In(h) \cup {b} ELSE In(h)
    BY <1>1, <1>2, <1>3, <2>2 DEF In, Allocates
  <2> QED
    BY <1>3, <2>1, <2>3, <2>4, <2>5, FieldsAre DEF Counted, AllocFields
<1>4. CASE op[t].name = "free"
  <2>1. f \in FreeFields
    BY <1>1, <1>4 DEF Calls, TodoInv
  <2>2. block[b] = "freeing" /\ \A u \in Threads \ {t} : ~Allocates(u, b) /\ ~Frees(u, b)
    BY <1>2, <1>4 DEF Calls, OneOwner, Updating, Allocates, Frees
  <2>3. \A h \in Fields : In(h)' = In(h)
    BY <1>1, <1>4 DEF In, Allocates
  <2>4. b \in In(f) /\ b \notin Out(f)
    BY <1>1, <1>2, <1>4, <2>2 DEF In, Out, Frees
  <2>5. \A h \in Fields : Out(h)' = IF h = f THEN Out(h) \cup {b} ELSE Out(h)
    BY <1>1, <1>2, <1>4, <2>2 DEF Out, Frees
  <2> QED
    BY <1>4, <2>1, <2>3, <2>4, <2>5, FieldsAre DEF Counted, FreeFields
<1> QED
  BY <1>1, <1>3, <1>4

\* An update moves its field and what the field counts alike
\* (types.hpp:69-86).
LEMMA UpdateAccounts ==
  ASSUME Calls, Accounts, NEW t \in Threads, NEW f \in Fields, Update(t, f)
  PROVE  Accounts'
<1> DEFINE b == op[t].on
           d == Delta(op[t].name, f, b)
           adds == op[t].name = "alloc" \/ f \in {"total_freed_bytes", "total_free_count"}
<1>1. /\ t \in Updating /\ f \in todo[t] /\ op[t].name \in {"alloc", "free"}
      /\ stats' = [stats EXCEPT ![f] = stats[f] + d]
  BY DEF Update, Updating
<1>2. /\ b \in Blocks /\ f # "peak_allocated_bytes"
      /\ d = IF adds THEN Weight(f, b) ELSE -Weight(f, b)
  BY <1>1, DeltaIs
<1>3. /\ Counted(f)' = IF adds THEN Counted(f) \cup {b} ELSE Counted(f) \ {b}
      /\ b \in Counted(f) <=> ~adds
      /\ \A g \in Fields \ {"peak_allocated_bytes", f} : Counted(g)' = Counted(g)
  BY <1>2, UpdateCounted
<1>4. stats'[f] = stats[f] + d /\ \A g \in Fields \ {f} : stats'[g] = stats[g]
  BY <1>1 DEF Calls, Types
<1>5. Counted(f) \in SUBSET Blocks
  BY CountedType
<1>6. stats[f] = Amount(f, Counted(f)) /\ Amount(f, Counted(f)) \in Nat
  BY <1>2, <1>5, AmountType DEF Accounts
<1>7. stats'[f] = Amount(f, Counted(f)')
  <2> HIDE DEF b, d
  <2>1. CASE adds
    <3>1. Amount(f, Counted(f) \cup {b}) = Amount(f, Counted(f)) + Weight(f, b)
      BY <1>2, <1>3, <1>5, <2>1, AmountAdd
    <3> QED
      BY <1>2, <1>3, <1>4, <1>6, <2>1, <3>1
  <2>2. CASE ~adds
    <3>1. Amount(f, Counted(f) \ {b}) = Amount(f, Counted(f)) - Weight(f, b)
      BY <1>3, <1>5, <2>2, AmountRemove
    <3>2. Weight(f, b) \in Nat
      BY <1>2 DEF Weight
    <3> QED
      BY <1>2, <1>3, <1>4, <1>6, <2>2, <3>1, <3>2
  <2> QED
    BY <2>1, <2>2
<1>8. \A g \in Fields \ {"peak_allocated_bytes", f} : stats'[g] = Amount(g, Counted(g)')
  BY <1>3, <1>4 DEF Accounts
<1>9. \A g, S : Amount(g, S)' = Amount(g, S')
  BY DEF Amount, Bytes
<1> QED
  BY <1>7, <1>8 DEF Accounts

\* At the start the counters hold nothing.
LEMMA InitAccounts == Init => Accounts
<1> SUFFICES ASSUME Init PROVE Accounts
  OBVIOUS
<1>1. \A f : In(f) = {} /\ Out(f) = {}
  BY DEF Init, In, Out, Allocates, Frees, Idle
<1>2. \A f : Counted(f) = {}
  BY <1>1 DEF Counted
<1>3. \A f : Amount(f, {}) = 0
  BY FS_EmptySet DEF Amount, Bytes
<1> QED
  BY <1>2, <1>3 DEF Init, Accounts

\* Every step keeps the counters equal to what they count.
LEMMA StepAccounts == Calls /\ Accounts /\ [Next]_vars => Accounts'
<1> SUFFICES ASSUME Calls, Accounts, [Next]_vars PROVE Accounts'
  OBVIOUS
<1>1. ASSUME \A f \in Fields \ {"peak_allocated_bytes"} : Counted(f)' = Counted(f),
             \A f \in Fields \ {"peak_allocated_bytes"} : stats'[f] = stats[f]
      PROVE  Accounts'
  BY <1>1 DEF Accounts
<1>2. CASE UNCHANGED vars \/ Done
  <2>1. \A f : Counted(f)' = Counted(f)
    BY <1>2 DEF vars, Done, Counted, In, Out, Allocates, Frees
  <2> QED
    BY <1>1, <1>2, <2>1 DEF vars, Done
<1>3. ASSUME NEW t \in Threads, NEW f \in Fields, Update(t, f) PROVE Accounts'
  BY <1>3, UpdateAccounts
<1>4. ASSUME NEW t \in Threads,
             \/ BeginAlloc(t) \/ BeginFree(t) \/ LoadPeak(t) \/ RaisePeak(t) \/ Insert(t) \/ EndFree(t)
             \/ Watchdog(t) \/ BeginSnapshot(t) \/ EndSnapshot(t) \/ \E i \in 1 .. 7 : Load(t, i)
      PROVE  Accounts'
  <2>1. \A f \in Fields \ {"peak_allocated_bytes"} : stats'[f] = stats[f]
    BY <1>4 DEF Calls, Types, BeginAlloc, BeginFree, LoadPeak, RaisePeak, Insert, EndFree,
                Watchdog, BeginSnapshot, EndSnapshot, Load
  <2> QED
    BY <1>1, <1>4, <2>1, KeepsCounted
<1> QED
  BY <1>2, <1>3, <1>4 DEF Next

-----------------------------------------------------------------------------
(* The peak.                                                               *)

\* An update of the current bytes may leave the peak behind the mark; the thread then has to raise it.
LEMMA UpdatePeak ==
  ASSUME Calls, PeakInv, NEW t \in Threads, NEW f \in Fields, Update(t, f)
  PROVE  PeakInv'
<1> DEFINE value == stats[f] + Delta(op[t].name, f, op[t].on)
           raises == op[t].name = "alloc" /\ f = "current_allocated_bytes"
<1>1. /\ op[t].name \in {"alloc", "free"} /\ f \in todo[t]
      /\ stats' = [stats EXCEPT ![f] = value]
      /\ current' = IF raises THEN [current EXCEPT ![t] = value] ELSE current
      /\ todo' = [todo EXCEPT ![t] = (todo[t] \ {f}) \cup (IF raises THEN {"load_peak"} ELSE {})]
      /\ highWater' = IF raises /\ value > highWater THEN value ELSE highWater
      /\ UNCHANGED <<block, op, peak, snap>>
  BY DEF Update
<1>2. /\ f # "peak_allocated_bytes" /\ value \in Int
      /\ ~raises /\ f = "current_allocated_bytes" => value <= stats[f]
  <2> DEFINE d == Delta(op[t].name, f, op[t].on)
             w == Weight(f, op[t].on)
  <2>1. t \in Updating
    BY <1>1 DEF Updating
  <2>2. op[t].on \in Blocks /\ f # "peak_allocated_bytes"
    BY <1>1, <2>1, DeltaIs
  <2>3. w \in Nat
    BY <2>2 DEF Weight
  <2>4. d \in {w, -w} /\ (~raises /\ f = "current_allocated_bytes" => d = -w)
    BY <1>1, <2>1, DeltaIs
  <2>5. stats[f] \in Int
    BY DEF Calls, Types
  <2>6. value = stats[f] + d
    OBVIOUS
  <2> HIDE DEF d, w, value, raises
  <2> QED
    BY <2>2, <2>3, <2>4, <2>5, <2>6
<1> HIDE DEF value
<1>3. /\ "peak_allocated_bytes" \in Fields /\ "current_allocated_bytes" \in Fields
      /\ "load_peak" \notin Fields /\ "raise_peak" \notin Fields
  BY FieldsAre
<1>4. /\ stats'["peak_allocated_bytes"] = stats["peak_allocated_bytes"]
      /\ stats'["current_allocated_bytes"] =
           IF f = "current_allocated_bytes" THEN value ELSE stats["current_allocated_bytes"]
      /\ stats["current_allocated_bytes"] \in Int /\ stats["peak_allocated_bytes"] \in Int
      /\ highWater \in Int
  BY <1>1, <1>2, <1>3 DEF Calls, Types
<1>5. highWater <= highWater' /\ highWater' \in Int
  BY <1>1, <1>2, <1>4
<1>6. stats'["current_allocated_bytes"] <= highWater'
  BY <1>1, <1>2, <1>4 DEF PeakInv
<1>7. \A u \in Threads \ {t} : current'[u] = current[u] /\ todo'[u] = todo[u]
  BY <1>1 DEF Calls, Types
<1>8. current'[t] = IF raises THEN value ELSE current[t]
  BY <1>1 DEF Calls, Types
<1>9. \A u \in Threads : /\ current'[u] <= highWater'
                         /\ peak'[u] <= stats'["peak_allocated_bytes"]
                         /\ snap'[u]["peak_allocated_bytes"] <= highWater'
                         /\ snap'[u]["current_allocated_bytes"] <= highWater'
  <2> SUFFICES ASSUME NEW u \in Threads
               PROVE  /\ current'[u] <= highWater'
                      /\ peak'[u] <= stats'["peak_allocated_bytes"]
                      /\ snap'[u]["peak_allocated_bytes"] <= highWater'
                      /\ snap'[u]["current_allocated_bytes"] <= highWater'
    OBVIOUS
  <2>1. /\ current[u] \in Int /\ current[u] <= highWater
        /\ snap[u]["peak_allocated_bytes"] \in Int /\ snap[u]["peak_allocated_bytes"] <= highWater
        /\ snap[u]["current_allocated_bytes"] \in Int /\ snap[u]["current_allocated_bytes"] <= highWater
        /\ peak[u] <= stats["peak_allocated_bytes"]
    BY <1>3 DEF Calls, Types, PeakInv
  <2> QED
    BY <1>1, <1>2, <1>4, <1>5, <1>7, <1>8, <2>1
<1>10. \/ stats'["peak_allocated_bytes"] = highWater'
       \/ \E u \in Threads : Raising(u)' /\ current'[u] = highWater'
  <2>1. CASE raises /\ value > highWater
    <3>1. "load_peak" \in todo'[t] /\ op'[t].name = "alloc"
      BY <1>1, <2>1 DEF Calls, Types
    <3> QED
      BY <1>1, <1>8, <2>1, <3>1 DEF Raising, PeakSteps
  <2>2. CASE ~(raises /\ value > highWater)
    <3>1. highWater' = highWater
      BY <1>1, <2>2
    <3>2. CASE stats["peak_allocated_bytes"] = highWater
      BY <1>4, <3>1, <3>2
    <3>3. ASSUME NEW u \in Threads, Raising(u), current[u] = highWater
          PROVE  Raising(u)' /\ current'[u] = highWater'
      <4>1. CASE u # t
        BY <1>1, <1>7, <3>1, <3>3, <4>1 DEF Raising
      <4>2. CASE u = t
        <5>1. f # "current_allocated_bytes"
          BY <1>1, <3>3, <4>2 DEF Calls, TodoInv, Raising
        <5>2. todo'[t] \cap PeakSteps = todo[t] \cap PeakSteps
          BY <1>1, <1>3, <5>1 DEF Calls, Types, PeakSteps
        <5> QED
          BY <1>1, <1>8, <3>1, <3>3, <4>2, <5>1, <5>2 DEF Raising
      <4> QED
        BY <4>1, <4>2
    <3> QED
      BY <3>2, <3>3 DEF PeakInv
  <2> QED
    BY <2>1, <2>2
<1> QED
  BY <1>4, <1>5, <1>6, <1>9, <1>10 DEF PeakInv

\* The loop that raises the peak ends only with the peak at least as high as
\* the value of its thread (types.hpp:74-78).
LEMMA RaisePeakPeak ==
  ASSUME Calls, PeakInv, NEW t \in Threads, LoadPeak(t) \/ RaisePeak(t)
  PROVE  PeakInv'
<1> DEFINE p == stats["peak_allocated_bytes"]
<1>1. /\ "peak_allocated_bytes" \in Fields /\ "current_allocated_bytes" \in Fields
      /\ p \in Int /\ current[t] \in Int /\ peak[t] \in Int /\ highWater \in Int
      /\ peak[t] <= p /\ p <= highWater /\ current[t] <= highWater /\ 0 <= p
  BY FieldsAre DEF Calls, Types, PeakInv
<1>2. /\ UNCHANGED <<block, op, current, snap, highWater>>
      /\ \A u \in Threads \ {t} : peak'[u] = peak[u] /\ todo'[u] = todo[u]
      /\ stats'["current_allocated_bytes"] = stats["current_allocated_bytes"]
  <2>1. /\ UNCHANGED <<block, op, current, snap, highWater>>
        /\ stats' = stats \/ stats' = [stats EXCEPT !["peak_allocated_bytes"] = current[t]]
        /\ peak' = peak \/ peak' = [peak EXCEPT ![t] = p]
        /\ \/ todo' = todo \/ todo' = [todo EXCEPT ![t] = todo[t] \ {"raise_peak"}]
           \/ todo' = [todo EXCEPT ![t] = (todo[t] \ {"load_peak"}) \cup {"raise_peak"}]
    BY DEF LoadPeak, RaisePeak
  <2>2. \A u \in Threads \ {t} : peak'[u] = peak[u] /\ todo'[u] = todo[u]
    BY <2>1 DEF Calls, Types
  <2> QED
    BY <1>1, <2>1, <2>2 DEF Calls, Types
<1>3. CASE LoadPeak(t) \/ (RaisePeak(t) /\ current[t] > peak[t] /\ p # peak[t])
  <2>1. stats' = stats /\ peak'[t] = p /\ todo'[t] \cap PeakSteps # {}
    <3>1. /\ stats' = stats /\ peak' = [peak EXCEPT ![t] = p]
          /\ \/ todo' = todo /\ "raise_peak" \in todo[t]
             \/ todo' = [todo EXCEPT ![t] = (todo[t] \ {"load_peak"}) \cup {"raise_peak"}]
      BY <1>3 DEF LoadPeak, RaisePeak
    <3>2. "raise_peak" \in todo'[t]
      BY <3>1 DEF Calls, Types
    <3> QED
      BY <3>1, <3>2 DEF Calls, Types, PeakSteps
  <2>2. \A u \in Threads : Raising(u) => Raising(u)'
    BY <1>2, <2>1 DEF Raising
  <2> QED
    BY <1>1, <1>2, <2>1, <2>2 DEF PeakInv
<1>4. CASE RaisePeak(t) /\ ~(current[t] > peak[t] /\ p # peak[t])
  <2>1. /\ peak' = peak
        /\ stats' = IF current[t] > peak[t]
                    THEN [stats EXCEPT !["peak_allocated_bytes"] = current[t]] ELSE stats
    BY <1>4 DEF RaisePeak
  <2>2. stats'["peak_allocated_bytes"] = IF current[t] > peak[t] THEN current[t] ELSE p
    BY <1>1, <2>1 DEF Calls, Types
  <2>3. /\ p <= stats'["peak_allocated_bytes"]
        /\ current[t] <= stats'["peak_allocated_bytes"]
        /\ stats'["peak_allocated_bytes"] <= highWater
        /\ stats'["peak_allocated_bytes"] \in Int
    BY <1>1, <1>4, <2>2
  <2>4. \A u \in Threads : peak[u] \in Int /\ peak[u] <= p
    BY DEF Calls, Types, PeakInv
  <2>5. \/ stats'["peak_allocated_bytes"] = highWater
        \/ \E u \in Threads : Raising(u)' /\ current[u] = highWater
    <3>1. CASE p = highWater
      BY <1>1, <2>3, <3>1
    <3>2. ASSUME NEW u \in Threads, Raising(u), current[u] = highWater PROVE <2>5
      <4>1. CASE u = t
        BY <1>1, <2>3, <3>2, <4>1
      <4>2. CASE u # t
        BY <1>2, <3>2, <4>2 DEF Raising
      <4> QED
        BY <4>1, <4>2
    <3> QED
      BY <3>1, <3>2 DEF PeakInv
  <2> QED
    BY <1>1, <1>2, <2>1, <2>3, <2>4, <2>5 DEF PeakInv
<1> QED
  BY <1>3, <1>4

\* A snapshot loads a current value and a peak that the mark covers
\* (types.hpp:98-108).
LEMMA LoadSnap ==
  ASSUME Calls, PeakInv, NEW t \in Threads, NEW i \in 1 .. 7, Load(t, i)
  PROVE  PeakInv'
<1> DEFINE f == LoadOrder[i]
<1>1. /\ UNCHANGED <<stats, op, current, peak, highWater>>
      /\ op[t].name = "snapshot"
      /\ snap' = [snap EXCEPT ![t] = [snap[t] EXCEPT ![f] = stats[f]]]
      /\ todo' = [todo EXCEPT ![t] = todo[t] \ {f}]
  BY DEF Load
<1>2. f \in Fields /\ "peak_allocated_bytes" \in Fields /\ "current_allocated_bytes" \in Fields
  BY FieldsAre DEF Fields
<1> HIDE DEF f
<1>3. \A u \in Threads : /\ snap'[u]["peak_allocated_bytes"] <= highWater
                         /\ snap'[u]["current_allocated_bytes"] <= highWater
  <2>1. \A u \in Threads \ {t} : snap'[u] = snap[u]
    BY <1>1 DEF Calls, Types
  <2>2. \A g \in Fields : snap'[t][g] = IF g = f THEN stats[g] ELSE snap[t][g]
    BY <1>1, <1>2 DEF Calls, Types
  <2> QED
    BY <1>2, <2>1, <2>2 DEF PeakInv
<1>4. \A u \in Threads : Raising(u) => Raising(u)'
  BY <1>1 DEF Calls, Types, Raising
<1> QED
  BY <1>1, <1>3, <1>4 DEF PeakInv

\* The other steps touch neither the peak nor the threads that raise it.
LEMMA OtherPeak ==
  ASSUME Calls, PeakInv, NEW t \in Threads,
         \/ BeginAlloc(t) \/ BeginFree(t) \/ Insert(t) \/ EndFree(t)
         \/ Watchdog(t) \/ BeginSnapshot(t) \/ EndSnapshot(t)
  PROVE  PeakInv'
<1>1. /\ UNCHANGED <<stats, highWater>>
      /\ current' = current \/ current' = [current EXCEPT ![t] = 0]
      /\ peak' = peak \/ peak' = [peak EXCEPT ![t] = 0]
      /\ snap' = snap \/ snap' = [snap EXCEPT ![t] = [f \in Fields |-> 0]]
      /\ \A u \in Threads \ {t} : op'[u] = op[u] /\ todo'[u] = todo[u]
  BY DEF Calls, Types, BeginAlloc, BeginFree, Insert, EndFree, Watchdog, BeginSnapshot, EndSnapshot
<1>2. /\ "peak_allocated_bytes" \in Fields /\ "current_allocated_bytes" \in Fields
      /\ stats["peak_allocated_bytes"] \in Int /\ highWater \in Int
  BY FieldsAre DEF Calls, Types
<1>3. \A u \in Threads : current'[u] <= highWater /\ peak'[u] <= stats["peak_allocated_bytes"]
  BY <1>1, <1>2 DEF Calls, Types, PeakInv
<1>4. \A u \in Threads : /\ snap'[u]["peak_allocated_bytes"] <= highWater
                         /\ snap'[u]["current_allocated_bytes"] <= highWater
  <2>1. /\ snap \in [Threads -> [Fields -> Int]]
        /\ 0 <= highWater
        /\ \A u \in Threads : /\ snap[u]["peak_allocated_bytes"] <= highWater
                              /\ snap[u]["current_allocated_bytes"] <= highWater
    BY <1>2 DEF Calls, Types, PeakInv
  <2>2. CASE snap' = snap
    BY <2>1, <2>2
  <2>3. CASE snap' = [snap EXCEPT ![t] = [f \in Fields |-> 0]]
    <3>1. snap'[t] = [f \in Fields |-> 0] /\ \A u \in Threads \ {t} : snap'[u] = snap[u]
      BY <2>1, <2>3
    <3>2. snap'[t]["peak_allocated_bytes"] = 0 /\ snap'[t]["current_allocated_bytes"] = 0
      BY <3>1, <1>2
    <3> QED
      BY <2>1, <3>1, <3>2
  <2> QED
    BY <1>1, <2>2, <2>3
<1>5. ~Raising(t)
  BY FieldsAre DEF Calls, TodoInv, Raising, PeakSteps, BeginAlloc, BeginFree, Insert, EndFree,
                   Watchdog, BeginSnapshot, EndSnapshot
<1>6. \A u \in Threads \ {t} : current'[u] = current[u]
  BY <1>1 DEF Calls, Types
<1>7. \/ stats["peak_allocated_bytes"] = highWater
      \/ \E u \in Threads : Raising(u)' /\ current'[u] = highWater
  BY <1>1, <1>5, <1>6 DEF PeakInv, Raising
<1> QED
  BY <1>1, <1>3, <1>4, <1>7 DEF PeakInv

\* At the start the peak is at the mark.
LEMMA InitPeak == Init => PeakInv
<1>1. "peak_allocated_bytes" \in Fields /\ "current_allocated_bytes" \in Fields
  BY FieldsAre
<1> QED
  BY <1>1 DEF Init, PeakInv

\* Every step keeps a thread at raising a peak that is behind.
LEMMA StepPeak == Calls /\ PeakInv /\ [Next]_vars => PeakInv'
<1> SUFFICES ASSUME Calls, PeakInv, [Next]_vars PROVE PeakInv'
  OBVIOUS
<1>1. CASE UNCHANGED vars \/ Done
  BY <1>1 DEF vars, Done, PeakInv, Raising
<1>2. ASSUME NEW t \in Threads, NEW f \in Fields, Update(t, f) PROVE PeakInv'
  BY <1>2, UpdatePeak
<1>3. ASSUME NEW t \in Threads, LoadPeak(t) \/ RaisePeak(t) PROVE PeakInv'
  BY <1>3, RaisePeakPeak
<1>4. ASSUME NEW t \in Threads, NEW i \in 1 .. 7, Load(t, i) PROVE PeakInv'
  BY <1>4, LoadSnap
<1>5. ASSUME NEW t \in Threads,
             \/ BeginAlloc(t) \/ BeginFree(t) \/ Insert(t) \/ EndFree(t)
             \/ Watchdog(t) \/ BeginSnapshot(t) \/ EndSnapshot(t)
      PROVE  PeakInv'
  BY <1>5, OtherPeak
<1> QED
  BY <1>1, <1>2, <1>3, <1>4, <1>5 DEF Next

-----------------------------------------------------------------------------
(* The watchdog.                                                           *)

\* At the start no excess is to be noticed.
LEMMA InitNotice == Init => NoticeInv
<1>1. "current_allocated_bytes" \in Fields
  BY FieldsAre
<1> QED
  BY <1>1 DEF Init, NoticeInv

\* Every step keeps an excess in the hands of a thread that will notice it.
LEMMA StepNotice == Calls /\ NoticeInv /\ [Next]_vars => NoticeInv'
<1> SUFFICES ASSUME Calls, NoticeInv, [Next]_vars PROVE NoticeInv'
  OBVIOUS
<1> DEFINE now == stats["current_allocated_bytes"]
           Knows(u) == \/ op[u].name = "watchdog"
                       \/ op[u].name = "alloc" /\ "current_allocated_bytes" \notin todo[u]
<1>1. now > Limit => alarmed \/ \E u \in Threads : Knows(u)
  BY DEF NoticeInv
<1>2. SUFFICES now' > Limit => alarmed' \/ \E u \in Threads : Knows(u)'
  BY DEF NoticeInv
<1>3. "current_allocated_bytes" \in Fields /\ now \in Int
  BY FieldsAre DEF Calls, Types
<1>4. CASE UNCHANGED vars \/ Done
  BY <1>1, <1>4 DEF vars, Done
<1>5. ASSUME NEW t \in Threads, NEW f \in Fields, Update(t, f)
      PROVE  now' > Limit => alarmed' \/ \E u \in Threads : Knows(u)'
  <2> DEFINE value == stats[f] + Delta(op[t].name, f, op[t].on)
  <2>1. /\ stats' = [stats EXCEPT ![f] = value]
        /\ alarmed' = IF f = "current_allocated_bytes" /\ value <= Limit THEN FALSE ELSE alarmed
        /\ op[t].name \in {"alloc", "free"} /\ f \in todo[t] /\ op' = op
        /\ todo' = [todo EXCEPT ![t] =
             (todo[t] \ {f}) \cup
               (IF op[t].name = "alloc" /\ f = "current_allocated_bytes" THEN {"load_peak"} ELSE {})]
    BY <1>5 DEF Update
  <2>2. /\ value \in Int
        /\ op[t].name = "free" /\ f = "current_allocated_bytes" => value <= now
    <3> DEFINE d == Delta(op[t].name, f, op[t].on)
               w == Weight(f, op[t].on)
    <3>1. t \in Updating
      BY <2>1 DEF Updating
    <3>2. w \in Nat /\ d \in {w, -w}
      BY <2>1, <3>1, DeltaIs DEF Weight
    <3>3. op[t].name = "free" /\ f = "current_allocated_bytes" => d = -w
      BY <2>1, <3>1, DeltaIs
    <3>4. stats[f] \in Int /\ value = stats[f] + d
      BY DEF Calls, Types
    <3> HIDE DEF d, w, value
    <3> QED
      BY <3>2, <3>3, <3>4
  <2> HIDE DEF value
  <2>3. \A u \in Threads \ {t} : todo'[u] = todo[u]
    BY <2>1 DEF Calls, Types
  <2>4. CASE f # "current_allocated_bytes"
    <3>1. now' = now /\ alarmed' = alarmed
      BY <1>3, <2>1, <2>4 DEF Calls, Types
    <3>2. \A u \in Threads : Knows(u) => Knows(u)'
      BY <2>1, <2>3, <2>4 DEF Calls, Types
    <3> HIDE DEF now, Knows
    <3> QED
      BY <1>1, <3>1, <3>2
  <2>5. CASE f = "current_allocated_bytes" /\ op[t].name = "alloc"
    <3>1. "current_allocated_bytes" \notin todo'[t]
      BY <2>1, <2>5 DEF Calls, Types
    <3> QED
      BY <2>1, <2>5, <3>1
  <2>6. CASE f = "current_allocated_bytes" /\ op[t].name = "free"
    <3>1. now' = value
      BY <2>1, <2>6 DEF Calls, Types
    <3>2. now' > Limit => now > Limit /\ alarmed' = alarmed
      <4>1. now' > Limit => now > Limit /\ ~(value <= Limit)
        <5> HIDE DEF now
        <5> QED
          BY <1>3, <2>2, <2>6, <3>1
      <4>2. ~(value <= Limit) => alarmed' = alarmed
        BY <2>1
      <4> QED
        BY <4>1, <4>2
    <3>3. \A u \in Threads : Knows(u) => Knows(u)'
      BY <2>1, <2>3, <2>6 DEF Calls, Types
    <3> HIDE DEF now, Knows
    <3> QED
      BY <1>1, <3>2, <3>3
  <2> QED
    BY <2>1, <2>4, <2>5, <2>6
<1>6. ASSUME NEW t \in Threads, LoadPeak(t) \/ RaisePeak(t)
      PROVE  now' > Limit => alarmed' \/ \E u \in Threads : Knows(u)'
  <2>1. /\ op' = op /\ alarmed' = alarmed
        /\ stats' = stats \/ stats' = [stats EXCEPT !["peak_allocated_bytes"] = current[t]]
        /\ \/ todo' = todo \/ todo' = [todo EXCEPT ![t] = todo[t] \ {"raise_peak"}]
           \/ todo' = [todo EXCEPT ![t] = (todo[t] \ {"load_peak"}) \cup {"raise_peak"}]
    BY <1>6 DEF LoadPeak, RaisePeak
  <2>2. now' = now
    BY <1>3, <2>1 DEF Calls, Types
  <2>3. \A u \in Threads : Knows(u) => Knows(u)'
    BY <2>1 DEF Calls, Types
  <2> HIDE DEF now, Knows
  <2> QED
    BY <1>1, <2>1, <2>2, <2>3
<1>7. ASSUME NEW t \in Threads, Insert(t) \/ Watchdog(t)
      PROVE  now' > Limit => alarmed' \/ \E u \in Threads : Knows(u)'
  <2>1. CASE Insert(t)
    <3>1. /\ stats' = stats /\ alarmed' = alarmed /\ todo' = todo
          /\ op' = [op EXCEPT ![t] = [op[t] EXCEPT !.name = "watchdog"]]
      BY <2>1 DEF Insert
    <3>2. op'[t].name = "watchdog"
      BY <3>1 DEF Calls, Types
    <3> QED
      BY <3>2
  <2>2. CASE Watchdog(t)
    BY <2>2 DEF Watchdog
  <2> QED
    BY <1>7, <2>1, <2>2
<1>8. ASSUME NEW t \in Threads,
             \/ BeginAlloc(t) \/ BeginFree(t) \/ EndFree(t) \/ BeginSnapshot(t) \/ EndSnapshot(t)
             \/ \E i \in 1 .. 7 : Load(t, i)
      PROVE  now' > Limit => alarmed' \/ \E u \in Threads : Knows(u)'
  <2>1. /\ stats' = stats /\ alarmed' = alarmed
        /\ op[t].name \in {"idle", "free", "snapshot"}
        /\ \A u \in Threads \ {t} : op'[u] = op[u] /\ todo'[u] = todo[u]
    BY <1>8 DEF Calls, Types, BeginAlloc, BeginFree, EndFree, BeginSnapshot, EndSnapshot, Load
  <2>2. \A u \in Threads : Knows(u) => Knows(u)'
    BY <2>1
  <2> HIDE DEF Knows
  <2> QED
    BY <1>1, <2>1, <2>2
<1> QED
  BY <1>4, <1>5, <1>6, <1>7, <1>8 DEF Next

-----------------------------------------------------------------------------
(* The theorems.                                                           *)

\* The invariant holds throughout.
LEMMA Invariance == Spec => []IInv
<1>1. Init => IInv
  BY InitCalls, InitAccounts, InitPeak, InitNotice DEF IInv
<1>2. IInv /\ [Next]_vars => IInv'
  BY StepCalls, StepAccounts, StepPeak, StepNotice DEF IInv
<1> QED
  BY <1>1, <1>2, PTL DEF Spec

\* No counter wraps: what is counted out has been counted in before, whatever
\* the order in which the relaxed updates take effect (types.hpp:69-86).
THEOREM CountersNeverWrap == Spec => []NoUnderflow
<1>1. ASSUME IInv PROVE NoUnderflow
  <2>1. \A f \in Fields \ {"peak_allocated_bytes"} : stats[f] \in Nat
    BY <1>1, CountedType, AmountType DEF IInv, Accounts
  <2>2. stats["peak_allocated_bytes"] >= 0
    BY <1>1, FieldsAre DEF IInv, PeakInv, Calls, Types
  <2> QED
    BY <2>1, <2>2 DEF NoUnderflow
<1> QED
  BY <1>1, Invariance, PTL

\* No update of the peak is lost to a racing one, and none raises it beyond
\* what was allocated (types.hpp:74-78, 98-108).
THEOREM PeakExact == Spec => []PeakIsHighWater
<1>1. ASSUME IInv PROVE PeakIsHighWater
  BY <1>1 DEF IInv, PeakInv, PeakIsHighWater, Raising, Updating
<1> QED
  BY <1>1, Invariance, PTL

\* At rest the counters are those of the tracked blocks (types.hpp:69-86).
THEOREM CountersExact == Spec => []CountersAgree
<1>1. ASSUME IInv, Updating = {} PROVE CountersAgree
  <2> DEFINE G == {b \in Blocks : block[b] = "gone"}
             L == {b \in Blocks : block[b] \in {"tracked", "gone"}}
  <2>1. \A b \in Blocks : block[b] \notin {"allocating", "freeing"}
    BY <1>1 DEF IInv, Calls, OneOwner, Allocates, Frees, Updating
  <2>2. \A t \in Threads, b \in Blocks : ~Allocates(t, b) /\ ~Frees(t, b)
    BY <1>1 DEF Allocates, Frees, Updating
  <2>3. \A f : In(f) = L /\ Out(f) = G
    BY <2>1, <2>2 DEF In, Out
  <2>4. L \ G = Tracked /\ G \in SUBSET L /\ L \in SUBSET Blocks
    BY DEF Tracked
  <2> HIDE DEF G, L
  <2>5. /\ Counted("total_allocated_bytes") = L /\ Counted("total_allocation_count") = L
        /\ Counted("total_freed_bytes") = G /\ Counted("total_free_count") = G
        /\ Counted("active_allocation_count") = Tracked
        /\ Counted("current_allocated_bytes") = Tracked
    BY <2>3, <2>4 DEF Counted
  <2>6. /\ stats["active_allocation_count"] = Cardinality(Tracked)
        /\ stats["current_allocated_bytes"] = Cardinality(Bytes(Tracked))
        /\ stats["total_allocation_count"] = Cardinality(L)
        /\ stats["total_free_count"] = Cardinality(G)
        /\ stats["total_allocated_bytes"] = Cardinality(Bytes(L))
        /\ stats["total_freed_bytes"] = Cardinality(Bytes(G))
    BY <1>1, <2>5, FieldsAre DEF IInv, Accounts, Amount, ByteFields
  <2>7. /\ Cardinality(Tracked) = Cardinality(L) - Cardinality(G)
        /\ Cardinality(Bytes(Tracked)) = Cardinality(Bytes(L)) - Cardinality(Bytes(G))
    <3>1. \A f : Amount(f, Tracked) = Amount(f, L) - Amount(f, G)
      BY <2>4, AmountDifference
    <3>2. \A S : /\ Amount("active_allocation_count", S) = Cardinality(S)
                 /\ Amount("current_allocated_bytes", S) = Cardinality(Bytes(S))
      BY DEF Amount, ByteFields
    <3> QED
      BY <3>1, <3>2
  <2> QED
    BY <2>6, <2>7 DEF CountersAgree
<1>2. IInv => CountersAgree
  BY <1>1 DEF CountersAgree
<1> QED
  BY <1>2, Invariance, PTL

\* The watchdog reads the counter long after the update it is to judge, yet no
\* excess outlives the allocations in progress (memsentry.cpp:269-274).
THEOREM ExcessSeen == Spec => []ExcessNoticed
<1>1. ASSUME IInv PROVE ExcessNoticed
  BY <1>1 DEF IInv, NoticeInv, ExcessNoticed
<1> QED
  BY <1>1, Invariance, PTL

=============================================================================
