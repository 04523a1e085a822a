------------------------ MODULE ShardedTrackerProofs ------------------------
(***************************************************************************)
(* The sharded tracker for every set of pointers and threads, every number *)
(* of shards and every ring size.                                          *)
(*                                                                         *)
(* The argument is local to a shard: a shard is Sound when it is well      *)
(* formed, holds only pointers that hash to it, tracks no pointer it has   *)
(* in quarantine and has no pointer twice in its ring.  The last part      *)
(* needs the one before: the pointer that erase writes into the ring was   *)
(* tracked, hence in no slot.                                              *)
(***************************************************************************)
EXTENDS ShardedTracker, FiniteSetTheorems, Sequences, TLAPS

USE PtrAssumption, QuarantineAssumption, NullAssumption, NoRecordAssumption,
    ShardCountAssumption, ShardOfAssumption

Sound(i, sh) ==
  /\ sh \in ShardType
  /\ \A p \in Tracked(sh) \cup Quarantined(sh) : ShardOf[p] = i
  /\ Tracked(sh) \cap Quarantined(sh) = {}
  /\ RingDistinct(sh)

-----------------------------------------------------------------------------
(* The critical sections.                                                  *)

\* A cleared shard is sound (sharded_tracker.hpp:107-109).
LEMMA EmptySound == \A i \in Shards : Sound(i, EmptyShard)
  BY DEF Sound, EmptyShard, ShardType, Tracked, Quarantined, RingDistinct, Slot

\* The head stays a slot of the ring (sharded_tracker.hpp:52-53).
LEMMA NextHeadType == ASSUME NEW h \in Slot PROVE NextHead(h) \in Slot
  BY DEF NextHead, Slot

\* insert adds the pointer to the records and takes it out of the ring
\* (sharded_tracker.hpp:33-38).
LEMMA InsertEffect ==
  ASSUME NEW sh \in ShardType, NEW p \in Ptr, NEW r \in Rec
  PROVE  /\ InsertInto(sh, p, r) \in ShardType
         /\ Tracked(InsertInto(sh, p, r)) = Tracked(sh) \cup {p}
         /\ Quarantined(InsertInto(sh, p, r)) = Quarantined(sh) \ {p}
<1> DEFINE new == InsertInto(sh, p, r)
<1>1. /\ new.records = [sh.records EXCEPT ![p] = r]
      /\ new.quarantine = [i \in Slot |-> IF sh.quarantine[i] = p THEN Null ELSE sh.quarantine[i]]
      /\ new.head = sh.head
  BY DEF InsertInto, ShardType
<1>2. new \in ShardType
  BY DEF InsertInto, ShardType
<1>3. Tracked(new) = Tracked(sh) \cup {p}
  BY <1>1 DEF Tracked, ShardType
<1>4. Quarantined(new) = Quarantined(sh) \ {p}
  BY <1>1 DEF Quarantined, ShardType
<1> QED
  BY <1>2, <1>3, <1>4

\* erase of a tracked pointer moves it from the records into the slot at the
\* head (sharded_tracker.hpp:51-53).
LEMMA EraseEffect ==
  ASSUME NEW sh \in ShardType, NEW p \in Ptr
  PROVE  /\ EraseFrom(sh, p) \in ShardType
         /\ Tracked(EraseFrom(sh, p)) = Tracked(sh) \ {p}
         /\ Quarantined(EraseFrom(sh, p)) \subseteq Quarantined(sh) \cup {p}
         /\ p \in Quarantined(EraseFrom(sh, p))
<1> DEFINE new == EraseFrom(sh, p)
<1>1. /\ new.records = [sh.records EXCEPT ![p] = NoRecord]
      /\ new.quarantine = [sh.quarantine EXCEPT ![sh.head] = p]
      /\ new.head = NextHead(sh.head)
  BY DEF EraseFrom, ShardType
<1>2. new \in ShardType
  <2>1. /\ NextHead(sh.head) \in Slot
        /\ sh.head \in Slot
    BY NextHeadType DEF ShardType
  <2> QED
    BY <2>1 DEF EraseFrom, ShardType
<1>3. Tracked(new) = Tracked(sh) \ {p}
  BY <1>1 DEF Tracked, ShardType
<1>4. /\ Quarantined(new) \subseteq Quarantined(sh) \cup {p}
      /\ p \in Quarantined(new)
  BY <1>1 DEF Quarantined, ShardType
<1> QED
  BY <1>2, <1>3, <1>4

\* insert keeps a shard sound.
LEMMA InsertSound ==
  ASSUME NEW i \in Shards, NEW sh, Sound(i, sh),
         NEW p \in Ptr, ShardOf[p] = i, NEW r \in Rec
  PROVE  Sound(i, InsertInto(sh, p, r))
<1>1. sh \in ShardType
  BY DEF Sound
<1>2. RingDistinct(InsertInto(sh, p, r))
  BY <1>1 DEF Sound, RingDistinct, InsertInto, ShardType
<1> QED
  BY <1>1, <1>2, InsertEffect DEF Sound

\* erase keeps a shard sound: a tracked pointer is in no slot, so writing it
\* at the head makes no duplicate.
LEMMA EraseSound ==
  ASSUME NEW i \in Shards, NEW sh, Sound(i, sh), NEW p \in Ptr, ShardOf[p] = i
  PROVE  Sound(i, AfterErase(sh, p))
<1>1. sh \in ShardType
  BY DEF Sound
<1>2. CASE p \notin Tracked(sh)
  BY <1>2 DEF AfterErase
<1>3. CASE p \in Tracked(sh)
  <2>1. p \notin Quarantined(sh)
    BY <1>3 DEF Sound
  <2>2. EraseFrom(sh, p).quarantine = [sh.quarantine EXCEPT ![sh.head] = p]
    BY <1>1 DEF EraseFrom, ShardType
  <2>3. \A j \in Slot : sh.quarantine[j] # p
    BY <2>1 DEF Quarantined
  <2>4. RingDistinct(EraseFrom(sh, p))
    BY <1>1, <2>2, <2>3 DEF Sound, RingDistinct, ShardType
  <2>5. Sound(i, EraseFrom(sh, p))
    BY <1>1, <1>3, <2>1, <2>4, EraseEffect DEF Sound
  <2> QED
    BY <1>3, <2>5 DEF AfterErase
<1> QED
  BY <1>2, <1>3

\* The entries of a shard are pairs of a pointer and a record, finitely many.
LEMMA EntriesType ==
  ASSUME NEW sh \in ShardType
  PROVE  /\ Entries(sh) \subseteq Ptr \X Rec
         /\ Cardinality(Tracked(sh)) \in Nat
<1>1. Entries(sh) \subseteq Ptr \X Rec
  BY DEF Entries, Tracked, ShardType
<1>2. IsFiniteSet(Tracked(sh))
  BY FS_Subset DEF Tracked
<1> QED
  BY <1>1, <1>2, FS_CardinalityType

-----------------------------------------------------------------------------
(* The interleaving.                                                       *)

AllSound(s) == s \in [Shards -> ShardType] /\ \A i \in Shards : Sound(i, s[i])

\* While thread t scans, what it has seen stable is tracked now, and all that
\* is tracked now it has seen.
ScanInv == \A t \in Threads : ~Free(t) =>
  /\ stable[t] \subseteq AllEntries(shards)
  /\ AllEntries(shards) \subseteq seen[t]

IInv == TypeOK /\ AllSound(shards) /\ ScanInv /\ ScanBracketed

\* An entry of some shard is an entry of the shard its pointer hashes to.
LEMMA EntryInOwnShard ==
  ASSUME NEW s, AllSound(s), NEW e \in AllEntries(s)
  PROVE  e \in Entries(s[ShardOf[e[1]]])
  BY DEF AllSound, Sound, AllEntries, Entries

\* All entries together are pairs of a pointer and a record, finitely many.
LEMMA AllEntriesType ==
  ASSUME NEW s \in [Shards -> ShardType]
  PROVE  AllEntries(s) \subseteq Ptr \X Rec
  BY EntriesType DEF AllEntries

\* Replacing a shard by a sound one keeps all shards sound.
LEMMA ReplaceShard ==
  ASSUME NEW s, AllSound(s), NEW i \in Shards, NEW sh, Sound(i, sh)
  PROVE  AllSound([s EXCEPT ![i] = sh])
<1>1. sh \in ShardType
  BY DEF Sound
<1> QED
  BY <1>1 DEF AllSound

\* The history variables keep their types and bounds when the shards change
\* and no scan moves.
LEMMA ObserveKeeps ==
  ASSUME IInv, AllSound(shards'), Observe,
         \A t \in Threads : /\ scan'[t].op = scan[t].op
                            /\ scan'[t].found = scan[t].found
                            /\ scan[t].op = "snapshot_all" => scan'[t].next = scan[t].next
  PROVE  /\ stable' \in [Threads -> SUBSET (Ptr \X Rec)]
         /\ seen' \in [Threads -> SUBSET (Ptr \X Rec)]
         /\ ScanInv'
         /\ ScanBracketed'
<1>1. AllEntries(shards') \subseteq Ptr \X Rec
  BY AllEntriesType DEF AllSound
<1>2. /\ stable' \in [Threads -> SUBSET (Ptr \X Rec)]
      /\ seen' \in [Threads -> SUBSET (Ptr \X Rec)]
  BY <1>1 DEF IInv, TypeOK, Observe
<1>3. ASSUME NEW t \in Threads, ~Free(t)
      PROVE  /\ stable'[t] = stable[t] \cap AllEntries(shards')
             /\ seen'[t] = seen[t] \cup AllEntries(shards')
  BY <1>3 DEF Observe
<1>4. \A t \in Threads : Free(t)' <=> Free(t)
  BY DEF Free
<1>5. ScanInv'
  BY <1>3, <1>4 DEF ScanInv
<1>6. \A t \in Threads : scan[t].op = "snapshot_all" => ~Free(t)
  BY DEF Free
<1>7. ScanBracketed'
  BY <1>3, <1>6 DEF IInv, ScanBracketed
<1> QED
  BY <1>2, <1>5, <1>7

\* The empty tracker satisfies the invariant.
LEMMA InitInv == Init => IInv
<1> SUFFICES ASSUME Init PROVE IInv
  OBVIOUS
<1>1. AllSound(shards)
  BY EmptySound DEF Init, AllSound, Sound
<1>2. TypeOK
  BY <1>1 DEF Init, TypeOK, AllSound, ScanType, Idle
<1>3. ScanInv /\ ScanBracketed
  BY DEF Init, ScanInv, ScanBracketed, Free, Idle
<1> QED
  BY <1>1, <1>2, <1>3 DEF IInv

\* insert keeps the invariant (28-39).
LEMMA InsertKeeps ==
  ASSUME IInv, NEW t \in Threads, NEW p \in Ptr, NEW r \in Rec, Insert(t, p, r)
  PROVE  IInv'
<1>1. shards' = [shards EXCEPT ![ShardOf[p]] = InsertInto(shards[ShardOf[p]], p, r)]
  BY DEF Insert
<1>2. AllSound(shards')
  BY <1>1, InsertSound, ReplaceShard DEF IInv, AllSound
<1>3. scan' = scan /\ Observe
  BY DEF Insert
<1> QED
  BY <1>2, <1>3, ObserveKeeps DEF IInv, TypeOK, AllSound

\* erase keeps the invariant (41-63).
LEMMA EraseKeeps ==
  ASSUME IInv, NEW t \in Threads, NEW p \in Ptr, Erase(t, p)
  PROVE  IInv'
<1>1. shards' = [shards EXCEPT ![ShardOf[p]] = AfterErase(shards[ShardOf[p]], p)]
  BY DEF Erase
<1>2. AllSound(shards')
  BY <1>1, EraseSound, ReplaceShard DEF IInv, AllSound
<1>3. scan' = scan /\ Observe
  BY DEF Erase
<1> QED
  BY <1>2, <1>3, ObserveKeeps DEF IInv, TypeOK, AllSound

\* find, and the calls with a null pointer, change nothing the invariant reads
\* (29-30, 42-43, 65-78).
LEMMA ReadKeeps ==
  ASSUME IInv, UNCHANGED <<shards, scan, stable, seen>>
  PROVE  IInv'
  BY DEF IInv, TypeOK, ScanInv, ScanBracketed, Free

\* A listing that begins has copied nothing yet (80-82, 94-95, 103-104).
LEMMA BeginKeeps ==
  ASSUME IInv, NEW t \in Threads, NEW op \in ScanOps, BeginScan(t, op)
  PROVE  IInv'
<1>1. AllEntries(shards) \subseteq Ptr \X Rec
  BY AllEntriesType DEF IInv, AllSound
<1>2. /\ shards' = shards
      /\ scan' = [scan EXCEPT ![t] = [Idle EXCEPT !.op = op]]
      /\ stable' = [stable EXCEPT ![t] = AllEntries(shards)]
      /\ seen' = [seen EXCEPT ![t] = AllEntries(shards)]
  BY DEF BeginScan
<1>3. [Idle EXCEPT !.op = op] = [op |-> op, next |-> 0, found |-> {}, total |-> 0]
  BY DEF Idle
<1>4. [op |-> op, next |-> 0, found |-> {}, total |-> 0] \in ScanType
  BY DEF ScanType
<1>5. TypeOK' /\ AllSound(shards')
  BY <1>1, <1>2, <1>3, <1>4 DEF IInv, TypeOK
<1>6. ScanInv'
  BY <1>2, <1>3 DEF IInv, TypeOK, ScanInv, Free
<1>7. scan'[t].next = 0 /\ scan'[t].found = {}
  BY <1>2, <1>3 DEF IInv, TypeOK
<1>8. \A e \in stable'[t] : ShardOf[e[1]] \in Nat
  BY <1>1, <1>2 DEF IInv, TypeOK, Shards
<1>9. ScanBracketed'
  BY <1>2, <1>3, <1>7, <1>8 DEF IInv, TypeOK, ScanBracketed
<1> QED
  BY <1>5, <1>6, <1>9 DEF IInv

\* Visiting a shard copies entries tracked now, and all of those of that shard
\* (84-89, 96-99).
LEMMA VisitKeeps ==
  ASSUME IInv, NEW t \in Threads, VisitShard(t)
  PROVE  IInv'
<1> DEFINE i == scan[t].next
           sc == ScanStep(scan[t], shards[i])
<1>1. /\ scan[t].op \in {"snapshot_all", "size"}
      /\ i \in Shards
      /\ scan' = [scan EXCEPT ![t] = sc]
      /\ UNCHANGED <<shards, stable, seen>>
  BY DEF VisitShard, IInv, TypeOK, ScanType, Shards
<1>2. /\ sc.op = scan[t].op
      /\ sc.next = i + 1
      /\ sc.found = IF scan[t].op = "snapshot_all" THEN scan[t].found \cup Entries(shards[i]) ELSE {}
      /\ sc.total = IF scan[t].op = "size" THEN scan[t].total + Cardinality(Tracked(shards[i])) ELSE 0
  <2>1. scan[t] \in ScanType
    BY DEF IInv, TypeOK
  <2> QED
    BY <2>1 DEF ScanStep, ScanType
<1>3. shards[i] \in ShardType
  BY <1>1 DEF IInv, TypeOK
<1>4. sc \in ScanType
  <2>1. scan[t] \in ScanType /\ i + 1 \in 0 .. ShardCount
    BY <1>1 DEF IInv, TypeOK, Shards
  <2>2. /\ Entries(shards[i]) \subseteq Ptr \X Rec
        /\ Cardinality(Tracked(shards[i])) \in Nat
    BY <1>3, EntriesType
  <2> DEFINE found == IF scan[t].op = "snapshot_all"
                        THEN scan[t].found \cup Entries(shards[i]) ELSE {}
             total == IF scan[t].op = "size"
                        THEN scan[t].total + Cardinality(Tracked(shards[i])) ELSE 0
  <2>3. found \in SUBSET (Ptr \X Rec) /\ total \in Nat
    BY <2>1, <2>2 DEF ScanType
  <2>4. sc = [scan[t] EXCEPT !.next = i + 1, !.found = found, !.total = total]
    BY DEF ScanStep
  <2> HIDE DEF found, total, sc
  <2> QED
    BY <2>1, <2>3, <2>4 DEF ScanType
<1>5. TypeOK' /\ AllSound(shards')
  BY <1>1, <1>4 DEF IInv, TypeOK
<1>6. ScanInv'
  BY <1>1, <1>2 DEF IInv, TypeOK, ScanInv, Free
<1>7. ASSUME scan[t].op = "snapshot_all"
      PROVE  /\ sc.found \subseteq seen[t]
             /\ \A e \in stable[t] : ShardOf[e[1]] < i + 1 => e \in sc.found
  <2>1. ~Free(t)
    BY <1>7 DEF Free
  <2>2. Entries(shards[i]) \subseteq AllEntries(shards)
    BY <1>1 DEF AllEntries
  <2>3. sc.found \subseteq seen[t]
    BY <1>2, <1>7, <2>1, <2>2 DEF IInv, ScanInv, ScanBracketed
  <2>4. ASSUME NEW e \in stable[t], ShardOf[e[1]] < i + 1
        PROVE  e \in sc.found
    <3>1. e \in Entries(shards[ShardOf[e[1]]])
      BY <2>1, EntryInOwnShard DEF IInv, ScanInv
    <3>2. ShardOf[e[1]] \in Shards
      BY DEF IInv, TypeOK
    <3>3. CASE ShardOf[e[1]] = i
      BY <1>2, <1>7, <3>1, <3>3
    <3>4. CASE ShardOf[e[1]] < i
      BY <1>2, <1>7, <3>4 DEF IInv, ScanBracketed
    <3> QED
      BY <1>1, <2>4, <3>2, <3>3, <3>4 DEF Shards
  <2> QED
    BY <2>3, <2>4
<1>8. ScanBracketed'
  BY <1>1, <1>2, <1>7 DEF IInv, TypeOK, ScanBracketed
<1> QED
  BY <1>5, <1>6, <1>8 DEF IInv

\* Clearing a shard keeps the invariant (105-110).
LEMMA ClearKeeps ==
  ASSUME IInv, NEW t \in Threads, ClearShard(t)
  PROVE  IInv'
<1>1. /\ scan[t].op = "clear"
      /\ scan[t].next \in Shards
      /\ shards' = [shards EXCEPT ![scan[t].next] = EmptyShard]
      /\ scan' = [scan EXCEPT ![t].next = scan[t].next + 1]
      /\ Observe
  BY DEF ClearShard, IInv, TypeOK, ScanType, Shards
<1>2. AllSound(shards')
  BY <1>1, EmptySound, ReplaceShard DEF IInv
<1>3. scan' \in [Threads -> ScanType]
  <2>1. scan[t] \in ScanType /\ scan[t].next + 1 \in 0 .. ShardCount
    BY <1>1 DEF IInv, TypeOK, Shards
  <2>2. [scan[t] EXCEPT !.next = scan[t].next + 1] \in ScanType
    BY <2>1 DEF ScanType
  <2> QED
    BY <1>1, <2>2 DEF IInv, TypeOK
<1>4. \A u \in Threads : /\ scan'[u].op = scan[u].op
                         /\ scan'[u].found = scan[u].found
                         /\ scan[u].op = "snapshot_all" => scan'[u].next = scan[u].next
  BY <1>1 DEF IInv, TypeOK, ScanType
<1> QED
  BY <1>1, <1>2, <1>3, <1>4, ObserveKeeps DEF IInv, TypeOK, AllSound

\* A listing that returns leaves nothing behind (91, 100).
LEMMA EndKeeps ==
  ASSUME IInv, NEW t \in Threads, EndScan(t)
  PROVE  IInv'
<1>1. /\ shards' = shards
      /\ scan' = [scan EXCEPT ![t] = Idle]
      /\ stable' = [stable EXCEPT ![t] = {}]
      /\ seen' = [seen EXCEPT ![t] = {}]
  BY DEF EndScan
<1>2. Idle \in ScanType /\ Idle.op = "idle"
  BY DEF Idle, ScanType
<1>3. TypeOK' /\ AllSound(shards')
  BY <1>1, <1>2 DEF IInv, TypeOK
<1>4. ScanInv' /\ ScanBracketed'
  BY <1>1, <1>2 DEF IInv, TypeOK, ScanInv, ScanBracketed, Free
<1> QED
  BY <1>3, <1>4 DEF IInv

\* Every step keeps the invariant.
LEMMA StepInv == IInv /\ [Next]_vars => IInv'
<1> SUFFICES ASSUME IInv, [Next]_vars PROVE IInv'
  OBVIOUS
<1>1. CASE UNCHANGED vars
  BY <1>1, ReadKeeps DEF vars
<1>2. ASSUME NEW t \in Threads, NEW p \in Ptr, NEW r \in Rec, Insert(t, p, r) PROVE IInv'
  BY <1>2, InsertKeeps
<1>3. ASSUME NEW t \in Threads, NEW p \in Ptr, Erase(t, p) PROVE IInv'
  BY <1>3, EraseKeeps
<1>4. ASSUME NEW t \in Threads, NEW p \in Ptr, Find(t, p) PROVE IInv'
  BY <1>4, ReadKeeps DEF Find
<1>5. ASSUME NEW t \in Threads, NullCall(t) PROVE IInv'
  BY <1>5, ReadKeeps DEF NullCall
<1>6. ASSUME NEW t \in Threads, NEW op \in ScanOps, BeginScan(t, op) PROVE IInv'
  BY <1>6, BeginKeeps
<1>7. ASSUME NEW t \in Threads, VisitShard(t) PROVE IInv'
  BY <1>7, VisitKeeps
<1>8. ASSUME NEW t \in Threads, ClearShard(t) PROVE IInv'
  BY <1>8, ClearKeeps
<1>9. ASSUME NEW t \in Threads, EndScan(t) PROVE IInv'
  BY <1>9, EndKeeps
<1> QED
  BY <1>1, <1>2, <1>3, <1>4, <1>5, <1>6, <1>7, <1>8, <1>9 DEF Next

\* The invariant holds throughout.
LEMMA Invariance == Spec => []IInv
  BY InitInv, StepInv, PTL DEF Spec

\* Every shard stays well formed and every scan in range
\* (sharded_tracker.hpp:28-119).
THEOREM TypeCorrect == Spec => []TypeOK
<1>1. IInv => TypeOK
  BY DEF IInv
<1> QED
  BY <1>1, Invariance, PTL

\* A pointer in use is in no quarantine ring, so a correct free is never
\* taken for a double free (sharded_tracker.hpp:33-38 against 46-61).
THEOREM UseExcludesQuarantine == Spec => []TrackedNotQuarantined
<1>1. IInv => TrackedNotQuarantined
  BY DEF IInv, AllSound, Sound, TrackedNotQuarantined
<1> QED
  BY <1>1, Invariance, PTL

\* A ring remembers as many different erasures as it has filled slots
\* (sharded_tracker.hpp:52-53).
THEOREM RingHoldsDistinct == Spec => []NoDuplicateInRing
<1>1. IInv => NoDuplicateInRing
  BY DEF IInv, AllSound, Sound, NoDuplicateInRing
<1> QED
  BY <1>1, Invariance, PTL

\* snapshot_all, which never holds two locks at once, lists all that was
\* tracked throughout the call and nothing that was not tracked during it
\* (sharded_tracker.hpp:80-92).
THEOREM SnapshotBracketed == Spec => []ScanBracketed
<1>1. IInv => ScanBracketed
  BY DEF IInv
<1> QED
  BY <1>1, Invariance, PTL

-----------------------------------------------------------------------------
(* The refinement of TrackerRegistry.                                      *)

\* A thread outside a listing has no history.
QuietInv == \A t \in Threads : Free(t) => scan[t] = Idle /\ stable[t] = {} /\ seen[t] = {}

\* What size() has added up is the number of the entries in some set that
\* brackets the shards visited so far as a snapshot would.
Counts(sc, st, sn, F) ==
  /\ F \subseteq sn
  /\ IsFiniteSet(F) /\ Cardinality(F) = sc.total
  /\ \A e \in F : ShardOf[e[1]] < sc.next
  /\ \A e \in st : ShardOf[e[1]] < sc.next => e \in F

CountInv == \A t \in Threads :
  /\ IsFiniteSet(seen[t])
  /\ scan[t].op = "size" => \E F : Counts(scan[t], stable[t], seen[t], F)

RInv == IInv /\ QuietInv /\ CountInv

\* A shard has as many entries as pointers in use.
LEMMA EntriesFinite ==
  ASSUME NEW sh \in ShardType
  PROVE  /\ IsFiniteSet(Entries(sh))
         /\ Cardinality(Entries(sh)) = Cardinality(Tracked(sh))
<1> DEFINE f == [p \in Tracked(sh) |-> <<p, sh.records[p]>>]
<1>1. IsFiniteSet(Tracked(sh))
  BY FS_Subset DEF Tracked
<1>2. f \in Bijection(Tracked(sh), Entries(sh))
  BY DEF Entries, Bijection, Injection, IsInjective, Surjection
<1>3. ExistsBijection(Tracked(sh), Entries(sh))
  BY <1>2 DEF ExistsBijection
<1> QED
  BY <1>1, <1>3, FS_Bijection

\* All entries together are the pairs of the map from pointers to records.
LEMMA ListedIs ==
  ASSUME NEW s, AllSound(s)
  PROVE  {e \in Ptr \X Rec : LiveOf(s)[e[1]] = e[2]} = AllEntries(s)
<1>1. \A i \in Shards : s[i] \in ShardType
  BY DEF AllSound
<1>2. \A p \in Ptr : ShardOf[p] \in Shards
  OBVIOUS
<1>3. ASSUME NEW p \in Ptr, NEW r \in Rec, LiveOf(s)[p] = r
      PROVE  <<p, r>> \in AllEntries(s)
  BY <1>1, <1>2, <1>3 DEF LiveOf, AllEntries, Entries, Tracked, ShardType
<1>4. ASSUME NEW e \in AllEntries(s)
      PROVE  e \in Ptr \X Rec /\ LiveOf(s)[e[1]] = e[2]
  <2>1. e \in Ptr \X Rec
    BY AllEntriesType DEF AllSound
  <2>2. e \in Entries(s[ShardOf[e[1]]])
    BY EntryInOwnShard
  <2> QED
    BY <2>1, <2>2 DEF Entries, LiveOf
<1> QED
  BY <1>3, <1>4

\* There are finitely many of them.
LEMMA AllEntriesFinite ==
  ASSUME NEW s, AllSound(s)
  PROVE  IsFiniteSet(AllEntries(s))
<1> DEFINE T == {p \in Ptr : LiveOf(s)[p] \in Rec}
           f == [p \in T |-> <<p, LiveOf(s)[p]>>]
<1>1. IsFiniteSet(T)
  BY FS_Subset
<1>2. AllEntries(s) = {<<p, LiveOf(s)[p]>> : p \in T}
  BY ListedIs
<1>3. f \in Surjection(T, AllEntries(s))
  BY <1>2 DEF Surjection
<1> QED
  BY <1>1, <1>3, FS_Surjection

\* The listings keep their bracket and the quiet threads their silence when
\* the shards change.
LEMMA ObserveListings ==
  ASSUME RInv, AllSound(shards'), Observe,
         \A t \in Threads : scan[t].op # "clear" => scan'[t] = scan[t],
         \A t \in Threads : scan'[t].op = scan[t].op
  PROVE  QuietInv' /\ CountInv'
<1>1. \A t \in Threads : Free(t)' <=> Free(t)
  BY DEF Free
<1>2. QuietInv'
  BY <1>1 DEF RInv, QuietInv, Observe, Free
<1>3. ASSUME NEW t \in Threads
      PROVE  /\ stable'[t] \subseteq stable[t]
             /\ seen[t] \subseteq seen'[t]
             /\ IsFiniteSet(seen'[t])
  <2>1. CASE Free(t)
    BY <2>1, FS_EmptySet DEF RInv, QuietInv, Observe
  <2>2. CASE ~Free(t)
    <3>1. IsFiniteSet(seen[t]) /\ IsFiniteSet(AllEntries(shards'))
      BY AllEntriesFinite DEF RInv, CountInv
    <3> QED
      BY <2>2, <3>1, FS_Union DEF Observe
  <2> QED
    BY <2>1, <2>2
<1>4. ASSUME NEW t \in Threads, scan'[t].op = "size"
      PROVE  \E F : Counts(scan'[t], stable'[t], seen'[t], F)
  <2>1. scan'[t] = scan[t]
    BY <1>4
  <2>2. PICK F : Counts(scan[t], stable[t], seen[t], F)
    BY <1>4, <2>1 DEF RInv, CountInv
  <2>3. Counts(scan'[t], stable'[t], seen'[t], F)
    BY <1>3, <2>1, <2>2 DEF Counts
  <2> QED
    BY <2>3
<1> QED
  BY <1>2, <1>3, <1>4 DEF CountInv

\* The invariant of the refinement holds at first.
LEMMA InitRInv == Init => RInv
<1> SUFFICES ASSUME Init PROVE RInv
  OBVIOUS
<1>1. QuietInv
  BY DEF Init, QuietInv
<1>2. CountInv
  BY FS_EmptySet DEF Init, CountInv, Idle
<1> QED
  BY <1>1, <1>2, InitInv DEF RInv

\* Visiting a shard adds the number of its entries, none of which is in the
\* shards before it (96-99).
LEMMA VisitCounts ==
  ASSUME RInv, NEW t \in Threads, VisitShard(t)
  PROVE  QuietInv' /\ CountInv'
<1> DEFINE i == scan[t].next
           sc == ScanStep(scan[t], shards[i])
<1>1. /\ scan[t].op \in {"snapshot_all", "size"}
      /\ i \in Shards
      /\ scan' = [scan EXCEPT ![t] = sc]
      /\ UNCHANGED <<shards, stable, seen>>
  BY DEF VisitShard, RInv, IInv, TypeOK, ScanType, Shards
<1>2. /\ sc.op = scan[t].op
      /\ sc.next = i + 1
      /\ scan[t].op = "size" => sc.total = scan[t].total + Cardinality(Tracked(shards[i]))
  <2>1. scan[t] \in ScanType
    BY DEF RInv, IInv, TypeOK
  <2> QED
    BY <2>1 DEF ScanStep, ScanType
<1> HIDE DEF sc
<1>3. QuietInv'
  BY <1>1, <1>2 DEF RInv, IInv, TypeOK, QuietInv, Free
<1>4. \A u \in Threads \ {t} : scan'[u] = scan[u]
  BY <1>1 DEF RInv, IInv, TypeOK
<1>5. ASSUME scan[t].op = "size"
      PROVE  \E F : Counts(scan'[t], stable'[t], seen'[t], F)
  <2>1. PICK F : Counts(scan[t], stable[t], seen[t], F)
    BY <1>5 DEF RInv, CountInv
  <2>2. scan'[t] = sc
    BY <1>1 DEF RInv, IInv, TypeOK
  <2> DEFINE E == Entries(shards[i])
  <2>3. shards[i] \in ShardType /\ Sound(i, shards[i])
    BY <1>1 DEF RInv, IInv, AllSound
  <2>4. IsFiniteSet(E) /\ Cardinality(E) = Cardinality(Tracked(shards[i]))
    BY <2>3, EntriesFinite
  <2>5. \A e \in E : ShardOf[e[1]] = i
    BY <2>3 DEF Sound, Entries
  <2>6. F \cap E = {}
    BY <1>1, <2>1, <2>5 DEF Counts, Shards
  <2>7. E \subseteq seen[t]
    BY <1>1, <1>5 DEF RInv, IInv, ScanInv, AllEntries, Free
  <2>8. IsFiniteSet(F \cup E) /\ Cardinality(F \cup E) = sc.total
    <3>1. Cardinality(F) \in Nat /\ Cardinality(E) \in Nat
      BY <2>1, <2>4, FS_CardinalityType DEF Counts
    <3>2. IsFiniteSet(F) /\ Cardinality(F) = scan[t].total
      BY <2>1 DEF Counts
    <3>3. /\ IsFiniteSet(F \cup E)
          /\ Cardinality(F \cup E) = Cardinality(F) + Cardinality(E) - Cardinality(F \cap E)
      BY <2>4, <3>2, FS_Union
    <3>4. Cardinality(F \cap E) = 0
      BY <2>6, FS_EmptySet
    <3> HIDE DEF E, i
    <3> QED
      BY <1>2, <1>5, <2>4, <3>1, <3>2, <3>3, <3>4
  <2>9. \A e \in F \cup E : ShardOf[e[1]] < sc.next
    BY <1>1, <1>2, <2>1, <2>5, <2>7 DEF Counts, Shards, RInv, IInv, TypeOK
  <2>10. ASSUME NEW e \in stable[t], ShardOf[e[1]] < sc.next
         PROVE  e \in F \cup E
    <3>1. e \in Entries(shards[ShardOf[e[1]]])
      BY <1>5, EntryInOwnShard DEF RInv, IInv, ScanInv, Free
    <3>2. ShardOf[e[1]] \in Shards
      BY DEF RInv, IInv, TypeOK
    <3> QED
      BY <1>1, <1>2, <2>1, <2>10, <3>1, <3>2 DEF Counts, Shards
  <2>11. Counts(scan'[t], stable'[t], seen'[t], F \cup E)
    BY <1>1, <2>1, <2>2, <2>7, <2>8, <2>9, <2>10 DEF Counts
  <2> QED
    BY <2>11
<1>6. scan'[t].op = scan[t].op
  BY <1>1, <1>2 DEF RInv, IInv, TypeOK
<1>7. CountInv'
  BY <1>1, <1>4, <1>5, <1>6 DEF RInv, CountInv
<1> QED
  BY <1>3, <1>7

\* Every step keeps the invariant of the refinement.
LEMMA StepRInv == RInv /\ [Next]_vars => RInv'
<1> SUFFICES ASSUME RInv, [Next]_vars PROVE RInv'
  OBVIOUS
<1>1. IInv'
  BY StepInv DEF RInv
<1>2. QuietInv' /\ CountInv'
  <2>1. ASSUME UNCHANGED <<shards, scan, stable, seen>> PROVE QuietInv' /\ CountInv'
    BY <2>1 DEF RInv, QuietInv, CountInv, Free
  <2>2. ASSUME NEW t \in Threads, NEW p \in Ptr, NEW r \in Rec, Insert(t, p, r)
        PROVE  QuietInv' /\ CountInv'
    BY <1>1, <2>2, ObserveListings DEF Insert, IInv
  <2>3. ASSUME NEW t \in Threads, NEW p \in Ptr, Erase(t, p) PROVE QuietInv' /\ CountInv'
    BY <1>1, <2>3, ObserveListings DEF Erase, IInv
  <2>4. ASSUME NEW t \in Threads, NEW op \in ScanOps, BeginScan(t, op)
        PROVE  QuietInv' /\ CountInv'
    <3>1. /\ scan' = [scan EXCEPT ![t] = [op |-> op, next |-> 0, found |-> {}, total |-> 0]]
          /\ stable' = [stable EXCEPT ![t] = AllEntries(shards)]
          /\ seen' = [seen EXCEPT ![t] = AllEntries(shards)]
          /\ op # "idle"
      <4>1. [Idle EXCEPT !.op = op] = [op |-> op, next |-> 0, found |-> {}, total |-> 0]
        BY DEF Idle
      <4> QED
        BY <2>4, <4>1 DEF BeginScan, ScanOps
    <3>2. IsFiniteSet(AllEntries(shards)) /\ AllEntries(shards) \subseteq Ptr \X Rec
      BY AllEntriesFinite, AllEntriesType DEF RInv, IInv, AllSound
    <3>3. Counts(scan'[t], stable'[t], seen'[t], {})
      BY <3>1, <3>2, FS_EmptySet DEF Counts, RInv, IInv, TypeOK, Shards
    <3>4. \A u \in Threads \ {t} : scan'[u] = scan[u] /\ stable'[u] = stable[u] /\ seen'[u] = seen[u]
      BY <3>1 DEF RInv, IInv, TypeOK
    <3>5. QuietInv'
      BY <3>1, <3>4 DEF RInv, IInv, TypeOK, QuietInv, Free
    <3>6. CountInv'
      BY <3>1, <3>2, <3>3, <3>4 DEF RInv, IInv, TypeOK, CountInv
    <3> QED
      BY <3>5, <3>6
  <2>5. ASSUME NEW t \in Threads, VisitShard(t) PROVE QuietInv' /\ CountInv'
    BY <2>5, VisitCounts
  <2>6. ASSUME NEW t \in Threads, ClearShard(t) PROVE QuietInv' /\ CountInv'
    <3>1. /\ scan[t].op = "clear"
          /\ scan' = [scan EXCEPT ![t].next = scan[t].next + 1]
          /\ Observe
      BY <2>6 DEF ClearShard
    <3>2. \A u \in Threads : /\ scan'[u].op = scan[u].op
                             /\ scan[u].op # "clear" => scan'[u] = scan[u]
      BY <3>1 DEF RInv, IInv, TypeOK, ScanType
    <3> QED
      BY <1>1, <3>1, <3>2, ObserveListings DEF IInv
  <2>7. ASSUME NEW t \in Threads, EndScan(t) PROVE QuietInv' /\ CountInv'
    <3>1. /\ scan' = [scan EXCEPT ![t] = Idle]
          /\ stable' = [stable EXCEPT ![t] = {}]
          /\ seen' = [seen EXCEPT ![t] = {}]
      BY <2>7 DEF EndScan
    <3>2. Idle.op = "idle"
      BY DEF Idle
    <3>3. \A u \in Threads \ {t} : scan'[u] = scan[u] /\ stable'[u] = stable[u] /\ seen'[u] = seen[u]
      BY <3>1 DEF RInv, IInv, TypeOK
    <3>4. scan'[t] = Idle /\ stable'[t] = {} /\ seen'[t] = {}
      BY <3>1 DEF RInv, IInv, TypeOK
    <3>5. QuietInv'
      BY <3>3, <3>4 DEF RInv, QuietInv, Free
    <3>6. CountInv'
      BY <3>2, <3>3, <3>4, FS_EmptySet DEF RInv, CountInv
    <3> QED
      BY <3>5, <3>6
  <2> QED
    BY <2>1, <2>2, <2>3, <2>4, <2>5, <2>6, <2>7 DEF Next, vars, Find, NullCall
<1> QED
  BY <1>1, <1>2 DEF RInv

\* The invariant of the refinement holds throughout.
LEMMA RInvariance == Spec => []RInv
  BY InitRInv, StepRInv, PTL DEF Spec

-----------------------------------------------------------------------------
(* What the critical sections do to the abstract map and windows.          *)

\* The slot at an offset from the head is a slot of the ring.
LEMMA WrapType ==
  ASSUME NEW h \in Slot, NEW j \in 1 .. QuarantineSize
  PROVE  Wrap(h + j - 1) \in Slot
  BY DEF Wrap, Slot

\* Every slot of the ring is at some offset from the head.
LEMMA WrapOnto ==
  ASSUME NEW h \in Slot, NEW k \in Slot
  PROVE  \E j \in 1 .. QuarantineSize : Wrap(h + j - 1) = k
<1>1. CASE k >= h
  <2>1. k - h + 1 \in 1 .. QuarantineSize /\ Wrap(h + (k - h + 1) - 1) = k
    BY <1>1 DEF Wrap, Slot
  <2> QED
    BY <2>1
<1>2. CASE k < h
  <2> DEFINE j == k - h + 1 + QuarantineSize
  <2>1. j \in 1 .. QuarantineSize /\ Wrap(h + j - 1) = k
    BY <1>2 DEF Wrap, Slot
  <2> QED
    BY <2>1
<1> QED
  BY <1>1, <1>2 DEF Slot

\* The window shows exactly the pointers in quarantine.
LEMMA WindowShows ==
  ASSUME NEW sh \in ShardType, NEW p \in Ptr
  PROVE  (\E j \in 1 .. QuarantineSize : WindowOf(sh)[j] = p) <=> p \in Quarantined(sh)
<1>1. \A j \in 1 .. QuarantineSize : Wrap(sh.head + j - 1) \in Slot
  BY WrapType DEF ShardType
<1>2. \A k \in Slot : \E j \in 1 .. QuarantineSize : Wrap(sh.head + j - 1) = k
  BY WrapOnto DEF ShardType
<1>3. \A j \in 1 .. QuarantineSize : WindowOf(sh)[j] = sh.quarantine[Wrap(sh.head + j - 1)]
  BY DEF WindowOf
<1> QED
  BY <1>1, <1>2, <1>3 DEF Quarantined

\* insert leaves a hole where the pointer was in the window (33-34).
LEMMA WindowInsert ==
  ASSUME NEW sh \in ShardType, NEW p \in Ptr, NEW r \in Rec
  PROVE  WindowOf(InsertInto(sh, p, r)) =
           [j \in 1 .. QuarantineSize |-> IF WindowOf(sh)[j] = p THEN Null ELSE WindowOf(sh)[j]]
<1>1. \A j \in 1 .. QuarantineSize : Wrap(sh.head + j - 1) \in Slot
  BY WrapType DEF ShardType
<1>2. /\ InsertInto(sh, p, r).head = sh.head
      /\ InsertInto(sh, p, r).quarantine =
           [i \in Slot |-> IF sh.quarantine[i] = p THEN Null ELSE sh.quarantine[i]]
  BY DEF InsertInto, ShardType
<1> QED
  BY <1>1, <1>2 DEF WindowOf

\* erase of a tracked pointer forgets the oldest erasure and appends the new
\* one (52-53).
LEMMA WindowErase ==
  ASSUME NEW sh \in ShardType, NEW p \in Ptr
  PROVE  WindowOf(EraseFrom(sh, p)) = Append(Tail(WindowOf(sh)), p)
<1> DEFINE w == WindowOf(sh)
           new == WindowOf(EraseFrom(sh, p))
           h == sh.head
<1>1. h \in Slot /\ sh.quarantine \in [Slot -> Ptr \cup {Null}]
  BY DEF ShardType
<1>2. /\ EraseFrom(sh, p).head = NextHead(h)
      /\ EraseFrom(sh, p).quarantine = [sh.quarantine EXCEPT ![h] = p]
  BY DEF EraseFrom, ShardType
<1>3. new = [j \in 1 .. QuarantineSize |-> [sh.quarantine EXCEPT ![h] = p][Wrap(NextHead(h) + j - 1)]]
  BY <1>2 DEF WindowOf
<1>4. w \in Seq(Ptr \cup {Null}) /\ Len(w) = QuarantineSize
  BY <1>1, WrapType DEF WindowOf
<1>5. w # << >>
  BY <1>4
<1>6. /\ Tail(w) \in Seq(Ptr \cup {Null})
      /\ Len(Tail(w)) = QuarantineSize - 1
      /\ \A j \in 1 .. QuarantineSize - 1 : Tail(w)[j] = w[j + 1]
  BY <1>4, <1>5
<1>7. ASSUME NEW j \in 1 .. QuarantineSize - 1
      PROVE  new[j] = w[j + 1]
  <2>1. /\ Wrap(NextHead(h) + j - 1) = Wrap(h + (j + 1) - 1)
        /\ Wrap(NextHead(h) + j - 1) # h
        /\ Wrap(NextHead(h) + j - 1) \in Slot
    <3> HIDE DEF h
    <3>1. CASE h + 1 = QuarantineSize
      BY <1>1, <3>1 DEF Wrap, NextHead, Slot
    <3>2. CASE h + 1 # QuarantineSize
      BY <1>1, <3>2 DEF Wrap, NextHead, Slot
    <3> QED
      BY <3>1, <3>2
  <2>2. w[j + 1] = sh.quarantine[Wrap(h + (j + 1) - 1)]
    BY DEF WindowOf
  <2> QED
    BY <1>1, <1>3, <2>1, <2>2
<1>8. new[QuarantineSize] = p
  <2>1. Wrap(NextHead(h) + QuarantineSize - 1) = h
    BY <1>1 DEF Wrap, NextHead, Slot
  <2> QED
    BY <1>1, <1>3, <2>1
<1>9. /\ Append(Tail(w), p) \in Seq(Ptr \cup {Null})
      /\ Len(Append(Tail(w), p)) = QuarantineSize
      /\ \A j \in 1 .. QuarantineSize - 1 : Append(Tail(w), p)[j] = w[j + 1]
      /\ Append(Tail(w), p)[QuarantineSize] = p
  BY <1>6
<1>10. Append(Tail(w), p) = [j \in 1 .. QuarantineSize |-> Append(Tail(w), p)[j]]
  <2> DEFINE a == Append(Tail(w), p)
  <2> HIDE DEF a
  <2>1. a \in Seq(Ptr \cup {Null}) /\ Len(a) = QuarantineSize
    BY <1>9 DEF a
  <2>2. a = [j \in 1 .. QuarantineSize |-> a[j]]
    BY <2>1
  <2> QED
    BY <2>2 DEF a
<1>11. new = [j \in 1 .. QuarantineSize |-> new[j]]
  BY <1>3
<1> HIDE DEF new, w
<1>12. \A j \in 1 .. QuarantineSize : new[j] = Append(Tail(w), p)[j]
  BY <1>7, <1>8, <1>9
<1> QED
  BY <1>10, <1>11, <1>12 DEF new, w

\* Replacing one shard changes its own window only.
LEMMA ReplaceWindow ==
  ASSUME NEW s \in [Shards -> ShardType], NEW i \in Shards, NEW sh \in ShardType
  PROVE  [j \in Shards |-> WindowOf([s EXCEPT ![i] = sh][j])] =
           [[j \in Shards |-> WindowOf(s[j])] EXCEPT ![i] = WindowOf(sh)]
  OBVIOUS

-----------------------------------------------------------------------------
(* Each action is an action of the registry or leaves its variables alone. *)

\* A free thread has no call in progress.
LEMMA CallFree ==
  ASSUME RInv, NEW t \in Threads
  PROVE  /\ Registry!Free(t) <=> Free(t)
         /\ Free(t) => CallOf(scan[t], stable[t], seen[t]) = Registry!NoCall
  BY DEF RInv, QuietInv, Free, Registry!Free, CallOf, Idle, Registry!NoCall

\* The history variables are those of the registry's listings.
LEMMA ObserveNotes ==
  ASSUME RInv, AllSound(shards'), Observe, scan' = scan
  PROVE  Registry!Note
<1>1. {e \in Ptr \X Rec : LiveOf(shards')[e[1]] = e[2]} = AllEntries(shards')
  BY ListedIs
<1>2. Registry!Listed' = AllEntries(shards')
  BY <1>1 DEF Registry!Listed
<1>3. ASSUME NEW t \in Threads
      PROVE  CallOf(scan'[t], stable'[t], seen'[t]) =
               IF Registry!Free(t) THEN Registry!NoCall
               ELSE [CallOf(scan[t], stable[t], seen[t])
                       EXCEPT !.stable = @ \cap AllEntries(shards'),
                              !.seen = @ \cup AllEntries(shards')]
  <2>1. CASE Free(t)
    <3>1. stable'[t] = stable[t] /\ seen'[t] = seen[t]
      BY <2>1 DEF Observe, RInv, QuietInv
    <3> QED
      BY <2>1, <3>1, CallFree
  <2>2. CASE ~Free(t)
    <3>1. /\ stable'[t] = stable[t] \cap AllEntries(shards')
          /\ seen'[t] = seen[t] \cup AllEntries(shards')
      BY <2>2 DEF Observe
    <3> QED
      BY <2>2, <3>1, CallFree DEF CallOf
  <2> QED
    BY <2>1, <2>2
<1> QED
  BY <1>2, <1>3 DEF Registry!Note

\* insert (28-39).
LEMMA InsertImplements ==
  ASSUME RInv, RInv', NEW t \in Threads, NEW p \in Ptr, NEW r \in Rec, Insert(t, p, r)
  PROVE  Registry!Insert(t, p, r)
<1> DEFINE i == ShardOf[p]
           sh == InsertInto(shards[i], p, r)
<1>1. /\ Free(t) /\ Observe /\ scan' = scan
      /\ shards' = [shards EXCEPT ![i] = sh]
      /\ ret' = [by |-> t, op |-> "insert", value |-> Null]
  BY DEF Insert, Return
<1>2. shards \in [Shards -> ShardType] /\ i \in Shards /\ shards[i] \in ShardType
  BY DEF RInv, IInv, TypeOK
<1>3. sh \in ShardType /\ sh.records = [shards[i].records EXCEPT ![p] = r]
  BY <1>2, InsertEffect DEF InsertInto, ShardType
<1>4. LiveOf(shards') = [LiveOf(shards) EXCEPT ![p] = r]
  <2> HIDE DEF sh
  <2>1. \A q \in Ptr : shards'[ShardOf[q]].records[q] =
                          IF q = p THEN r ELSE shards[ShardOf[q]].records[q]
    BY <1>1, <1>2, <1>3 DEF ShardType
  <2> QED
    BY <2>1 DEF LiveOf
<1>5. [j \in Shards |-> WindowOf(shards'[j])] =
        [[j \in Shards |-> WindowOf(shards[j])] EXCEPT ![i] =
           [j \in 1 .. QuarantineSize |-> IF @[j] = p THEN Null ELSE @[j]]]
  <2> DEFINE w == [j \in Shards |-> WindowOf(shards[j])]
  <2>1. [j \in Shards |-> WindowOf(shards'[j])] = [w EXCEPT ![i] = WindowOf(sh)]
    <3> HIDE DEF sh, i
    <3> QED
      BY <1>1, <1>2, <1>3, ReplaceWindow
  <2>2. WindowOf(sh) = [j \in 1 .. QuarantineSize |-> IF w[i][j] = p THEN Null ELSE w[i][j]]
    BY <1>2, WindowInsert
  <2> QED
    BY <2>1, <2>2
<1>6. Registry!Note
  BY <1>1, ObserveNotes DEF RInv, IInv
<1> QED
  BY <1>1, <1>4, <1>5, <1>6, CallFree DEF Registry!Insert, Registry!Return

\* erase of a pointer in use (41-56).
LEMMA EraseImplements ==
  ASSUME RInv, RInv', NEW t \in Threads, NEW p \in Ptr, Erase(t, p),
         p \in Tracked(shards[ShardOf[p]])
  PROVE  Registry!EraseLive(t, p)
<1> DEFINE i == ShardOf[p]
           sh == EraseFrom(shards[i], p)
<1>1. /\ Free(t) /\ Observe /\ scan' = scan
      /\ shards' = [shards EXCEPT ![i] = sh]
      /\ ret' = [by |-> t, op |-> "erase", value |-> <<p, "SUCCESS", LiveOf(shards)[p]>>]
  BY DEF Erase, Return, AfterErase, EraseStatus, LiveOf
<1>2. shards \in [Shards -> ShardType] /\ i \in Shards /\ shards[i] \in ShardType
  BY DEF RInv, IInv, TypeOK
<1>3. sh \in ShardType /\ sh.records = [shards[i].records EXCEPT ![p] = NoRecord]
  BY <1>2, EraseEffect DEF EraseFrom, ShardType
<1>4. LiveOf(shards') = [LiveOf(shards) EXCEPT ![p] = NoRecord]
  <2> HIDE DEF sh
  <2>1. \A q \in Ptr : shards'[ShardOf[q]].records[q] =
                          IF q = p THEN NoRecord ELSE shards[ShardOf[q]].records[q]
    BY <1>1, <1>2, <1>3 DEF ShardType
  <2> QED
    BY <2>1 DEF LiveOf
<1>5. [j \in Shards |-> WindowOf(shards'[j])] =
        [[j \in Shards |-> WindowOf(shards[j])] EXCEPT ![i] = Append(Tail(@), p)]
  BY <1>1, <1>2, <1>3, ReplaceWindow, WindowErase
<1>6. Registry!Note
  BY <1>1, ObserveNotes DEF RInv, IInv
<1>7. Registry!InUse(p)
  BY DEF Registry!InUse, Tracked, LiveOf
<1> QED
  BY <1>1, <1>4, <1>5, <1>6, <1>7, CallFree DEF Registry!EraseLive, Registry!Return

\* erase of any other pointer changes nothing, and tells a recent erasure of
\* the shard from a pointer never seen or long forgotten (45-50, 58-62).
LEMMA EraseRefusedImplements ==
  ASSUME RInv, RInv', NEW t \in Threads, NEW p \in Ptr, Erase(t, p),
         p \notin Tracked(shards[ShardOf[p]])
  PROVE  Registry!EraseDead(t, p)
<1> DEFINE i == ShardOf[p]
<1>1. shards \in [Shards -> ShardType] /\ i \in Shards /\ shards[i] \in ShardType
  BY DEF RInv, IInv, TypeOK
<1>2. shards' = shards /\ scan' = scan /\ Free(t) /\ Observe
  BY <1>1 DEF Erase, AfterErase
<1>3. stable' = stable /\ seen' = seen
  <2>1. \A u \in Threads : stable'[u] = stable[u] /\ seen'[u] = seen[u]
    <3> SUFFICES ASSUME NEW u \in Threads PROVE stable'[u] = stable[u] /\ seen'[u] = seen[u]
      OBVIOUS
    <3>1. CASE Free(u)
      BY <1>2, <3>1 DEF Observe, RInv, QuietInv
    <3>2. CASE ~Free(u)
      BY <1>2, <3>2 DEF Observe, RInv, IInv, ScanInv
    <3> QED
      BY <3>1, <3>2
  <2> QED
    BY <2>1 DEF RInv, IInv, TypeOK
<1>4. shards[i].records[p] = NoRecord /\ LiveOf(shards)[p] = NoRecord
  BY DEF Tracked, LiveOf
<1>5. Registry!RecentlyErased(p) <=> p \in Quarantined(shards[i])
  BY <1>1, WindowShows DEF Registry!RecentlyErased
<1>6. ret' = [by |-> t, op |-> "erase",
              value |-> <<p, IF Registry!RecentlyErased(p) THEN "DOUBLE_FREE_DETECTED" ELSE "NOT_FOUND",
                          NoRecord>>]
  BY <1>4, <1>5 DEF Erase, Return, EraseStatus
<1>7. ~Registry!InUse(p)
  BY <1>4 DEF Registry!InUse
<1> QED
  BY <1>2, <1>3, <1>6, <1>7, CallFree DEF Registry!EraseDead, Registry!Return

\* find (65-78).
LEMMA FindImplements ==
  ASSUME RInv, NEW t \in Threads, NEW p \in Ptr, Find(t, p)
  PROVE  Registry!Find(t, p)
  BY CallFree DEF Find, Return, Registry!Find, Registry!Return, LiveOf

\* insert, erase and find of a null pointer (29-30, 42-43, 66-67).
LEMMA NullImplements ==
  ASSUME RInv, NEW t \in Threads, NullCall(t)
  PROVE  Registry!InsertNull(t) \/ Registry!EraseDead(t, Null) \/ Registry!Find(t, Null)
  BY CallFree DEF NullCall, Return, Registry!InsertNull, Registry!EraseDead, Registry!Find,
                  Registry!Return

\* A listing, or clear, begins (80-82, 94-95, 103-104).
LEMMA BeginImplements ==
  ASSUME RInv, NEW t \in Threads, NEW op \in ScanOps, BeginScan(t, op)
  PROVE  Registry!Begin(t, op)
<1>1. /\ Free(t)
      /\ shards' = shards /\ ret' = ret
      /\ scan' = [scan EXCEPT ![t] = [op |-> op, next |-> 0, found |-> {}, total |-> 0]]
      /\ stable' = [stable EXCEPT ![t] = AllEntries(shards)]
      /\ seen' = [seen EXCEPT ![t] = AllEntries(shards)]
  <2>1. [Idle EXCEPT !.op = op] = [op |-> op, next |-> 0, found |-> {}, total |-> 0]
    BY DEF Idle
  <2> QED
    BY <2>1 DEF BeginScan
<1>2. Registry!Listed = AllEntries(shards)
  BY ListedIs DEF Registry!Listed, RInv, IInv
<1>3. scan \in [Threads -> ScanType]
      /\ DOMAIN stable = Threads /\ stable = [u \in Threads |-> stable[u]]
      /\ seen = [u \in Threads |-> seen[u]]
  BY DEF RInv, IInv, TypeOK
<1> DEFINE new == [op |-> op, todo |-> IF op = "clear" THEN Shards ELSE {},
                   stable |-> AllEntries(shards), seen |-> AllEntries(shards)]
<1>4. CallOf(scan'[t], stable'[t], seen'[t]) = new
  <2>1. /\ scan'[t] = [op |-> op, next |-> 0, found |-> {}, total |-> 0]
        /\ stable'[t] = AllEntries(shards)
        /\ seen'[t] = AllEntries(shards)
    BY <1>1, <1>3
  <2> QED
    BY <2>1 DEF CallOf, Shards
<1>5. \A u \in Threads \ {t} :
        CallOf(scan'[u], stable'[u], seen'[u]) = CallOf(scan[u], stable[u], seen[u])
  BY <1>1, <1>3
<1>6. [u \in Threads |-> CallOf(scan'[u], stable'[u], seen'[u])] =
        [[u \in Threads |-> CallOf(scan[u], stable[u], seen[u])] EXCEPT ![t] = new]
  <2> HIDE DEF new
  <2> QED
    BY <1>4, <1>5
<1> QED
  BY <1>1, <1>2, <1>6, CallFree DEF Registry!Begin, Registry!Shards, Shards

\* Visiting a shard is no step of the registry (84-89, 96-99).
LEMMA VisitStutters ==
  ASSUME RInv, NEW t \in Threads, VisitShard(t)
  PROVE  UNCHANGED <<shards, ret>>
         /\ \A u \in Threads : CallOf(scan'[u], stable'[u], seen'[u]) = CallOf(scan[u], stable[u], seen[u])
<1> DEFINE sc == ScanStep(scan[t], shards[scan[t].next])
<1>1. /\ scan[t].op \in {"snapshot_all", "size"}
      /\ scan' = [scan EXCEPT ![t] = sc]
      /\ UNCHANGED <<shards, ret, stable, seen>>
  BY DEF VisitShard
<1>2. scan \in [Threads -> ScanType]
  BY DEF RInv, IInv, TypeOK
<1>3. sc.op = scan[t].op
  BY <1>2 DEF ScanStep, ScanType
<1> HIDE DEF sc
<1> QED
  BY <1>1, <1>2, <1>3 DEF CallOf

\* clear empties one more shard (105-110).
LEMMA ClearImplements ==
  ASSUME RInv, RInv', NEW t \in Threads, ClearShard(t)
  PROVE  Registry!ClearOne(t)
<1> DEFINE i == scan[t].next
<1>1. /\ scan[t].op = "clear" /\ i \in Shards /\ Observe
      /\ shards' = [shards EXCEPT ![i] = EmptyShard]
      /\ scan' = [scan EXCEPT ![t].next = i + 1]
      /\ ret' = ret
  BY DEF ClearShard, RInv, IInv, TypeOK, ScanType, Shards
<1>2. /\ shards \in [Shards -> ShardType] /\ EmptyShard \in ShardType
      /\ scan \in [Threads -> ScanType]
  BY <1>1, EmptySound DEF RInv, IInv, TypeOK, Sound
<1> HIDE DEF i
<1>3. LiveOf(shards') = [p \in Ptr |-> IF ShardOf[p] = i THEN NoRecord ELSE LiveOf(shards)[p]]
  <2>1. \A p \in Ptr : EmptyShard.records[p] = NoRecord
    BY DEF EmptyShard
  <2> QED
    BY <1>1, <1>2, <2>1 DEF LiveOf
<1>4. [j \in Shards |-> WindowOf(shards'[j])] =
        [[j \in Shards |-> WindowOf(shards[j])] EXCEPT ![i] = [j \in 1 .. QuarantineSize |-> Null]]
  <2>1. [j \in Shards |-> WindowOf(shards'[j])] =
          [[j \in Shards |-> WindowOf(shards[j])] EXCEPT ![i] = WindowOf(EmptyShard)]
    BY <1>1, <1>2, ReplaceWindow
  <2>2. 0 \in Slot /\ \A j \in 1 .. QuarantineSize : Wrap(0 + j - 1) \in Slot
    BY WrapType DEF Slot
  <2>3. WindowOf(EmptyShard) = [j \in 1 .. QuarantineSize |-> Null]
    BY <2>2 DEF WindowOf, EmptyShard
  <2> QED
    BY <2>1, <2>3
<1>5. {e \in Ptr \X Rec : LiveOf(shards')[e[1]] = e[2]} = AllEntries(shards')
  BY ListedIs DEF RInv, IInv
<1>6. Registry!Listed' = AllEntries(shards')
  BY <1>5 DEF Registry!Listed
<1>7. \A u \in Threads : scan'[u].op = scan[u].op
  BY <1>1, <1>2 DEF ScanType
<1>8. \A u \in Threads \ {t} : scan'[u] = scan[u]
  BY <1>1, <1>2
<1>9. scan'[t].next = i + 1 /\ scan[t].next = i
  BY <1>1, <1>2 DEF ScanType, i
<1>10. (i + 1) .. (ShardCount - 1) = (i .. (ShardCount - 1)) \ {i}
  BY <1>1 DEF Shards
<1>11. ASSUME NEW u \in Threads
       PROVE  CallOf(scan'[u], stable'[u], seen'[u]) =
                IF Registry!Free(u) THEN Registry!NoCall
                ELSE [CallOf(scan[u], stable[u], seen[u])
                        EXCEPT !.todo = IF u = t THEN @ \ {i} ELSE @,
                               !.stable = @ \cap AllEntries(shards'),
                               !.seen = @ \cup AllEntries(shards')]
  <2>1. CASE Free(u)
    <3>1. u # t
      BY <1>1, <2>1 DEF Free
    <3>2. stable'[u] = stable[u] /\ seen'[u] = seen[u] /\ scan'[u] = scan[u]
      BY <1>1, <1>8, <2>1, <3>1 DEF Observe, RInv, QuietInv
    <3> QED
      BY <2>1, <3>2, CallFree
  <2>2. CASE ~Free(u)
    <3>1. /\ stable'[u] = stable[u] \cap AllEntries(shards')
          /\ seen'[u] = seen[u] \cup AllEntries(shards')
      BY <1>1, <2>2 DEF Observe
    <3>2. CASE u = t
      BY <1>1, <1>7, <1>9, <1>10, <2>2, <3>1, <3>2, CallFree DEF CallOf
    <3>3. CASE u # t
      BY <1>8, <2>2, <3>1, <3>3, CallFree DEF CallOf
    <3> QED
      BY <3>2, <3>3
  <2> QED
    BY <2>1, <2>2
<1>12. i \in CallOf(scan[t], stable[t], seen[t]).todo
  BY <1>1, <1>9 DEF CallOf, Shards
<1> DEFINE call == [u \in Threads |-> CallOf(scan[u], stable[u], seen[u])]
           callAfter == [u \in Threads |-> CallOf(scan'[u], stable'[u], seen'[u])]
<1>13. callAfter = [u \in Threads |->
         IF Registry!Free(u) THEN Registry!NoCall
         ELSE [call[u] EXCEPT !.todo = IF u = t THEN call[u].todo \ {i} ELSE call[u].todo,
                              !.stable = call[u].stable \cap Registry!Listed',
                              !.seen = call[u].seen \cup Registry!Listed']]
  BY <1>6, <1>11
<1>14. i \in call[t].todo
  BY <1>12
<1> QED
  BY <1>1, <1>3, <1>4, <1>13, <1>14 DEF Registry!ClearOne

\* The two modules take the same Cardinality from FiniteSets.
LEMMA SameCardinality == \A S : Registry!Cardinality(S) = Cardinality(S)
  BY DEF Registry!Cardinality, Cardinality

\* A listing returns what the registry allows (91, 100).
LEMMA EndImplements ==
  ASSUME RInv, NEW t \in Threads, EndScan(t)
  PROVE  Registry!End(t)
<1> DEFINE sc == scan[t]
<1>1. /\ ~Free(t) /\ sc.next >= ShardCount /\ shards' = shards
      /\ ret' = [by |-> t, op |-> sc.op,
                 value |-> CASE sc.op = "snapshot_all" -> sc.found
                             [] sc.op = "size"         -> sc.total
                             [] OTHER                  -> Null]
      /\ scan' = [scan EXCEPT ![t] = Idle]
      /\ stable' = [stable EXCEPT ![t] = {}]
      /\ seen' = [seen EXCEPT ![t] = {}]
  BY DEF EndScan, Return
<1>2. /\ scan \in [Threads -> ScanType]
      /\ stable \in [Threads -> SUBSET (Ptr \X Rec)]
      /\ seen \in [Threads -> SUBSET (Ptr \X Rec)]
  BY DEF RInv, IInv, TypeOK
<1>3. sc \in ScanType /\ sc.next = ShardCount /\ sc.op \in ScanOps
  <2>1. sc \in ScanType
    BY <1>2
  <2> HIDE DEF sc
  <2>2. sc.op # "idle"
    BY <1>1 DEF Free, sc
  <2> QED
    BY <1>1, <2>1, <2>2 DEF ScanType
<1>4. [u \in Threads |-> CallOf(scan'[u], stable'[u], seen'[u])] =
        [[u \in Threads |-> CallOf(scan[u], stable[u], seen[u])] EXCEPT ![t] = Registry!NoCall]
  <2>1. CallOf(scan'[t], stable'[t], seen'[t]) = Registry!NoCall
    BY <1>1, <1>2 DEF CallOf, Idle, Registry!NoCall
  <2>2. \A u \in Threads \ {t} :
          CallOf(scan'[u], stable'[u], seen'[u]) = CallOf(scan[u], stable[u], seen[u])
    BY <1>1, <1>2
  <2> QED
    BY <2>1, <2>2
<1> DEFINE call == CallOf(sc, stable[t], seen[t])
<1>5. /\ call.op = sc.op /\ call.stable = stable[t] /\ call.seen = seen[t]
      /\ call.todo = {}
  BY <1>3 DEF CallOf
<1>6. \A e \in stable[t] : ShardOf[e[1]] < ShardCount
  BY <1>2 DEF Shards
<1>7. CASE sc.op = "snapshot_all"
  <2>1. stable[t] \subseteq sc.found /\ sc.found \subseteq seen[t]
    BY <1>3, <1>6, <1>7 DEF RInv, IInv, ScanBracketed
  <2>2. ret' = [by |-> t, op |-> "snapshot_all", value |-> sc.found]
    BY <1>1, <1>7
  <2> QED
    BY <1>1, <1>4, <1>5, <1>7, <2>1, <2>2, CallFree DEF Registry!End, Registry!Return
<1>8. CASE sc.op = "size"
  <2>1. PICK F : Counts(sc, stable[t], seen[t], F)
    BY <1>8 DEF RInv, CountInv
  <2>2. stable[t] \subseteq F /\ F \subseteq seen[t] /\ IsFiniteSet(F) /\ IsFiniteSet(seen[t])
    BY <1>3, <1>6, <2>1 DEF Counts, RInv, CountInv
  <2>3. /\ Cardinality(stable[t]) \in Nat /\ Cardinality(stable[t]) <= Cardinality(F)
        /\ Cardinality(F) \in Nat /\ Cardinality(F) <= Cardinality(seen[t])
        /\ Cardinality(seen[t]) \in Nat
    BY <2>2, FS_Subset, FS_CardinalityType
  <2>4. sc.total \in Cardinality(stable[t]) .. Cardinality(seen[t])
    BY <2>1, <2>3 DEF Counts
  <2>5. ret' = [by |-> t, op |-> "size", value |-> sc.total]
    BY <1>1, <1>8
  <2>6. ~Registry!Free(t) /\ shards' = shards
    BY <1>1, CallFree
  <2> DEFINE calls == [u \in Threads |-> CallOf(scan[u], stable[u], seen[u])]
  <2>7. calls[t].op = "size" /\ calls[t].todo = {}
    BY <1>5, <1>8
  <2>8. \E n \in Cardinality(calls[t].stable) .. Cardinality(calls[t].seen) :
          Registry!Return(t, "size", n)
    <3>1. calls[t].stable = stable[t] /\ calls[t].seen = seen[t]
      BY <1>5
    <3> HIDE DEF calls
    <3> QED
      BY <2>4, <2>5, <3>1 DEF Registry!Return
  <2> QED
    BY <1>4, <2>6, <2>7, <2>8, SameCardinality DEF Registry!End
<1>9. CASE sc.op = "clear"
  <2>1. ret' = [by |-> t, op |-> "clear", value |-> Null]
    BY <1>1, <1>9
  <2> QED
    BY <1>1, <1>4, <1>5, <1>9, <2>1, CallFree DEF Registry!End, Registry!Return
<1> QED
  BY <1>3, <1>7, <1>8, <1>9 DEF ScanOps

\* The empty tracker is the empty registry.
LEMMA InitImplements == Init => Registry!Init
<1> SUFFICES ASSUME Init PROVE Registry!Init
  OBVIOUS
<1>1. \A p \in Ptr : EmptyShard.records[p] = NoRecord
  BY DEF EmptyShard
<1>2. LiveOf(shards) = [p \in Ptr |-> NoRecord]
  BY <1>1 DEF Init, LiveOf
<1>3. 0 \in Slot /\ \A j \in 1 .. QuarantineSize : Wrap(0 + j - 1) \in Slot
  BY WrapType DEF Slot
<1>4. WindowOf(EmptyShard) = [j \in 1 .. QuarantineSize |-> Null]
  BY <1>3 DEF WindowOf, EmptyShard
<1>5. [t \in Threads |-> CallOf(scan[t], stable[t], seen[t])] = [t \in Threads |-> Registry!NoCall]
  BY DEF Init, CallOf, Idle, Registry!NoCall
<1> QED
  BY <1>2, <1>4, <1>5 DEF Init, Registry!Init, NoReturn, Registry!Shards, Shards

\* Every step of the tracker is a step of the registry or leaves it alone.
LEMMA StepImplements == RInv /\ RInv' /\ [Next]_vars => [Registry!Next]_(Registry!vars)
<1> SUFFICES ASSUME RInv, RInv', [Next]_vars PROVE [Registry!Next]_(Registry!vars)
  OBVIOUS
<1>1. CASE UNCHANGED vars
  BY <1>1 DEF vars, Registry!vars
<1>2. ASSUME NEW t \in Threads, NEW p \in Ptr, NEW r \in Rec, Insert(t, p, r) PROVE Registry!Next
  BY <1>2, InsertImplements DEF Registry!Next
<1>3. ASSUME NEW t \in Threads, NEW p \in Ptr, Erase(t, p) PROVE Registry!Next
  BY <1>3, EraseImplements, EraseRefusedImplements DEF Registry!Next
<1>4. ASSUME NEW t \in Threads, NEW p \in Ptr, Find(t, p) PROVE Registry!Next
  BY <1>4, FindImplements DEF Registry!Next
<1>5. ASSUME NEW t \in Threads, NullCall(t) PROVE Registry!Next
  BY <1>5, NullImplements DEF Registry!Next
<1>6. ASSUME NEW t \in Threads, NEW op \in ScanOps, BeginScan(t, op) PROVE Registry!Next
  BY <1>6, BeginImplements DEF Registry!Next, ScanOps
<1>7. ASSUME NEW t \in Threads, VisitShard(t) PROVE UNCHANGED (Registry!vars)
  BY <1>7, VisitStutters DEF Registry!vars
<1>8. ASSUME NEW t \in Threads, ClearShard(t) PROVE Registry!Next
  BY <1>8, ClearImplements DEF Registry!Next
<1>9. ASSUME NEW t \in Threads, EndScan(t) PROVE Registry!Next
  BY <1>9, EndImplements DEF Registry!Next
<1> QED
  BY <1>1, <1>2, <1>3, <1>4, <1>5, <1>6, <1>7, <1>8, <1>9 DEF Next

\* The sharded tracker implements the registry: erase answers SUCCESS for the
\* pointers in use, DOUBLE_FREE_DETECTED for those among the last
\* QuarantineSize erasures of their shard and not inserted since, NOT_FOUND
\* for all others, whatever listing or clear runs meanwhile; and every listing
\* is bracketed by what was tracked during it (sharded_tracker.hpp:28-111).
THEOREM Implements == Spec => RefinesRegistry
  BY InitImplements, StepImplements, RInvariance, PTL DEF Spec, RefinesRegistry, Registry!Spec

=============================================================================
