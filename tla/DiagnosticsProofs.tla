------------------------- MODULE DiagnosticsProofs -------------------------
(***************************************************************************)
(* The reports for every set of threads, addresses, rules and kinds of     *)
(* blocks, and any number of shards.                                       *)
(*                                                                         *)
(* A listing copies one shard after the other while the application runs.  *)
(* What it owes after a number of shards is every record of those shards   *)
(* that was there when it began and still is: records only ever leave the  *)
(* set, because a record on its way into the tracker is in no list yet     *)
(* (Fresh).  Diff, Owed and Agreed say so of a snapshot, of the two        *)
(* listings of on_exit, and of those two when nothing else runs.           *)
(*                                                                         *)
(* Books are about sums.  A counter is the sum over the tracked records    *)
(* and over those of the calls that stand between counter and tracker      *)
(* (Ledger); a snapshot no call overlaps is exact (Undisturbed); and what  *)
(* was freed is in the buckets or in the hands of a call (Filed).          *)
(***************************************************************************)
EXTENDS Diagnostics, FiniteSetTheorems, TLAPS

-----------------------------------------------------------------------------
(* Sums.  What MapThenSumSet adds up is counted instead: the sum of the    *)
(* weights of a set is the number of its units, of which each element has  *)
(* as many as it weighs.                                                   *)

\* A non-empty set of subsets of a finite set has a smallest one, so what a
\* recursion computes can be shown at the first set where it would go wrong.
LEMMA LeastSubset ==
  ASSUME NEW S, IsFiniteSet(S), NEW T \in SUBSET (SUBSET S), T # {}
  PROVE  \E x \in T : \A y \in T : y \subseteq x => y = x
<1>1. T \subseteq FiniteSubsetsOf(S)
  BY FS_FiniteSubsetsOfFinite
<1>2. \E x \in T : \A y \in T : ~ (<<y, x>> \in StrictSubsetOrdering(S))
  BY <1>1, FS_StrictSubsetOrderingWellFounded, WFMin
<1> QED
  BY <1>2 DEF StrictSubsetOrdering

Units(w, S) == {u \in S \X Nat : 1 <= u[2] /\ u[2] <= w[u[1]]}

Weigh(w, S) == Cardinality(Units(w, S))

\* The units of one element ...
LEMMA UnitsOfOne ==
  ASSUME NEW D, NEW w \in [D -> Nat], NEW x \in D
  PROVE  IsFiniteSet({x} \X (1 .. w[x])) /\ Cardinality({x} \X (1 .. w[x])) = w[x]
<1>1. IsFiniteSet({x}) /\ Cardinality({x}) = 1
  BY FS_Singleton
<1>2. 1 \in Int /\ w[x] \in Int /\ w[x] \in Nat
  OBVIOUS
<1>3. IsFiniteSet(1 .. w[x]) /\ Cardinality(1 .. w[x]) = w[x]
  BY <1>2, FS_Interval
<1>4. IsFiniteSet({x} \X (1 .. w[x]))
      /\ Cardinality({x} \X (1 .. w[x])) = Cardinality({x}) * Cardinality(1 .. w[x])
  BY <1>1, <1>3, FS_Product
<1> QED
  BY <1>1, <1>2, <1>3, <1>4

\* ... are those that are gone without it.
LEMMA UnitsWithout ==
  ASSUME NEW D, NEW w \in [D -> Nat], NEW s \in SUBSET D, NEW x \in s, IsFiniteSet(Units(w, s \ {x}))
  PROVE  /\ IsFiniteSet(Units(w, s))
         /\ Weigh(w, s) = w[x] + Weigh(w, s \ {x})
<1>1. PICK one : one = {x} \X (1 .. w[x])
  OBVIOUS
<1>2. PICK rest : rest = Units(w, s \ {x})
  OBVIOUS
<1>3. Units(w, s) = rest \cup one /\ rest \cap one = {}
  BY <1>1, <1>2 DEF Units
<1>4. IsFiniteSet(one) /\ Cardinality(one) = w[x] /\ IsFiniteSet(rest)
  BY <1>1, <1>2, UnitsOfOne
<1>5. /\ IsFiniteSet(rest \cup one)
      /\ Cardinality(rest \cup one) = Cardinality(rest) + Cardinality(one) - Cardinality(rest \cap one)
  BY <1>4, FS_Union
<1>6. Cardinality(rest) \in Nat /\ w[x] \in Nat /\ Cardinality(rest \cap one) = 0
  BY <1>3, <1>4, FS_CardinalityType, FS_EmptySet
<1> QED
  BY <1>2, <1>3, <1>4, <1>5, <1>6 DEF Weigh

\* A finite set has finitely many units.
LEMMA UnitsFinite ==
  ASSUME NEW D, NEW w \in [D -> Nat], NEW S \in SUBSET D, IsFiniteSet(S)
  PROVE  IsFiniteSet(Units(w, S))
<1>1. PICK T \in SUBSET (SUBSET S) : T = {s \in SUBSET S : ~IsFiniteSet(Units(w, s))}
  OBVIOUS
<1> SUFFICES ASSUME T # {} PROVE FALSE
  BY <1>1
<1>2. PICK s \in T : \A y \in T : y \subseteq s => y = s
  BY LeastSubset
<1>3. Units(w, {}) = {}
  BY DEF Units
<1>4. s # {}
  BY <1>1, <1>3, FS_EmptySet
<1>5. PICK x \in s : TRUE
  BY <1>4
<1>6. IsFiniteSet(Units(w, s \ {x}))
  BY <1>1, <1>2
<1>7. s \in SUBSET D
  BY <1>1
<1> QED
  BY <1>1, <1>2, <1>6, <1>7, UnitsWithout

\* A finite set weighs a natural number, and the empty one nothing.
LEMMA WeighType ==
  ASSUME NEW D, NEW w \in [D -> Nat], NEW S \in SUBSET D, IsFiniteSet(S)
  PROVE  Weigh(w, S) \in Nat /\ Weigh(w, {}) = 0
<1>1. Units(w, {}) = {}
  BY DEF Units
<1> QED
  BY <1>1, UnitsFinite, FS_CardinalityType, FS_EmptySet DEF Weigh

\* An element that is taken away takes its weight away ...
LEMMA WeighRemove ==
  ASSUME NEW D, NEW w \in [D -> Nat], NEW S \in SUBSET D, IsFiniteSet(S), NEW x \in S
  PROVE  Weigh(w, S) = w[x] + Weigh(w, S \ {x})
<1>1. IsFiniteSet(S \ {x})
  BY FS_RemoveElement
<1>2. IsFiniteSet(Units(w, S \ {x}))
  BY <1>1, UnitsFinite
<1> QED
  BY <1>2, UnitsWithout

\* ... and a new one brings it.
LEMMA WeighAdd ==
  ASSUME NEW D, NEW w \in [D -> Nat], NEW S \in SUBSET D, IsFiniteSet(S), NEW x \in D \ S
  PROVE  Weigh(w, S \cup {x}) = w[x] + Weigh(w, S)
<1>1. IsFiniteSet(S \cup {x}) /\ (S \cup {x}) \ {x} = S /\ S \cup {x} \in SUBSET D
  BY FS_AddElement
<1> QED
  BY <1>1, WeighRemove

\* What is left weighs the difference.
LEMMA WeighDifference ==
  ASSUME NEW D, NEW w \in [D -> Nat], NEW S \in SUBSET D, IsFiniteSet(S), NEW T \in SUBSET S
  PROVE  Weigh(w, S \ T) = Weigh(w, S) - Weigh(w, T)
<1>1. Units(w, S \ T) = Units(w, S) \ Units(w, T) /\ Units(w, S) \cap Units(w, T) = Units(w, T)
  BY DEF Units
<1>2. IsFiniteSet(Units(w, S))
  BY UnitsFinite
<1>3. Cardinality(Units(w, S) \ Units(w, T)) = Cardinality(Units(w, S)) - Cardinality(Units(w, S) \cap Units(w, T))
  BY <1>2, FS_Difference
<1> QED
  BY <1>1, <1>3 DEF Weigh

\* One weight changes.
LEMMA WeighChange ==
  ASSUME NEW D, IsFiniteSet(D), NEW w \in [D -> Nat], NEW v \in [D -> Nat], NEW x \in D,
         \A y \in D \ {x} : v[y] = w[y]
  PROVE  Weigh(v, D) = Weigh(w, D) + v[x] - w[x]
<1>1. Units(v, D \ {x}) = Units(w, D \ {x})
  BY DEF Units
<1>2. Weigh(v, D \ {x}) = Weigh(w, D \ {x})
  BY <1>1 DEF Weigh
<1>3. Weigh(v, D) = v[x] + Weigh(v, D \ {x}) /\ Weigh(w, D) = w[x] + Weigh(w, D \ {x})
  BY WeighRemove
<1>4. Weigh(w, D \ {x}) \in Nat
  BY FS_RemoveElement, WeighType
<1> QED
  BY <1>2, <1>3, <1>4

\* Where everything weighs one, a set weighs as many as it has elements.
LEMMA WeighOnes ==
  ASSUME NEW D, NEW S \in SUBSET D, IsFiniteSet(S)
  PROVE  Weigh([x \in D |-> 1], S) = Cardinality(S)
<1>1. Units([x \in D |-> 1], S) = S \X {1}
  BY DEF Units
<1>2. IsFiniteSet({1}) /\ Cardinality({1}) = 1
  BY FS_Singleton
<1>3. Cardinality(S \X {1}) = Cardinality(S) * Cardinality({1})
  BY <1>2, FS_Product
<1>4. Cardinality(S) \in Nat
  BY FS_CardinalityType
<1> QED
  BY <1>1, <1>2, <1>3, <1>4 DEF Weigh

Pick(s) == CHOOSE x \in s : TRUE

\* The steps of a sum that takes one element after the other.
IsSum(g, w, S) == g = [s \in SUBSET S |-> IF s = {} THEN 0 ELSE w[Pick(s)] + g[s \ {Pick(s)}]]

\* There is such a sum: it counts the units.
LEMMA SumExists ==
  ASSUME NEW S, IsFiniteSet(S), NEW w \in [S -> Nat]
  PROVE  \E g : IsSum(g, w, S)
<1>1. PICK g : g = [s \in SUBSET S |-> Weigh(w, s)]
  OBVIOUS
<1>2. ASSUME NEW s \in SUBSET S
      PROVE  g[s] = IF s = {} THEN 0 ELSE w[Pick(s)] + g[s \ {Pick(s)}]
  <2>1. IsFiniteSet(s)
    BY FS_Subset
  <2>2. CASE s = {}
    BY <1>1, <2>1, <2>2, WeighType
  <2>3. CASE s # {}
    <3>1. PICK x \in s : x = Pick(s)
      BY <2>3 DEF Pick
    <3>2. Weigh(w, s) = w[x] + Weigh(w, s \ {x})
      BY <2>1, WeighRemove
    <3> QED
      BY <1>1, <2>3, <3>1, <3>2
  <2> QED
    BY <2>2, <2>3
<1>3. g = [s \in SUBSET S |-> IF s = {} THEN 0 ELSE w[Pick(s)] + g[s \ {Pick(s)}]]
  BY <1>1, <1>2
<1> QED
  BY <1>3 DEF IsSum

\* There is no other.
LEMMA SumIs ==
  ASSUME NEW S, IsFiniteSet(S), NEW w \in [S -> Nat], NEW g, IsSum(g, w, S)
  PROVE  g[S] = Weigh(w, S)
<1>1. PICK T \in SUBSET (SUBSET S) : T = {s \in SUBSET S : g[s] # Weigh(w, s)}
  OBVIOUS
<1> SUFFICES ASSUME T # {} PROVE FALSE
  BY <1>1
<1>2. PICK s \in T : \A y \in T : y \subseteq s => y = s
  BY LeastSubset
<1>3. g[s] = IF s = {} THEN 0 ELSE w[Pick(s)] + g[s \ {Pick(s)}]
  BY DEF IsSum
<1>4. s \in SUBSET S /\ IsFiniteSet(s)
  BY <1>1, FS_Subset
<1>5. CASE s = {}
  BY <1>1, <1>3, <1>4, <1>5, WeighType
<1>6. CASE s # {}
  <2>1. PICK x \in s : x = Pick(s)
    BY <1>6 DEF Pick
  <2>2. g[s \ {x}] = Weigh(w, s \ {x})
    BY <1>1, <1>2
  <2>3. Weigh(w, s) = w[x] + Weigh(w, s \ {x})
    BY <1>4, WeighRemove
  <2> QED
    BY <1>1, <1>3, <1>6, <2>1, <2>2, <2>3
<1> QED
  BY <1>5, <1>6

Sizes == [r \in Record |-> r.size]

Ones == [r \in Record |-> 1]

\* BytesOf adds up the sizes of the records.
LEMMA BytesAre ==
  ASSUME NEW S \in SUBSET Record, IsFiniteSet(S)
  PROVE  BytesOf(S) = Weigh(Sizes, S)
<1>1. PICK w \in [S -> Nat] : w = [r \in S |-> r.size]
  BY DEF Record
<1>2. BytesOf(S) = (CHOOSE g : g = [s \in SUBSET S |->
            IF s = {} THEN 0 ELSE Pick(s).size + g[s \ {Pick(s)}]])[S]
  BY DEF BytesOf, MapThenSumSet, MapThenFoldSet, Pick
<1>3. ASSUME NEW s \in SUBSET S, s # {} PROVE Pick(s) \in s /\ Pick(s).size = w[Pick(s)]
  BY <1>1, <1>3 DEF Pick
<1>4. ASSUME NEW g
      PROVE  IsSum(g, w, S)
             <=> g = [s \in SUBSET S |-> IF s = {} THEN 0 ELSE Pick(s).size + g[s \ {Pick(s)}]]
  BY <1>3 DEF IsSum
<1>5. PICK g : /\ IsSum(g, w, S)
               /\ g = CHOOSE h : h = [s \in SUBSET S |-> IF s = {} THEN 0 ELSE Pick(s).size + h[s \ {Pick(s)}]]
  BY <1>4, SumExists
<1>6. Units(w, S) = Units(Sizes, S)
  BY <1>1 DEF Units, Sizes
<1> QED
  BY <1>2, <1>5, <1>6, SumIs DEF Weigh

Filled == [i \in DOMAIN Buckets |-> hist[i].bytes]

\* So does the sum over the histogram the bytes of the buckets.
LEMMA HistogramIs ==
  ASSUME hist \in [DOMAIN Buckets -> [count : Nat, bytes : Nat]], IsFiniteSet(DOMAIN Buckets)
  PROVE  MapThenSumSet(LAMBDA i : hist[i].bytes, DOMAIN Buckets) = Weigh(Filled, DOMAIN Buckets)
<1>1. PICK S : S = DOMAIN Buckets
  OBVIOUS
<1>2. PICK w \in [S -> Nat] : w = Filled
  BY <1>1 DEF Filled
<1>3. MapThenSumSet(LAMBDA i : hist[i].bytes, S) = (CHOOSE g : g = [s \in SUBSET S |->
            IF s = {} THEN 0 ELSE hist[Pick(s)].bytes + g[s \ {Pick(s)}]])[S]
  BY DEF MapThenSumSet, MapThenFoldSet, Pick
<1>4. ASSUME NEW s \in SUBSET S, s # {} PROVE Pick(s) \in s /\ hist[Pick(s)].bytes = w[Pick(s)]
  BY <1>1, <1>2, <1>4 DEF Pick, Filled
<1>5. ASSUME NEW g
      PROVE  IsSum(g, w, S)
             <=> g = [s \in SUBSET S |-> IF s = {} THEN 0 ELSE hist[Pick(s)].bytes + g[s \ {Pick(s)}]]
  BY <1>4 DEF IsSum
<1>6. PICK g : /\ IsSum(g, w, S)
               /\ g = CHOOSE h : h = [s \in SUBSET S |-> IF s = {} THEN 0 ELSE hist[Pick(s)].bytes + h[s \ {Pick(s)}]]
  BY <1>1, <1>5, SumExists
<1> QED
  BY <1>1, <1>2, <1>3, <1>6, SumIs

-----------------------------------------------------------------------------
(* The invariant of the reports.                                           *)

USE DiagnosticsAssumption

JobType == [kind : Snapshots \cup {"none", "dump", "exit"}, shard : 0 .. ShardCount,
            list : SUBSET Record, kept : SUBSET Record, count : Int, bytes : Int]

SnapType == [taken : BOOLEAN, count : Int, bytes : Int, list : SUBSET Record]

Types ==
  /\ records \in [Ptr -> Record \cup {NoRecord}]
  /\ \A p \in Ptr : records[p] # NoRecord => records[p].ptr = p
  /\ count \in Int /\ bytes \in Int
  /\ op \in [Workers -> [name : {"idle", "insert", "uncount", "record"}, rec : Record \cup {None}]]
  /\ \A w \in Workers : op[w].name # "idle" => op[w].rec \in Record
  /\ nextId \in Nat \ {0}
  /\ rules \subseteq Rules
  /\ job \in JobType
  /\ snaps \in [Snapshots -> SnapType]
  /\ printed \subseteq Record
  /\ status \in {"running", "success", "failure"}
  /\ since \in [{"diff", "exit"} -> SUBSET Live]

Listed == job.list \cup snaps["before"].list \cup snaps["after"].list

Inserting(w) == op[w].name = "insert"

\* A record that is still to be inserted is new to the tracker and to every list.
Fresh ==
  /\ \A r \in Live \cup Listed : r.id < nextId
  /\ \A w \in Workers : Inserting(w) => op[w].rec.id < nextId /\ op[w].rec \notin Live \cup Listed
  /\ \A v, w \in Workers : Inserting(v) /\ Inserting(w) /\ v # w => op[v].rec # op[w].rec

\* The records of S in the shards that the listing is done with.
Past(S) == {r \in S : ShardOf[r.ptr] < job.shard}

\* What the two snapshots hold, and the one in progress so far.
Diff ==
  /\ snaps["after"].taken => snaps["before"].taken
  /\ job.kind = "before" => ~snaps["before"].taken
  /\ job.kind = "after" => snaps["before"].taken
  /\ job.kind = "before" => Past(since["diff"]) \subseteq job.list
  /\ snaps["before"].taken => since["diff"] \subseteq snaps["before"].list
  /\ job.kind = "after" => Past(snaps["before"].list \cap Live) \subseteq job.list
  /\ Compared => snaps["before"].list \cap Live \subseteq snaps["after"].list

Leaks == since["exit"] \ everSuppressed

\* What on_exit still owes to the leaks.
Owed ==
  /\ job.kind \in {"dump", "exit"} => \A r \in since["exit"] : Suppressed(r) => r \in everSuppressed
  /\ job.kind = "dump" => Running /\ Past(Leaks) \subseteq job.list \cup job.kept
  /\ job.kind = "exit" => Leaks \subseteq printed
  /\ job.kind = "exit" /\ Running => Past(Leaks) \subseteq job.list
  /\ ~Running => job.kind = "exit" /\ (Leaks # {} => status = "failure")

Unsuppressed == {r \in Live : ~Suppressed(r)}

\* The two listings of on_exit when nothing else runs.
Agreed ==
  calm =>
    /\ job.kind = "dump" => /\ job.list \cup job.kept \subseteq Live
                            /\ job.kept \subseteq Unsuppressed
                            /\ Past(Unsuppressed) \subseteq job.list \cup job.kept
    /\ job.kind = "exit" => printed = Unsuppressed /\ job.list \subseteq Live
    /\ job.kind = "exit" /\ Running => Past(Unsuppressed) \subseteq job.list
    /\ ~Running => job.kind = "exit" /\ (status = "failure" <=> printed # {})

Worker(w) == \/ AllocCount(w) \/ AllocInsert(w) \/ FreeErase(w) \/ FreeUncount(w)
             \/ FreeRecord(w) \/ Suppress(w) \/ ClearSuppressions(w)

Report == \/ \E s \in Snapshots : TakeSnapshot(s)
          \/ OnExit \/ ListShard \/ EndSnapshot \/ CheckForDump \/ EndDump
          \/ CheckForExit \/ ExitClean

-----------------------------------------------------------------------------
(* Types.                                                                  *)

\* A tracked record is a record, and is tracked under its pointer.
LEMMA LiveRecords ==
  ASSUME Types
  PROVE  Live \subseteq Record /\ \A r \in Live : r.ptr \in Ptr /\ records[r.ptr] = r
  BY DEF Types, Live, Record

\* The absence of a report has the type of one.
LEMMA NoJobType == NoJob \in JobType
<1>1. 0 \in 0 .. ShardCount
  OBVIOUS
<1> QED
  BY <1>1 DEF NoJob, JobType

\* So has a report that begins.
LEMMA FreshJob ==
  ASSUME NEW k \in Snapshots \cup {"none", "dump", "exit"}, NEW c \in Int, NEW b \in Int
  PROVE  /\ NoJob \in JobType
         /\ [NoJob EXCEPT !.kind = k] \in JobType
         /\ [NoJob EXCEPT !.kind = k, !.count = c, !.bytes = b] \in JobType
  BY NoJobType DEF JobType

\* What Note does to the records tracked throughout.
LEMMA NoteType ==
  ASSUME Types, NoRecord \notin Record, Note
  PROVE  /\ since' \in [{"diff", "exit"} -> SUBSET Live']
         /\ \A s \in {"diff", "exit"} : since'[s] \subseteq since[s]
<1>1. \A s \in {"diff", "exit"} : since'[s] = since[s] \cap {records'[p] : p \in Ptr}
  BY DEF Note
<1>2. \A s \in {"diff", "exit"} : since[s] \subseteq Record
  BY LiveRecords DEF Types
<1>3. \A s \in {"diff", "exit"} : since'[s] \subseteq Live'
  BY <1>1, <1>2 DEF Live
<1>4. since' = [s \in {"diff", "exit"} |-> since'[s]]
  BY DEF Note
<1> QED
  BY <1>1, <1>3, <1>4

\* Every step of a worker keeps the types.
LEMMA WorkerTypes ==
  ASSUME Types, NEW w \in Workers, Worker(w)
  PROVE  Types'
<1>1. CASE AllocCount(w)
  <2>1. PICK p \in Ptr, k \in Kinds :
          op' = [op EXCEPT ![w] = [name |-> "insert", rec |->
                   [id |-> nextId, ptr |-> p, size |-> k.size, names |-> k.names]]]
          /\ bytes' = bytes + k.size
    BY <1>1 DEF AllocCount
  <2>2. [id |-> nextId, ptr |-> p, size |-> k.size, names |-> k.names] \in Record
    BY <1>1 DEF AllocCount, Types, Record
  <2>3. k.size \in Int
    OBVIOUS
  <2>4. count' = count + 1 /\ nextId' = nextId + 1 /\ UNCHANGED <<records, rules, reports>> /\ Note
    BY <1>1 DEF AllocCount
  <2> QED
    BY <2>1, <2>2, <2>3, <2>4, NoteType DEF Types, reports
<1>2. CASE AllocInsert(w)
  <2>1. op[w].rec \in Record
    BY <1>2 DEF AllocInsert, Types
  <2>2. op[w].rec.ptr \in Ptr
    BY <2>1 DEF Record
  <2>3. records' = [records EXCEPT ![op[w].rec.ptr] = op[w].rec]
        /\ op' = [op EXCEPT ![w] = Idle]
        /\ UNCHANGED <<count, bytes, nextId, rules, reports>> /\ Note
    BY <1>2 DEF AllocInsert
  <2> QED
    BY <2>1, <2>2, <2>3, NoteType DEF Types, reports, Idle
<1>3. CASE FreeErase(w)
  <2>1. PICK r \in Live : records' = [records EXCEPT ![r.ptr] = NoRecord]
                          /\ op' = [op EXCEPT ![w] = [name |-> "uncount", rec |-> r]]
    BY <1>3 DEF FreeErase
  <2>2. r \in Record
    BY LiveRecords
  <2>3. UNCHANGED <<count, bytes, nextId, rules, reports>> /\ Note
    BY <1>3 DEF FreeErase
  <2> QED
    BY <2>1, <2>2, <2>3, NoteType DEF Types, reports
<1>4. CASE FreeUncount(w)
  <2>1. op[w].rec.size \in Int
    BY <1>4 DEF FreeUncount, Types, Record
  <2>2. count' = count - 1 /\ bytes' = bytes - op[w].rec.size /\ op' = [op EXCEPT ![w].name = "record"]
        /\ op[w].rec \in Record /\ UNCHANGED <<records, nextId, rules, reports>> /\ Note
    BY <1>4 DEF FreeUncount, Types
  <2> QED
    BY <2>1, <2>2, NoteType DEF Types, reports
<1>5. CASE FreeRecord(w)
  <2>1. op' = [op EXCEPT ![w] = Idle] /\ UNCHANGED <<records, count, bytes, nextId, rules, reports>> /\ Note
    BY <1>5 DEF FreeRecord
  <2> QED
    BY <2>1, NoteType DEF Types, reports, Idle
<1>6. CASE Suppress(w) \/ ClearSuppressions(w)
  <2>1. rules' \subseteq Rules /\ UNCHANGED <<app, reports, since>>
    BY <1>6 DEF Suppress, ClearSuppressions, Types
  <2> QED
    BY <2>1 DEF Types, app, reports, Live
<1> QED
  BY <1>1, <1>2, <1>3, <1>4, <1>5, <1>6 DEF Worker

\* Every step of a report keeps the types.
LEMMA ReportTypes ==
  ASSUME Types, Report
  PROVE  Types'
<1>1. ASSUME NEW s \in Snapshots, TakeSnapshot(s) PROVE Types'
  <2>1. job' \in JobType
    BY <1>1, FreshJob DEF TakeSnapshot, Begin, Types
  <2>2. since' \in [{"diff", "exit"} -> SUBSET Live]
    BY <1>1 DEF TakeSnapshot, Types
  <2>3. UNCHANGED <<app, rules, snaps, printed, status>>
    BY <1>1 DEF TakeSnapshot
  <2> QED
    BY <2>1, <2>2, <2>3 DEF Types, app, Live
<1>2. CASE OnExit
  <2>1. job' \in JobType
    BY <1>2, FreshJob DEF OnExit, Begin, Types
  <2>2. since' \in [{"diff", "exit"} -> SUBSET Live]
    BY <1>2 DEF OnExit, Types
  <2>3. UNCHANGED <<app, rules, snaps, printed, status>>
    BY <1>2 DEF OnExit
  <2> QED
    BY <2>1, <2>2, <2>3 DEF Types, app, Live
<1>3. ASSUME job' \in JobType, printed' \subseteq Record, snaps' \in [Snapshots -> SnapType],
             status' \in {"running", "success", "failure"}, UNCHANGED <<app, rules, since>>
      PROVE  Types'
  BY <1>3 DEF Types, app, Live
<1>4. CASE ListShard
  <2>1. job' \in JobType
    <3>1. job.shard + 1 \in 0 .. ShardCount
      BY <1>4 DEF ListShard, Types, JobType
    <3>2. job.list \cup {r \in Live : ShardOf[r.ptr] = job.shard} \in SUBSET Record
      BY LiveRecords DEF Types, JobType
    <3>3. job \in JobType
      BY DEF Types
    <3>4. job' = [job EXCEPT !.shard = job.shard + 1,
                             !.list = job.list \cup {r \in Live : ShardOf[r.ptr] = job.shard}]
      BY <1>4 DEF ListShard
    <3> QED
      BY <3>1, <3>2, <3>3, <3>4 DEF JobType
  <2> QED
    BY <1>3, <1>4, <2>1 DEF ListShard, Types, history
<1>5. CASE EndSnapshot
  <2>1. snaps' \in [Snapshots -> SnapType]
    BY <1>5 DEF EndSnapshot, Types, JobType, SnapType
  <2> QED
    BY <1>3, <1>5, <2>1, FreshJob DEF EndSnapshot, Types, history
<1>6. CASE CheckForDump
  <2>1. PICK r \in job.list :
          job' = [job EXCEPT !.list = job.list \ {r},
                             !.kept = IF Suppressed(r) THEN job.kept ELSE job.kept \cup {r}]
    BY <1>6 DEF CheckForDump
  <2>2. PICK kept \in SUBSET Record :
          kept = IF Suppressed(r) THEN job.kept ELSE job.kept \cup {r}
    BY DEF Types, JobType
  <2>3. job' \in JobType
    BY <2>1, <2>2 DEF Types, JobType
  <2> QED
    BY <1>3, <1>6, <2>3 DEF CheckForDump, Types, history
<1>7. CASE EndDump
  <2>1. printed' \subseteq Record
    BY <1>7 DEF EndDump, Types, JobType
  <2> QED
    BY <1>3, <1>7, <2>1, FreshJob DEF EndDump, Types, history
<1>8. CASE CheckForExit
  <2>1. job' \in JobType
    BY <1>8 DEF CheckForExit, Types, JobType
  <2> QED
    BY <1>3, <1>8, <2>1 DEF CheckForExit, Types, history
<1>9. CASE ExitClean
  BY <1>3, <1>9 DEF ExitClean, Types, history
<1> QED
  BY <1>1, <1>2, <1>4, <1>5, <1>6, <1>7, <1>8, <1>9 DEF Report

-----------------------------------------------------------------------------
(* What a worker can do to a report.                                       *)

\* A record newly tracked is in no list, and the rest of the tracker only
\* shrinks; a record tracked since on_exit began is noted when a rule is
\* added that covers it.
LEMMA WorkerEffect ==
  ASSUME Types, Fresh, NEW w \in Workers, Worker(w)
  PROVE  /\ Running /\ UNCHANGED reports /\ calm' = FALSE
         /\ \A s \in {"diff", "exit"} : since'[s] \subseteq since[s]
         /\ Live' \cap Listed \subseteq Live
         /\ everSuppressed \subseteq everSuppressed'
         /\ \A r \in since'["exit"] : Suppressed(r)' => Suppressed(r) \/ r \in everSuppressed'
<1>1. CASE AllocCount(w) \/ FreeUncount(w) \/ FreeRecord(w)
  <2>1. Running /\ Note /\ UNCHANGED <<records, rules, reports>>
    BY <1>1 DEF AllocCount, FreeUncount, FreeRecord
  <2>2. Live' = Live /\ everSuppressed' = everSuppressed /\ calm' = FALSE
    BY <2>1 DEF Live, Note
  <2> QED
    BY <2>1, <2>2, NoteType DEF Suppressed
<1>2. CASE AllocInsert(w)
  <2>1. Running /\ Note /\ UNCHANGED <<rules, reports>>
    BY <1>2 DEF AllocInsert
  <2>2. Live' \subseteq Live \cup {op[w].rec}
    BY <1>2 DEF AllocInsert, Live, Types
  <2>3. op[w].rec \notin Listed
    BY <1>2 DEF AllocInsert, Fresh, Inserting
  <2>4. everSuppressed' = everSuppressed /\ calm' = FALSE
    BY <2>1 DEF Note
  <2> QED
    BY <2>1, <2>2, <2>3, <2>4, NoteType DEF Suppressed
<1>3. CASE FreeErase(w)
  <2>1. Running /\ Note /\ UNCHANGED <<rules, reports>>
    BY <1>3 DEF FreeErase
  <2>2. Live' \subseteq Live
    BY <1>3 DEF FreeErase, Live, Types
  <2>3. everSuppressed' = everSuppressed /\ calm' = FALSE
    BY <2>1 DEF Note
  <2> QED
    BY <2>1, <2>2, <2>3, NoteType DEF Suppressed
<1>4. CASE Suppress(w)
  <2>1. Running /\ calm' = FALSE /\ UNCHANGED <<app, reports, since>>
        /\ everSuppressed' = everSuppressed \cup {r \in Live : Suppressed(r)'}
    BY <1>4 DEF Suppress
  <2>2. Live' = Live /\ since["exit"] \subseteq Live
    BY <2>1 DEF Live, app, Types
  <2> QED
    BY <2>1, <2>2
<1>5. CASE ClearSuppressions(w)
  <2>1. Running /\ calm' = FALSE /\ UNCHANGED <<app, reports, since, everSuppressed>> /\ rules' = {}
    BY <1>5 DEF ClearSuppressions
  <2>2. Live' = Live
    BY <2>1 DEF Live, app
  <2>3. \A r : ~Suppressed(r)'
    BY <2>1 DEF Suppressed
  <2> QED
    BY <2>1, <2>2, <2>3
<1> QED
  BY <1>1, <1>2, <1>3, <1>4, <1>5 DEF Worker

\* Every step of a worker keeps what is inserted new to the lists.
LEMMA WorkerFresh ==
  ASSUME Types, Fresh, NEW w \in Workers, Worker(w)
  PROVE  Fresh'
<1>1. Listed' = Listed
  BY WorkerEffect DEF Listed, reports
<1>2. CASE AllocCount(w)
  <2>1. PICK p \in Ptr, k \in Kinds :
          op' = [op EXCEPT ![w] = [name |-> "insert", rec |->
                   [id |-> nextId, ptr |-> p, size |-> k.size, names |-> k.names]]]
    BY <1>2 DEF AllocCount
  <2>2. PICK r : r = [id |-> nextId, ptr |-> p, size |-> k.size, names |-> k.names]
    OBVIOUS
  <2>3. r.id = nextId
    BY <2>2
  <2>4. op'[w] = [name |-> "insert", rec |-> r] /\ \A v \in Workers : v # w => op'[v] = op[v]
    BY <2>1, <2>2 DEF Types
  <2>5. nextId' = nextId + 1 /\ nextId \in Nat /\ UNCHANGED records
    BY <1>2 DEF AllocCount, Types
  <2>6. Live' = Live
    BY <2>5 DEF Live
  <2>7. \A q \in Live \cup Listed : q.id < nextId
    BY DEF Fresh
  <2>8. \A q \in Live \cup Listed : q.id \in Int
    BY LiveRecords DEF Listed, Types, JobType, SnapType, Snapshots, Record
  <2>9. r \notin Live \cup Listed
    BY <2>3, <2>5, <2>7
  <2>10. \A v \in Workers : Inserting(v) => op[v].rec.id < nextId /\ op[v].rec.id \in Int
    BY DEF Fresh, Types, Record, Inserting
  <2>11. ASSUME NEW v \in Workers, Inserting(v)'
         PROVE  op'[v].rec.id < nextId' /\ op'[v].rec \notin Live \cup Listed
    <3>1. CASE v = w
      BY <2>3, <2>4, <2>5, <2>9, <3>1
    <3>2. CASE v # w
      BY <2>4, <2>5, <2>10, <2>11, <3>2 DEF Fresh, Inserting
    <3> QED
      BY <3>1, <3>2
  <2>12. ASSUME NEW u \in Workers, NEW v \in Workers, Inserting(u)', Inserting(v)', u # v
         PROVE  op'[u].rec # op'[v].rec
    <3>1. CASE u # w /\ v # w
      BY <2>4, <2>12, <3>1 DEF Fresh, Inserting
    <3>2. CASE u = w \/ v = w
      BY <2>3, <2>4, <2>5, <2>10, <2>12, <3>2 DEF Inserting
    <3> QED
      BY <3>1, <3>2
  <2>13. \A q \in Live \cup Listed : q.id < nextId'
    BY <2>5, <2>7, <2>8
  <2> QED
    BY <1>1, <2>6, <2>11, <2>12, <2>13 DEF Fresh
<1>3. CASE ~AllocCount(w)
  <2>1. nextId' = nextId
    BY <1>3 DEF Worker, AllocInsert, FreeErase, FreeUncount, FreeRecord, Suppress, ClearSuppressions, app
  <2>2. \A v \in Workers : Inserting(v)' => Inserting(v) /\ op'[v] = op[v]
    BY <1>3 DEF Worker, AllocInsert, FreeErase, FreeUncount, FreeRecord, Suppress, ClearSuppressions,
                app, Types, Inserting, Idle
  <2>3. Live' \subseteq Live \/ (AllocInsert(w) /\ Live' \subseteq Live \cup {op[w].rec})
    BY <1>3 DEF Worker, AllocInsert, FreeErase, FreeUncount, FreeRecord, Suppress, ClearSuppressions,
                app, Types, Live
  <2>4. CASE Live' \subseteq Live
    BY <1>1, <2>1, <2>2, <2>4 DEF Fresh
  <2>5. CASE AllocInsert(w) /\ Live' \subseteq Live \cup {op[w].rec}
    <3>1. Inserting(w) /\ ~Inserting(w)'
      BY <2>5 DEF AllocInsert, Inserting, Idle, Types
    <3>2. op[w].rec.id < nextId
      BY <3>1 DEF Fresh
    <3>3. \A v \in Workers : Inserting(v)' => op'[v].rec \notin Live'
      BY <2>2, <2>5, <3>1 DEF Fresh
    <3> QED
      BY <1>1, <2>1, <2>2, <2>5, <3>2, <3>3 DEF Fresh
  <2> QED
    BY <2>3, <2>4, <2>5
<1> QED
  BY <1>2, <1>3

\* A report leaves the application alone.
LEMMA ReportLeaves ==
  ASSUME Report
  PROVE  UNCHANGED app
<1>1. CASE \E s \in Snapshots : TakeSnapshot(s)
  BY <1>1 DEF TakeSnapshot
<1>2. CASE OnExit \/ ListShard \/ EndSnapshot
  BY <1>2 DEF OnExit, ListShard, EndSnapshot
<1>3. CASE CheckForDump
  BY <1>3 DEF CheckForDump
<1>5. CASE EndDump
  BY <1>5 DEF EndDump
<1>4. CASE CheckForExit \/ ExitClean
  BY <1>4 DEF CheckForExit, ExitClean
<1> QED
  BY <1>1, <1>2, <1>3, <1>4, <1>5 DEF Report

\* It lists what is tracked.
LEMMA ReportLists ==
  ASSUME Types, Report
  PROVE  Listed' \subseteq Listed \cup Live
<1>1. CASE ~EndSnapshot
  <2>1. snaps' = snaps
    BY <1>1 DEF Report, TakeSnapshot, OnExit, ListShard, CheckForDump, EndDump, CheckForExit, ExitClean
  <2>2. job'.list \subseteq job.list \cup Live
    <3>1. CASE ListShard
      BY <3>1 DEF ListShard, Types, JobType
    <3>2. CASE CheckForDump
      BY <3>2 DEF CheckForDump, Types, JobType
    <3>3. CASE CheckForExit
      BY <3>3 DEF CheckForExit, Types, JobType
    <3>4. CASE (\E s \in Snapshots : TakeSnapshot(s)) \/ OnExit \/ EndDump
      BY <3>4 DEF TakeSnapshot, OnExit, Begin, NoJob, EndDump
    <3>5. CASE ExitClean
      BY <3>5 DEF ExitClean
    <3> QED
      BY <1>1, <3>1, <3>2, <3>3, <3>4, <3>5 DEF Report
  <2> QED
    BY <2>1, <2>2 DEF Listed
<1>2. CASE EndSnapshot
  <2>1. \A s \in Snapshots : snaps'[s].list \subseteq snaps[s].list \cup job.list
    BY <1>2 DEF EndSnapshot, Types
  <2>2. job'.list = {}
    BY <1>2 DEF EndSnapshot, NoJob
  <2> QED
    BY <2>1, <2>2 DEF Listed, Snapshots
<1> QED
  BY <1>1, <1>2

\* So what is inserted stays new to the lists.
LEMMA ReportFresh ==
  ASSUME Types, Fresh, Report
  PROVE  Fresh'
  BY ReportLeaves, ReportLists DEF Fresh, app, Live, Inserting

-----------------------------------------------------------------------------
(* A difference tells the truth.                                           *)

\* Every record is in one of the shards.
LEMMA ShardIn ==
  ASSUME NEW r \in Record
  PROVE  ShardOf[r.ptr] \in Int /\ 0 <= ShardOf[r.ptr] /\ ShardOf[r.ptr] < ShardCount
  BY DEF Record, Shards

\* A listing starts with no shard done ...
LEMMA PastNone ==
  ASSUME Types, Types', job'.shard = 0, NEW S \in SUBSET Record
  PROVE  {r \in S : ShardOf[r.ptr] < job'.shard} = {}
  BY ShardIn

\* ... and is over when it has done them all ...
LEMMA PastAll ==
  ASSUME Types, job.shard = ShardCount, NEW S \in SUBSET Record
  PROVE  Past(S) = S
  BY ShardIn DEF Past

\* ... one shard at a time.
LEMMA PastOne ==
  ASSUME Types, ListShard, NEW S \in SUBSET Live, NEW L, Past(S) \subseteq job.list \cup L
  PROVE  {r \in S : ShardOf[r.ptr] < job'.shard} \subseteq job'.list \cup L
<1>1. job'.shard = job.shard + 1 /\ job'.list = job.list \cup {r \in Live : ShardOf[r.ptr] = job.shard}
  BY DEF ListShard, Types, JobType
<1>2. job.shard \in Int
  BY DEF Types, JobType
<1>3. \A r \in S : r \in Record /\ ShardOf[r.ptr] \in Int
  BY LiveRecords, ShardIn
<1>4. ASSUME NEW r \in S, ShardOf[r.ptr] < job'.shard
      PROVE  r \in job'.list \cup L
  <2>1. ShardOf[r.ptr] < job.shard \/ ShardOf[r.ptr] = job.shard
    BY <1>1, <1>2, <1>3, <1>4
  <2> QED
    BY <1>1, <2>1 DEF Past
<1> QED
  BY <1>4

\* The application cannot make the snapshots forget what is still tracked.
LEMMA WorkerDiff ==
  ASSUME Types, Fresh, Diff, NEW w \in Workers, Worker(w)
  PROVE  Diff'
<1>1. /\ UNCHANGED reports /\ since'["diff"] \subseteq since["diff"]
      /\ Live' \cap Listed \subseteq Live
  BY WorkerEffect
<1>2. job' = job /\ snaps' = snaps
  BY <1>1 DEF reports
<1>3. snaps["before"].list \cap Live' \subseteq snaps["before"].list \cap Live
  BY <1>1 DEF Listed
<1> QED
  BY <1>1, <1>2, <1>3 DEF Diff, Past, Compared

\* A snapshot ends up with every record that was there all along.
LEMMA ReportDiff ==
  ASSUME Types, Diff, Report
  PROVE  Diff'
<1>1. Types'
  BY ReportTypes
<1>2. UNCHANGED app
  BY DEF Report, TakeSnapshot, OnExit, ListShard, EndSnapshot, CheckForDump, EndDump, CheckForExit, ExitClean
<1>3. Live' = Live /\ Live \subseteq Record /\ since["diff"] \subseteq Live
  BY <1>2, LiveRecords DEF app, Live, Types
<1>4. ASSUME NEW s \in Snapshots, TakeSnapshot(s) PROVE Diff'
  <2>1. job'.kind = s /\ job'.shard = 0 /\ snaps' = snaps
    BY <1>4 DEF TakeSnapshot, Begin, NoJob
  <2>2. Past(since["diff"])' = {} /\ Past(snaps["before"].list \cap Live)' = {}
    <3>1. since'["diff"] \in SUBSET Record /\ snaps'["before"].list \cap Live' \in SUBSET Record
      BY <1>1, <1>3 DEF Types
    <3> QED
      BY <1>1, <2>1, <3>1, PastNone DEF Past
  <2>3. CASE s = "before"
    BY <1>4, <2>1, <2>2, <2>3 DEF TakeSnapshot, Diff, Compared
  <2>4. CASE s = "after"
    BY <1>3, <1>4, <2>1, <2>2, <2>4 DEF TakeSnapshot, Diff, Compared, Types
  <2> QED
    BY <2>3, <2>4 DEF Snapshots
<1>5. CASE ListShard
  <2>1. since' = since /\ snaps' = snaps /\ job'.kind = job.kind
    BY <1>5 DEF ListShard, history, Types, JobType
  <2>2. job.kind = "before" => Past(since["diff"])' \subseteq job'.list
    BY <1>3, <1>5, <2>1, PastOne DEF Diff, Past
  <2>3. job.kind = "after" => Past(snaps["before"].list \cap Live)' \subseteq job'.list
    <3>1. PICK S \in SUBSET Live : S = snaps["before"].list \cap Live
      OBVIOUS
    <3>2. job.kind = "after" => Past(S) \subseteq job.list \cup {}
      BY <3>1 DEF Diff
    <3>3. job.kind = "after" => {r \in S : ShardOf[r.ptr] < job'.shard} \subseteq job'.list \cup {}
      BY <1>5, <3>2, PastOne
    <3>4. S = snaps'["before"].list \cap Live'
      BY <1>3, <2>1, <3>1
    <3> QED
      BY <3>3, <3>4 DEF Past
  <2> QED
    BY <1>3, <2>1, <2>2, <2>3 DEF Diff, Compared
<1>6. CASE EndSnapshot
  <2>1. /\ job.kind \in Snapshots /\ job.shard = ShardCount /\ since' = since
        /\ job'.kind = "none"
        /\ snaps' = [snaps EXCEPT ![job.kind] = [taken |-> TRUE, count |-> job.count,
                                                 bytes |-> job.bytes, list |-> job.list]]
    BY <1>6 DEF EndSnapshot, history, NoJob
  <2>2. snaps'[job.kind].taken /\ snaps'[job.kind].list = job.list
        /\ \A s \in Snapshots : s # job.kind => snaps'[s] = snaps[s]
    BY <2>1 DEF Types
  <2>3. CASE job.kind = "before"
    <3>1. Past(since["diff"]) = since["diff"]
      BY <1>3, <2>1, PastAll
    <3> QED
      BY <2>1, <2>2, <2>3, <3>1 DEF Diff, Compared, Snapshots
  <2>4. CASE job.kind = "after"
    <3>1. Past(snaps["before"].list \cap Live) = snaps["before"].list \cap Live
      BY <1>3, <2>1, PastAll
    <3> QED
      BY <1>3, <2>1, <2>2, <2>4, <3>1 DEF Diff, Compared, Snapshots
  <2> QED
    BY <2>1, <2>3, <2>4 DEF Snapshots
<1>7. CASE OnExit
  <2>1. snaps' = snaps /\ since'["diff"] = since["diff"] /\ job'.kind = "dump"
    BY <1>7 DEF OnExit, Begin, NoJob, Types
  <2> QED
    BY <1>3, <2>1 DEF Diff, Compared
<1>8. CASE CheckForDump \/ EndDump \/ CheckForExit \/ ExitClean
  <2>1. snaps' = snaps /\ since' = since /\ job'.kind \in {"dump", "exit"}
    BY <1>8 DEF CheckForDump, EndDump, CheckForExit, ExitClean, history, NoJob, Types, JobType
  <2> QED
    BY <1>3, <2>1 DEF Diff, Compared
<1> QED
  BY <1>4, <1>5, <1>6, <1>7, <1>8 DEF Report

-----------------------------------------------------------------------------
(* No leak goes unreported.                                                *)

\* The application can only take records off what on_exit owes.
LEMMA WorkerOwed ==
  ASSUME Types, Fresh, Owed, NEW w \in Workers, Worker(w)
  PROVE  Owed'
<1>1. /\ Running /\ UNCHANGED reports
      /\ since'["exit"] \subseteq since["exit"] /\ everSuppressed \subseteq everSuppressed'
      /\ \A r \in since'["exit"] : Suppressed(r)' => Suppressed(r) \/ r \in everSuppressed'
  BY WorkerEffect
<1>2. UNCHANGED <<job, printed, status>>
  BY <1>1 DEF reports
<1>3. Leaks' \subseteq Leaks
  BY <1>1 DEF Leaks
<1> QED
  BY <1>1, <1>2, <1>3 DEF Owed, Past, Running

\* The listings of on_exit end up with every leak.
LEMMA ReportOwed ==
  ASSUME Types, Owed, Report
  PROVE  Owed'
<1>1. Types'
  BY ReportTypes
<1>2. UNCHANGED <<app, rules>> /\ Running
  BY DEF Report, TakeSnapshot, OnExit, ListShard, EndSnapshot, CheckForDump, EndDump, CheckForExit, ExitClean
<1>3. Live' = Live /\ Live \subseteq Record /\ since["exit"] \subseteq Live /\ Leaks \subseteq since["exit"]
  BY <1>2, LiveRecords DEF app, Live, Types, Leaks
<1>4. \A r : Suppressed(r)' <=> Suppressed(r)
  BY <1>2 DEF Suppressed
<1>5. ASSUME NEW s \in Snapshots, TakeSnapshot(s) \/ EndSnapshot PROVE Owed'
  <2>1. job'.kind \notin {"dump", "exit"} /\ status' = status
    <3>1. CASE TakeSnapshot(s)
      BY <3>1 DEF TakeSnapshot, Begin, NoJob, Snapshots
    <3>2. CASE EndSnapshot
      BY <3>2 DEF EndSnapshot, NoJob
    <3> QED
      BY <1>5, <3>1, <3>2
  <2> QED
    BY <1>2, <2>1 DEF Owed, Running
<1>6. CASE OnExit
  <2>1. /\ job'.kind = "dump" /\ job'.shard = 0 /\ status' = status
        /\ everSuppressed' = {r \in Live : Suppressed(r)} /\ since'["exit"] = Live
    BY <1>6 DEF OnExit, Begin, NoJob, Types
  <2>2. Past(Leaks)' = {}
    BY <1>1, <1>3, <2>1, PastNone DEF Past, Leaks
  <2> QED
    BY <1>2, <1>4, <2>1, <2>2 DEF Owed, Running
<1>7. CASE ListShard
  <2>1. UNCHANGED <<since, everSuppressed, printed, status>> /\ job'.kind = job.kind /\ job'.kept = job.kept
    BY <1>7 DEF ListShard, history, Types, JobType
  <2>2. Leaks' = Leaks /\ Leaks \in SUBSET Live
    BY <1>3, <2>1 DEF Leaks
  <2>3. job.kind = "dump" => Past(Leaks)' \subseteq job'.list \cup job'.kept
    BY <1>7, <2>1, <2>2, PastOne DEF Owed, Past
  <2>4. job.kind = "exit" => Past(Leaks)' \subseteq job'.list
    <3>1. job.kind = "exit" => Past(Leaks) \subseteq job.list \cup {}
      BY <1>2 DEF Owed
    <3>2. job.kind = "exit" => Past(Leaks)' \subseteq job'.list \cup {}
      BY <1>7, <2>1, <2>2, <3>1, PastOne DEF Past
    <3> QED
      BY <3>2
  <2> QED
    BY <1>2, <1>4, <2>1, <2>2, <2>3, <2>4 DEF Owed, Running
<1>8. CASE CheckForDump
  <2>1. PICK r \in job.list :
          job' = [job EXCEPT !.list = job.list \ {r},
                             !.kept = IF Suppressed(r) THEN job.kept ELSE job.kept \cup {r}]
    BY <1>8 DEF CheckForDump
  <2>2. job'.list = job.list \ {r} /\ job'.kept = (IF Suppressed(r) THEN job.kept ELSE job.kept \cup {r})
        /\ job'.kind = "dump" /\ job'.shard = job.shard
    BY <1>8, <2>1 DEF Types, JobType, CheckForDump
  <2>3. UNCHANGED <<since, everSuppressed, printed, status>> /\ job.kind = "dump"
    BY <1>8 DEF CheckForDump, history
  <2>4. Leaks' = Leaks
    BY <2>3 DEF Leaks
  <2>5. Past(Leaks) \subseteq job.list \cup job.kept /\ (r \in Leaks => ~Suppressed(r))
    BY <2>3 DEF Owed, Leaks
  <2>6. Past(Leaks)' = Past(Leaks) /\ Past(Leaks) \subseteq Leaks
    BY <2>2, <2>4 DEF Past
  <2>7. Past(Leaks)' \subseteq job'.list \cup job'.kept
    <3>1. ASSUME NEW x \in Past(Leaks) PROVE x \in job'.list \cup job'.kept
      <4>1. CASE x = r
        BY <2>2, <2>5, <2>6, <4>1
      <4>2. CASE x # r
        BY <2>2, <2>5, <4>2
      <4> QED
        BY <4>1, <4>2
    <3> QED
      BY <2>6, <3>1
  <2> QED
    BY <1>2, <1>4, <2>2, <2>3, <2>7 DEF Owed, Running
<1>9. CASE EndDump
  <2>1. /\ job.kind = "dump" /\ job.shard = ShardCount /\ job.list = {} /\ printed' = job.kept
        /\ job'.kind = "exit" /\ job'.shard = 0 /\ UNCHANGED <<since, everSuppressed, status>>
    BY <1>9 DEF EndDump, NoJob, history
  <2>2. Leaks' = Leaks
    BY <2>1 DEF Leaks
  <2>3. Past(Leaks) = Leaks
    BY <1>3, <2>1, PastAll
  <2>4. Past(Leaks)' = {}
    BY <1>1, <1>3, <2>1, <2>2, PastNone DEF Past
  <2> QED
    BY <1>2, <1>4, <2>1, <2>2, <2>3, <2>4 DEF Owed, Running
<1>10. CASE CheckForExit
  <2>1. PICK r \in job.list : /\ job' = [job EXCEPT !.list = job.list \ {r}]
                              /\ status' = IF Suppressed(r) THEN status ELSE "failure"
    BY <1>10 DEF CheckForExit
  <2>2. job'.list = job.list \ {r} /\ job'.kind = "exit" /\ job'.shard = job.shard
        /\ UNCHANGED <<since, everSuppressed, printed>> /\ job.kind = "exit"
    BY <1>10, <2>1 DEF Types, JobType, CheckForExit, history
  <2>3. Leaks' = Leaks
    BY <2>2 DEF Leaks
  <2>4. CASE Suppressed(r)
    <3>1. r \notin Leaks /\ status' = status
      BY <2>1, <2>2, <2>4 DEF Owed, Leaks
    <3>2. Past(Leaks)' \subseteq job'.list
      BY <1>2, <2>2, <2>3, <3>1 DEF Owed, Past
    <3> QED
      BY <1>2, <1>4, <2>2, <2>3, <3>1, <3>2 DEF Owed, Running
  <2>5. CASE ~Suppressed(r)
    BY <1>4, <2>1, <2>2, <2>3, <2>5 DEF Owed, Running
  <2> QED
    BY <2>4, <2>5
<1>11. CASE ExitClean
  <2>1. job.kind = "exit" /\ job.shard = ShardCount /\ job.list = {} /\ status' = "success"
        /\ UNCHANGED <<job, since, everSuppressed, printed>>
    BY <1>11 DEF ExitClean, history
  <2>2. Leaks = {} /\ Leaks' = Leaks
    <3>1. Past(Leaks) = Leaks
      BY <1>3, <2>1, PastAll
    <3> QED
      BY <1>2, <2>1, <3>1 DEF Owed, Leaks
  <2> QED
    BY <1>4, <2>1, <2>2 DEF Owed, Running
<1> QED
  BY <1>5, <1>6, <1>7, <1>8, <1>9, <1>10, <1>11 DEF Report, Snapshots

-----------------------------------------------------------------------------
(* The exit status and the printed report agree.                           *)

\* The two listings of on_exit come to the same when nothing else runs.
LEMMA ReportAgreed ==
  ASSUME Types, Agreed, Report
  PROVE  Agreed'
<1>1. Types'
  BY ReportTypes
<1>2. UNCHANGED <<app, rules>> /\ Running
  BY DEF Report, TakeSnapshot, OnExit, ListShard, EndSnapshot, CheckForDump, EndDump, CheckForExit, ExitClean
<1>3. Live' = Live /\ Live \subseteq Record
  BY <1>2, LiveRecords DEF app, Live
<1>4. Unsuppressed' = Unsuppressed /\ Unsuppressed \in SUBSET Live
  BY <1>2, <1>3 DEF Suppressed, Unsuppressed
<1>5. ASSUME NEW s \in Snapshots, TakeSnapshot(s) \/ EndSnapshot PROVE Agreed'
  <2>1. job'.kind \notin {"dump", "exit"} /\ status' = status
    <3>1. CASE TakeSnapshot(s)
      BY <3>1 DEF TakeSnapshot, Begin, NoJob, Snapshots
    <3>2. CASE EndSnapshot
      BY <3>2 DEF EndSnapshot, NoJob
    <3> QED
      BY <1>5, <3>1, <3>2
  <2> QED
    BY <1>2, <2>1 DEF Agreed, Running
<1>6. CASE OnExit
  <2>1. job'.kind = "dump" /\ job'.shard = 0 /\ job'.list = {} /\ job'.kept = {} /\ status' = status
    BY <1>6 DEF OnExit, Begin, NoJob
  <2>2. Past(Unsuppressed)' = {}
    <3>1. Unsuppressed' \in SUBSET Record
      BY <1>3, <1>4
    <3> QED
      BY <1>1, <2>1, <3>1, PastNone DEF Past
  <2> QED
    BY <1>2, <2>1, <2>2 DEF Agreed, Running
<1>7. CASE ListShard
  <2>1. UNCHANGED <<calm, printed, status>> /\ job'.kind = job.kind /\ job'.kept = job.kept
        /\ job'.list \subseteq job.list \cup Live
    BY <1>7 DEF ListShard, history, Types, JobType
  <2>2. calm /\ job.kind = "dump" => Past(Unsuppressed)' \subseteq job'.list \cup job'.kept
    BY <1>4, <1>7, <2>1, PastOne DEF Agreed, Past
  <2>3. calm /\ job.kind = "exit" => Past(Unsuppressed)' \subseteq job'.list
    <3>1. calm /\ job.kind = "exit" => Past(Unsuppressed) \subseteq job.list \cup {}
      BY <1>2 DEF Agreed
    <3>2. calm /\ job.kind = "exit" => Past(Unsuppressed)' \subseteq job'.list \cup {}
      BY <1>4, <1>7, <2>1, <3>1, PastOne DEF Past
    <3> QED
      BY <3>2
  <2> QED
    BY <1>2, <1>3, <1>4, <2>1, <2>2, <2>3 DEF Agreed, Running
<1>8. CASE CheckForDump
  <2>1. PICK r \in job.list :
          job' = [job EXCEPT !.list = job.list \ {r},
                             !.kept = IF Suppressed(r) THEN job.kept ELSE job.kept \cup {r}]
    BY <1>8 DEF CheckForDump
  <2>2. job'.list = job.list \ {r} /\ job'.kept = (IF Suppressed(r) THEN job.kept ELSE job.kept \cup {r})
        /\ job'.kind = "dump" /\ job'.shard = job.shard
    BY <1>8, <2>1 DEF Types, JobType, CheckForDump
  <2>3. UNCHANGED <<calm, printed, status>> /\ job.kind = "dump"
    BY <1>8 DEF CheckForDump, history
  <2>4. Past(Unsuppressed)' = Past(Unsuppressed)
    BY <1>4, <2>2 DEF Past
  <2>5. ASSUME calm
        PROVE  /\ job'.list \cup job'.kept \subseteq Live /\ job'.kept \subseteq Unsuppressed
               /\ Past(Unsuppressed) \subseteq job'.list \cup job'.kept
    <3>1. /\ job.list \cup job.kept \subseteq Live /\ job.kept \subseteq Unsuppressed
          /\ Past(Unsuppressed) \subseteq job.list \cup job.kept /\ r \in Live
      BY <2>3, <2>5 DEF Agreed
    <3>2. CASE Suppressed(r)
      <4>1. r \notin Past(Unsuppressed)
        BY <3>2 DEF Past, Unsuppressed
      <4> QED
        BY <2>2, <3>1, <3>2, <4>1
    <3>3. CASE ~Suppressed(r)
      <4>1. r \in Unsuppressed
        BY <3>1, <3>3 DEF Unsuppressed
      <4> QED
        BY <2>2, <3>1, <3>3, <4>1
    <3> QED
      BY <3>2, <3>3
  <2> QED
    BY <1>2, <1>3, <1>4, <2>2, <2>3, <2>4, <2>5 DEF Agreed, Running
<1>9. CASE EndDump
  <2>1. /\ job.kind = "dump" /\ job.shard = ShardCount /\ job.list = {} /\ printed' = job.kept
        /\ job'.kind = "exit" /\ job'.shard = 0 /\ job'.list = {} /\ UNCHANGED <<calm, status>>
    BY <1>9 DEF EndDump, NoJob, history
  <2>2. Past(Unsuppressed) = Unsuppressed
    BY <1>3, <1>4, <2>1, PastAll
  <2>3. Past(Unsuppressed)' = {}
    <3>1. Unsuppressed' \in SUBSET Record
      BY <1>3, <1>4
    <3> QED
      BY <1>1, <2>1, <3>1, PastNone DEF Past
  <2> QED
    BY <1>2, <1>4, <2>1, <2>2, <2>3 DEF Agreed, Running
<1>10. CASE CheckForExit
  <2>1. PICK r \in job.list : /\ job' = [job EXCEPT !.list = job.list \ {r}]
                              /\ status' = IF Suppressed(r) THEN status ELSE "failure"
    BY <1>10 DEF CheckForExit
  <2>2. job'.list = job.list \ {r} /\ job'.kind = "exit" /\ job'.shard = job.shard
        /\ UNCHANGED <<calm, printed>> /\ job.kind = "exit"
    BY <1>10, <2>1 DEF Types, JobType, CheckForExit, history
  <2>3. calm => printed = Unsuppressed /\ job.list \subseteq Live /\ Past(Unsuppressed) \subseteq job.list
    BY <1>2, <2>2 DEF Agreed
  <2>4. Past(Unsuppressed)' = Past(Unsuppressed)
    BY <1>4, <2>2 DEF Past
  <2>5. CASE Suppressed(r)
    <3>1. r \notin Past(Unsuppressed) /\ status' = status
      BY <2>1, <2>5 DEF Past, Unsuppressed
    <3> QED
      BY <1>2, <1>3, <1>4, <2>2, <2>3, <2>4, <3>1 DEF Agreed, Running
  <2>6. CASE ~Suppressed(r)
    <3>1. calm => r \in printed
      BY <2>1, <2>3, <2>6 DEF Unsuppressed
    <3> QED
      BY <1>3, <1>4, <2>1, <2>2, <2>3, <2>6, <3>1 DEF Agreed, Running
  <2> QED
    BY <2>5, <2>6
<1>11. CASE ExitClean
  <2>1. job.kind = "exit" /\ job.shard = ShardCount /\ job.list = {} /\ status' = "success"
        /\ UNCHANGED <<job, calm, printed>>
    BY <1>11 DEF ExitClean, history
  <2>2. Past(Unsuppressed) = Unsuppressed
    BY <1>3, <1>4, <2>1, PastAll
  <2>3. calm => printed = {} /\ Unsuppressed = {}
    BY <1>2, <2>1, <2>2 DEF Agreed
  <2> QED
    BY <1>3, <1>4, <2>1, <2>3 DEF Agreed, Running
<1> QED
  BY <1>5, <1>6, <1>7, <1>8, <1>9, <1>10, <1>11 DEF Report, Snapshots

-----------------------------------------------------------------------------
(* The counters and the records.  The records of the calls that have       *)
(* counted one and not inserted it, or erased one and not uncounted it,    *)
(* are what counters and tracker differ by.                                *)

Carried(m) == [w \in Workers |-> IF op[w].name \in {"insert", "uncount"} THEN m[op[w].rec] ELSE 0]

Held(m) == Weigh(m, Live) + Weigh(Carried(m), Workers)

\* No two records, tracked or in hand, have a pointer in common.
Apart ==
  /\ \A w \in Workers : op[w].name # "idle" => records[op[w].rec.ptr] = NoRecord
  /\ \A v, w \in Workers : op[v].name # "idle" /\ op[w].name # "idle" /\ v # w
                             => op[v].rec.ptr # op[w].rec.ptr

\* Nothing weighs nothing.
LEMMA WeighNothing ==
  ASSUME NEW D, NEW w \in [D -> Nat], \A x \in D : w[x] = 0
  PROVE  Weigh(w, D) = 0
<1>1. Units(w, D) = {}
  BY DEF Units
<1> QED
  BY <1>1, FS_EmptySet DEF Weigh

\* What is carried are weights.
LEMMA CarriedType ==
  ASSUME Types, NEW m \in [Record -> Nat]
  PROVE  Carried(m) \in [Workers -> Nat] /\ Weigh(Carried(m), Workers) \in Nat
<1>1. ASSUME NEW w \in Workers
      PROVE  (IF op[w].name \in {"insert", "uncount"} THEN m[op[w].rec] ELSE 0) \in Nat
  BY DEF Types
<1>2. Carried(m) \in [Workers -> Nat]
  BY <1>1 DEF Carried
<1> QED
  BY <1>2, WeighType, WorkersAssumption

\* A worker's step changes what it carries only.
LEMMA Turned ==
  ASSUME Types, Types', NEW m \in [Record -> Nat], NEW w \in Workers, NEW e, op' = [op EXCEPT ![w] = e]
  PROVE  /\ op'[w] = e /\ \A u \in Workers \ {w} : op'[u] = op[u]
         /\ Weigh(Carried(m), Workers)' =
              Weigh(Carried(m), Workers)
                + (IF e.name \in {"insert", "uncount"} THEN m[e.rec] ELSE 0)
                - (IF op[w].name \in {"insert", "uncount"} THEN m[op[w].rec] ELSE 0)
<1>1. op'[w] = e /\ \A u \in Workers \ {w} : op'[u] = op[u]
  BY DEF Types
<1>2. PICK c \in [Workers -> Nat] : c = Carried(m)
  BY CarriedType
<1>3. Carried(m)' \in [Workers -> Nat]
  <2>1. ASSUME NEW v \in Workers
        PROVE  (IF op'[v].name \in {"insert", "uncount"} THEN m[op'[v].rec] ELSE 0) \in Nat
    BY DEF Types
  <2> QED
    BY <2>1 DEF Carried
<1>4. PICK d \in [Workers -> Nat] : d = Carried(m)'
  BY <1>3
<1>5. \A u \in Workers \ {w} : d[u] = c[u]
  BY <1>1, <1>2, <1>4 DEF Carried
<1>6. Weigh(d, Workers) = Weigh(c, Workers) + d[w] - c[w]
  BY <1>5, WeighChange, WorkersAssumption
<1>7. /\ d[w] = IF e.name \in {"insert", "uncount"} THEN m[e.rec] ELSE 0
      /\ c[w] = IF op[w].name \in {"insert", "uncount"} THEN m[op[w].rec] ELSE 0
  BY <1>1, <1>2, <1>4 DEF Carried
<1>8. Weigh(Carried(m), Workers)' = Weigh(d, Workers)
  BY <1>4 DEF Weigh, Units
<1> QED
  BY <1>1, <1>2, <1>6, <1>7, <1>8

\* What is held grows by what is counted, shrinks by what is uncounted, and is
\* otherwise handed over.
LEMMA HeldStep ==
  ASSUME Types, Types', Apart, IsFiniteSet(Live), NEW m \in [Record -> Nat], NEW w \in Workers
  PROVE  /\ AllocCount(w) => IsFiniteSet(Live') /\ Held(m)' = Held(m) + m[op'[w].rec]
         /\ AllocInsert(w) => IsFiniteSet(Live') /\ Held(m)' = Held(m)
         /\ FreeErase(w) => IsFiniteSet(Live') /\ Held(m)' = Held(m)
         /\ FreeUncount(w) => IsFiniteSet(Live') /\ Held(m)' = Held(m) - m[op[w].rec]
         /\ FreeRecord(w) => IsFiniteSet(Live') /\ Held(m)' = Held(m)
<1>1. Live \subseteq Record /\ Live' \subseteq Record
  BY LiveRecords DEF Types, Live
<1>2. Weigh(m, Live) \in Nat /\ Weigh(Carried(m), Workers) \in Nat
  BY <1>1, WeighType, CarriedType
<1>3. \A r \in Record : m[r] \in Nat
  OBVIOUS
<1>4. ASSUME records' = records PROVE Live' = Live /\ Weigh(m, Live)' = Weigh(m, Live)
  BY <1>4 DEF Live, Weigh, Units
<1>5. ASSUME AllocCount(w) PROVE Live' = Live /\ Held(m)' = Held(m) + m[op'[w].rec]
  <2>1. PICK e : op' = [op EXCEPT ![w] = e] /\ e.name = "insert"
    <3>1. PICK p \in Ptr, k \in Kinds :
            op' = [op EXCEPT ![w] = [name |-> "insert", rec |->
                     [id |-> nextId, ptr |-> p, size |-> k.size, names |-> k.names]]]
      BY <1>5 DEF AllocCount
    <3>2. PICK e : e = [name |-> "insert", rec |->
                     [id |-> nextId, ptr |-> p, size |-> k.size, names |-> k.names]]
      OBVIOUS
    <3>3. op' = [op EXCEPT ![w] = e] /\ e.name = "insert"
      BY <3>1, <3>2
    <3> QED
      BY <3>3
  <2>2. records' = records /\ op[w].name = "idle"
    BY <1>5 DEF AllocCount
  <2>3. op'[w] = e /\ e.rec \in Record
    BY <2>1, Turned DEF Types
  <2>4. Weigh(Carried(m), Workers)' = Weigh(Carried(m), Workers) + m[e.rec] - 0
    BY <2>1, <2>2, Turned
  <2> QED
    BY <1>2, <1>3, <1>4, <2>2, <2>3, <2>4 DEF Held
<1>6. ASSUME AllocInsert(w) PROVE IsFiniteSet(Live') /\ Held(m)' = Held(m)
  <2>1. /\ op' = [op EXCEPT ![w] = Idle] /\ op[w].name = "insert"
        /\ records' = [records EXCEPT ![op[w].rec.ptr] = op[w].rec]
    BY <1>6 DEF AllocInsert
  <2>2. op[w].rec \in Record /\ op[w].rec.ptr \in Ptr
    BY <2>1 DEF Types, Record
  <2>3. records[op[w].rec.ptr] = NoRecord
    BY <2>1 DEF Apart
  <2>4. Live' = Live \cup {op[w].rec}
    BY <2>1, <2>2, <2>3 DEF Types, Live
  <2>5. op[w].rec \notin Live
    BY <2>2, <2>3, LiveRecords
  <2>6. PICK L : L = Live \cup {op[w].rec}
    OBVIOUS
  <2>7. IsFiniteSet(L) /\ Weigh(m, L) = m[op[w].rec] + Weigh(m, Live)
    BY <1>1, <2>2, <2>5, <2>6, FS_AddElement, WeighAdd
  <2>8. Weigh(m, Live)' = Weigh(m, L)
    BY <2>4, <2>6 DEF Weigh, Units
  <2>9. Weigh(Carried(m), Workers)' = Weigh(Carried(m), Workers) + 0 - m[op[w].rec]
    <3>1. PICK e : e = Idle
      OBVIOUS
    <3>2. op' = [op EXCEPT ![w] = e] /\ e.name = "idle"
      BY <2>1, <3>1 DEF Idle
    <3> QED
      BY <2>1, <3>2, Turned
  <2> QED
    BY <1>2, <1>3, <2>2, <2>4, <2>6, <2>7, <2>8, <2>9 DEF Held
<1>7. ASSUME FreeErase(w) PROVE IsFiniteSet(Live') /\ Held(m)' = Held(m)
  <2>1. PICK r \in Live : /\ op' = [op EXCEPT ![w] = [name |-> "uncount", rec |-> r]]
                          /\ records' = [records EXCEPT ![r.ptr] = NoRecord]
    BY <1>7 DEF FreeErase
  <2>2. r \in Record /\ r.ptr \in Ptr /\ records[r.ptr] = r /\ op[w].name = "idle"
    BY <1>1, <1>7, LiveRecords DEF FreeErase
  <2>3. Live' = Live \ {r}
    BY <2>1, <2>2 DEF Types, Live
  <2>4. PICK L : L = Live \ {r}
    OBVIOUS
  <2>5. IsFiniteSet(L) /\ Weigh(m, Live) = m[r] + Weigh(m, L) /\ Weigh(m, L) \in Nat
    BY <1>1, <2>4, FS_RemoveElement, WeighRemove, WeighType
  <2>6. Weigh(m, Live)' = Weigh(m, L)
    BY <2>3, <2>4 DEF Weigh, Units
  <2>7. Weigh(Carried(m), Workers)' = Weigh(Carried(m), Workers) + m[r] - 0
    <3>1. PICK e : e = [name |-> "uncount", rec |-> r]
      OBVIOUS
    <3>2. op' = [op EXCEPT ![w] = e] /\ e.name = "uncount" /\ e.rec = r
      BY <2>1, <3>1
    <3> QED
      BY <2>2, <3>2, Turned
  <2> QED
    BY <1>2, <1>3, <2>2, <2>3, <2>4, <2>5, <2>6, <2>7 DEF Held
<1>8. ASSUME FreeUncount(w) PROVE Live' = Live /\ Held(m)' = Held(m) - m[op[w].rec]
  <2>1. op' = [op EXCEPT ![w].name = "record"] /\ op[w].name = "uncount" /\ records' = records
    BY <1>8 DEF FreeUncount
  <2>2. op' = [op EXCEPT ![w] = [op[w] EXCEPT !.name = "record"]]
    BY <2>1
  <2>3. op[w].rec \in Record /\ [op[w] EXCEPT !.name = "record"].name = "record"
    BY <2>1 DEF Types
  <2>4. Weigh(Carried(m), Workers)' = Weigh(Carried(m), Workers) + 0 - m[op[w].rec]
    BY <2>1, <2>2, <2>3, Turned
  <2> QED
    BY <1>2, <1>3, <1>4, <2>1, <2>3, <2>4 DEF Held
<1>9. ASSUME FreeRecord(w) PROVE Live' = Live /\ Held(m)' = Held(m)
  <2>1. op' = [op EXCEPT ![w] = Idle] /\ op[w].name = "record" /\ records' = records
    BY <1>9 DEF FreeRecord
  <2>2. Weigh(Carried(m), Workers)' = Weigh(Carried(m), Workers) + 0 - 0
    <3>1. PICK e : e = Idle
      OBVIOUS
    <3>2. op' = [op EXCEPT ![w] = e] /\ e.name = "idle"
      BY <2>1, <3>1 DEF Idle
    <3> QED
      BY <2>1, <3>2, Turned
  <2> QED
    BY <1>2, <1>4, <2>1, <2>2 DEF Held
<1> QED
  BY <1>5, <1>6, <1>7, <1>8, <1>9

\* Counters and records.
Ledger == Apart /\ IsFiniteSet(Live) /\ count = Held(Ones) /\ bytes = Held(Sizes)

\* An address is handed out when nobody has it, and back after it was erased.
LEMMA StepApart == Types /\ Apart /\ [Next]_vars => Apart'
<1> SUFFICES ASSUME Types, Apart, [Next]_vars PROVE Apart'
  OBVIOUS
<1>1. op \in [Workers -> [name : {"idle", "insert", "uncount", "record"}, rec : Record \cup {None}]]
  BY DEF Types
<1>2. \A w \in Workers : op[w].name # "idle" => op[w].rec \in Record /\ op[w].rec # None
  BY DEF Types
<1>3. ASSUME UNCHANGED <<records, op>> PROVE Apart'
  BY <1>3 DEF Apart
<1>4. ASSUME NEW w \in Workers, AllocCount(w) PROVE Apart'
  <2>1. PICK p \in Ptr, k \in Kinds :
          /\ Available(p)
          /\ op' = [op EXCEPT ![w] = [name |-> "insert", rec |->
                     [id |-> nextId, ptr |-> p, size |-> k.size, names |-> k.names]]]
    BY <1>4 DEF AllocCount
  <2>2. op'[w].rec.ptr = p /\ \A u \in Workers : u # w => op'[u] = op[u]
    BY <1>1, <2>1
  <2>3. records' = records
    BY <1>4 DEF AllocCount
  <2>4. records[p] = NoRecord /\ \A u \in Workers : op[u].name # "idle" => op[u].rec.ptr # p
    BY <1>2, <2>1 DEF Available
  <2> QED
    BY <2>2, <2>3, <2>4 DEF Apart
<1>5. ASSUME NEW w \in Workers, AllocInsert(w) PROVE Apart'
  <2>1. /\ op' = [op EXCEPT ![w] = Idle] /\ op[w].name # "idle"
        /\ records' = [records EXCEPT ![op[w].rec.ptr] = op[w].rec]
    BY <1>5 DEF AllocInsert
  <2>2. op'[w].name = "idle" /\ \A u \in Workers : u # w => op'[u] = op[u]
    BY <1>1, <2>1 DEF Idle
  <2>3. ASSUME NEW u \in Workers, op'[u].name # "idle" PROVE records'[op'[u].rec.ptr] = NoRecord
    <3>1. u # w /\ op'[u] = op[u] /\ op[u].rec.ptr # op[w].rec.ptr /\ records[op[u].rec.ptr] = NoRecord
      BY <2>1, <2>2, <2>3 DEF Apart
    <3>2. op[u].rec.ptr \in Ptr
      BY <1>2, <2>3, <3>1 DEF Record
    <3> QED
      BY <2>1, <3>1, <3>2 DEF Types
  <2> QED
    BY <2>2, <2>3 DEF Apart
<1>6. ASSUME NEW w \in Workers, FreeErase(w) PROVE Apart'
  <2>1. PICK r \in Live : /\ op' = [op EXCEPT ![w] = [name |-> "uncount", rec |-> r]]
                          /\ records' = [records EXCEPT ![r.ptr] = NoRecord]
    BY <1>6 DEF FreeErase
  <2>2. r.ptr \in Ptr /\ records[r.ptr] = r /\ r # NoRecord
    BY LiveRecords
  <2>3. op'[w].rec = r /\ \A u \in Workers : u # w => op'[u] = op[u]
    BY <1>1, <2>1
  <2>4. \A u \in Workers : op[u].name # "idle" => op[u].rec.ptr # r.ptr
    BY <2>2 DEF Apart
  <2>5. records'[r.ptr] = NoRecord /\ \A q \in Ptr : q # r.ptr => records'[q] = records[q]
    BY <2>1, <2>2 DEF Types
  <2>6. \A u \in Workers : op[u].name # "idle" => op[u].rec.ptr \in Ptr
    BY <1>2 DEF Record
  <2> QED
    BY <2>3, <2>4, <2>5, <2>6 DEF Apart
<1>7. ASSUME NEW w \in Workers, FreeUncount(w) PROVE Apart'
  <2>1. op' = [op EXCEPT ![w].name = "record"] /\ op[w].name # "idle" /\ records' = records
    BY <1>7 DEF FreeUncount
  <2>2. op'[w].rec = op[w].rec /\ \A u \in Workers : u # w => op'[u] = op[u]
    BY <1>1, <2>1
  <2> QED
    BY <2>1, <2>2 DEF Apart
<1>8. ASSUME NEW w \in Workers, FreeRecord(w) PROVE Apart'
  <2>1. op' = [op EXCEPT ![w] = Idle] /\ records' = records
    BY <1>8 DEF FreeRecord
  <2>2. op'[w].name = "idle" /\ \A u \in Workers : u # w => op'[u] = op[u]
    BY <1>1, <2>1 DEF Idle
  <2> QED
    BY <2>1, <2>2 DEF Apart
<1>9. ASSUME NEW w \in Workers, Suppress(w) \/ ClearSuppressions(w) PROVE Apart'
  <2>1. UNCHANGED app
    BY <1>9 DEF Suppress, ClearSuppressions
  <2> QED
    BY <1>3, <2>1 DEF app
<1>10. ASSUME Report \/ Ended \/ UNCHANGED vars PROVE Apart'
  <2>1. UNCHANGED app
    BY <1>10, ReportLeaves DEF Ended, vars
  <2> QED
    BY <1>3, <2>1 DEF app
<1> QED
  BY <1>4, <1>5, <1>6, <1>7, <1>8, <1>9, <1>10 DEF Next, Report

\* What the records weigh.
LEMMA Weights == /\ Ones \in [Record -> Nat] /\ \A r \in Record : Ones[r] = 1
                 /\ Sizes \in [Record -> Nat] /\ \A r \in Record : Sizes[r] = r.size
  BY DEF Ones, Sizes, Record

\* Every step keeps the counters those of the records.
LEMMA StepLedger == Types /\ Types' /\ Ledger /\ [Next]_vars => Ledger'
<1> SUFFICES ASSUME Types, Types', Ledger, [Next]_vars PROVE Ledger'
  OBVIOUS
<1>1. Apart' /\ Apart /\ IsFiniteSet(Live) /\ count = Held(Ones) /\ bytes = Held(Sizes)
  BY StepApart DEF Ledger
<1>2. ASSUME UNCHANGED <<records, op, count, bytes>> PROVE Ledger'
  BY <1>1, <1>2 DEF Ledger, Held, Carried, Live, Weigh, Units
<1>3. /\ count \in Int /\ bytes \in Int /\ Ones \in [Record -> Nat] /\ Sizes \in [Record -> Nat]
      /\ \A r \in Record : Ones[r] = 1 /\ Sizes[r] = r.size /\ r.size \in Nat
  BY Weights DEF Types, Record
<1>4. ASSUME NEW w \in Workers, AllocCount(w) PROVE Ledger'
  <2>1. PICK p \in Ptr, k \in Kinds :
          /\ op' = [op EXCEPT ![w] = [name |-> "insert", rec |->
                     [id |-> nextId, ptr |-> p, size |-> k.size, names |-> k.names]]]
          /\ bytes' = bytes + k.size
    BY <1>4 DEF AllocCount
  <2>2. op'[w].rec \in Record /\ op'[w].rec.size = k.size
    BY <2>1 DEF Types
  <2>3. count' = count + 1
    BY <1>4 DEF AllocCount
  <2>4. /\ IsFiniteSet(Live') /\ Held(Ones)' = Held(Ones) + Ones[op'[w].rec]
        /\ Held(Sizes)' = Held(Sizes) + Sizes[op'[w].rec]
    BY <1>1, <1>3, <1>4, HeldStep
  <2> QED
    BY <1>1, <1>3, <2>1, <2>2, <2>3, <2>4 DEF Ledger
<1>5. ASSUME NEW w \in Workers, AllocInsert(w) \/ FreeErase(w) \/ FreeRecord(w) PROVE Ledger'
  <2>1. count' = count /\ bytes' = bytes
    BY <1>5 DEF AllocInsert, FreeErase, FreeRecord
  <2>2. IsFiniteSet(Live') /\ Held(Ones)' = Held(Ones) /\ Held(Sizes)' = Held(Sizes)
    BY <1>1, <1>3, <1>5, HeldStep
  <2> QED
    BY <1>1, <2>1, <2>2 DEF Ledger
<1>6. ASSUME NEW w \in Workers, FreeUncount(w) PROVE Ledger'
  <2>1. count' = count - 1 /\ bytes' = bytes - op[w].rec.size /\ op[w].rec \in Record
    BY <1>6 DEF FreeUncount, Types
  <2>2. /\ IsFiniteSet(Live') /\ Held(Ones)' = Held(Ones) - Ones[op[w].rec]
        /\ Held(Sizes)' = Held(Sizes) - Sizes[op[w].rec]
    BY <1>1, <1>3, <1>6, HeldStep
  <2> QED
    BY <1>1, <1>3, <2>1, <2>2 DEF Ledger
<1>7. ASSUME NEW w \in Workers, Suppress(w) \/ ClearSuppressions(w) PROVE Ledger'
  <2>1. UNCHANGED app
    BY <1>7 DEF Suppress, ClearSuppressions
  <2> QED
    BY <1>2, <2>1 DEF app
<1>8. ASSUME Report \/ Ended \/ UNCHANGED vars PROVE Ledger'
  <2>1. UNCHANGED app
    BY <1>8, ReportLeaves DEF Ended, vars
  <2> QED
    BY <1>2, <2>1 DEF app
<1> QED
  BY <1>4, <1>5, <1>6, <1>7, <1>8 DEF Next, Report

\* Nothing is tracked at the start.
LEMMA InitLedger == Init => Ledger
<1> SUFFICES ASSUME Init PROVE Ledger
  OBVIOUS
<1>1. Live = {} /\ \A w \in Workers : op[w].name = "idle"
  BY DEF Init, Live, Idle
<1>2. ASSUME NEW m \in [Record -> Nat] PROVE Held(m) = 0
  <2>1. Carried(m) \in [Workers -> Nat] /\ \A w \in Workers : Carried(m)[w] = 0
    BY <1>1 DEF Carried
  <2>2. Weigh(Carried(m), Workers) = 0
    BY <2>1, WeighNothing
  <2>3. IsFiniteSet({})
    BY FS_EmptySet
  <2>4. Weigh(m, {}) = 0
    BY <2>3, WeighType
  <2> QED
    BY <1>1, <2>2, <2>4 DEF Held
<1>3. Apart /\ IsFiniteSet(Live)
  BY <1>1, FS_EmptySet DEF Apart
<1> QED
  BY <1>2, <1>3, Weights DEF Init, Ledger

-----------------------------------------------------------------------------
(* The lists and the counters of the snapshots.                            *)

\* Every record that is tracked, listed or in hand.
Known == Live \cup Listed \cup {op[w].rec : w \in {v \in Workers : op[v].name # "idle"}}

\* No two of them have an id in common.
Distinct == /\ \A r \in Known : r.id < nextId
            /\ \A r, x \in Known : r.id = x.id => r = x

\* They are records.
LEMMA KnownType == Types => Known \subseteq Record
<1> SUFFICES ASSUME Types PROVE Known \subseteq Record
  OBVIOUS
<1>1. Live \subseteq Record
  BY LiveRecords
<1>2. Listed \subseteq Record
  BY DEF Types, Listed, JobType, SnapType, Snapshots
<1>3. \A w \in Workers : op[w].name # "idle" => op[w].rec \in Record
  BY DEF Types
<1> QED
  BY <1>1, <1>2, <1>3 DEF Known

\* What Known gains is a record with a new id.
LEMMA StepDistinct == Types /\ Distinct /\ [Next]_vars => Distinct'
<1> SUFFICES ASSUME Types, Distinct, [Next]_vars PROVE Distinct'
  OBVIOUS
<1>1. ASSUME Known' \subseteq Known, nextId' = nextId PROVE Distinct'
  BY <1>1 DEF Distinct
<1>2. op \in [Workers -> [name : {"idle", "insert", "uncount", "record"}, rec : Record \cup {None}]]
  BY DEF Types
<1>3. \A r \in Known' : \/ r \in Live' \/ r \in Listed'
                        \/ \E w \in Workers : op'[w].name # "idle" /\ r = op'[w].rec
  BY DEF Known
<1>4. Live \subseteq Known /\ Listed \subseteq Known
      /\ \A w \in Workers : op[w].name # "idle" => op[w].rec \in Known
  BY DEF Known
<1>5. ASSUME UNCHANGED reports PROVE Listed' = Listed
  BY <1>5 DEF Listed, reports
<1>6. ASSUME NEW w \in Workers, AllocCount(w) PROVE Distinct'
  <2>1. PICK p \in Ptr, k \in Kinds :
          op' = [op EXCEPT ![w] = [name |-> "insert", rec |->
                   [id |-> nextId, ptr |-> p, size |-> k.size, names |-> k.names]]]
    BY <1>6 DEF AllocCount
  <2>2. op'[w].rec.id = nextId /\ \A u \in Workers : u # w => op'[u] = op[u]
    BY <1>2, <2>1
  <2>3. nextId' = nextId + 1 /\ nextId \in Nat /\ records' = records /\ UNCHANGED reports
    BY <1>6 DEF AllocCount, Types
  <2>4. Live' = Live /\ Listed' = Listed
    BY <1>5, <2>3 DEF Live
  <2>5. Known' \subseteq Known \cup {op'[w].rec}
    BY <1>3, <1>4, <2>2, <2>4
  <2>6. \A r \in Known : r.id \in Int /\ r.id < nextId
    BY KnownType DEF Distinct, Record
  <2>7. \A r \in Known' : r.id < nextId'
    BY <2>2, <2>3, <2>5, <2>6
  <2>8. ASSUME NEW r \in Known', NEW x \in Known', r.id = x.id PROVE r = x
    <3>1. CASE r \in Known /\ x \in Known
      BY <2>8, <3>1 DEF Distinct
    <3>2. CASE r \notin Known \/ x \notin Known
      BY <2>2, <2>3, <2>5, <2>6, <2>8, <3>2
    <3> QED
      BY <3>1, <3>2
  <2> QED
    BY <2>7, <2>8 DEF Distinct
<1>7. ASSUME NEW w \in Workers, AllocInsert(w) PROVE Distinct'
  <2>1. /\ op' = [op EXCEPT ![w] = Idle] /\ op[w].name # "idle"
        /\ records' = [records EXCEPT ![op[w].rec.ptr] = op[w].rec]
        /\ nextId' = nextId /\ UNCHANGED reports
    BY <1>7 DEF AllocInsert
  <2>2. op'[w].name = "idle" /\ \A u \in Workers : u # w => op'[u] = op[u]
    BY <1>2, <2>1 DEF Idle
  <2>3. Live' \subseteq Live \cup {op[w].rec}
    BY <2>1 DEF Types, Live
  <2> QED
    BY <1>1, <1>3, <1>4, <1>5, <2>1, <2>2, <2>3
<1>8. ASSUME NEW w \in Workers, FreeErase(w) PROVE Distinct'
  <2>1. PICK r \in Live : /\ op' = [op EXCEPT ![w] = [name |-> "uncount", rec |-> r]]
                          /\ records' = [records EXCEPT ![r.ptr] = NoRecord]
    BY <1>8 DEF FreeErase
  <2>2. op'[w].rec = r /\ \A u \in Workers : u # w => op'[u] = op[u]
    BY <1>2, <2>1
  <2>3. Live' \subseteq Live
    BY <2>1 DEF Types, Live
  <2>4. nextId' = nextId /\ UNCHANGED reports
    BY <1>8 DEF FreeErase
  <2> QED
    BY <1>1, <1>3, <1>4, <1>5, <2>2, <2>3, <2>4
<1>9. ASSUME NEW w \in Workers, FreeUncount(w) \/ FreeRecord(w) PROVE Distinct'
  <2>1. \A u \in Workers : op'[u].name # "idle" => op[u].name # "idle" /\ op'[u].rec = op[u].rec
    BY <1>2, <1>9 DEF FreeUncount, FreeRecord, Idle
  <2>2. nextId' = nextId /\ records' = records /\ UNCHANGED reports
    BY <1>9 DEF FreeUncount, FreeRecord
  <2>3. Live' = Live
    BY <2>2 DEF Live
  <2> QED
    BY <1>1, <1>3, <1>4, <1>5, <2>1, <2>2, <2>3
<1>10. ASSUME UNCHANGED app, Listed' \subseteq Listed \cup Live PROVE Distinct'
  <2>1. op' = op /\ nextId' = nextId /\ records' = records
    BY <1>10 DEF app
  <2>2. Live' = Live
    BY <2>1 DEF Live
  <2> QED
    BY <1>1, <1>3, <1>4, <1>10, <2>1, <2>2
<1>11. ASSUME NEW w \in Workers, Suppress(w) \/ ClearSuppressions(w) PROVE Distinct'
  <2>1. UNCHANGED app /\ UNCHANGED reports
    BY <1>11 DEF Suppress, ClearSuppressions
  <2> QED
    BY <1>5, <1>10, <2>1
<1>12. CASE Report
  BY <1>10, <1>12, ReportLeaves, ReportLists
<1>13. CASE Ended \/ UNCHANGED vars
  <2>1. UNCHANGED app /\ UNCHANGED reports
    BY <1>13 DEF Ended, vars
  <2> QED
    BY <1>5, <1>10, <2>1
<1> QED
  BY <1>6, <1>7, <1>8, <1>9, <1>11, <1>12, <1>13 DEF Next, Report

Exact(snap) == /\ IsFiniteSet(snap.list)
               /\ snap.count = Weigh(Ones, snap.list)
               /\ snap.bytes = Weigh(Sizes, snap.list)

\* A snapshot that no call overlaps counts what it lists.
Undisturbed ==
  quiet =>
    /\ job.kind \in Snapshots => /\ NoCalls /\ job.list = Past(Live)
                                 /\ job.count = count /\ job.bytes = bytes
    /\ \A s \in Snapshots : snaps[s].taken => Exact(snaps[s])

\* With no call in progress all that is counted is tracked.
LEMMA RestHeld ==
  ASSUME Types, NoCalls, NEW m \in [Record -> Nat], IsFiniteSet(Live)
  PROVE  Held(m) = Weigh(m, Live)
<1>1. Carried(m) \in [Workers -> Nat] /\ \A w \in Workers : Carried(m)[w] = 0
  BY CarriedType DEF Carried, NoCalls
<1>2. Weigh(Carried(m), Workers) = 0
  BY <1>1, WeighNothing
<1>3. Weigh(m, Live) \in Nat
  BY LiveRecords, WeighType
<1> QED
  BY <1>2, <1>3 DEF Held

\* Every step leaves an undisturbed snapshot exact.
LEMMA StepUndisturbed == Types /\ Ledger /\ Undisturbed /\ [Next]_vars => Undisturbed'
<1> SUFFICES ASSUME Types, Ledger, Undisturbed, [Next]_vars, quiet' PROVE Undisturbed'
  BY DEF Undisturbed
<1>1. ASSUME Note, UNCHANGED reports PROVE Undisturbed'
  <2>1. quiet /\ job.kind \notin Snapshots /\ job' = job /\ snaps' = snaps
    BY <1>1 DEF Note, reports
  <2> QED
    BY <2>1 DEF Undisturbed, Exact, Weigh, Units, Ones, Sizes
<1>2. ASSUME UNCHANGED <<app, reports, quiet>> PROVE Undisturbed'
  <2>1. op' = op /\ records' = records /\ job' = job /\ snaps' = snaps /\ count' = count
        /\ bytes' = bytes /\ quiet
    BY <1>2 DEF app, reports
  <2>2. (NoCalls' <=> NoCalls) /\ Past(Live)' = Past(Live)
    BY <2>1 DEF NoCalls, Past, Live
  <2>3. \A s \in Snapshots : Exact(snaps[s]) => Exact(snaps[s])'
    BY <2>1 DEF Exact, Weigh, Units, Ones, Sizes
  <2> QED
    BY <2>1, <2>2, <2>3 DEF Undisturbed
<1>3. ASSUME NEW w \in Workers, Worker(w) PROVE Undisturbed'
  <2>1. CASE AllocCount(w) \/ AllocInsert(w) \/ FreeErase(w) \/ FreeUncount(w) \/ FreeRecord(w)
    <3>1. Note /\ UNCHANGED reports
      BY <2>1 DEF AllocCount, AllocInsert, FreeErase, FreeUncount, FreeRecord
    <3> QED
      BY <1>1, <3>1
  <2>2. CASE Suppress(w) \/ ClearSuppressions(w)
    <3>1. UNCHANGED <<app, reports, quiet>>
      BY <2>2 DEF Suppress, ClearSuppressions
    <3> QED
      BY <1>2, <3>1
  <2> QED
    BY <1>3, <2>1, <2>2 DEF Worker
<1>4. ASSUME UNCHANGED snaps, job'.kind \notin Snapshots, quiet PROVE Undisturbed'
  BY <1>4 DEF Undisturbed, Exact, Weigh, Units, Ones, Sizes
<1>5. ASSUME NEW s \in Snapshots, TakeSnapshot(s) PROVE Undisturbed'
  <2>1. quiet /\ NoCalls /\ UNCHANGED app /\ snaps' = snaps
        /\ job' = [NoJob EXCEPT !.kind = s, !.count = count, !.bytes = bytes]
    BY <1>5 DEF TakeSnapshot, Begin
  <2>2. NoCalls' /\ count' = count /\ bytes' = bytes /\ Live' = Live
    BY <2>1 DEF NoCalls, app, Live
  <2>3. job'.shard = 0 /\ job'.list = {} /\ job'.count = count /\ job'.bytes = bytes
    BY <2>1 DEF NoJob
  <2>4. \A r \in Live : ~(ShardOf[r.ptr] < 0)
    BY LiveRecords, ShardIn
  <2>5. Past(Live)' = {}
    BY <2>2, <2>3, <2>4 DEF Past
  <2>6. \A q \in Snapshots : snaps'[q].taken => Exact(snaps[q])
    BY <2>1 DEF Undisturbed
  <2> QED
    BY <2>1, <2>2, <2>3, <2>5, <2>6 DEF Undisturbed, Exact, Weigh, Units, Ones, Sizes
<1>6. CASE OnExit
  <2>1. job'.kind = "dump" /\ UNCHANGED snaps /\ quiet
    BY <1>6 DEF OnExit, Begin, NoJob
  <2> QED
    BY <1>4, <2>1 DEF Snapshots
<1>7. CASE ListShard
  <2>1. quiet /\ UNCHANGED app /\ snaps' = snaps
        /\ job' = [job EXCEPT !.shard = job.shard + 1,
                              !.list = job.list \cup {r \in Live : ShardOf[r.ptr] = job.shard}]
    BY <1>7 DEF ListShard, history
  <2>2. NoCalls' = NoCalls /\ count' = count /\ bytes' = bytes /\ Live' = Live
    BY <2>1 DEF NoCalls, app, Live
  <2>3. /\ job'.shard = job.shard + 1 /\ job'.kind = job.kind
        /\ job'.count = job.count /\ job'.bytes = job.bytes
        /\ job'.list = job.list \cup {r \in Live : ShardOf[r.ptr] = job.shard}
    BY <2>1 DEF Types, JobType
  <2>4. \A r \in Live : ShardOf[r.ptr] \in Int
    BY LiveRecords, ShardIn
  <2>5. job.shard \in Int
    BY DEF Types, JobType
  <2>6. Past(Live)' = Past(Live) \cup {r \in Live : ShardOf[r.ptr] = job.shard}
    BY <2>2, <2>3, <2>4, <2>5 DEF Past
  <2>7. \A q \in Snapshots : snaps'[q].taken => Exact(snaps[q])
    BY <2>1 DEF Undisturbed
  <2>8. job.kind \in Snapshots => NoCalls /\ job.list = Past(Live) /\ job.count = count /\ job.bytes = bytes
    BY <2>1 DEF Undisturbed
  <2> QED
    BY <2>1, <2>2, <2>3, <2>6, <2>7, <2>8 DEF Undisturbed, Exact, Weigh, Units, Ones, Sizes
<1>8. CASE EndSnapshot
  <2>1. /\ quiet /\ job.kind \in Snapshots /\ job.shard = ShardCount /\ job'.kind = "none"
        /\ snaps' = [snaps EXCEPT ![job.kind] = [taken |-> TRUE, count |-> job.count,
                                                 bytes |-> job.bytes, list |-> job.list]]
    BY <1>8 DEF EndSnapshot, history, NoJob
  <2>2. NoCalls /\ job.list = Past(Live) /\ job.count = count /\ job.bytes = bytes
    BY <2>1 DEF Undisturbed
  <2>3. Past(Live) = Live
    BY <2>1, LiveRecords, PastAll
  <2>4. count = Weigh(Ones, Live) /\ bytes = Weigh(Sizes, Live) /\ IsFiniteSet(Live)
    BY <2>2, RestHeld, Weights DEF Ledger
  <2>5. \A q \in Snapshots : IF q = job.kind THEN snaps'[q].count = job.count /\ snaps'[q].bytes = job.bytes
                                                  /\ snaps'[q].list = job.list
                             ELSE snaps'[q] = snaps[q]
    BY <2>1 DEF Types
  <2>6. \A q \in Snapshots : q # job.kind /\ snaps'[q].taken => Exact(snaps'[q])
    BY <2>1, <2>5 DEF Undisturbed
  <2>7. \A q \in Snapshots : q = job.kind => Exact(snaps'[q])
    BY <2>2, <2>3, <2>4, <2>5 DEF Exact
  <2>8. \A q \in Snapshots : Exact(snaps'[q]) => Exact(snaps[q])'
    BY DEF Exact, Weigh, Units, Ones, Sizes
  <2> QED
    BY <2>1, <2>6, <2>7, <2>8 DEF Undisturbed, Snapshots
<1>9. CASE CheckForDump \/ EndDump \/ CheckForExit \/ ExitClean
  <2>1. job'.kind \notin Snapshots /\ UNCHANGED snaps /\ quiet
    BY <1>9 DEF CheckForDump, EndDump, CheckForExit, ExitClean, Types, JobType, NoJob, history, Snapshots
  <2> QED
    BY <1>4, <2>1
<1>10. CASE Ended \/ UNCHANGED vars
  <2>1. UNCHANGED <<app, reports, quiet>>
    BY <1>10 DEF Ended, vars, history
  <2> QED
    BY <1>2, <2>1
<1> QED
  BY <1>3, <1>5, <1>6, <1>7, <1>8, <1>9, <1>10 DEF Next, Worker

\* What two snapshots differ by is the difference of their lists.
LEMMA DeltasFollow ==
  ASSUME Types, Distinct, Undisturbed
  PROVE  DeltasAgree
<1> SUFFICES ASSUME Compared, quiet
             PROVE  /\ snaps["after"].count - snaps["before"].count = Cardinality(New) - Cardinality(Freed)
                    /\ snaps["after"].bytes - snaps["before"].bytes = BytesOf(New) - BytesOf(Freed)
  BY DEF DeltasAgree
<1>1. PICK a, b : a = snaps["after"].list /\ b = snaps["before"].list
  OBVIOUS
<1>2. Exact(snaps["after"]) /\ Exact(snaps["before"])
  BY DEF Undisturbed, Compared, Snapshots
<1>3. IsFiniteSet(a) /\ IsFiniteSet(b) /\ a \in SUBSET Record /\ b \in SUBSET Record
  BY <1>1, <1>2 DEF Exact, Types, SnapType, Snapshots
<1>4. \A r, x \in a \cup b : r.id = x.id => r = x
  BY <1>1 DEF Distinct, Known, Listed
<1>5. New = a \ b
  BY <1>1, <1>4 DEF New, Same, Ids
<1>6. Persistent = a \cap b
  BY <1>1, <1>4 DEF Persistent, Same, Ids
<1>7. Freed = b \ a
  BY <1>1, <1>4, <1>6 DEF Freed, Ids
<1>8. PICK both : both = a \cap b
  OBVIOUS
<1>9. both \in SUBSET a /\ both \in SUBSET b /\ New = a \ both /\ Freed = b \ both
  BY <1>5, <1>7, <1>8
<1>10. IsFiniteSet(both) /\ both \in SUBSET Record
  BY <1>3, <1>9, FS_Subset
<1>11. IsFiniteSet(New) /\ IsFiniteSet(Freed) /\ New \in SUBSET Record /\ Freed \in SUBSET Record
  BY <1>3, <1>9, FS_Subset
<1>12. ASSUME NEW m \in [Record -> Nat]
       PROVE  Weigh(m, a) - Weigh(m, b) = Weigh(m, New) - Weigh(m, Freed)
  <2>1. Weigh(m, a \ both) = Weigh(m, a) - Weigh(m, both) /\ Weigh(m, b \ both) = Weigh(m, b) - Weigh(m, both)
    BY <1>3, <1>9, WeighDifference
  <2>2. Weigh(m, a) \in Nat /\ Weigh(m, b) \in Nat /\ Weigh(m, both) \in Nat
    BY <1>3, <1>10, WeighType
  <2> QED
    BY <1>9, <2>1, <2>2
<1>13. Cardinality(New) = Weigh(Ones, New) /\ Cardinality(Freed) = Weigh(Ones, Freed)
  BY <1>11, WeighOnes DEF Ones
<1>14. BytesOf(New) = Weigh(Sizes, New) /\ BytesOf(Freed) = Weigh(Sizes, Freed)
  BY <1>11, BytesAre
<1> QED
  BY <1>1, <1>2, <1>12, <1>13, <1>14, Weights DEF Exact

-----------------------------------------------------------------------------
(* The histogram.                                                          *)

\* What the calls have uncounted and not recorded.
Unrecorded == [w \in Workers |-> IF op[w].name = "record" THEN op[w].rec.size ELSE 0]

HistType == [DOMAIN Buckets -> [count : Nat, bytes : Nat]]

\* Freed bytes are in a bucket or about to be, every bucket holds sizes of its
\* range, and every size in use was asked for.
Filed ==
  /\ hist \in HistType /\ freed \in Nat
  /\ freed = Weigh(Filled, DOMAIN Buckets) + Weigh(Unrecorded, Workers)
  /\ \A i \in DOMAIN Buckets : /\ hist[i].count * Buckets[i].min <= hist[i].bytes
                               /\ hist[i].bytes <= hist[i].count * Buckets[i].max
  /\ \A r \in Live : \E k \in Kinds : r.size = k.size
  /\ \A w \in Workers : op[w].name # "idle" => \E k \in Kinds : op[w].rec.size = k.size

\* The buckets are numbered.
LEMMA BucketsFinite ==
  /\ IsFiniteSet(DOMAIN Buckets) /\ DOMAIN Buckets \subseteq Nat
  /\ \A i \in DOMAIN Buckets : Buckets[i].min \in Nat /\ Buckets[i].max \in Nat
<1>1. Buckets \in Seq([min : Nat, max : Nat])
  BY BucketsAssumption
<1>2. DOMAIN Buckets = 1 .. Len(Buckets) /\ Len(Buckets) \in Nat
  BY <1>1
<1>3. 1 \in Int /\ Len(Buckets) \in Int
  BY <1>2
<1>4. IsFiniteSet(1 .. Len(Buckets))
  BY <1>3, FS_Interval
<1>5. DOMAIN Buckets \subseteq Nat
  BY <1>2
<1>6. ASSUME NEW i \in DOMAIN Buckets PROVE Buckets[i].min \in Nat /\ Buckets[i].max \in Nat
  <2>1. ASSUME NEW T, NEW b \in Seq(T), NEW j \in DOMAIN b PROVE b[j] \in T
    <3>1. j \in 1 .. Len(b)
      OBVIOUS
    <3> QED
      BY <3>1
  <2>2. Buckets[i] \in [min : Nat, max : Nat]
    BY <1>1, <2>1
  <2> QED
    BY <2>2
<1> QED
  BY <1>2, <1>4, <1>5, <1>6

\* The first bucket that a size fits is one that it fits.
LEMMA FirstFits ==
  ASSUME NEW size, Fitting(size) # {}
  PROVE  Min(Fitting(size)) \in Fitting(size)
<1>1. PICK S : S = Fitting(size)
  OBVIOUS
<1>2. S \subseteq Nat /\ S # {}
  BY <1>1, BucketsFinite DEF Fitting
<1>3. \E x \in S : \A y \in S : ~(<<y, x>> \in OpToRel(<, Nat))
  BY <1>2, NatLessThanWellFounded, WFMin
<1>4. \E x \in S : \A y \in S : ~(y < x)
  BY <1>2, <1>3 DEF OpToRel
<1>5. \E x \in S : \A y \in S : x <= y
  BY <1>2, <1>4
<1>6. Min(S) \in S
  BY <1>5 DEF Min
<1> QED
  BY <1>1, <1>6

\* A bucket that takes a size of its range keeps to it.
LEMMA InRange ==
  ASSUME NEW c \in Nat, NEW b \in Nat, NEW low \in Nat, NEW high \in Nat, NEW size \in Nat,
         c * low <= b, b <= c * high, low <= size, size <= high
  PROVE  (c + 1) * low <= b + size /\ b + size <= (c + 1) * high
<1>1. (c + 1) * low = c * low + low /\ (c + 1) * high = c * high + high
  OBVIOUS
<1>2. c * low \in Nat /\ c * high \in Nat
  OBVIOUS
<1> QED
  BY <1>1, <1>2

\* What is unrecorded are sizes.
LEMMA UnrecordedType ==
  ASSUME Types
  PROVE  Unrecorded \in [Workers -> Nat] /\ Weigh(Unrecorded, Workers) \in Nat
<1>1. ASSUME NEW w \in Workers
      PROVE  (IF op[w].name = "record" THEN op[w].rec.size ELSE 0) \in Nat
  BY DEF Types, Record
<1>2. Unrecorded \in [Workers -> Nat]
  BY <1>1 DEF Unrecorded
<1> QED
  BY <1>2, WeighType, WorkersAssumption

\* A worker's step changes what it has not recorded only.
LEMMA TurnedUnrecorded ==
  ASSUME Types, Types', NEW w \in Workers, NEW e, op' = [op EXCEPT ![w] = e]
  PROVE  /\ op'[w] = e /\ \A u \in Workers \ {w} : op'[u] = op[u]
         /\ Weigh(Unrecorded, Workers)' =
              Weigh(Unrecorded, Workers)
                + (IF e.name = "record" THEN e.rec.size ELSE 0)
                - (IF op[w].name = "record" THEN op[w].rec.size ELSE 0)
<1>1. op'[w] = e /\ \A u \in Workers \ {w} : op'[u] = op[u]
  BY DEF Types
<1>2. PICK c \in [Workers -> Nat] : c = Unrecorded
  BY UnrecordedType
<1>3. Unrecorded' \in [Workers -> Nat]
  <2>1. ASSUME NEW v \in Workers
        PROVE  (IF op'[v].name = "record" THEN op'[v].rec.size ELSE 0) \in Nat
    BY DEF Types, Record
  <2> QED
    BY <2>1 DEF Unrecorded
<1>4. PICK d \in [Workers -> Nat] : d = Unrecorded'
  BY <1>3
<1>5. \A u \in Workers \ {w} : d[u] = c[u]
  BY <1>1, <1>2, <1>4 DEF Unrecorded
<1>6. Weigh(d, Workers) = Weigh(c, Workers) + d[w] - c[w]
  BY <1>5, WeighChange, WorkersAssumption
<1>7. /\ d[w] = IF e.name = "record" THEN e.rec.size ELSE 0
      /\ c[w] = IF op[w].name = "record" THEN op[w].rec.size ELSE 0
  BY <1>1, <1>2, <1>4 DEF Unrecorded
<1>8. Weigh(Unrecorded, Workers)' = Weigh(d, Workers)
  BY <1>4 DEF Weigh, Units
<1> QED
  BY <1>1, <1>2, <1>6, <1>7, <1>8

\* What record does to the histogram: a size that was asked for is added to one
\* bucket of its range, if it is not zero.
LEMMA RecordAdds ==
  ASSUME hist \in HistType, NEW size \in Nat, \E k \in Kinds : size = k.size,
         hist' = RecordSize(hist, size),
         \A i \in DOMAIN Buckets : /\ hist[i].count * Buckets[i].min <= hist[i].bytes
                                   /\ hist[i].bytes <= hist[i].count * Buckets[i].max
  PROVE  /\ hist' \in HistType
         /\ Weigh(Filled, DOMAIN Buckets)' = Weigh(Filled, DOMAIN Buckets) + size
         /\ \A i \in DOMAIN Buckets : /\ hist'[i].count * Buckets[i].min <= hist'[i].bytes
                                      /\ hist'[i].bytes <= hist'[i].count * Buckets[i].max
<1>1. PICK c \in [DOMAIN Buckets -> Nat] : c = Filled
  BY DEF Filled, HistType
<1>2. Weigh(c, DOMAIN Buckets) \in Nat
  BY BucketsFinite, WeighType
<1>3. CASE Fitting(size) = {}
  <2>1. hist' = hist
    BY <1>3 DEF RecordSize
  <2>2. size = 0
    <3>1. PICK k \in Kinds : size = k.size
      OBVIOUS
    <3>2. ~(k.size > 0)
      BY <1>3, <3>1, BucketsAssumption DEF Fitting
    <3> QED
      BY <3>1, <3>2
  <2>3. Filled' = Filled
    BY <2>1 DEF Filled
  <2> QED
    BY <1>1, <1>2, <2>1, <2>2, <2>3 DEF Weigh, Units
<1>4. CASE Fitting(size) # {}
  <2>1. PICK i : i = Min(Fitting(size))
    OBVIOUS
  <2>2. i \in DOMAIN Buckets /\ Buckets[i].min <= size /\ size <= Buckets[i].max
    BY <1>4, <2>1, FirstFits DEF Fitting
  <2>3. hist' = [hist EXCEPT ![i].count = hist[i].count + 1, ![i].bytes = hist[i].bytes + size]
    BY <1>4, <2>1 DEF RecordSize
  <2>4. /\ hist' \in HistType
        /\ hist'[i].count = hist[i].count + 1 /\ hist'[i].bytes = hist[i].bytes + size
        /\ \A j \in DOMAIN Buckets \ {i} : hist'[j] = hist[j]
    <3>1. PICK o \in [count : Nat, bytes : Nat] : o = hist[i]
      BY <2>2 DEF HistType
    <3>2. o.count + 1 \in Nat /\ o.bytes + size \in Nat
      OBVIOUS
    <3>3. PICK n : n = [count |-> o.count + 1, bytes |-> o.bytes + size]
      OBVIOUS
    <3>4. n \in [count : Nat, bytes : Nat]
      BY <3>2, <3>3
    <3>5. hist' = [hist EXCEPT ![i] = n]
      BY <2>2, <2>3, <3>1, <3>3 DEF HistType
    <3> QED
      BY <2>2, <3>1, <3>3, <3>4, <3>5 DEF HistType
  <2>5. PICK d \in [DOMAIN Buckets -> Nat] : d = Filled'
    BY <2>4 DEF Filled, HistType
  <2>6. d[i] = c[i] + size /\ \A j \in DOMAIN Buckets \ {i} : d[j] = c[j]
    BY <1>1, <2>2, <2>4, <2>5 DEF Filled
  <2>7. Weigh(d, DOMAIN Buckets) = Weigh(c, DOMAIN Buckets) + d[i] - c[i]
    BY <2>2, <2>6, BucketsFinite, WeighChange
  <2>8. Weigh(Filled, DOMAIN Buckets)' = Weigh(d, DOMAIN Buckets)
    BY <2>5 DEF Weigh, Units
  <2>9. /\ hist[i].count \in Nat /\ hist[i].bytes \in Nat
        /\ Buckets[i].min \in Nat /\ Buckets[i].max \in Nat
    BY <2>2, BucketsFinite DEF HistType
  <2>10. /\ hist'[i].count * Buckets[i].min <= hist'[i].bytes
         /\ hist'[i].bytes <= hist'[i].count * Buckets[i].max
    <3>1. PICK n \in Nat, b \in Nat, low \in Nat, high \in Nat :
            n = hist[i].count /\ b = hist[i].bytes /\ low = Buckets[i].min /\ high = Buckets[i].max
      BY <2>9
    <3>2. n * low <= b /\ b <= n * high /\ low <= size /\ size <= high
      BY <2>2, <3>1
    <3>3. (n + 1) * low <= b + size /\ b + size <= (n + 1) * high
      BY <3>2, InRange
    <3> QED
      BY <2>4, <3>1, <3>3
  <2>11. c[i] \in Nat
    BY <2>2
  <2> QED
    BY <1>1, <1>2, <2>4, <2>6, <2>7, <2>8, <2>10, <2>11
<1> QED
  BY <1>3, <1>4

\* Every step keeps the freed bytes in the histogram or on their way.
LEMMA StepFiled == Types /\ Types' /\ Filed /\ [Next]_vars => Filed'
<1> SUFFICES ASSUME Types, Types', Filed, [Next]_vars PROVE Filed'
  OBVIOUS
<1>1. op \in [Workers -> [name : {"idle", "insert", "uncount", "record"}, rec : Record \cup {None}]]
  BY DEF Types
<1>2. /\ \A r \in Live : \E k \in Kinds : r.size = k.size
      /\ \A w \in Workers : op[w].name # "idle" => \E k \in Kinds : op[w].rec.size = k.size
  BY DEF Filed
<1>3. Weigh(Filled, DOMAIN Buckets) \in Nat /\ Weigh(Unrecorded, Workers) \in Nat
  <2>1. Filled \in [DOMAIN Buckets -> Nat]
    BY DEF Filed, Filled, HistType
  <2> QED
    BY <2>1, UnrecordedType, BucketsFinite, WeighType
<1>4. ASSUME hist' = hist PROVE Weigh(Filled, DOMAIN Buckets)' = Weigh(Filled, DOMAIN Buckets)
  BY <1>4 DEF Filled, Weigh, Units
<1>5. ASSUME UNCHANGED <<hist, freed>>, Weigh(Unrecorded, Workers)' = Weigh(Unrecorded, Workers),
             \A r \in Live' : \E k \in Kinds : r.size = k.size,
             \A w \in Workers : op'[w].name # "idle" => \E k \in Kinds : op'[w].rec.size = k.size
      PROVE  Filed'
  BY <1>4, <1>5 DEF Filed
<1>6. ASSUME UNCHANGED app PROVE Filed'
  <2>1. op' = op /\ records' = records /\ hist' = hist /\ freed' = freed
    BY <1>6 DEF app
  <2>2. Live' = Live /\ Weigh(Unrecorded, Workers)' = Weigh(Unrecorded, Workers)
    BY <2>1 DEF Live, Unrecorded, Weigh, Units
  <2> QED
    BY <1>2, <1>5, <2>1, <2>2
<1>7. ASSUME NEW w \in Workers, AllocCount(w) PROVE Filed'
  <2>1. PICK p \in Ptr, k \in Kinds :
          op' = [op EXCEPT ![w] = [name |-> "insert", rec |->
                   [id |-> nextId, ptr |-> p, size |-> k.size, names |-> k.names]]]
    BY <1>7 DEF AllocCount
  <2>2. PICK e : e = [name |-> "insert", rec |->
                   [id |-> nextId, ptr |-> p, size |-> k.size, names |-> k.names]]
    OBVIOUS
  <2>3. op' = [op EXCEPT ![w] = e] /\ e.name = "insert" /\ e.rec.size = k.size
    BY <2>1, <2>2
  <2>4. op[w].name = "idle" /\ UNCHANGED <<records, hist, freed>>
    BY <1>7 DEF AllocCount
  <2>5. op'[w] = e /\ \A u \in Workers \ {w} : op'[u] = op[u]
    BY <2>3, TurnedUnrecorded
  <2>6. Weigh(Unrecorded, Workers)' = Weigh(Unrecorded, Workers) + 0 - 0
    BY <2>3, <2>4, TurnedUnrecorded
  <2>7. Live' = Live
    BY <2>4 DEF Live
  <2> QED
    BY <1>2, <1>3, <1>5, <2>3, <2>4, <2>5, <2>6, <2>7
<1>8. ASSUME NEW w \in Workers, AllocInsert(w) PROVE Filed'
  <2>1. /\ op' = [op EXCEPT ![w] = Idle] /\ op[w].name = "insert"
        /\ records' = [records EXCEPT ![op[w].rec.ptr] = op[w].rec] /\ UNCHANGED <<hist, freed>>
    BY <1>8 DEF AllocInsert
  <2>2. PICK e : e = Idle
    OBVIOUS
  <2>3. op' = [op EXCEPT ![w] = e] /\ e.name = "idle"
    BY <2>1, <2>2 DEF Idle
  <2>4. op'[w] = e /\ \A u \in Workers \ {w} : op'[u] = op[u]
    BY <2>3, TurnedUnrecorded
  <2>5. Weigh(Unrecorded, Workers)' = Weigh(Unrecorded, Workers) + 0 - 0
    BY <2>1, <2>3, TurnedUnrecorded
  <2>6. Live' \subseteq Live \cup {op[w].rec}
    BY <2>1 DEF Types, Live
  <2> QED
    BY <1>2, <1>3, <1>5, <2>1, <2>3, <2>4, <2>5, <2>6
<1>9. ASSUME NEW w \in Workers, FreeErase(w) PROVE Filed'
  <2>1. PICK r \in Live : /\ op' = [op EXCEPT ![w] = [name |-> "uncount", rec |-> r]]
                          /\ records' = [records EXCEPT ![r.ptr] = NoRecord]
    BY <1>9 DEF FreeErase
  <2>2. PICK e : e = [name |-> "uncount", rec |-> r]
    OBVIOUS
  <2>3. op' = [op EXCEPT ![w] = e] /\ e.name = "uncount" /\ e.rec = r
    BY <2>1, <2>2
  <2>4. op[w].name = "idle" /\ UNCHANGED <<hist, freed>>
    BY <1>9 DEF FreeErase
  <2>5. op'[w] = e /\ \A u \in Workers \ {w} : op'[u] = op[u]
    BY <2>3, TurnedUnrecorded
  <2>6. Weigh(Unrecorded, Workers)' = Weigh(Unrecorded, Workers) + 0 - 0
    BY <2>3, <2>4, TurnedUnrecorded
  <2>7. Live' \subseteq Live
    BY <2>1 DEF Types, Live
  <2> QED
    BY <1>2, <1>3, <1>5, <2>3, <2>4, <2>5, <2>6, <2>7
<1>10. ASSUME NEW w \in Workers, FreeUncount(w) PROVE Filed'
  <2>1. op' = [op EXCEPT ![w].name = "record"] /\ op[w].name = "uncount" /\ records' = records
        /\ hist' = hist /\ freed' = freed + op[w].rec.size
    BY <1>10 DEF FreeUncount
  <2>2. PICK e : e = [op[w] EXCEPT !.name = "record"]
    OBVIOUS
  <2>3. op' = [op EXCEPT ![w] = e] /\ e.name = "record" /\ e.rec = op[w].rec
    BY <1>1, <2>1, <2>2
  <2>4. op[w].rec.size \in Nat
    BY <2>1 DEF Types, Record
  <2>5. op'[w] = e /\ \A u \in Workers \ {w} : op'[u] = op[u]
    BY <2>3, TurnedUnrecorded
  <2>6. Weigh(Unrecorded, Workers)' = Weigh(Unrecorded, Workers) + op[w].rec.size - 0
    BY <2>1, <2>3, TurnedUnrecorded
  <2>7. Live' = Live
    BY <2>1 DEF Live
  <2>8. \A u \in Workers : op'[u].name # "idle" => \E k \in Kinds : op'[u].rec.size = k.size
    BY <1>2, <2>1, <2>3, <2>5
  <2>9. freed' \in Nat /\ freed' = Weigh(Filled, DOMAIN Buckets)' + Weigh(Unrecorded, Workers)'
    BY <1>3, <1>4, <2>1, <2>4, <2>6 DEF Filed
  <2> QED
    BY <1>2, <2>1, <2>7, <2>8, <2>9 DEF Filed
<1>11. ASSUME NEW w \in Workers, FreeRecord(w) PROVE Filed'
  <2>1. /\ op' = [op EXCEPT ![w] = Idle] /\ op[w].name = "record" /\ records' = records
        /\ hist' = RecordSize(hist, op[w].rec.size) /\ freed' = freed
    BY <1>11 DEF FreeRecord
  <2>2. PICK e : e = Idle
    OBVIOUS
  <2>3. op' = [op EXCEPT ![w] = e] /\ e.name = "idle"
    BY <2>1, <2>2 DEF Idle
  <2>4. op'[w] = e /\ \A u \in Workers \ {w} : op'[u] = op[u]
    BY <2>3, TurnedUnrecorded
  <2>5. PICK size \in Nat : size = op[w].rec.size
    BY <2>1 DEF Types, Record
  <2>6. Weigh(Unrecorded, Workers)' = Weigh(Unrecorded, Workers) + 0 - size
    BY <2>1, <2>3, <2>5, TurnedUnrecorded
  <2>7. \E k \in Kinds : size = k.size
    BY <1>2, <2>1, <2>5
  <2>8. /\ hist' \in HistType
        /\ Weigh(Filled, DOMAIN Buckets)' = Weigh(Filled, DOMAIN Buckets) + size
        /\ \A i \in DOMAIN Buckets : /\ hist'[i].count * Buckets[i].min <= hist'[i].bytes
                                     /\ hist'[i].bytes <= hist'[i].count * Buckets[i].max
    <3>1. hist' = RecordSize(hist, size)
      BY <2>1, <2>5
    <3>2. /\ hist \in HistType
          /\ \A i \in DOMAIN Buckets : /\ hist[i].count * Buckets[i].min <= hist[i].bytes
                                       /\ hist[i].bytes <= hist[i].count * Buckets[i].max
      BY DEF Filed
    <3> QED
      BY <2>7, <3>1, <3>2, RecordAdds
  <2>9. Live' = Live
    BY <2>1 DEF Live
  <2>10. \A u \in Workers : op'[u].name # "idle" => \E k \in Kinds : op'[u].rec.size = k.size
    BY <1>2, <2>3, <2>4
  <2>11. freed' \in Nat /\ freed' = Weigh(Filled, DOMAIN Buckets)' + Weigh(Unrecorded, Workers)'
    BY <1>3, <2>1, <2>6, <2>8 DEF Filed
  <2> QED
    BY <1>2, <2>8, <2>9, <2>10, <2>11 DEF Filed
<1>12. ASSUME NEW w \in Workers, Suppress(w) \/ ClearSuppressions(w) PROVE Filed'
  <2>1. UNCHANGED app
    BY <1>12 DEF Suppress, ClearSuppressions
  <2> QED
    BY <1>6, <2>1
<1>13. CASE Report \/ Ended \/ UNCHANGED vars
  <2>1. UNCHANGED app
    BY <1>13, ReportLeaves DEF Ended, vars
  <2> QED
    BY <1>6, <2>1
<1> QED
  BY <1>7, <1>8, <1>9, <1>10, <1>11, <1>12, <1>13 DEF Next, Report

\* The histogram is empty at the start.
LEMMA InitFiled == Init => Filed
<1> SUFFICES ASSUME Init PROVE Filed
  OBVIOUS
<1>1. Live = {} /\ \A w \in Workers : op[w].name = "idle"
  BY DEF Init, Live, Idle
<1>2. hist \in HistType /\ \A i \in DOMAIN Buckets : hist[i].count = 0 /\ hist[i].bytes = 0
  BY DEF Init, HistType
<1>3. Filled \in [DOMAIN Buckets -> Nat] /\ \A i \in DOMAIN Buckets : Filled[i] = 0
  BY <1>2 DEF Filled
<1>4. Unrecorded \in [Workers -> Nat] /\ \A w \in Workers : Unrecorded[w] = 0
  BY <1>1 DEF Unrecorded
<1>5. Weigh(Filled, DOMAIN Buckets) = 0 /\ Weigh(Unrecorded, Workers) = 0
  BY <1>3, <1>4, WeighNothing
<1>6. \A i \in DOMAIN Buckets : /\ hist[i].count * Buckets[i].min <= hist[i].bytes
                                /\ hist[i].bytes <= hist[i].count * Buckets[i].max
  BY <1>2, BucketsFinite
<1>7. freed = 0
  BY DEF Init
<1> QED
  BY <1>1, <1>2, <1>5, <1>6, <1>7 DEF Filed

\* With nothing unrecorded the buckets hold all that was freed.
LEMMA FiledAccounts ==
  ASSUME Types, Filed
  PROVE  HistogramAccounts
<1> SUFFICES ASSUME \A w \in Workers : op[w].name # "record"
             PROVE  MapThenSumSet(LAMBDA i : hist[i].bytes, DOMAIN Buckets) = freed
  BY DEF HistogramAccounts, Filed
<1>1. Unrecorded \in [Workers -> Nat] /\ \A w \in Workers : Unrecorded[w] = 0
  BY UnrecordedType DEF Unrecorded
<1>2. Weigh(Unrecorded, Workers) = 0
  BY <1>1, WeighNothing
<1>3. Filled \in [DOMAIN Buckets -> Nat]
  BY DEF Filed, Filled, HistType
<1>4. Weigh(Filled, DOMAIN Buckets) \in Nat
  BY <1>3, BucketsFinite, WeighType
<1>5. MapThenSumSet(LAMBDA i : hist[i].bytes, DOMAIN Buckets) = Weigh(Filled, DOMAIN Buckets)
  BY HistogramIs, BucketsFinite DEF Filed, HistType
<1> QED
  BY <1>2, <1>4, <1>5 DEF Filed

-----------------------------------------------------------------------------
(* The theorems.                                                           *)

Inv == Types /\ Fresh /\ Diff /\ Owed /\ Agreed

\* At the start nothing is tracked, listed or owed.
LEMMA InitInv == Init => Inv
<1> SUFFICES ASSUME Init PROVE Inv
  OBVIOUS
<1>1. Live = {}
  BY DEF Init, Live
<1>2. job = NoJob /\ NoJob.kind = "none" /\ NoJob.list = {} /\ status = "running"
  BY DEF Init, NoJob
<1>3. \A s \in Snapshots : ~snaps[s].taken /\ snaps[s].list = {}
  BY DEF Init, NoSnap
<1>4. Types
  <2>1. NoJob \in JobType
    BY NoJobType
  <2>2. NoSnap \in SnapType
    BY DEF NoSnap, SnapType
  <2>3. op \in [Workers -> [name : {"idle", "insert", "uncount", "record"}, rec : Record \cup {None}]]
    BY DEF Init, Idle
  <2>4. \A w \in Workers : op[w].name = "idle"
    BY DEF Init, Idle
  <2> QED
    BY <1>1, <2>1, <2>2, <2>3, <2>4 DEF Init, Types
<1>5. Fresh
  <2>1. \A w \in Workers : ~Inserting(w)
    BY DEF Init, Idle, Inserting
  <2> QED
    BY <1>1, <1>2, <1>3, <2>1 DEF Fresh, Listed, Snapshots
<1>6. Diff /\ Owed /\ Agreed
  BY <1>2, <1>3 DEF Diff, Owed, Agreed, Compared, Running, Snapshots
<1> QED
  BY <1>4, <1>5, <1>6 DEF Inv

\* Every step keeps the invariant.
LEMMA StepInv == Inv /\ [Next]_vars => Inv'
<1> SUFFICES ASSUME Inv, [Next]_vars PROVE Inv'
  OBVIOUS
<1>1. ASSUME NEW w \in Workers, Worker(w) PROVE Inv'
  <2>1. Types' /\ Fresh' /\ Diff' /\ Owed'
    BY <1>1, WorkerTypes, WorkerFresh, WorkerDiff, WorkerOwed DEF Inv
  <2>2. calm' = FALSE
    BY <1>1, WorkerEffect DEF Inv
  <2> QED
    BY <2>1, <2>2 DEF Inv, Agreed
<1>2. CASE Report
  BY <1>2, ReportTypes, ReportFresh, ReportDiff, ReportOwed, ReportAgreed DEF Inv
<1>3. CASE UNCHANGED vars
  <2>1. UNCHANGED <<records, count, bytes, op, nextId, rules, job, snaps, printed, status, since, calm,
                    everSuppressed>>
    BY <1>3 DEF vars, app, reports, history
  <2>2. Types' /\ Fresh'
    BY <2>1 DEF Inv, Types, Fresh, Live, Listed, Inserting
  <2>3. Diff' /\ Owed' /\ Agreed'
    BY <2>1 DEF Inv, Diff, Owed, Agreed, Live, Past, Compared, Leaks, Unsuppressed, Suppressed, Running
  <2> QED
    BY <2>2, <2>3 DEF Inv
<1> QED
  BY <1>1, <1>2, <1>3 DEF Next, Worker, Report, Ended

\* The invariant holds throughout.
LEMMA Invariance == Spec => []Inv
  BY InitInv, StepInv, PTL DEF Spec

\* The tracker, the reports and the rules keep their types.
THEOREM TypeCorrect == Spec => []TypeOK
<1>1. Inv => TypeOK
  BY DEF Inv, Types, TypeOK, JobType
<1> QED
  BY <1>1, Invariance, PTL

\* compare_snapshots calls nothing freed that is still tracked, and calls
\* persistent whatever was tracked from the first snapshot to the second, for
\* every number of shards and any interleaving of allocations and frees with
\* the two listings (snapshot.cpp:20-41, sharded_tracker.hpp:80-92).
THEOREM DifferenceTruthful == Spec => []DiffTruthful
<1>1. Inv => DiffTruthful
  <2> SUFFICES ASSUME Inv, Compared PROVE since["diff"] \subseteq Persistent /\ Freed \cap Live = {}
    BY DEF DiffTruthful
  <2>1. /\ since["diff"] \subseteq snaps["before"].list /\ since["diff"] \subseteq Live
        /\ snaps["before"].list \cap Live \subseteq snaps["after"].list
    BY DEF Inv, Diff, Types, Compared
  <2>2. snaps["before"].list \cap Live \subseteq Persistent
    BY <2>1 DEF Persistent, Same, Ids
  <2> QED
    BY <2>1, <2>2 DEF Freed, Ids
<1> QED
  BY <1>1, Invariance, PTL

\* A block that is tracked from the moment the process exits and that no rule
\* covers is printed and fails the process, whatever other threads allocate,
\* free or suppress meanwhile (memsentry.cpp:382-391, 405-421, 477-486).
THEOREM EveryLeakReported == Spec => []LeaksReported
<1>1. Inv => LeaksReported
  BY DEF Inv, Owed, Leaks, LeaksReported
<1> QED
  BY <1>1, Invariance, PTL

\* The exit status and the printed report tell the same when the application
\* stands still, though they come from two listings (memsentry.cpp:482-483).
THEOREM ReportAgreesWithStatus == Spec => []ReportMatchesStatus
<1>1. Inv => ReportMatchesStatus
  BY DEF Inv, Agreed, ReportMatchesStatus
<1> QED
  BY <1>1, Invariance, PTL

Books == Ledger /\ Distinct /\ Undisturbed /\ Filed

\* At the start there is nothing to account for.
LEMMA InitBooks == Init => Books
<1> SUFFICES ASSUME Init PROVE Books
  OBVIOUS
<1>1. Known = {}
  BY DEF Init, Known, Live, Listed, NoJob, NoSnap, Idle, Snapshots
<1>2. Distinct
  BY <1>1 DEF Distinct
<1>3. Undisturbed
  BY DEF Init, Undisturbed, NoJob, NoSnap, Snapshots
<1> QED
  BY <1>2, <1>3, InitLedger, InitFiled DEF Books

\* The books are kept throughout.
LEMMA BooksKept == Spec => []Books
<1>1. Inv /\ Inv' /\ Books /\ [Next]_vars => Books'
  BY StepLedger, StepDistinct, StepUndisturbed, StepFiled DEF Inv, Books
<1> QED
  BY <1>1, InitBooks, Invariance, PTL DEF Spec

\* When no allocation or free overlaps the snapshots, the counters of the two
\* differ by what their lists differ by: the listings of any number of shards
\* then see exactly the records that were counted (snapshot.cpp:15-41).
THEOREM DeltasAlwaysAgree == Spec => []DeltasAgree
<1>1. Inv /\ Books => DeltasAgree
  BY DeltasFollow DEF Inv, Books
<1> QED
  BY <1>1, Invariance, BooksKept, PTL

\* Once no free is between its two updates the histogram holds all freed bytes,
\* for any buckets that leave out no size but zero, and no bucket holds more or
\* less than sizes of its range can make up (histogram.hpp:34-42,
\* memsentry.cpp:309-310).
THEOREM HistogramAlwaysAccounts == Spec => []HistogramAccounts
<1>1. Inv /\ Books => HistogramAccounts
  BY FiledAccounts DEF Inv, Books
<1> QED
  BY <1>1, Invariance, BooksKept, PTL

=============================================================================
