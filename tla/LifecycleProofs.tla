--------------------------- MODULE LifecycleProofs ---------------------------
(***************************************************************************)
(* The end of the process for every set of configurations, tags, static    *)
(* objects and exit statuses, and every bound on what the program does     *)
(* before.                                                                 *)
(*                                                                         *)
(* Everything rests on the order of the exit functions: an entry that lies *)
(* above another was registered after it.  So a static object whose block  *)
(* is listed lies below the report that lists it, and an engine that is    *)
(* destroyed before a report lay above it; the eras of the entries, which  *)
(* are the numbers of starts before them, tell the order.                  *)
(***************************************************************************)
EXTENDS Lifecycle, FiniteSetTheorems, TLAPS

USE LifecycleAssumption

EntryType == [kind : {"report", "engine", "static", "shutdown"},
              who : Statics \cup {NoOwner} \cup Nat]

BlockType == [tag : Tags, owner : Statics \cup {NoOwner}, era : Nat]

ReportType == [listed : SUBSET BlockType, rules : SUBSET Tags, era : Nat]

Types ==
  /\ initialized \in BOOLEAN
  /\ config \in ConfigType
  /\ engine \in {"unborn", "live", "destroyed"}
  /\ rules \in SUBSET Tags
  /\ blocks \in SUBSET BlockType
  /\ exitStack \in Seq(EntryType)
  /\ phase \in {"running", "exiting", "ended"}
  /\ status \in Nat
  /\ reports \in Seq(ReportType)
  /\ starts \in Nat /\ asked \in Nat /\ builtAt \in Nat

\* Reports carry the number of their start; none is of a start to come.
ErasIn(stack, now) ==
  \A i \in DOMAIN stack : stack[i].kind = "report" => stack[i].who \in Nat /\ stack[i].who <= now

\* The block of a static object has its destructor to come, and the reports
\* above the destructor were registered by later starts.
StaticsIn(stack, bs, now) ==
  \A b \in bs :
    /\ b.era <= now
    /\ b.owner # NoOwner =>
         \E i \in DOMAIN stack :
           /\ stack[i].kind = "static" /\ stack[i].who = b.owner
           /\ \A j \in DOMAIN stack : j > i /\ stack[j].kind = "report" => b.era < stack[j].who

\* There is one destructor of the engine at most.  The reports below it, or
\* left when it has run, were registered before the engine was constructed.
EnginesIn(stack, eng, built) ==
  /\ \A i, j \in DOMAIN stack :
       i < j /\ stack[i].kind = "report" /\ stack[j].kind = "engine" => stack[i].who <= built
  /\ eng = "destroyed" => \A i \in DOMAIN stack : stack[i].kind = "report" => stack[i].who <= built
  /\ eng # "live" => \A i \in DOMAIN stack : stack[i].kind # "engine"
  /\ \A i, j \in DOMAIN stack : stack[i].kind = "engine" /\ stack[j].kind = "engine" => i = j

StackInv ==
  /\ ErasIn(exitStack, starts)
  /\ StaticsIn(exitStack, blocks, starts)
  /\ EnginesIn(exitStack, engine, builtAt)
  /\ builtAt <= starts

EngineInv ==
  /\ engine = "destroyed" => phase # "running"
  /\ engine = "unborn" => rules = {} /\ \A i \in DOMAIN reports : reports[i].rules = {}

\* The reports that exit will still run.
Pending(stack) == Cardinality({i \in DOMAIN stack : stack[i].kind = "report"})

CountInv ==
  /\ phase = "running" => reports = <<>> /\ Pending(exitStack) = asked
  /\ phase # "running" /\ initialized =>
       IF config.auto_report_on_exit THEN Len(reports) + Pending(exitStack) = asked
       ELSE Len(reports) = 0
  /\ phase = "ended" => exitStack = <<>>

\* Every report either had no rules or ran before the engine was destroyed.
Trusted == \A i \in DOMAIN reports : reports[i].rules = {} \/ builtAt < reports[i].era

StatusInv ==
  phase # "running" /\ Trusted =>
    (status = 1 <=> config.exit_with_code_on_leak /\ \E i \in DOMAIN reports : reports[i].listed # {})

IInv == Types /\ StackInv /\ EngineInv /\ CountInv /\ StatusInv /\ ListedRightly

-----------------------------------------------------------------------------
(* The stack of exit functions.                                            *)

\* Front and Last take a sequence apart.
LEMMA Popped ==
  ASSUME NEW s \in Seq(EntryType), s # <<>>
  PROVE  /\ Front(s) \in Seq(EntryType)
         /\ Len(s) \in Nat /\ Len(s) >= 1 /\ DOMAIN s = 1 .. Len(s)
         /\ DOMAIN Front(s) = 1 .. Len(s) - 1
         /\ \A i \in 1 .. Len(s) - 1 : Front(s)[i] = s[i]
         /\ Last(s) = s[Len(s)] /\ Last(s) \in EntryType
<1>1. Len(s) \in Nat /\ Len(s) >= 1 /\ DOMAIN s = 1 .. Len(s) /\ s[Len(s)] \in EntryType
  OBVIOUS
<1>2. Front(s) = [i \in 1 .. Len(s) - 1 |-> s[i]]
  BY DEF Front
<1>3. Front(s) \in Seq(EntryType)
  BY <1>1, <1>2
<1> QED
  BY <1>1, <1>2, <1>3 DEF Last

\* A push adds an entry on top and leaves the others.
LEMMA Pushed ==
  ASSUME NEW s \in Seq(EntryType), NEW e \in EntryType
  PROVE  /\ Append(s, e) \in Seq(EntryType)
         /\ Len(s) \in Nat /\ DOMAIN s = 1 .. Len(s)
         /\ DOMAIN Append(s, e) = 1 .. Len(s) + 1
         /\ \A i \in 1 .. Len(s) : Append(s, e)[i] = s[i]
         /\ Append(s, e)[Len(s) + 1] = e
  OBVIOUS

\* The entries of one kind are finitely many.
LEMMA PendingFinite ==
  ASSUME NEW s \in Seq(EntryType)
  PROVE  IsFiniteSet({i \in DOMAIN s : s[i].kind = "report"})
<1>1. 1 \in Int /\ Len(s) \in Int /\ DOMAIN s = 1 .. Len(s)
  OBVIOUS
<1>2. IsFiniteSet(1 .. Len(s))
  BY <1>1, FS_Interval
<1>3. IsFiniteSet(DOMAIN s)
  BY <1>1, <1>2
<1> QED
  BY <1>3, FS_Subset

\* The pending reports are counted up and down with the stack.
LEMMA PendingType ==
  ASSUME NEW s \in Seq(EntryType)
  PROVE  Pending(s) \in Nat
  BY PendingFinite, FS_CardinalityType DEF Pending

\* A pop counts down when it takes a report off ...
LEMMA PendingPop ==
  ASSUME NEW s \in Seq(EntryType), s # <<>>
  PROVE  Pending(Front(s)) = IF Last(s).kind = "report" THEN Pending(s) - 1 ELSE Pending(s)
<1> DEFINE P == {i \in DOMAIN s : s[i].kind = "report"}
           Q == {i \in DOMAIN Front(s) : Front(s)[i].kind = "report"}
           n == Len(s)
<1>1. /\ n \in Nat /\ n >= 1 /\ DOMAIN s = 1 .. n /\ DOMAIN Front(s) = 1 .. n - 1
      /\ \A i \in 1 .. n - 1 : Front(s)[i] = s[i]
      /\ Last(s) = s[n]
  BY Popped
<1>2. IsFiniteSet(P)
  BY PendingFinite
<1>3. Q = P \ {n}
  BY <1>1
<1>4. Cardinality(P) \in Nat
  BY <1>2, FS_CardinalityType
<1>5. n \in P <=> Last(s).kind = "report"
  BY <1>1
<1>6. Cardinality(P \ {n}) = IF n \in P THEN Cardinality(P) - 1 ELSE Cardinality(P)
  BY <1>2, FS_RemoveElement
<1> QED
  BY <1>3, <1>5, <1>6 DEF Pending

\* ... and a push counts up when it puts one on.
LEMMA PendingPush ==
  ASSUME NEW s \in Seq(EntryType), NEW e \in EntryType
  PROVE  Pending(Append(s, e)) = IF e.kind = "report" THEN Pending(s) + 1 ELSE Pending(s)
<1> DEFINE P == {i \in DOMAIN s : s[i].kind = "report"}
           Q == {i \in DOMAIN Append(s, e) : Append(s, e)[i].kind = "report"}
           n == Len(s) + 1
<1>1. /\ Len(s) \in Nat /\ DOMAIN s = 1 .. Len(s) /\ DOMAIN Append(s, e) = 1 .. Len(s) + 1
      /\ \A i \in 1 .. Len(s) : Append(s, e)[i] = s[i]
      /\ Append(s, e)[Len(s) + 1] = e
  BY Pushed
<1>2. IsFiniteSet(P) /\ n \notin P
  BY <1>1, PendingFinite
<1>3. Q = IF e.kind = "report" THEN P \cup {n} ELSE P
  BY <1>1
<1>4. Cardinality(P \cup {n}) = Cardinality(P) + 1
  BY <1>2, FS_AddElement
<1> QED
  BY <1>3, <1>4 DEF Pending

\* Running the entry on top keeps the order of the others.
LEMMA StackPop ==
  ASSUME NEW s \in Seq(EntryType), s # <<>>, NEW bs \in SUBSET BlockType,
         NEW now \in Nat, NEW built \in Nat, NEW eng,
         ErasIn(s, now), StaticsIn(s, bs, now), EnginesIn(s, eng, built)
  PROVE  /\ ErasIn(Front(s), now)
         /\ Last(s).kind # "static" => StaticsIn(Front(s), bs, now)
         /\ Last(s).kind = "static" =>
              StaticsIn(Front(s), {b \in bs : b.owner # Last(s).who}, now)
         /\ EnginesIn(Front(s), eng, built)
         /\ Last(s).kind = "engine" => EnginesIn(Front(s), "destroyed", built)
<1> DEFINE n == Len(s)
           r == Front(s)
<1>1. /\ n \in Nat /\ n >= 1 /\ DOMAIN s = 1 .. n /\ DOMAIN r = 1 .. n - 1
      /\ \A i \in 1 .. n - 1 : r[i] = s[i]
      /\ Last(s) = s[n]
  BY Popped
<1> HIDE DEF n, r
<1>2. \A i \in DOMAIN r : i \in DOMAIN s /\ r[i] = s[i] /\ i < n
  BY <1>1
<1>3. ErasIn(r, now)
  BY <1>2 DEF ErasIn
<1>4. ASSUME NEW b \in bs, b.owner # NoOwner, Last(s).kind = "static" => b.owner # Last(s).who
      PROVE  \E i \in DOMAIN r :
               /\ r[i].kind = "static" /\ r[i].who = b.owner
               /\ \A j \in DOMAIN r : j > i /\ r[j].kind = "report" => b.era < r[j].who
  <2>1. PICK i \in DOMAIN s :
          /\ s[i].kind = "static" /\ s[i].who = b.owner
          /\ \A j \in DOMAIN s : j > i /\ s[j].kind = "report" => b.era < s[j].who
    BY <1>4 DEF StaticsIn
  <2>2. i # n
    BY <1>1, <1>4, <2>1
  <2>3. i \in DOMAIN r
    BY <1>1, <2>1, <2>2
  <2> QED
    BY <1>2, <2>1, <2>3
<1>5. Last(s).kind # "static" => StaticsIn(r, bs, now)
  BY <1>4 DEF StaticsIn
<1>6. Last(s).kind = "static" => StaticsIn(r, {b \in bs : b.owner # Last(s).who}, now)
  BY <1>4 DEF StaticsIn
<1>7. EnginesIn(r, eng, built)
  BY <1>2 DEF EnginesIn
<1>8. ASSUME Last(s).kind = "engine" PROVE EnginesIn(r, "destroyed", built)
  <2>1. \A i \in DOMAIN r : r[i].kind = "report" => r[i].who <= built
    BY <1>1, <1>2, <1>8 DEF EnginesIn
  <2>2. \A i \in DOMAIN r : r[i].kind # "engine"
    BY <1>1, <1>2, <1>8 DEF EnginesIn
  <2> QED
    BY <1>2, <2>1, <2>2 DEF EnginesIn
<1> QED
  BY <1>3, <1>5, <1>6, <1>7, <1>8 DEF r

\* Registering a destructor or shutdown puts no report above anything.
LEMMA StackPush ==
  ASSUME NEW s \in Seq(EntryType), NEW e \in EntryType, NEW bs \in SUBSET BlockType,
         NEW now \in Nat, NEW built \in Nat, NEW eng, e.kind # "report",
         ErasIn(s, now), StaticsIn(s, bs, now), EnginesIn(s, eng, built)
  PROVE  /\ ErasIn(Append(s, e), now)
         /\ StaticsIn(Append(s, e), bs, now)
         /\ e.kind # "engine" => EnginesIn(Append(s, e), eng, built)
<1> DEFINE r == Append(s, e)
           n == Len(s)
<1>1. /\ n \in Nat /\ DOMAIN s = 1 .. n /\ DOMAIN r = 1 .. n + 1
      /\ \A i \in 1 .. n : r[i] = s[i]
      /\ r[n + 1] = e
  BY Pushed
<1> HIDE DEF r, n
<1>2. /\ \A i \in DOMAIN s : i \in DOMAIN r /\ r[i] = s[i]
      /\ \A i \in DOMAIN r : i \in DOMAIN s \/ (i = n + 1 /\ r[i] = e)
  BY <1>1
<1>3. ErasIn(r, now)
  BY <1>2 DEF ErasIn
<1>4. StaticsIn(r, bs, now)
  <2> SUFFICES ASSUME NEW b \in bs, b.owner # NoOwner
               PROVE  \E i \in DOMAIN r :
                        /\ r[i].kind = "static" /\ r[i].who = b.owner
                        /\ \A j \in DOMAIN r : j > i /\ r[j].kind = "report" => b.era < r[j].who
    BY DEF StaticsIn
  <2>1. PICK i \in DOMAIN s :
          /\ s[i].kind = "static" /\ s[i].who = b.owner
          /\ \A j \in DOMAIN s : j > i /\ s[j].kind = "report" => b.era < s[j].who
    BY DEF StaticsIn
  <2> QED
    BY <1>2, <2>1
<1>5. e.kind # "engine" => EnginesIn(r, eng, built)
  BY <1>2 DEF EnginesIn
<1> QED
  BY <1>3, <1>4, <1>5 DEF r

\* A report is registered by a start later than all before it.
LEMMA StackPushReport ==
  ASSUME NEW s \in Seq(EntryType), NEW bs \in SUBSET BlockType,
         NEW now \in Nat, NEW built \in Nat, NEW eng \in {"unborn", "live"},
         ErasIn(s, now), StaticsIn(s, bs, now), EnginesIn(s, eng, built)
  PROVE  LET r == Append(s, Entry("report", now + 1))
         IN  /\ ErasIn(r, now + 1)
             /\ StaticsIn(r, bs, now + 1)
             /\ EnginesIn(r, eng, built)
             /\ r \in Seq(EntryType)
<1> DEFINE e == Entry("report", now + 1)
           r == Append(s, e)
           n == Len(s)
<1>1. e \in EntryType /\ e.kind = "report" /\ e.who = now + 1
  BY DEF Entry, EntryType
<1>2. /\ n \in Nat /\ DOMAIN s = 1 .. n /\ DOMAIN r = 1 .. n + 1
      /\ \A i \in 1 .. n : r[i] = s[i]
      /\ r[n + 1] = e
      /\ r \in Seq(EntryType)
  BY <1>1, Pushed
<1> HIDE DEF r, n, e
<1>3. /\ \A i \in DOMAIN s : i \in DOMAIN r /\ r[i] = s[i]
      /\ \A i \in DOMAIN r : i \in DOMAIN s \/ (i = n + 1 /\ r[i] = e)
  BY <1>2
<1>4. ErasIn(r, now + 1)
  BY <1>1, <1>3 DEF ErasIn
<1>5. StaticsIn(r, bs, now + 1)
  <2>1. \A b \in bs : b.era \in Nat /\ b.era <= now
    BY DEF StaticsIn, BlockType
  <2>2. ASSUME NEW b \in bs, b.owner # NoOwner
        PROVE  \E i \in DOMAIN r :
                 /\ r[i].kind = "static" /\ r[i].who = b.owner
                 /\ \A j \in DOMAIN r : j > i /\ r[j].kind = "report" => b.era < r[j].who
    <3>1. PICK i \in DOMAIN s :
            /\ s[i].kind = "static" /\ s[i].who = b.owner
            /\ \A j \in DOMAIN s : j > i /\ s[j].kind = "report" => b.era < s[j].who
      BY <2>2 DEF StaticsIn
    <3>2. b.era < now + 1
      BY <2>1
    <3> QED
      BY <1>1, <1>3, <3>1, <3>2
  <2> QED
    BY <2>1, <2>2 DEF StaticsIn
<1>6. EnginesIn(r, eng, built)
  <2>1. \A i, j \in DOMAIN r :
          i < j /\ r[i].kind = "report" /\ r[j].kind = "engine" => r[i].who <= built
    BY <1>1, <1>2, <1>3 DEF EnginesIn
  <2> QED
    BY <1>1, <1>3, <2>1 DEF EnginesIn
<1> QED
  BY <1>2, <1>4, <1>5, <1>6 DEF r, e

\* The engine's destructor is registered above all reports there are.
LEMMA StackPushEngine ==
  ASSUME NEW s \in Seq(EntryType), NEW bs \in SUBSET BlockType,
         NEW now \in Nat, NEW built \in Nat,
         ErasIn(s, now), StaticsIn(s, bs, now), EnginesIn(s, "unborn", built)
  PROVE  LET r == Append(s, Entry("engine", NoOwner))
         IN  /\ ErasIn(r, now)
             /\ StaticsIn(r, bs, now)
             /\ EnginesIn(r, "live", now)
             /\ r \in Seq(EntryType)
             /\ Pending(r) = Pending(s)
<1> DEFINE e == Entry("engine", NoOwner)
           r == Append(s, e)
           n == Len(s)
<1>1. e \in EntryType /\ e.kind = "engine"
  BY DEF Entry, EntryType
<1>2. /\ n \in Nat /\ DOMAIN s = 1 .. n /\ DOMAIN r = 1 .. n + 1
      /\ \A i \in 1 .. n : r[i] = s[i]
      /\ r[n + 1] = e
      /\ r \in Seq(EntryType)
  BY <1>1, Pushed
<1>3. ErasIn(r, now) /\ StaticsIn(r, bs, now) /\ Pending(r) = Pending(s)
  BY <1>1, StackPush, PendingPush
<1> HIDE DEF r, n, e
<1>4. \A i \in DOMAIN r : (i \in DOMAIN s /\ r[i] = s[i]) \/ (i = n + 1 /\ r[i] = e)
  BY <1>2
<1>5. EnginesIn(r, "live", now)
  <2>1. \A i \in DOMAIN r : r[i].kind = "report" => r[i].who <= now
    BY <1>3 DEF ErasIn
  <2>2. \A i \in DOMAIN r : r[i].kind = "engine" => i = n + 1
    BY <1>1, <1>4 DEF EnginesIn
  <2> QED
    BY <2>1, <2>2 DEF EnginesIn
<1> QED
  BY <1>2, <1>3, <1>5 DEF r, e

\* The block of a static object is new when its destructor is registered.
LEMMA StackPushStatic ==
  ASSUME NEW s \in Seq(EntryType), NEW bs \in SUBSET BlockType, NEW o \in Statics, NEW tag \in Tags,
         NEW now \in Nat, StaticsIn(s, bs, now)
  PROVE  StaticsIn(Append(s, Entry("static", o)),
                   bs \cup {[tag |-> tag, owner |-> o, era |-> now]}, now)
<1> DEFINE e == Entry("static", o)
           r == Append(s, e)
           n == Len(s)
           new == [tag |-> tag, owner |-> o, era |-> now]
<1>1. e \in EntryType /\ e.kind = "static" /\ e.who = o
  BY DEF Entry, EntryType
<1>2. /\ n \in Nat /\ DOMAIN s = 1 .. n /\ DOMAIN r = 1 .. n + 1
      /\ \A i \in 1 .. n : r[i] = s[i]
      /\ r[n + 1] = e
  BY <1>1, Pushed
<1> HIDE DEF r, n, e
<1>3. \A j \in DOMAIN r : ~(j > n + 1)
  BY <1>2
<1>4. n + 1 \in DOMAIN r /\ r[n + 1].kind = "static" /\ r[n + 1].who = o
  BY <1>1, <1>2
<1>5. /\ \A i \in DOMAIN s : i \in DOMAIN r /\ r[i] = s[i]
      /\ \A i \in DOMAIN r : i \in DOMAIN s \/ (i = n + 1 /\ r[i] = e)
  BY <1>2
<1>6. ASSUME NEW b \in bs, b.owner # NoOwner
      PROVE  \E i \in DOMAIN r :
               /\ r[i].kind = "static" /\ r[i].who = b.owner
               /\ \A j \in DOMAIN r : j > i /\ r[j].kind = "report" => b.era < r[j].who
  <2>1. PICK i \in DOMAIN s :
          /\ s[i].kind = "static" /\ s[i].who = b.owner
          /\ \A j \in DOMAIN s : j > i /\ s[j].kind = "report" => b.era < s[j].who
    BY <1>6 DEF StaticsIn
  <2> QED
    BY <1>1, <1>5, <2>1
<1>7. new.owner = o /\ new.era = now
  OBVIOUS
<1> HIDE DEF new
<1>8. StaticsIn(r, bs \cup {new}, now)
  BY <1>3, <1>4, <1>6, <1>7 DEF StaticsIn
<1> QED
  BY <1>8 DEF r, e, new

\* A start without a report only lets time pass.
LEMMA StackLater ==
  ASSUME NEW s \in Seq(EntryType), NEW bs \in SUBSET BlockType, NEW now \in Nat,
         ErasIn(s, now), StaticsIn(s, bs, now)
  PROVE  ErasIn(s, now + 1) /\ StaticsIn(s, bs, now + 1)
<1>1. \A b \in bs : b.era \in Nat
  BY DEF BlockType
<1> QED
  BY <1>1 DEF ErasIn, StaticsIn

-----------------------------------------------------------------------------
(* While the program runs.                                                 *)

\* A process that starts has nothing registered.
LEMMA InitInv == Init => IInv
<1> SUFFICES ASSUME Init PROVE IInv
  OBVIOUS
<1>1. Types
  <2>1. config \in ConfigType /\ initialized \in BOOLEAN
    BY DEF Init, ConfigType
  <2>2. exitStack \in Seq(EntryType) /\ reports \in Seq(ReportType)
    BY DEF Init
  <2> QED
    BY <2>1, <2>2 DEF Init, Types
<1>2. StackInv /\ EngineInv
  BY DEF Init, StackInv, ErasIn, StaticsIn, EnginesIn, EngineInv
<1>3. Pending(<<>>) = 0
  BY FS_EmptySet DEF Pending
<1>4. CountInv /\ StatusInv /\ ListedRightly
  BY <1>3 DEF Init, CountInv, StatusInv, ListedRightly
<1> QED
  BY <1>1, <1>2, <1>4 DEF IInv

\* Before the exit nothing is reported.
LEMMA Unreported ==
  ASSUME IInv, phase = "running", phase' = "running", reports' = reports
  PROVE  StatusInv' /\ ListedRightly' /\ reports' = <<>>
  BY DEF IInv, CountInv, StatusInv, ListedRightly

\* Calls of the engine, the first of which constructs it
\* (suppression_engine.hpp:17-20).
LEMMA EngineKeeps ==
  ASSUME Types, StackInv, NEW s \in Seq(EntryType), NEW bs \in SUBSET BlockType,
         ErasIn(s, starts), StaticsIn(s, bs, starts), EnginesIn(s, engine, builtAt),
         Engine(s), starts' = starts, blocks' = bs
  PROVE  /\ StackInv'
         /\ exitStack' \in Seq(EntryType)
         /\ engine' \in {"live", "destroyed"} /\ builtAt' \in Nat
         /\ engine = "unborn" => engine' = "live"
         /\ engine # "unborn" => UNCHANGED <<engine, builtAt>>
         /\ Pending(exitStack') = Pending(s)
<1>1. CASE engine = "unborn"
  <2>1. engine' = "live" /\ builtAt' = starts /\ exitStack' = Append(s, Entry("engine", NoOwner))
    BY <1>1 DEF Engine
  <2>2. starts \in Nat /\ builtAt \in Nat
    BY DEF Types
  <2>3. /\ ErasIn(exitStack', starts) /\ StaticsIn(exitStack', bs, starts)
        /\ EnginesIn(exitStack', "live", starts)
        /\ exitStack' \in Seq(EntryType) /\ Pending(exitStack') = Pending(s)
    BY <1>1, <2>1, <2>2, StackPushEngine
  <2> QED
    BY <1>1, <2>1, <2>2, <2>3 DEF StackInv
<1>2. CASE engine # "unborn"
  BY <1>2 DEF Engine, Types, StackInv
<1> QED
  BY <1>1, <1>2

\* init (memsentry.cpp:165-187).
LEMMA InitializeKeeps ==
  ASSUME IInv, NEW c \in Configs, Initialize(c)
  PROVE  IInv'
<1>1. /\ phase = "running" /\ config' = c /\ initialized' = TRUE
      /\ UNCHANGED <<engine, rules, builtAt, blocks, phase, status, reports>>
  BY DEF Initialize, suppression, process
<1>2. /\ exitStack \in Seq(EntryType) /\ starts \in Nat /\ asked \in Nat /\ builtAt \in Nat
      /\ blocks \in SUBSET BlockType
  BY DEF IInv, Types
<1>3. StatusInv' /\ ListedRightly' /\ reports' = <<>> /\ EngineInv'
  BY <1>1, Unreported DEF IInv, EngineInv
<1>4. engine \in {"unborn", "live"}
  BY <1>1 DEF IInv, Types, EngineInv
<1>5. /\ exitStack' \in Seq(EntryType) /\ starts' \in Nat /\ asked' \in Nat
      /\ StackInv' /\ Pending(exitStack') = asked'
  <2>1. CASE initialized
    <3>1. UNCHANGED <<starts, asked, exitStack>>
      BY <2>1 DEF Initialize, Register
    <3> QED
      BY <1>1, <1>2, <3>1 DEF IInv, StackInv, CountInv
  <2>2. CASE ~initialized /\ ~c.auto_report_on_exit
    <3>1. starts' = starts + 1 /\ UNCHANGED <<asked, exitStack>>
      BY <2>2 DEF Initialize, Register
    <3>2. ErasIn(exitStack, starts + 1) /\ StaticsIn(exitStack, blocks, starts + 1)
      BY <1>2, StackLater DEF IInv, StackInv
    <3>3. builtAt <= starts + 1
      BY <1>2 DEF IInv, StackInv
    <3> QED
      BY <1>1, <1>2, <3>1, <3>2, <3>3 DEF IInv, StackInv, CountInv
  <2>3. CASE ~initialized /\ c.auto_report_on_exit
    <3> DEFINE r == Append(exitStack, Entry("report", starts + 1))
    <3>1. starts' = starts + 1 /\ asked' = asked + 1 /\ exitStack' = r
      BY <2>3 DEF Initialize, Register
    <3>2. /\ ErasIn(r, starts + 1) /\ StaticsIn(r, blocks, starts + 1)
          /\ EnginesIn(r, engine, builtAt) /\ r \in Seq(EntryType)
      BY <1>2, <1>4, StackPushReport DEF IInv, StackInv
    <3>3. Entry("report", starts + 1) \in EntryType /\ Entry("report", starts + 1).kind = "report"
      BY <1>2 DEF Entry, EntryType
    <3>4. Pending(r) = Pending(exitStack) + 1
      BY <1>2, <3>3, PendingPush
    <3>5. builtAt <= starts + 1
      BY <1>2 DEF IInv, StackInv
    <3> HIDE DEF r
    <3> QED
      BY <1>1, <1>2, <3>1, <3>2, <3>4, <3>5 DEF IInv, StackInv, CountInv
  <2> QED
    BY <2>1, <2>2, <2>3
<1>6. Types'
  BY <1>1, <1>5 DEF IInv, Types
<1>7. CountInv'
  BY <1>1, <1>3, <1>5 DEF CountInv
<1> QED
  BY <1>3, <1>5, <1>6, <1>7 DEF IInv

\* shutdown, called or registered by the program (189-195).
LEMMA ShutdownKeeps ==
  ASSUME IInv, Shutdown \/ ShutdownAtExit
  PROVE  IInv'
<1> DEFINE e == Entry("shutdown", NoOwner)
<1>1. /\ phase = "running"
      /\ UNCHANGED <<config, engine, rules, builtAt, blocks, phase, status, reports, starts, asked>>
      /\ initialized' \in BOOLEAN
      /\ exitStack' = exitStack \/ exitStack' = Append(exitStack, e)
  BY DEF Shutdown, ShutdownAtExit, TurnOff, tool, suppression, process, calls, IInv, Types
<1>2. e \in EntryType /\ e.kind = "shutdown"
  BY DEF Entry, EntryType
<1>3. exitStack \in Seq(EntryType) /\ starts \in Nat /\ builtAt \in Nat /\ blocks \in SUBSET BlockType
  BY DEF IInv, Types
<1>4. exitStack' \in Seq(EntryType) /\ Pending(exitStack') = Pending(exitStack)
  <2>1. CASE exitStack' = exitStack
    BY <1>3, <2>1
  <2>2. CASE exitStack' = Append(exitStack, e)
    <3> HIDE DEF e
    <3>1. Append(exitStack, e) \in Seq(EntryType)
      BY <1>2, <1>3
    <3>2. Pending(Append(exitStack, e)) = Pending(exitStack)
      BY <1>2, <1>3, PendingPush
    <3>3. Pending(exitStack) \in Nat
      BY <1>3, PendingType
    <3> QED
      BY <2>2, <3>1, <3>2, <3>3
  <2> QED
    BY <1>1, <2>1, <2>2
<1>5. StackInv'
  <2>1. CASE exitStack' = exitStack
    BY <1>1, <2>1 DEF IInv, StackInv
  <2>2. CASE exitStack' = Append(exitStack, e)
    <3> HIDE DEF e
    <3>1. /\ ErasIn(exitStack', starts) /\ StaticsIn(exitStack', blocks, starts)
          /\ EnginesIn(exitStack', engine, builtAt)
      BY <1>2, <1>3, <2>2, StackPush DEF IInv, StackInv
    <3> QED
      BY <1>1, <3>1 DEF IInv, StackInv
  <2> QED
    BY <1>1, <2>1, <2>2
<1>6. StatusInv' /\ ListedRightly' /\ reports' = <<>> /\ EngineInv'
  BY <1>1, Unreported DEF IInv, EngineInv
<1>7. Types'
  BY <1>1, <1>4 DEF IInv, Types
<1>8. CountInv'
  BY <1>1, <1>4, <1>6 DEF IInv, CountInv
<1> QED
  BY <1>5, <1>6, <1>7, <1>8 DEF IInv

\* suppress, clear_suppressions and the queries that reach the engine
\* (suppression_engine.hpp:22-34, memsentry.cpp:401-436).
LEMMA EngineCallKeeps ==
  ASSUME IInv,
         (\E tag \in Tags : Suppress(tag)) \/ ClearSuppressions \/ AskForLeaks
  PROVE  IInv'
<1>1. /\ phase = "running" /\ Engine(exitStack)
      /\ UNCHANGED <<initialized, config, blocks, phase, status, reports, starts, asked>>
      /\ rules' \in SUBSET Tags
  BY DEF Suppress, ClearSuppressions, AskForLeaks, tool, process, calls, IInv, Types
<1>2. /\ StackInv' /\ exitStack' \in Seq(EntryType)
      /\ engine' \in {"live", "destroyed"} /\ builtAt' \in Nat
      /\ engine # "unborn" => UNCHANGED <<engine, builtAt>>
      /\ engine = "unborn" => engine' = "live"
      /\ Pending(exitStack') = Pending(exitStack)
  BY <1>1, EngineKeeps DEF IInv, Types, StackInv
<1>3. StatusInv' /\ ListedRightly' /\ reports' = <<>>
  BY <1>1, Unreported
<1>4. EngineInv'
  BY <1>1, <1>2 DEF IInv, EngineInv
<1>5. Types'
  BY <1>1, <1>2 DEF IInv, Types
<1>6. CountInv'
  BY <1>1, <1>2, <1>3 DEF IInv, CountInv
<1> QED
  BY <1>2, <1>3, <1>4, <1>5, <1>6 DEF IInv

\* Allocations the program does not free, and those of static objects.
LEMMA LeakKeeps ==
  ASSUME IInv, NEW tag \in Tags, Leak(tag) \/ \E s \in Statics : BuildStatic(s, tag)
  PROVE  IInv'
<1>1. /\ phase = "running"
      /\ UNCHANGED <<initialized, config, engine, rules, builtAt, phase, status, reports, starts, asked>>
  BY DEF Leak, BuildStatic, tool, suppression, process, calls
<1>2. /\ exitStack \in Seq(EntryType) /\ starts \in Nat /\ builtAt \in Nat
      /\ blocks \in SUBSET BlockType
  BY DEF IInv, Types
<1>3. /\ exitStack' \in Seq(EntryType) /\ blocks' \in SUBSET BlockType
      /\ Pending(exitStack') = Pending(exitStack)
      /\ StackInv'
  <2>1. CASE Leak(tag)
    <3>1. blocks' = blocks \cup {[tag |-> tag, owner |-> NoOwner, era |-> starts]} /\ exitStack' = exitStack
      BY <2>1 DEF Leak, Block
    <3>2. [tag |-> tag, owner |-> NoOwner, era |-> starts] \in BlockType
      BY <1>2 DEF BlockType
    <3>3. StaticsIn(exitStack, blocks', starts)
      BY <1>2, <3>1 DEF IInv, StackInv, StaticsIn
    <3> QED
      BY <1>1, <1>2, <3>1, <3>2, <3>3 DEF IInv, StackInv
  <2>2. CASE \E s \in Statics : BuildStatic(s, tag)
    <3>1. PICK s \in Statics : BuildStatic(s, tag)
      BY <2>2
    <3> DEFINE e == Entry("static", s)
               new == [tag |-> tag, owner |-> s, era |-> starts]
    <3>2. blocks' = blocks \cup {new} /\ exitStack' = Append(exitStack, e)
      BY <3>1 DEF BuildStatic, Block
    <3>3. new \in BlockType /\ e \in EntryType /\ e.kind = "static"
      BY <1>2 DEF BlockType, Entry, EntryType
    <3>4. StaticsIn(exitStack', blocks', starts)
      BY <1>2, <3>2, StackPushStatic DEF IInv, StackInv
    <3> HIDE DEF e, new
    <3>5. ErasIn(exitStack', starts) /\ EnginesIn(exitStack', engine, builtAt)
      BY <1>2, <3>2, <3>3, StackPush DEF IInv, StackInv
    <3>6. exitStack' \in Seq(EntryType) /\ Pending(exitStack') = Pending(exitStack)
      BY <1>2, <3>2, <3>3, Pushed, PendingPush
    <3> QED
      BY <1>1, <1>2, <3>2, <3>3, <3>4, <3>5, <3>6 DEF IInv, StackInv
  <2> QED
    BY <2>1, <2>2
<1>4. StatusInv' /\ ListedRightly' /\ reports' = <<>> /\ EngineInv'
  BY <1>1, Unreported DEF IInv, EngineInv
<1>5. Types'
  BY <1>1, <1>3 DEF IInv, Types
<1>6. CountInv'
  BY <1>1, <1>3, <1>4 DEF IInv, CountInv
<1> QED
  BY <1>3, <1>4, <1>5, <1>6 DEF IInv

\* The program calls exit or returns from main.
LEMMA ExitKeeps ==
  ASSUME IInv, NEW code \in OwnStatuses, Exit(code)
  PROVE  IInv'
<1>1. /\ phase = "running" /\ phase' = "exiting" /\ status' = code
      /\ UNCHANGED <<initialized, config, engine, rules, builtAt, blocks, exitStack, reports, starts, asked>>
  BY DEF Exit, tool, suppression, calls
<1>2. code \in Nat /\ code # 1
  OBVIOUS
<1>3. reports = <<>> /\ Pending(exitStack) = asked /\ asked \in Nat
  BY <1>1 DEF IInv, CountInv, Types
<1>4. StatusInv' /\ ListedRightly'
  BY <1>1, <1>2, <1>3 DEF StatusInv, ListedRightly
<1>5. CountInv'
  BY <1>1, <1>3 DEF CountInv
<1>6. Types' /\ StackInv' /\ EngineInv'
  BY <1>1, <1>2 DEF IInv, Types, StackInv, EngineInv
<1> QED
  BY <1>4, <1>5, <1>6 DEF IInv

-----------------------------------------------------------------------------
(* The exit.                                                               *)

\* What every step of the exit has in common: the entry on top is gone.
LEMMA TopPopped ==
  ASSUME IInv, NEW kind, Top(kind)
  PROVE  /\ phase = "exiting" /\ exitStack # <<>> /\ Last(exitStack).kind = kind
         /\ exitStack \in Seq(EntryType) /\ Front(exitStack) \in Seq(EntryType)
         /\ starts \in Nat /\ builtAt \in Nat /\ asked \in Nat /\ blocks \in SUBSET BlockType
         /\ ErasIn(Front(exitStack), starts)
         /\ EnginesIn(Front(exitStack), engine, builtAt)
         /\ kind # "static" => StaticsIn(Front(exitStack), blocks, starts)
         /\ Pending(Front(exitStack)) =
              IF kind = "report" THEN Pending(exitStack) - 1 ELSE Pending(exitStack)
<1>1. /\ phase = "exiting" /\ exitStack # <<>> /\ Last(exitStack).kind = kind
      /\ exitStack \in Seq(EntryType) /\ starts \in Nat /\ builtAt \in Nat /\ asked \in Nat
      /\ blocks \in SUBSET BlockType
  BY DEF Top, IInv, Types
<1>2. Front(exitStack) \in Seq(EntryType)
  BY <1>1, Popped
<1>3. /\ ErasIn(Front(exitStack), starts) /\ EnginesIn(Front(exitStack), engine, builtAt)
      /\ kind # "static" => StaticsIn(Front(exitStack), blocks, starts)
  BY <1>1, StackPop DEF IInv, StackInv
<1>4. Pending(Front(exitStack)) = IF kind = "report" THEN Pending(exitStack) - 1 ELSE Pending(exitStack)
  BY <1>1, PendingPop
<1> QED
  BY <1>1, <1>2, <1>3, <1>4

\* Entries other than reports report nothing.
LEMMA UnreportedExit ==
  ASSUME IInv, UNCHANGED <<phase, config, status, reports, builtAt>>
  PROVE  StatusInv' /\ ListedRightly'
  BY DEF IInv, StatusInv, Trusted, ListedRightly

\* The engine of the suppressions is destroyed at exit.
LEMMA DestroyEngineKeeps ==
  ASSUME IInv, DestroyEngine
  PROVE  IInv'
<1>1. /\ Top("engine") /\ exitStack' = Front(exitStack) /\ engine' = "destroyed"
      /\ UNCHANGED <<initialized, config, rules, builtAt, blocks, phase, status, reports, starts, asked>>
  BY DEF DestroyEngine, tool, process, calls
<1>2. /\ phase = "exiting" /\ exitStack # <<>> /\ Last(exitStack).kind = "engine"
      /\ exitStack \in Seq(EntryType) /\ Front(exitStack) \in Seq(EntryType)
      /\ starts \in Nat /\ builtAt \in Nat /\ asked \in Nat /\ blocks \in SUBSET BlockType
      /\ ErasIn(Front(exitStack), starts) /\ StaticsIn(Front(exitStack), blocks, starts)
      /\ Pending(Front(exitStack)) = Pending(exitStack)
  BY <1>1, TopPopped
<1>3. EnginesIn(Front(exitStack), "destroyed", builtAt)
  BY <1>2, StackPop DEF IInv, StackInv
<1>4. StackInv'
  BY <1>1, <1>2, <1>3 DEF IInv, StackInv
<1>5. Types' /\ EngineInv' /\ CountInv'
  BY <1>1, <1>2 DEF IInv, Types, EngineInv, CountInv
<1> QED
  BY <1>1, <1>4, <1>5, UnreportedExit DEF IInv

\* A static of the application is destroyed at exit, with its blocks.
LEMMA DestroyStaticKeeps ==
  ASSUME IInv, DestroyStatic
  PROVE  IInv'
<1>1. /\ Top("static") /\ exitStack' = Front(exitStack)
      /\ blocks' = {b \in blocks : b.owner # Last(exitStack).who}
      /\ UNCHANGED <<initialized, config, engine, rules, builtAt, phase, status, reports, starts, asked>>
  BY DEF DestroyStatic, tool, suppression, process, calls
<1>2. /\ phase = "exiting" /\ exitStack # <<>> /\ Last(exitStack).kind = "static"
      /\ exitStack \in Seq(EntryType) /\ Front(exitStack) \in Seq(EntryType)
      /\ starts \in Nat /\ builtAt \in Nat /\ asked \in Nat /\ blocks \in SUBSET BlockType
      /\ ErasIn(Front(exitStack), starts) /\ EnginesIn(Front(exitStack), engine, builtAt)
      /\ Pending(Front(exitStack)) = Pending(exitStack)
  BY <1>1, TopPopped
<1>3. StaticsIn(Front(exitStack), {b \in blocks : b.owner # Last(exitStack).who}, starts)
  BY <1>2, StackPop DEF IInv, StackInv
<1>4. StackInv'
  BY <1>1, <1>2, <1>3 DEF IInv, StackInv
<1>5. Types' /\ EngineInv' /\ CountInv'
  BY <1>1, <1>2 DEF IInv, Types, EngineInv, CountInv
<1> QED
  BY <1>1, <1>4, <1>5, UnreportedExit DEF IInv

\* The shutdown registered with atexit runs.
LEMMA RunShutdownKeeps ==
  ASSUME IInv, RunShutdown
  PROVE  IInv'
<1>1. /\ Top("shutdown") /\ exitStack' = Front(exitStack) /\ initialized' = FALSE
      /\ UNCHANGED <<config, engine, rules, builtAt, blocks, phase, status, reports, starts, asked>>
  BY DEF RunShutdown, TurnOff, suppression, process, calls
<1>2. /\ phase = "exiting" /\ exitStack # <<>>
      /\ exitStack \in Seq(EntryType) /\ Front(exitStack) \in Seq(EntryType)
      /\ starts \in Nat /\ builtAt \in Nat /\ asked \in Nat /\ blocks \in SUBSET BlockType
      /\ ErasIn(Front(exitStack), starts) /\ EnginesIn(Front(exitStack), engine, builtAt)
      /\ StaticsIn(Front(exitStack), blocks, starts)
  BY <1>1, TopPopped
<1>3. StackInv'
  BY <1>1, <1>2 DEF IInv, StackInv
<1>4. Types' /\ EngineInv' /\ CountInv'
  BY <1>1, <1>2 DEF IInv, Types, EngineInv, CountInv
<1> QED
  BY <1>1, <1>3, <1>4, UnreportedExit DEF IInv

\* A handler that runs with the tool off, or without being asked to report,
\* returns early (memsentry.cpp:477-482).
LEMMA SkipKeeps ==
  ASSUME IInv, RunReport, ~(initialized /\ config.auto_report_on_exit)
  PROVE  IInv'
<1>1. /\ Top("report") /\ exitStack' = Front(exitStack)
      /\ UNCHANGED <<initialized, config, engine, rules, builtAt, blocks, phase, status, reports,
                     starts, asked>>
  BY DEF RunReport, Skipped, tool, calls
<1>2. /\ phase = "exiting" /\ exitStack # <<>>
      /\ exitStack \in Seq(EntryType) /\ Front(exitStack) \in Seq(EntryType)
      /\ starts \in Nat /\ builtAt \in Nat /\ asked \in Nat /\ blocks \in SUBSET BlockType
      /\ ErasIn(Front(exitStack), starts) /\ EnginesIn(Front(exitStack), engine, builtAt)
      /\ StaticsIn(Front(exitStack), blocks, starts)
  BY <1>1, TopPopped
<1>3. StackInv'
  BY <1>1, <1>2 DEF IInv, StackInv
<1>4. Types' /\ EngineInv' /\ CountInv'
  BY <1>1, <1>2 DEF IInv, Types, EngineInv, CountInv
<1> QED
  BY <1>1, <1>3, <1>4, UnreportedExit DEF IInv

\* The destructors of the statics that a report lists, and the engine, are
\* below it, so it lists what it should; and when it may have read destroyed
\* rules, it is not trusted (memsentry.cpp:477-487).
LEMMA ReportKeeps ==
  ASSUME IInv, RunReport, initialized, config.auto_report_on_exit
  PROVE  IInv'
<1> DEFINE era == Last(exitStack).who
           rest == Front(exitStack)
<1>1. PICK listed \in Listings, again \in Listings :
        /\ reports' = Append(reports, [listed |-> listed, rules |-> rules, era |-> era])
        /\ status' = IF Fails(again) THEN 1 ELSE status
  BY DEF RunReport
<1>2. /\ Top("report")
      /\ UNCHANGED <<initialized, config, rules, blocks, phase, starts, asked>>
      /\ IF blocks = {} THEN exitStack' = rest /\ UNCHANGED <<engine, builtAt>> ELSE Engine(rest)
  BY DEF RunReport, tool, calls
<1>3. /\ phase = "exiting" /\ exitStack # <<>> /\ Last(exitStack).kind = "report"
      /\ exitStack \in Seq(EntryType) /\ rest \in Seq(EntryType)
      /\ starts \in Nat /\ builtAt \in Nat /\ asked \in Nat /\ blocks \in SUBSET BlockType
      /\ ErasIn(rest, starts) /\ EnginesIn(rest, engine, builtAt) /\ StaticsIn(rest, blocks, starts)
      /\ Pending(rest) = Pending(exitStack) - 1
  BY <1>2, TopPopped
<1>4. /\ StackInv' /\ exitStack' \in Seq(EntryType) /\ builtAt' \in Nat
      /\ engine' \in {"unborn", "live", "destroyed"}
      /\ engine' = "unborn" => engine = "unborn"
      /\ engine # "unborn" => UNCHANGED <<engine, builtAt>>
      /\ Pending(exitStack') = Pending(rest)
  <2>1. CASE blocks = {}
    BY <1>2, <1>3, <2>1 DEF IInv, StackInv, Types
  <2>2. CASE blocks # {}
    <3> HIDE DEF rest
    <3> QED
      BY <1>2, <1>3, <2>2, EngineKeeps DEF IInv
  <2> QED
    BY <2>1, <2>2
<1>5. /\ era \in Nat
      /\ \A b \in blocks : b.owner # NoOwner => b.era < era
      /\ engine = "destroyed" => era <= builtAt
  <2> DEFINE n == Len(exitStack)
  <2>1. n \in DOMAIN exitStack /\ exitStack[n] = Last(exitStack) /\ DOMAIN exitStack = 1 .. n /\ n \in Nat
    BY <1>3, Popped
  <2> HIDE DEF n
  <2>2. era \in Nat
    BY <1>3, <2>1 DEF IInv, StackInv, ErasIn
  <2>3. ASSUME NEW b \in blocks, b.owner # NoOwner PROVE b.era < era
    <3>1. PICK i \in DOMAIN exitStack :
            /\ exitStack[i].kind = "static"
            /\ \A j \in DOMAIN exitStack : j > i /\ exitStack[j].kind = "report" => b.era < exitStack[j].who
      BY <2>3 DEF IInv, StackInv, StaticsIn
    <3>2. n > i
      BY <1>3, <2>1, <3>1
    <3> QED
      BY <1>3, <2>1, <3>1, <3>2
  <2>4. engine = "destroyed" => era <= builtAt
    BY <1>3, <2>1 DEF IInv, StackInv, EnginesIn
  <2> QED
    BY <2>2, <2>3, <2>4
<1> HIDE DEF era, rest
<1>6. /\ listed \in SUBSET blocks
      /\ \/ engine = "destroyed" /\ rules # {}
         \/ listed = {b \in blocks : b.tag \notin rules} /\ again = listed
  BY DEF Listings
<1> DEFINE new == [listed |-> listed, rules |-> rules, era |-> era]
<1>7. /\ new \in ReportType /\ new.listed = listed /\ new.rules = rules /\ new.era = era
      /\ reports \in Seq(ReportType)
  BY <1>3, <1>5, <1>6 DEF ReportType, IInv, Types
<1> HIDE DEF new
<1>8. /\ reports' \in Seq(ReportType)
      /\ Len(reports') = Len(reports) + 1 /\ Len(reports) \in Nat
      /\ DOMAIN reports = 1 .. Len(reports) /\ DOMAIN reports' = 1 .. Len(reports) + 1
      /\ \A i \in 1 .. Len(reports) : reports'[i] = reports[i]
      /\ reports'[Len(reports) + 1] = new
  BY <1>1, <1>7 DEF new
<1>9. /\ \A i \in DOMAIN reports : i \in DOMAIN reports' /\ reports'[i] = reports[i]
      /\ \A i \in DOMAIN reports' : \/ i \in DOMAIN reports
                                    \/ i = Len(reports) + 1 /\ reports'[i] = new
      /\ Len(reports) + 1 \in DOMAIN reports'
  BY <1>8
<1>10. engine = "unborn" => rules = {} /\ \A i \in DOMAIN reports : reports[i].rules = {}
  BY DEF IInv, EngineInv
<1>11. Types'
  BY <1>1, <1>2, <1>3, <1>4, <1>8 DEF IInv, Types
<1>12. EngineInv'
  BY <1>2, <1>3, <1>4, <1>7, <1>9, <1>10 DEF EngineInv
<1>13. CountInv'
  BY <1>2, <1>3, <1>4, <1>8, PendingType DEF IInv, CountInv
<1>14. ListedRightly'
  <2>1. ASSUME NEW i \in DOMAIN reports, NEW b \in reports[i].listed
        PROVE  /\ b.owner # NoOwner => b.era < reports[i].era
               /\ builtAt' < reports[i].era => b.tag \notin reports[i].rules
    BY <1>4, <1>10 DEF IInv, ListedRightly
  <2>2. ASSUME NEW b \in listed
        PROVE  /\ b.owner # NoOwner => b.era < era
               /\ builtAt' < era => b.tag \notin rules
    <3>1. CASE engine = "unborn"
      BY <1>5, <1>6, <1>10, <3>1
    <3>2. CASE engine # "unborn"
      <4>1. builtAt' = builtAt
        BY <1>4, <3>2
      <4>2. engine = "destroyed" /\ rules # {} => ~(builtAt < era)
        BY <1>3, <1>5
      <4> QED
        BY <1>5, <1>6, <4>1, <4>2
    <3> QED
      BY <3>1, <3>2
  <2> QED
    BY <1>7, <1>9, <2>1, <2>2 DEF ListedRightly
<1>15. StatusInv'
  <2> SUFFICES ASSUME Trusted'
               PROVE  status' = 1 <=> config.exit_with_code_on_leak
                                        /\ \E i \in DOMAIN reports' : reports'[i].listed # {}
    BY <1>2 DEF StatusInv
  <2>1. Trusted
    BY <1>4, <1>9, <1>10 DEF Trusted
  <2>2. again = listed
    <3>1. rules = {} \/ builtAt' < era
      BY <1>7, <1>9 DEF Trusted
    <3>2. ~(engine = "destroyed" /\ rules # {})
      BY <1>3, <1>4, <1>5, <3>1
    <3> QED
      BY <1>6, <3>2
  <2>3. status = 1 <=> config.exit_with_code_on_leak /\ \E i \in DOMAIN reports : reports[i].listed # {}
    BY <1>3, <2>1 DEF IInv, StatusInv
  <2>4. (\E i \in DOMAIN reports' : reports'[i].listed # {}) <=>
          listed # {} \/ \E i \in DOMAIN reports : reports[i].listed # {}
    BY <1>7, <1>9
  <2> QED
    BY <1>1, <2>2, <2>3, <2>4 DEF Fails
<1> QED
  BY <1>4, <1>11, <1>12, <1>13, <1>14, <1>15 DEF IInv

\* Every step keeps the invariant.
LEMMA StepInv == IInv /\ [Next]_vars => IInv'
<1> SUFFICES ASSUME IInv, [Next]_vars PROVE IInv'
  OBVIOUS
<1>1. CASE UNCHANGED vars
  BY <1>1 DEF vars, tool, suppression, process, calls, IInv, Types, StackInv, EngineInv, CountInv,
              StatusInv, Trusted, ListedRightly
<1>2. CASE Running
  BY <1>2, InitializeKeeps, ShutdownKeeps, EngineCallKeeps, LeakKeeps, ExitKeeps DEF Running
<1>3. CASE RunReport
  BY <1>3, SkipKeeps, ReportKeeps
<1>4. CASE EndProcess
  <2>1. /\ phase = "exiting" /\ exitStack = <<>> /\ phase' = "ended"
        /\ UNCHANGED <<initialized, config, engine, rules, builtAt, blocks, exitStack, status, reports,
                       starts, asked>>
    BY <1>4 DEF EndProcess, tool, suppression, calls
  <2>2. Types' /\ StackInv' /\ EngineInv' /\ CountInv'
    BY <2>1 DEF IInv, Types, StackInv, EngineInv, CountInv
  <2>3. StatusInv' /\ ListedRightly'
    BY <2>1 DEF IInv, StatusInv, Trusted, ListedRightly
  <2> QED
    BY <2>2, <2>3 DEF IInv
<1> QED
  BY <1>1, <1>2, <1>3, <1>4, DestroyEngineKeeps, DestroyStaticKeeps, RunShutdownKeeps
  DEF Next, Exiting, Ended

-----------------------------------------------------------------------------
(* The theorems.                                                           *)

\* The invariant holds throughout.
LEMMA Invariance == Spec => []IInv
  BY InitInv, StepInv, PTL DEF Spec

\* With the tool on at the end, every start that asked for a report got one,
\* if the configuration in force asks too (memsentry.cpp:177-187, 477-482).
THEOREM ReportedAsStarted == Spec => []ReportsAsStarted
<1>1. ASSUME IInv PROVE ReportsAsStarted
  <2>1. Pending(<<>>) = 0
    BY FS_EmptySet DEF Pending
  <2> QED
    BY <1>1, <2>1 DEF IInv, Types, CountInv, ReportsAsStarted
<1> QED
  BY <1>1, Invariance, PTL

\* The exit status tells whether a report listed a leak, unless a report read
\* rules that were destroyed (memsentry.cpp:483-485).
THEOREM StatusCorrect == Spec => []StatusTellsLeak
<1>1. IInv => StatusTellsLeak
  BY DEF IInv, StatusInv, Trusted, StatusTellsLeak
<1> QED
  BY <1>1, Invariance, PTL

\* No report blames a block that a destructor frees before the report runs, nor
\* one that rules suppress whose engine outlives it (memsentry.cpp:185,
\* suppression_engine.hpp:17).
THEOREM BlamedRightly == Spec => []ListedRightly
<1>1. IInv => ListedRightly
  BY DEF IInv
<1> QED
  BY <1>1, Invariance, PTL

=============================================================================
