---------------------------- MODULE SymbolsProofs ----------------------------
(***************************************************************************)
(* Symbols for any threads, rules, records and names: what is_suppressed   *)
(* answers, with its mutex, the symbol cache and the time between the look *)
(* at the tag and the look at the last frame, is what the abstract         *)
(* Suppressions would answer at one moment.                                *)
(***************************************************************************)
EXTENDS Symbols, SequenceTheorems, TLAPS

Labels == {"idle", "rules", "tag", "frames", "resolve", "cleanup"}

Answering == {"tag", "frames", "resolve"}

Walks == [op : {"ask", "resolve"}, rec : Records]

Types ==
  /\ rules \in SUBSET Rules
  /\ cache \in [Addrs -> Names \cup {Miss}]
  /\ loaded \in [Addrs -> Names]
  /\ held \in [Addrs -> SUBSET Names]
  /\ pc \in [Threads -> Labels]
  /\ job \in [Threads -> Jobs \cup {NoJob}]
  /\ seen \in [Threads -> Seq(Names)]
  /\ reply = [t \in Threads |-> reply[t]]

\* Every name the provider may hand out is one the address has had: the name
\* of the loaded code and the name in the cache.
NamesHeld == \A a \in Addrs : loaded[a] \in held[a] /\ (cache[a] # Miss => cache[a] \in held[a])

\* The names a thread has collected belong to the first frames of its record.
Named(t) ==
  /\ Len(seen[t]) <= Len(job[t].rec.frames)
  /\ \A i \in DOMAIN seen[t] : seen[t][i] \in held[job[t].rec.frames[i]]

\* A thread in its call: while it answers a question it holds the rules, and
\* past the tag no rule matches the tag.
InCall(t) ==
  /\ pc[t] \in {"idle", "rules", "cleanup"} => seen[t] = <<>>
  /\ pc[t] = "rules" => job[t] \in Jobs
  /\ pc[t] \in Answering => job[t] \in Walks
  /\ pc[t] = "tag" => job[t].op = "ask" /\ seen[t] = <<>>
  /\ pc[t] \in Answering /\ job[t].op = "ask" => ruleMutex = t
  /\ pc[t] \in {"frames", "resolve"} => Named(t)
  /\ pc[t] = "resolve" => Len(seen[t]) < Len(job[t].rec.frames)
  /\ pc[t] \in {"frames", "resolve"} /\ job[t].op = "ask" => ~TagHit(t)

Calls == \A t \in Threads : InCall(t)

IInv == Types /\ NamesHeld /\ Calls

-----------------------------------------------------------------------------

\* A job is of one of the operations, and says what the operation needs.
LEMMA JobParts ==
  ASSUME NEW j \in Jobs
  PROVE  /\ j.op \in {"add", "ask", "resolve", "clear", "cleanup"}
         /\ j.op = "add" => j.rule \in Rules
         /\ j.op \in {"ask", "resolve"} => j \in Walks
  BY DEF Jobs, Walks

\* The frames of a record that is asked about are addresses.
LEMMA FramesAre ==
  ASSUME NEW j \in Walks
  PROVE  /\ j.rec \in Records /\ j.rec.frames \in Seq(Addrs)
         /\ Len(j.rec.frames) \in Nat /\ DOMAIN j.rec.frames = 1 .. Len(j.rec.frames)
         /\ \A i \in 1 .. Len(j.rec.frames) : j.rec.frames[i] \in Addrs
<1>1. j.rec \in Records
  BY DEF Walks
<1>2. j.rec.frames \in Seq(Addrs)
  BY <1>1, SymbolsAssumption
<1> QED
  BY <1>1, <1>2

\* A thread's own record does not change while another thread takes a step
\* that leaves the rules to whoever holds their mutex.
LEMMA OthersKeep ==
  ASSUME Types, Calls, NEW t \in Threads,
         \A u \in Threads \ {t} : pc'[u] = pc[u] /\ job'[u] = job[u] /\ seen'[u] = seen[u],
         held' = held,
         rules' = rules \/ ruleMutex = NoThread,
         ruleMutex' = ruleMutex \/ ruleMutex = NoThread \/ ruleMutex = t
  PROVE  \A u \in Threads \ {t} : InCall(u)'
<1> TAKE u \in Threads \ {t}
<1>1. InCall(u) /\ pc'[u] = pc[u] /\ job'[u] = job[u] /\ seen'[u] = seen[u]
  BY DEF Calls
<1>2. pc[u] \in Answering /\ job[u].op = "ask" => ruleMutex' = u /\ rules' = rules
  BY <1>1, SymbolsAssumption DEF InCall
<1>3. pc[u] \in {"frames", "resolve"} => Named(u)'
  BY <1>1 DEF InCall, Named
<1>4. pc[u] \in {"frames", "resolve"} /\ job[u].op = "ask" => ~TagHit(u)'
  BY <1>1, <1>2 DEF InCall, TagHit, Answering
<1> QED
  BY <1>1, <1>2, <1>3, <1>4 DEF InCall

\* A call that returns leaves nothing behind.
LEMMA ReturnKeeps ==
  ASSUME Types, Calls, NEW t \in Threads, Return(t), held' = held,
         rules' = rules \/ ruleMutex = NoThread,
         ruleMutex' = ruleMutex \/ ruleMutex = NoThread \/ ruleMutex = t
  PROVE  /\ Calls'
         /\ pc' \in [Threads -> Labels] /\ job' \in [Threads -> Jobs \cup {NoJob}]
         /\ seen' \in [Threads -> Seq(Names)]
<1>1. /\ pc' = [pc EXCEPT ![t] = "idle"]
      /\ job' = [job EXCEPT ![t] = NoJob]
      /\ seen' = [seen EXCEPT ![t] = <<>>]
  BY DEF Return, Goto
<1>2. /\ pc' \in [Threads -> Labels] /\ job' \in [Threads -> Jobs \cup {NoJob}]
      /\ seen' \in [Threads -> Seq(Names)]
  <2>1. <<>> \in Seq(Names)
    OBVIOUS
  <2> QED
    BY <1>1, <2>1 DEF Types, Labels
<1>3. pc'[t] = "idle" /\ seen'[t] = <<>>
  BY <1>1 DEF Types
<1>4. \A u \in Threads \ {t} : pc'[u] = pc[u] /\ job'[u] = job[u] /\ seen'[u] = seen[u]
  BY <1>1 DEF Types
<1>5. \A u \in Threads \ {t} : InCall(u)'
  BY <1>4, OthersKeep
<1>6. InCall(t)'
  BY <1>3 DEF InCall, Answering
<1> QED
  BY <1>2, <1>5, <1>6 DEF Calls

-----------------------------------------------------------------------------

\* No thread is in a call, and every address has the name of its code.
LEMMA InitInv == Init => IInv
<1> SUFFICES ASSUME Init PROVE IInv
  OBVIOUS
<1>1. PICK n \in Names : loaded = [a \in Addrs |-> n]
  BY DEF Init
<1>2. /\ rules = {} /\ cache = [a \in Addrs |-> Miss]
      /\ held = [a \in Addrs |-> {loaded[a]}]
      /\ pc = [t \in Threads |-> "idle"] /\ job = [t \in Threads |-> NoJob]
      /\ seen = [t \in Threads |-> <<>>] /\ reply = [t \in Threads |-> NoReply]
  BY DEF Init
<1>3. Types
  <2>1. <<>> \in Seq(Names)
    OBVIOUS
  <2> QED
    BY <1>1, <1>2, <2>1 DEF Types, Labels
<1>4. NamesHeld
  BY <1>1, <1>2 DEF NamesHeld
<1>5. Calls
  BY <1>2 DEF Calls, InCall, Answering
<1> QED
  BY <1>3, <1>4, <1>5 DEF IInv

\* A call begins with no names.
LEMMA CallKeeps ==
  ASSUME IInv, NEW t \in Threads, NEW j \in Jobs, Call(t, j)
  PROVE  IInv'
<1>1. /\ pc[t] = "idle"
      /\ pc' = [pc EXCEPT ![t] = Entry(j.op)] /\ job' = [job EXCEPT ![t] = j]
      /\ UNCHANGED <<rules, ruleMutex, cache, loaded, held, seen, reply>>
  BY DEF Call, Goto, locks, symbols, code
<1>2. Types /\ Calls /\ NamesHeld
  BY DEF IInv
<1>3. /\ Entry(j.op) \in {"cleanup", "frames", "rules"}
      /\ Entry(j.op) = "frames" => j.op = "resolve"
  BY JobParts DEF Entry
<1>4. Types'
  BY <1>1, <1>2, <1>3 DEF Types, Labels
<1>5. \A u \in Threads \ {t} : InCall(u)'
  <2>1. \A u \in Threads \ {t} : pc'[u] = pc[u] /\ job'[u] = job[u] /\ seen'[u] = seen[u]
    BY <1>1, <1>2 DEF Types
  <2> QED
    BY <1>1, <1>2, <2>1, OthersKeep
<1>6. pc'[t] = Entry(j.op) /\ job'[t] = j /\ seen'[t] = <<>>
  BY <1>1, <1>2 DEF Types, Calls, InCall
<1>7. InCall(t)'
  <2>1. CASE Entry(j.op) = "frames"
    <3>1. j \in Walks /\ j.op = "resolve"
      BY <1>3, <2>1, JobParts
    <3>2. Named(t)'
      BY <1>6, <3>1, FramesAre DEF Named
    <3> QED
      BY <1>6, <2>1, <3>1, <3>2 DEF InCall, Answering
  <2>2. CASE Entry(j.op) # "frames"
    BY <1>3, <1>6, <2>2 DEF InCall, Answering
  <2> QED
    BY <2>1, <2>2
<1>8. NamesHeld'
  BY <1>1, <1>2 DEF NamesHeld
<1> QED
  BY <1>4, <1>5, <1>7, <1>8 DEF IInv, Calls

\* suppress and clear_suppressions wait for the mutex that a question holds.
LEMMA RulesKeep ==
  ASSUME IInv, NEW t \in Threads, AddRule(t) \/ ClearRules(t)
  PROVE  IInv'
<1>1. /\ ruleMutex = NoThread /\ Return(t)
      /\ UNCHANGED <<ruleMutex, cache, loaded, held, reply>>
      /\ rules' \in SUBSET Rules
  <2>1. CASE AddRule(t)
    <3>1. pc[t] = "rules" /\ job[t].op = "add" /\ rules' = WithRule(job[t].rule)
      BY <2>1 DEF AddRule
    <3>2. job[t] \in Jobs
      BY <3>1 DEF IInv, Calls, InCall
    <3>3. job[t].rule \in Rules
      BY <3>1, <3>2, JobParts
    <3> QED
      BY <2>1, <3>1, <3>3 DEF AddRule, WithRule, locks, symbols, code, IInv, Types
  <2>2. CASE ClearRules(t)
    BY <2>2 DEF ClearRules, locks, symbols, code
  <2> QED
    BY <2>1, <2>2
<1>2. Types /\ Calls /\ NamesHeld
  BY DEF IInv
<1>3. /\ Calls'
      /\ pc' \in [Threads -> Labels] /\ job' \in [Threads -> Jobs \cup {NoJob}]
      /\ seen' \in [Threads -> Seq(Names)]
  BY <1>1, <1>2, ReturnKeeps
<1>4. Types'
  BY <1>1, <1>2, <1>3 DEF Types
<1>5. NamesHeld'
  BY <1>1, <1>2 DEF NamesHeld
<1> QED
  BY <1>3, <1>4, <1>5 DEF IInv

\* A question starts with the rules' mutex.
LEMMA LockRulesKeeps ==
  ASSUME IInv, NEW t \in Threads, LockRules(t)
  PROVE  IInv'
<1>1. /\ pc[t] = "rules" /\ job[t].op = "ask"
      /\ ruleMutex = NoThread /\ ruleMutex' = t
      /\ pc' = [pc EXCEPT ![t] = "tag"]
      /\ UNCHANGED <<rules, cache, loaded, held, job, seen, reply>>
  BY DEF LockRules, Goto, symbols, code
<1>2. Types /\ Calls /\ NamesHeld
  BY DEF IInv
<1>3. Types'
  BY <1>1, <1>2 DEF Types, Labels
<1>4. \A u \in Threads \ {t} : InCall(u)'
  <2>1. \A u \in Threads \ {t} : pc'[u] = pc[u] /\ job'[u] = job[u] /\ seen'[u] = seen[u]
    BY <1>1, <1>2 DEF Types
  <2> QED
    BY <1>1, <1>2, <2>1, OthersKeep
<1>5. InCall(t)'
  <2>1. job[t] \in Walks /\ seen[t] = <<>>
    BY <1>1, <1>2, JobParts DEF Calls, InCall
  <2>2. pc'[t] = "tag" /\ job'[t] = job[t] /\ seen'[t] = seen[t]
    BY <1>1, <1>2 DEF Types
  <2> QED
    BY <1>1, <2>1, <2>2 DEF InCall, Answering
<1>6. NamesHeld'
  BY <1>1, <1>2 DEF NamesHeld
<1> QED
  BY <1>3, <1>4, <1>5, <1>6 DEF IInv, Calls

\* The answer is given and the mutex left.
LEMMA AnswerKeeps ==
  ASSUME IInv, NEW t \in Threads, NEW b, Answer(t, b),
         pc[t] \in Answering, job[t].op = "ask",
         UNCHANGED <<rules, symbols, build, code>>
  PROVE  IInv'
<1>1. /\ ruleMutex = t /\ Return(t)
      /\ UNCHANGED <<rules, cache, loaded, held>>
      /\ reply' = [reply EXCEPT ![t] = [rec |-> job[t].rec, answer |-> b]]
  BY DEF Answer, symbols, code, IInv, Calls, InCall
<1>2. Types /\ Calls /\ NamesHeld
  BY DEF IInv
<1>3. /\ Calls'
      /\ pc' \in [Threads -> Labels] /\ job' \in [Threads -> Jobs \cup {NoJob}]
      /\ seen' \in [Threads -> Seq(Names)]
  BY <1>1, <1>2, ReturnKeeps
<1>4. Types'
  BY <1>1, <1>2, <1>3 DEF Types
<1>5. NamesHeld'
  BY <1>1, <1>2 DEF NamesHeld
<1> QED
  BY <1>3, <1>4, <1>5 DEF IInv

\* An early answer, or on to the frames with no rule that matches the tag.
LEMMA CheckTagKeeps ==
  ASSUME IInv, NEW t \in Threads, CheckTag(t)
  PROVE  IInv'
<1>1. /\ pc[t] = "tag" /\ job[t].op = "ask" /\ job[t] \in Walks /\ seen[t] = <<>>
      /\ UNCHANGED <<rules, cache, loaded, held>>
      /\ Types /\ Calls /\ NamesHeld
  BY DEF CheckTag, symbols, code, IInv, Calls, InCall, Answering
<1>2. CASE \E b : Answer(t, b)
  <2>1. PICK b : Answer(t, b)
    BY <1>2
  <2>2. pc[t] \in Answering /\ UNCHANGED <<rules, symbols, build, code>>
    BY <1>1 DEF CheckTag, Answering
  <2> QED
    BY <1>1, <2>1, <2>2, AnswerKeeps
<1>3. CASE /\ \/ pc' = [pc EXCEPT ![t] = "rules"]
              \/ pc' = [pc EXCEPT ![t] = "frames"] /\ ~TagHit(t)
           /\ UNCHANGED <<ruleMutex, job, seen, reply>>
  <2>1. Types'
    BY <1>1, <1>3 DEF Types, Labels
  <2>2. \A u \in Threads \ {t} : InCall(u)'
    <3>1. \A u \in Threads \ {t} : pc'[u] = pc[u] /\ job'[u] = job[u] /\ seen'[u] = seen[u]
      BY <1>1, <1>3 DEF Types
    <3> QED
      BY <1>1, <1>3, <3>1, OthersKeep
  <2>3. job'[t] = job[t] /\ seen'[t] = <<>> /\ ruleMutex' = t
    BY <1>1, <1>3 DEF Calls, InCall, Answering
  <2>4. CASE pc' = [pc EXCEPT ![t] = "rules"]
    <3>1. pc'[t] = "rules" /\ job[t] \in Jobs
      BY <1>1, <2>4 DEF Types, Walks, Jobs
    <3>2. InCall(t)'
      BY <2>3, <3>1 DEF InCall, Answering
    <3> QED
      BY <1>1, <2>1, <2>2, <3>2 DEF IInv, Calls, NamesHeld
  <2>5. CASE pc' = [pc EXCEPT ![t] = "frames"] /\ ~TagHit(t)
    <3>1. pc'[t] = "frames"
      BY <1>1, <2>5 DEF Types
    <3>2. Named(t)'
      BY <1>1, <2>3, FramesAre DEF Named
    <3>3. ~TagHit(t)'
      BY <1>1, <2>3, <2>5 DEF TagHit
    <3>4. InCall(t)'
      BY <1>1, <2>3, <3>1, <3>2, <3>3 DEF InCall, Answering
    <3> QED
      BY <1>1, <2>1, <2>2, <3>4 DEF IInv, Calls, NamesHeld
  <2> QED
    BY <1>3, <2>4, <2>5
<1> QED
  BY <1>2, <1>3 DEF CheckTag, Goto, KeepRules

\* The comparison of the frames ends the question.
LEMMA CompareKeeps ==
  ASSUME IInv, NEW t \in Threads, CompareFrames(t)
  PROVE  IInv'
<1>1. /\ pc[t] \in Answering /\ job[t].op = "ask" /\ Answer(t, FrameHit(t))
      /\ UNCHANGED <<rules, symbols, build, code>>
  BY DEF CompareFrames, Answering
<1> QED
  BY <1>1, AnswerKeeps

\* The mutex of the symbols is taken for one frame that has no name yet.
LEMMA LockSymbolsKeeps ==
  ASSUME IInv, NEW t \in Threads, LockSymbols(t)
  PROVE  IInv'
<1>1. /\ pc[t] = "frames" /\ ~Resolved(t)
      /\ pc' = [pc EXCEPT ![t] = "resolve"]
      /\ UNCHANGED <<rules, ruleMutex, cache, loaded, held, job, seen, reply>>
      /\ Types /\ Calls /\ NamesHeld
  BY DEF LockSymbols, Goto, symbols, code, IInv
<1>2. Types'
  BY <1>1 DEF Types, Labels
<1>3. \A u \in Threads \ {t} : InCall(u)'
  <2>1. \A u \in Threads \ {t} : pc'[u] = pc[u] /\ job'[u] = job[u] /\ seen'[u] = seen[u]
    BY <1>1 DEF Types
  <2> QED
    BY <1>1, <2>1, OthersKeep
<1>4. /\ pc'[t] = "resolve" /\ job'[t] = job[t] /\ seen'[t] = seen[t]
      /\ job[t] \in Walks /\ Named(t) /\ seen[t] \in Seq(Names)
      /\ job[t].op = "ask" => ruleMutex = t /\ ~TagHit(t)
  BY <1>1 DEF Types, Calls, InCall, Answering
<1>5. Len(seen[t]) < Len(job[t].rec.frames)
  <2>1. Len(job[t].rec.frames) \in Nat /\ Len(seen[t]) \in Nat
    BY <1>4, FramesAre
  <2> QED
    BY <1>1, <1>4, <2>1 DEF Resolved, Named
<1>6. Named(t)' /\ (job[t].op = "ask" => ~TagHit(t)')
  BY <1>1, <1>4 DEF Named, TagHit
<1>7. InCall(t)'
  BY <1>1, <1>4, <1>5, <1>6 DEF InCall, Answering
<1> QED
  BY <1>1, <1>2, <1>3, <1>7 DEF IInv, Calls, NamesHeld

\* A frame gets a name its address has had, from the cache or the platform.
LEMMA ResolveKeeps ==
  ASSUME IInv, NEW t \in Threads, ResolveFrame(t)
  PROVE  IInv'
<1> DEFINE a == NextAddr(t)
           k == Len(seen[t]) + 1
<1>1. /\ pc[t] = "resolve" /\ pc' = [pc EXCEPT ![t] = "frames"]
      /\ UNCHANGED <<rules, ruleMutex, loaded, held, job, reply>>
      /\ \/ UNCHANGED <<cache, seen>>
         \/ /\ cache' = [cache EXCEPT ![a] = NameOf(a)]
            /\ seen' = [seen EXCEPT ![t] = Append(@, NameOf(a))]
      /\ Types /\ Calls /\ NamesHeld
  BY DEF ResolveFrame, Goto, symbols, code, IInv
<1>2. /\ job[t] \in Walks /\ Named(t) /\ seen[t] \in Seq(Names)
      /\ Len(seen[t]) < Len(job[t].rec.frames)
      /\ job[t].op = "ask" => ruleMutex = t /\ ~TagHit(t)
  BY <1>1 DEF Types, Calls, InCall, Answering
<1>3. /\ a \in Addrs /\ a = job[t].rec.frames[k]
      /\ Len(seen[t]) \in Nat /\ Len(job[t].rec.frames) \in Nat
  BY <1>2, FramesAre DEF NextAddr
<1>4. NameOf(a) \in Names /\ NameOf(a) \in held[a]
  BY <1>1, <1>3 DEF NameOf, Types, NamesHeld
<1>5. pc'[t] = "frames" /\ job'[t] = job[t] /\ pc' \in [Threads -> Labels]
  BY <1>1 DEF Types, Labels
<1> HIDE DEF a
<1>6. CASE UNCHANGED <<cache, seen>>
  <2>1. Types' /\ NamesHeld'
    BY <1>1, <1>5, <1>6 DEF Types, NamesHeld
  <2>2. Named(t)'
    BY <1>1, <1>2, <1>5, <1>6 DEF Named
  <2> QED
    <3>1. \A u \in Threads \ {t} : pc'[u] = pc[u] /\ job'[u] = job[u] /\ seen'[u] = seen[u]
      BY <1>1, <1>6 DEF Types
    <3>2. \A u \in Threads \ {t} : InCall(u)'
      BY <1>1, <3>1, OthersKeep
    <3>3. job[t].op = "ask" => ~TagHit(t)'
      BY <1>1, <1>2, <1>5 DEF TagHit
    <3>4. InCall(t)'
      BY <1>1, <1>2, <1>5, <1>6, <2>2, <3>3 DEF InCall, Answering
    <3> QED
      BY <2>1, <3>2, <3>4 DEF IInv, Calls
<1>7. CASE /\ cache' = [cache EXCEPT ![a] = NameOf(a)]
           /\ seen' = [seen EXCEPT ![t] = Append(@, NameOf(a))]
  <2> DEFINE n == NameOf(a)
  <2>0. n \in Names /\ n \in held[a]
    BY <1>4
  <2>1. /\ cache' = [cache EXCEPT ![a] = n]
        /\ seen' = [seen EXCEPT ![t] = Append(seen[t], n)]
        /\ seen'[t] = Append(seen[t], n)
    BY <1>1, <1>7 DEF Types
  <2> HIDE DEF n
  <2>2. /\ Append(seen[t], n) \in Seq(Names)
        /\ DOMAIN Append(seen[t], n) = 1 .. k /\ Len(Append(seen[t], n)) = k
        /\ \A i \in 1 .. Len(seen[t]) : Append(seen[t], n)[i] = seen[t][i]
        /\ Append(seen[t], n)[k] = n
        /\ DOMAIN seen[t] = 1 .. Len(seen[t])
    BY <1>2, <1>3, <2>0
  <2>3. Types'
    BY <1>1, <1>3, <1>5, <2>0, <2>1, <2>2 DEF Types
  <2>4. NamesHeld'
    BY <1>1, <1>3, <2>0, <2>1 DEF Types, NamesHeld
  <2>5. Named(t)'
    <3>1. Len(seen'[t]) <= Len(job'[t].rec.frames)
      BY <1>2, <1>3, <1>5, <2>1, <2>2
    <3>2. \A i \in 1 .. k : i \in 1 .. Len(seen[t]) \/ i = k
      BY <1>3
    <3>3. \A i \in 1 .. k : Append(seen[t], n)[i] \in held[job[t].rec.frames[i]]
      BY <1>2, <1>3, <2>0, <2>2, <3>2 DEF Named
    <3> QED
      BY <1>1, <1>5, <2>1, <2>2, <3>1, <3>3 DEF Named
  <2>6. \A u \in Threads \ {t} : pc'[u] = pc[u] /\ job'[u] = job[u] /\ seen'[u] = seen[u]
    BY <1>1, <2>1 DEF Types
  <2>7. \A u \in Threads \ {t} : InCall(u)'
    BY <1>1, <2>6, OthersKeep
  <2>8. job[t].op = "ask" => ~TagHit(t)'
    BY <1>1, <1>2, <1>5 DEF TagHit
  <2>9. InCall(t)'
    BY <1>1, <1>2, <1>5, <2>5, <2>8 DEF InCall, Answering
  <2> QED
    BY <2>3, <2>4, <2>7, <2>9 DEF IInv, Calls
<1> QED
  BY <1>1, <1>6, <1>7

\* resolve returns its frames; cleanup empties the cache or leaves it.
LEMMA ReturnsKeep ==
  ASSUME IInv, NEW t \in Threads, ReturnFrames(t) \/ Cleanup(t)
  PROVE  IInv'
<1>1. /\ Return(t)
      /\ UNCHANGED <<rules, ruleMutex, loaded, held, reply>>
      /\ cache' = cache \/ cache' = [a \in Addrs |-> Miss]
      /\ Types /\ Calls /\ NamesHeld
  BY DEF ReturnFrames, Cleanup, locks, symbols, code, IInv
<1>2. /\ Calls'
      /\ pc' \in [Threads -> Labels] /\ job' \in [Threads -> Jobs \cup {NoJob}]
      /\ seen' \in [Threads -> Seq(Names)]
  BY <1>1, ReturnKeeps
<1>3. cache' \in [Addrs -> Names \cup {Miss}] /\ \A a \in Addrs : cache'[a] = cache[a] \/ cache'[a] = Miss
  BY <1>1 DEF Types
<1>4. Types'
  BY <1>1, <1>2, <1>3 DEF Types
<1>5. NamesHeld'
  BY <1>1, <1>3 DEF NamesHeld
<1> QED
  BY <1>2, <1>4, <1>5 DEF IInv

\* Other code at an address adds a name; the earlier ones stay.
LEMMA ReloadKeeps ==
  ASSUME IInv, NEW a \in Plugins, NEW n \in Names, Reload(a, n)
  PROVE  IInv'
<1>1. /\ loaded' = [loaded EXCEPT ![a] = n]
      /\ held' = [held EXCEPT ![a] = @ \cup {n}]
      /\ UNCHANGED <<rules, ruleMutex, cache, pc, job, seen, reply>>
      /\ Types /\ Calls /\ NamesHeld
      /\ a \in Addrs
  BY SymbolsAssumption DEF Reload, locks, symbols, locals, IInv
<1>2. \A x \in Addrs : held[x] \subseteq held'[x]
  BY <1>1 DEF Types
<1>3. Types' /\ NamesHeld'
  BY <1>1 DEF Types, NamesHeld
<1>4. \A u \in Threads : InCall(u)'
  <2> TAKE u \in Threads
  <2>1. InCall(u)
    BY <1>1 DEF Calls
  <2>2. pc[u] \in {"frames", "resolve"} => Named(u)'
    <3> SUFFICES ASSUME pc[u] \in {"frames", "resolve"} PROVE Named(u)'
      OBVIOUS
    <3>1. job[u] \in Walks /\ Named(u) /\ seen[u] \in Seq(Names)
      BY <1>1, <2>1 DEF InCall, Answering, Types
    <3>2. \A i \in DOMAIN seen[u] : job[u].rec.frames[i] \in Addrs
      BY <3>1, FramesAre DEF Named
    <3> QED
      BY <1>1, <1>2, <3>1, <3>2 DEF Named
  <2>3. TagHit(u)' = TagHit(u)
    BY <1>1 DEF TagHit
  <2> QED
    BY <1>1, <2>1, <2>2, <2>3 DEF InCall
<1> QED
  BY <1>3, <1>4 DEF IInv, Calls

\* Every step of the system keeps the invariant.
LEMMA StepInv == IInv /\ [Next]_vars => IInv'
<1> SUFFICES ASSUME IInv, [Next]_vars PROVE IInv'
  OBVIOUS
<1>1. CASE UNCHANGED vars
  BY <1>1 DEF vars, locks, symbols, code, locals, IInv, Types, NamesHeld, Calls, InCall, Named, TagHit
<1>2. ASSUME NEW t \in Threads, Step(t) PROVE IInv'
  BY <1>2, RulesKeep, LockRulesKeeps, CheckTagKeeps, CompareKeeps, LockSymbolsKeeps, ResolveKeeps,
     ReturnsKeep DEF Step
<1> QED
  BY <1>1, <1>2, CallKeeps, ReloadKeeps DEF Next

-----------------------------------------------------------------------------
(* The promise.                                                            *)

\* Every record can be named: its frames' addresses have names.
LEMMA SomeNaming ==
  ASSUME Types, NamesHeld, NEW j \in Walks
  PROVE  \E names : names \in Promise!Namings(j.rec)
<1> DEFINE fs == j.rec.frames
           names == [i \in DOMAIN fs |-> loaded[fs[i]]]
<1>1. DOMAIN fs = 1 .. Len(fs) /\ \A i \in DOMAIN fs : fs[i] \in Addrs
  BY FramesAre
<1>2. names \in [DOMAIN fs -> Names] /\ DOMAIN names = DOMAIN fs
  BY <1>1 DEF Types
<1>3. \A i \in DOMAIN names : names[i] \in held[fs[i]]
  BY <1>1 DEF NamesHeld
<1> HIDE DEF names
<1>4. names \in Promise!Namings(j.rec)
  BY <1>2, <1>3 DEF Promise!Namings
<1> QED
  BY <1>4

\* An answer that comes before the frames is right for any names of theirs:
\* there are no rules, or one matches the tag, or there is no frame.
LEMMA TagAnswers ==
  ASSUME IInv, NEW t \in Threads, CheckTag(t), Answer(t, TagHit(t)),
         rules = {} \/ TagHit(t) \/ job[t].rec.frames = <<>>
  PROVE  \E rec \in Records : Promise!Ask(t, rec)
<1>1. job[t] \in Walks /\ job[t].rec \in Records
  BY FramesAre DEF CheckTag, IInv, Calls, InCall, Answering
<1>2. PICK names : names \in Promise!Namings(job[t].rec)
  BY <1>1, SomeNaming DEF IInv
<1>3. names \in [DOMAIN job[t].rec.frames -> Names]
  BY <1>2 DEF Promise!Namings
<1>4. Promise!Hit(rules, job[t].rec.tag, names) = TagHit(t)
  <2>1. CASE rules = {}
    BY <2>1 DEF Promise!Hit, TagHit
  <2>2. CASE TagHit(t)
    BY <2>2 DEF Promise!Hit, TagHit
  <2>3. CASE job[t].rec.frames = <<>>
    <3>1. DOMAIN names = {}
      BY <1>3, <2>3
    <3> QED
      BY <3>1 DEF Promise!Hit, TagHit
  <2> QED
    BY <2>1, <2>2, <2>3
<1>5. /\ reply' = [reply EXCEPT ![t] = [rec |-> job[t].rec, answer |-> TagHit(t)]]
      /\ UNCHANGED <<rules, held>>
  BY DEF CheckTag, Answer, code
<1>6. Promise!Ask(t, job[t].rec)
  BY <1>2, <1>4, <1>5 DEF Promise!Ask
<1> QED
  BY <1>1, <1>6

\* An answer after the last frame is right for the names that were collected:
\* the rules are still those that did not match the tag.
LEMMA FrameAnswers ==
  ASSUME IInv, NEW t \in Threads, CompareFrames(t)
  PROVE  \E rec \in Records : Promise!Ask(t, rec)
<1>1. /\ job[t] \in Walks /\ job[t].rec \in Records /\ Named(t) /\ ~TagHit(t)
      /\ seen[t] \in Seq(Names) /\ Len(seen[t]) = Len(job[t].rec.frames)
      /\ job[t].rec.frames \in Seq(Addrs)
  BY FramesAre DEF CompareFrames, Resolved, IInv, Types, Calls, InCall, Answering
<1>2. seen[t] \in [DOMAIN job[t].rec.frames -> Names] /\ DOMAIN seen[t] = DOMAIN job[t].rec.frames
  BY <1>1
<1>3. seen[t] \in Promise!Namings(job[t].rec)
  BY <1>1, <1>2 DEF Promise!Namings, Named
<1>4. Promise!Hit(rules, job[t].rec.tag, seen[t]) = FrameHit(t)
  BY <1>1 DEF Promise!Hit, TagHit, FrameHit
<1>5. /\ reply' = [reply EXCEPT ![t] = [rec |-> job[t].rec, answer |-> FrameHit(t)]]
      /\ UNCHANGED <<rules, held>>
  BY DEF CompareFrames, Answer, code
<1>6. Promise!Ask(t, job[t].rec)
  BY <1>3, <1>4, <1>5 DEF Promise!Ask
<1> QED
  BY <1>1, <1>6

\* A step of a thread adds a rule, clears the rules, answers or is not seen.
LEMMA StepPromises ==
  ASSUME IInv, NEW t \in Threads, Step(t)
  PROVE  [Promise!Next]_(Promise!vars)
<1> DEFINE Unseen == UNCHANGED <<rules, held, reply>>
<1>1. CASE AddRule(t)
  <2>1. /\ pc[t] = "rules" /\ job[t].op = "add" /\ rules' = WithRule(job[t].rule)
        /\ UNCHANGED <<held, reply>>
    BY <1>1 DEF AddRule, code
  <2>2. job[t] \in Jobs
    BY <2>1 DEF IInv, Calls, InCall
  <2>3. job[t].rule \in Rules
    BY <2>1, <2>2, JobParts
  <2>4. CASE job[t].rule = EmptyRule
    BY <2>1, <2>4 DEF WithRule, Promise!vars
  <2>5. CASE job[t].rule # EmptyRule
    <3>1. Promise!AddRule(job[t].rule)
      BY <2>1, <2>5 DEF WithRule, Promise!AddRule
    <3> QED
      BY <2>3, <3>1 DEF Promise!Next
  <2> QED
    BY <2>4, <2>5
<1>2. CASE ClearRules(t)
  BY <1>2 DEF ClearRules, code, Promise!Next, Promise!ClearRules
<1>3. CASE CheckTag(t)
  <2>1. CASE Answer(t, TagHit(t)) /\ (rules = {} \/ TagHit(t) \/ job[t].rec.frames = <<>>)
    BY <1>3, <2>1, TagAnswers DEF Promise!Next
  <2>2. CASE UNCHANGED reply
    BY <1>3, <2>2 DEF CheckTag, code, Promise!vars
  <2> QED
    BY <1>3, <2>1, <2>2 DEF CheckTag
<1>4. CASE CompareFrames(t)
  BY <1>4, FrameAnswers DEF Promise!Next
<1>5. CASE LockRules(t) \/ LockSymbols(t) \/ ResolveFrame(t) \/ ReturnFrames(t) \/ Cleanup(t)
  <2>1. Unseen
    BY <1>5 DEF LockRules, LockSymbols, ResolveFrame, ReturnFrames, Cleanup, code
  <2> QED
    BY <2>1 DEF Promise!vars
<1> QED
  BY <1>1, <1>2, <1>3, <1>4, <1>5 DEF Step

\* is_suppressed, with its mutexes, its cache and other threads that add and
\* clear rules between its steps, implements the abstract engine, whose every
\* answer is that of one moment (suppression_engine.hpp:36-69).
THEOREM ImplementsSuppressions == Spec => RefinesSuppressions
<1>1. Init => Promise!Init
  <2> SUFFICES ASSUME Init PROVE Promise!Init
    OBVIOUS
  <2>1. PICK n \in Names : loaded = [a \in Addrs |-> n]
    BY DEF Init
  <2>2. held = [a \in Addrs |-> {n}]
    BY <2>1 DEF Init
  <2> QED
    BY <2>2 DEF Init, Promise!Init
<1>2. IInv /\ [Next]_vars => [Promise!Next]_(Promise!vars)
  <2> SUFFICES ASSUME IInv, [Next]_vars PROVE [Promise!Next]_(Promise!vars)
    OBVIOUS
  <2>1. CASE UNCHANGED vars
    BY <2>1 DEF vars, code, Promise!vars
  <2>2. ASSUME NEW t \in Threads, NEW j \in Jobs, Call(t, j) PROVE [Promise!Next]_(Promise!vars)
    BY <2>2 DEF Call, code, Promise!vars
  <2>3. ASSUME NEW a \in Plugins, NEW n \in Names, Reload(a, n) PROVE [Promise!Next]_(Promise!vars)
    BY <2>3, SymbolsAssumption DEF Reload, Promise!Next, Promise!Rename
  <2> QED
    BY <2>1, <2>2, <2>3, StepPromises DEF Next
<1> QED
  BY InitInv, StepInv, <1>1, <1>2, PTL DEF Spec, RefinesSuppressions, Promise!Spec

=============================================================================
