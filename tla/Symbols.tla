------------------------------ MODULE Symbols ------------------------------
(***************************************************************************)
(* The suppression engine (suppression_engine.hpp) over the symbol cache   *)
(* of the stack trace provider (stacktrace.cpp), with the threads that     *)
(* ask, add and clear rules, resolve frames for a report and shut down.    *)
(*                                                                         *)
(* is_suppressed holds the engine's mutex from the first look at the rules *)
(* to its answer and takes the cache's mutex once per frame inside.  Both  *)
(* are std::mutex, so a thread that came back to one it holds would wait   *)
(* for itself.  What keeps it from coming back is the RecursionGuard:      *)
(* strings and vectors are allocated while the mutexes are held, and       *)
(* outside the guard such an allocation is tracked and may run the         *)
(* application's watchdog callback, which may ask for a report.            *)
(***************************************************************************)
EXTENDS Naturals, Sequences

CONSTANTS Threads, Rules, Records, Addrs, Names, Matching, EmptyRule, NoReply,
          Builds,      \* a subset of {"posix", "windows"}
          Plugins,     \* the addresses whose code can be unloaded and replaced
          Miss,        \* no entry in the cache
          NoThread,
          MaxCalls     \* bound: the calls of one thread

ASSUME SymbolsAssumption ==
  /\ \A rec \in Records : rec.frames \in Seq(Addrs)
  /\ Matching \subseteq Rules \X (Names \cup {rec.tag : rec \in Records})
  /\ Plugins \subseteq Addrs
  /\ Miss \notin Names
  /\ NoThread \notin Threads
  /\ Builds \subseteq {"posix", "windows"}
  /\ MaxCalls \in Nat

VARIABLES
  rules, ruleMutex,             \* SuppressionEngine
  cache, symbolMutex, ready,    \* StackTraceProvider; ready is its initialized_
  build,                        \* how the library was compiled
  loaded, held,                 \* the names of addresses now, and so far
  pc, job, depth, seen, calls,  \* per thread
  reply                         \* per thread, the last answer of is_suppressed

locks == <<ruleMutex, symbolMutex>>
symbols == <<cache, ready>>
code == <<loaded, held>>
locals == <<pc, job, depth, seen, calls>>
vars == <<rules, locks, symbols, build, code, locals, reply>>

Jobs == [op : {"add"}, rule : Rules] \cup [op : {"ask", "resolve"}, rec : Records]
        \cup [op : {"clear", "cleanup"}]

NoJob == [op |-> "none"]

Init ==
  /\ rules = {} /\ ruleMutex = NoThread
  /\ cache = [a \in Addrs |-> Miss] /\ symbolMutex = NoThread /\ ready = FALSE
  /\ build \in Builds
  /\ \E n \in Names : loaded = [a \in Addrs |-> n]
  /\ held = [a \in Addrs |-> {loaded[a]}]
  /\ pc = [t \in Threads |-> "idle"]
  /\ job = [t \in Threads |-> NoJob]
  /\ depth = [t \in Threads |-> 0]
  /\ seen = [t \in Threads |-> <<>>]
  /\ calls = [t \in Threads |-> 0]
  /\ reply = [t \in Threads |-> NoReply]

-----------------------------------------------------------------------------

Goto(t, label) == pc' = [pc EXCEPT ![t] = label]

\* A mutant: no guard in resolve_frame.
NoGuard(t) == depth

\* resolve_frame's RecursionGuard.
ResolveGuard(t) == [depth EXCEPT ![t] = @ + 1]

\* The call ends; its guard, if it has one, is left.
Return(t) ==
  /\ Goto(t, "idle")
  /\ job' = [job EXCEPT ![t] = NoJob]
  /\ depth' = [depth EXCEPT ![t] = 0]
  /\ seen' = [seen EXCEPT ![t] = <<>>]
  /\ UNCHANGED calls

Entry(op) ==
  CASE op = "cleanup" -> "cleanup"
    [] op = "resolve" -> "frames"
    [] OTHER -> "rules"

\* StackTraceProvider::resolve has no guard of its own; the others do.
Call(t, j) ==
  /\ pc[t] = "idle"
  /\ calls[t] < MaxCalls
  /\ calls' = [calls EXCEPT ![t] = @ + 1]
  /\ job' = [job EXCEPT ![t] = j]
  /\ depth' = [depth EXCEPT ![t] = IF j.op = "resolve" THEN 0 ELSE 1]
  /\ Goto(t, Entry(j.op))
  /\ UNCHANGED <<rules, locks, symbols, build, code, seen, reply>>

-----------------------------------------------------------------------------
(* SuppressionEngine.                                                      *)

\* A mutant: the empty pattern becomes a rule.
AcceptAny(r) == rules \cup {r}

WithRule(r) == IF r = EmptyRule THEN rules ELSE rules \cup {r}

AddRule(t) ==
  /\ pc[t] = "rules" /\ job[t].op = "add"
  /\ ruleMutex = NoThread
  /\ rules' = WithRule(job[t].rule)
  /\ Return(t)
  /\ UNCHANGED <<locks, symbols, build, code, reply>>

ClearRules(t) ==
  /\ pc[t] = "rules" /\ job[t].op = "clear"
  /\ ruleMutex = NoThread
  /\ rules' = {}
  /\ Return(t)
  /\ UNCHANGED <<locks, symbols, build, code, reply>>

LockRules(t) ==
  /\ pc[t] = "rules" /\ job[t].op = "ask"
  /\ ruleMutex = NoThread
  /\ ruleMutex' = t
  /\ Goto(t, "tag")
  /\ UNCHANGED <<rules, symbolMutex, symbols, build, code, job, depth, seen, calls, reply>>

TagHit(t) == \E r \in rules : <<r, job[t].rec.tag>> \in Matching

FrameHit(t) == \E r \in rules, i \in DOMAIN seen[t] : <<r, seen[t][i]>> \in Matching

Answer(t, b) ==
  /\ reply' = [reply EXCEPT ![t] = [rec |-> job[t].rec, answer |-> b]]
  /\ ruleMutex' = NoThread
  /\ Return(t)

\* A mutant: the rules are unlocked while the frames are resolved.
ReleaseRules == ruleMutex' = NoThread

KeepRules == UNCHANGED ruleMutex

\* The early answers, or on to the frames.  Outside the guard the copy of the
\* tag would be tracked, and a callback would come back to the lock.
CheckTag(t) ==
  /\ pc[t] = "tag"
  /\ IF depth[t] = 0
     THEN Goto(t, "rules") /\ UNCHANGED <<ruleMutex, job, depth, seen, calls, reply>>
     ELSE IF rules = {} \/ TagHit(t) \/ job[t].rec.frames = <<>>
     THEN Answer(t, TagHit(t))
     ELSE /\ Goto(t, "frames")
          /\ KeepRules
          /\ UNCHANGED <<job, depth, seen, calls, reply>>
  /\ UNCHANGED <<rules, symbolMutex, symbols, build, code>>

Resolved(t) == Len(seen[t]) = Len(job[t].rec.frames)

CompareFrames(t) ==
  /\ pc[t] = "frames" /\ job[t].op = "ask"
  /\ Resolved(t)
  /\ Answer(t, FrameHit(t))
  /\ UNCHANGED <<rules, symbolMutex, symbols, build, code>>

-----------------------------------------------------------------------------
(* StackTraceProvider.                                                     *)

NextAddr(t) == job[t].rec.frames[Len(seen[t]) + 1]

LockSymbols(t) ==
  /\ pc[t] = "frames" /\ ~Resolved(t)
  /\ symbolMutex = NoThread
  /\ symbolMutex' = t
  /\ depth' = ResolveGuard(t)
  /\ Goto(t, "resolve")
  /\ UNCHANGED <<rules, ruleMutex, symbols, build, code, job, seen, calls, reply>>

\* The name of the cached frame, or the platform's answer.
NameOf(a) == IF cache[a] = Miss THEN loaded[a] ELSE cache[a]

\* What was resolved is cached for good; on Windows the symbol handler is
\* initialised by the first miss.  Outside the guard the strings of the frame
\* would be tracked, and a callback would come back to the lock.
ResolveFrame(t) ==
  /\ pc[t] = "resolve"
  /\ IF depth[t] = 0
     THEN Goto(t, "frames") /\ UNCHANGED <<symbolMutex, symbols, seen, depth>>
     ELSE LET a == NextAddr(t)
          IN /\ cache' = [cache EXCEPT ![a] = NameOf(a)]
             /\ ready' = (ready \/ (build = "windows" /\ cache[a] = Miss))
             /\ seen' = [seen EXCEPT ![t] = Append(@, NameOf(a))]
             /\ symbolMutex' = NoThread
             /\ depth' = [depth EXCEPT ![t] = @ - 1]
             /\ Goto(t, "frames")
  /\ UNCHANGED <<rules, ruleMutex, build, code, job, calls, reply>>

\* resolve returns its frames to a reporter.
ReturnFrames(t) ==
  /\ pc[t] = "frames" /\ job[t].op = "resolve"
  /\ Resolved(t)
  /\ Return(t)
  /\ UNCHANGED <<rules, locks, symbols, build, code, reply>>

\* cleanup returns early unless the Windows branch has initialised the handler.
Cleanup(t) ==
  /\ pc[t] = "cleanup"
  /\ symbolMutex = NoThread
  /\ ready' = FALSE
  /\ cache' = IF ready THEN [a \in Addrs |-> Miss] ELSE cache
  /\ Return(t)
  /\ UNCHANGED <<rules, locks, build, code, reply>>

-----------------------------------------------------------------------------

\* dlclose and dlopen put other code at an address.
Reload(a, n) ==
  /\ loaded' = [loaded EXCEPT ![a] = n]
  /\ held' = [held EXCEPT ![a] = @ \cup {n}]
  /\ UNCHANGED <<rules, locks, symbols, build, locals, reply>>

Step(t) == AddRule(t) \/ ClearRules(t) \/ LockRules(t) \/ CheckTag(t) \/ CompareFrames(t)
           \/ LockSymbols(t) \/ ResolveFrame(t) \/ ReturnFrames(t) \/ Cleanup(t)

Next ==
  \/ \E t \in Threads : Step(t) \/ \E j \in Jobs : Call(t, j)
  \/ \E a \in Plugins, n \in Names : Reload(a, n)

\* The system schedules every thread; a std::mutex is not fair, but a thread
\* waits for it only while the finitely many calls of the others go on.
Spec == Init /\ [][Next]_vars /\ \A t \in Threads : WF_vars(Step(t))

-----------------------------------------------------------------------------
(* Properties.                                                             *)

\* The answers of is_suppressed, with the mutexes, the cache and its stale
\* names, are answers of one list of rules at one moment
\* (suppression_engine.hpp:36-69).
Promise == INSTANCE Suppressions

RefinesSuppressions == Promise!Spec

\* Every call returns: no thread waits for a mutex whose holder waits for it,
\* and none comes back to a mutex it holds, as every allocation made under one
\* is inside a guard (suppression_engine.hpp:37, stacktrace.cpp:103,
\* README.md:35).
CallsReturn == \A t \in Threads : pc[t] # "idle" ~> pc[t] = "idle"

=============================================================================
