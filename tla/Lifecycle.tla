----------------------------- MODULE Lifecycle -----------------------------
(***************************************************************************)
(* The life of a process that uses the tool: init and shutdown             *)
(* (memsentry.cpp:165-195), the first use of the suppression engine, which *)
(* is a function-local static (suppression_engine.hpp:17-20), and the end  *)
(* of the process, which runs what was registered with atexit, destructors *)
(* of static objects included, the last one first.                         *)
(*                                                                         *)
(* The program before its exit is one thread that may do these things in   *)
(* any order.  Listings that race with running threads are the subject of  *)
(* Diagnostics.tla; here the question is what is registered when, and what *)
(* is still alive when on_exit runs.                                       *)
(***************************************************************************)
EXTENDS Naturals, SequencesExt

CONSTANTS Configs,       \* the configurations init is called with
          Tags,          \* the tags of allocations, which are also the rules
          Statics,       \* objects with static storage that own a tracked block
          OwnStatuses,   \* the statuses the program itself exits with
          MaxStarts,     \* bound: how often the tool goes from off to on
          MaxInits,      \* bound: the calls of init
          MaxBlocks      \* bound: the tracked blocks

NoOwner == "none"

\* The fields of memsentry::Config that matter at the exit.
ConfigType == [auto_report_on_exit : BOOLEAN, exit_with_code_on_leak : BOOLEAN]

ASSUME LifecycleAssumption ==
  /\ Configs \subseteq ConfigType
  /\ NoOwner \notin Statics
  /\ OwnStatuses \subseteq Nat \ {1}
  /\ MaxStarts \in Nat /\ MaxInits \in Nat /\ MaxBlocks \in Nat

VARIABLES
  initialized, config,   \* the Manager's fields
  engine,                \* the suppression engine: unborn, live or destroyed
  rules,
  blocks,                \* the records in the tracker, equal ones counted once
  exitStack,             \* what exit will run, from its end to its beginning
  phase, status,         \* running, exiting or ended; the exit status
  reports,               \* history: what on_exit printed
  starts, inits, asked,  \* history: starts, calls of init, starts that asked for a report
  builtAt                \* history: the starts before the engine was constructed

tool == <<initialized, config>>
suppression == <<engine, rules, builtAt>>
process == <<phase, status>>
calls == <<starts, inits, asked>>
vars == <<tool, suppression, blocks, exitStack, process, reports, calls>>

\* A registered exit function; `who' is its object or, for the report, the
\* start that registered it.
Entry(kind, who) == [kind |-> kind, who |-> who]

Init ==
  /\ initialized = FALSE
  /\ config = [auto_report_on_exit |-> FALSE, exit_with_code_on_leak |-> FALSE]
  /\ engine = "unborn"
  /\ rules = {}
  /\ blocks = {}
  /\ exitStack = <<>>
  /\ phase = "running"
  /\ status = 0
  /\ reports = <<>>
  /\ starts = 0 /\ inits = 0 /\ asked = 0
  /\ builtAt = 0

-----------------------------------------------------------------------------
(* While the program runs.                                                 *)

\* A mutant: the handler is registered before the early return.
RegisterAlways(c) ==
  IF c.auto_report_on_exit
  THEN exitStack' = Append(exitStack, Entry("report", starts'))
  ELSE UNCHANGED exitStack

\* The tail of initialize: only the call that starts the tool gets there.
Register(c) ==
  IF ~initialized /\ c.auto_report_on_exit
  THEN exitStack' = Append(exitStack, Entry("report", starts'))
  ELSE UNCHANGED exitStack

Initialize(c) ==
  /\ phase = "running"
  /\ inits < MaxInits
  /\ inits' = inits + 1
  /\ config' = c
  /\ initialized' = TRUE
  /\ IF initialized
     THEN UNCHANGED <<starts, asked>>
     ELSE /\ starts < MaxStarts
          /\ starts' = starts + 1
          /\ asked' = IF c.auto_report_on_exit THEN asked + 1 ELSE asked
  /\ Register(c)
  /\ UNCHANGED <<suppression, blocks, process, reports>>

\* shutdown, by the program or by an exit function of its own.
TurnOff == initialized' = FALSE /\ UNCHANGED config

Shutdown ==
  /\ phase = "running"
  /\ initialized
  /\ TurnOff
  /\ UNCHANGED <<suppression, blocks, exitStack, process, reports, calls>>

\* The program registers shutdown with atexit.
ShutdownAtExit ==
  /\ phase = "running"
  /\ \A i \in DOMAIN exitStack : exitStack[i].kind # "shutdown"
  /\ exitStack' = Append(exitStack, Entry("shutdown", NoOwner))
  /\ UNCHANGED <<tool, suppression, blocks, process, reports, calls>>

\* SuppressionEngine::instance(): the first call constructs the engine and
\* registers its destructor behind `registered'.
Engine(registered) ==
  IF engine = "unborn"
  THEN /\ engine' = "live"
       /\ exitStack' = Append(registered, Entry("engine", NoOwner))
       /\ builtAt' = starts
  ELSE exitStack' = registered /\ UNCHANGED <<engine, builtAt>>

Suppress(tag) ==
  /\ phase = "running"
  /\ Engine(exitStack)
  /\ rules' = rules \cup {tag}
  /\ UNCHANGED <<tool, blocks, process, reports, calls>>

ClearSuppressions ==
  /\ phase = "running"
  /\ Engine(exitStack)
  /\ rules' = {}
  /\ UNCHANGED <<tool, blocks, process, reports, calls>>

\* has_unsuppressed_leaks and its like reach the engine when there is a record.
AskForLeaks ==
  /\ phase = "running"
  /\ blocks # {}
  /\ Engine(exitStack)
  /\ UNCHANGED <<tool, rules, blocks, process, reports, calls>>

Block(tag, owner) == [tag |-> tag, owner |-> owner, era |-> starts]

\* The program allocates a block it will not free.
Leak(tag) ==
  /\ phase = "running"
  /\ initialized
  /\ Cardinality(blocks) < MaxBlocks
  /\ blocks' = blocks \cup {Block(tag, NoOwner)}
  /\ UNCHANGED <<tool, suppression, exitStack, process, reports, calls>>

\* The constructor of a static object allocates; then its destructor is registered.
BuildStatic(s, tag) ==
  /\ phase = "running"
  /\ initialized
  /\ Cardinality(blocks) < MaxBlocks
  /\ \A i \in DOMAIN exitStack : exitStack[i].who # s
  /\ blocks' = blocks \cup {Block(tag, s)}
  /\ exitStack' = Append(exitStack, Entry("static", s))
  /\ UNCHANGED <<tool, suppression, process, reports, calls>>

Exit(code) ==
  /\ phase = "running"
  /\ phase' = "exiting"
  /\ status' = code
  /\ UNCHANGED <<tool, suppression, blocks, exitStack, reports, calls>>

-----------------------------------------------------------------------------
(* exit: pop the last entry and run it.                                    *)

Top(kind) == phase = "exiting" /\ exitStack # <<>> /\ Last(exitStack).kind = kind

\* A mutant: the list is not filtered.
AllListed == {blocks}

\* What a pass of is_suppressed over the records can leave.  The destructor of
\* rules_ frees its strings and leaves the pointers, so that a pass over rules
\* that were not empty compares the tags with freed memory; that it may also
\* crash is left out.
Listings ==
  IF engine = "destroyed" /\ rules # {} THEN SUBSET blocks
  ELSE {{b \in blocks : b.tag \notin rules}}

\* A mutant: any record left fails the process.
FailsOnAny(listed) == config.exit_with_code_on_leak /\ blocks # {}

Fails(listed) == config.exit_with_code_on_leak /\ listed # {}

\* A mutant: a handler that has nothing to do stays registered.
SkippedStays == exitStack

\* The early returns of on_exit.
Skipped == Front(exitStack)

\* on_exit: dump_leaks lists once, has_unsuppressed_leaks decides on a second
\* pass, and exit(1) goes on with the functions that are still registered (the
\* C library's behaviour; the standard leaves a nested exit open).
RunReport ==
  /\ Top("report")
  /\ IF initialized /\ config.auto_report_on_exit
     THEN /\ \E listed \in Listings, again \in Listings :
               /\ reports' = Append(reports, [listed |-> listed, rules |-> rules,
                                              era |-> Last(exitStack).who])
               /\ status' = IF Fails(again) THEN 1 ELSE status
          /\ IF blocks = {}
             THEN exitStack' = Front(exitStack) /\ UNCHANGED <<engine, builtAt>>
             ELSE Engine(Front(exitStack))
     ELSE exitStack' = Skipped /\ UNCHANGED <<engine, builtAt, reports, status>>
  /\ UNCHANGED <<tool, rules, blocks, phase, calls>>

DestroyEngine ==
  /\ Top("engine")
  /\ exitStack' = Front(exitStack)
  /\ engine' = "destroyed"
  /\ UNCHANGED <<tool, rules, builtAt, blocks, process, reports, calls>>

\* deallocate erases the record whether or not the tool is still on.
DestroyStatic ==
  /\ Top("static")
  /\ exitStack' = Front(exitStack)
  /\ blocks' = {b \in blocks : b.owner # Last(exitStack).who}
  /\ UNCHANGED <<tool, suppression, process, reports, calls>>

RunShutdown ==
  /\ Top("shutdown")
  /\ exitStack' = Front(exitStack)
  /\ TurnOff
  /\ UNCHANGED <<suppression, blocks, process, reports, calls>>

EndProcess ==
  /\ phase = "exiting"
  /\ exitStack = <<>>
  /\ phase' = "ended"
  /\ UNCHANGED <<tool, suppression, blocks, exitStack, status, reports, calls>>

Ended == phase = "ended" /\ UNCHANGED vars

Running ==
  \/ \E c \in Configs : Initialize(c)
  \/ \E tag \in Tags : Suppress(tag) \/ Leak(tag) \/ \E s \in Statics : BuildStatic(s, tag)
  \/ Shutdown \/ ShutdownAtExit \/ ClearSuppressions \/ AskForLeaks
  \/ \E code \in OwnStatuses : Exit(code)

Exiting == RunReport \/ DestroyEngine \/ DestroyStatic \/ RunShutdown \/ EndProcess

Next == Running \/ Exiting \/ Ended

\* exit runs its functions to the end; nothing obliges the program to exit.
Spec == Init /\ [][Next]_vars /\ WF_vars(Exiting)

-----------------------------------------------------------------------------
(* Properties.                                                             *)

\* A process that ends with the tool on has printed one report for every start
\* that asked for one, if the configuration in force asks too, and none
\* otherwise: a later init neither adds nor replaces a handler, and what it
\* asks for alone is not done (memsentry.cpp:177-187, 477-482).
ReportsAsStarted ==
  phase = "ended" /\ initialized =>
    Len(reports) = IF config.auto_report_on_exit THEN asked ELSE 0

\* The process fails because of a leak exactly when a report listed one and
\* the configuration asks for it, whatever ran between that report and the end
\* (memsentry.cpp:483-485); unless rules were read after their destruction.
StatusTellsLeak ==
  phase = "ended" /\ (\A i \in DOMAIN reports : reports[i].rules = {} \/ builtAt < reports[i].era) =>
    (status = 1 <=> config.exit_with_code_on_leak /\ \E i \in DOMAIN reports : reports[i].listed # {})

\* A report blames only what it should.  The block of a static object is listed
\* only if it was allocated before the start that registered the report: later
\* ones are freed before it runs (memsentry.cpp:185).  Rules made by an engine
\* older than that start are honoured, as the engine outlives the handler
\* (suppression_engine.hpp:17).
ListedRightly ==
  \A i \in DOMAIN reports : \A b \in reports[i].listed :
    /\ b.owner # NoOwner => b.era < reports[i].era
    /\ builtAt < reports[i].era => b.tag \notin reports[i].rules

\* Suppressed allocations are not reported (README.md:49).
SuppressedNotReported ==
  \A i \in DOMAIN reports : \A b \in reports[i].listed : b.tag \notin reports[i].rules

\* exit reaches its end although a handler calls it again (memsentry.cpp:484).
ExitEnds == phase = "exiting" ~> phase = "ended"

=============================================================================
