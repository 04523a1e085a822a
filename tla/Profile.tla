------------------------------ MODULE Profile ------------------------------
(***************************************************************************)
(* Where a record says it comes from, its tag (scope_tag.hpp) and its call *)
(* stack (stacktrace.cpp), and what the reports make of a list of records: *)
(* the flamegraph (flamegraph.hpp) and the console, JSON and HTML reports  *)
(* (reporter.cpp).                                                         *)
(*                                                                         *)
(* A report is a function of the records, so it is an operator here, its   *)
(* wording left out; how a listing is made while threads run is the        *)
(* subject of Diagnostics.tla.  Widths are in bytes: the scale from bytes  *)
(* to pixels is the same for the whole drawing.                            *)
(***************************************************************************)
EXTENDS Naturals, SequencesExt

CONSTANTS Threads, Tags,
          Null, General, Unknown,   \* nullptr, "General" and "[unknown]"
          Stacks,        \* call stacks, the innermost frame first
          SymbolOf,      \* the name resolve_frame gives an address
          Sizes, Configs, Buckets,
          Covered,       \* the tags and symbols that contain a rule's pattern
          Slots,         \* the length of AllocationRecord::callstack
          MaxCapture,    \* the length of the buffer in capture
          Width,         \* the width of the drawing in pixels
          MaxObjects     \* bound: tracked blocks and open scopes together

\* The fields of memsentry::Config that decide what is captured.
ConfigType == [enable_stacktrace : BOOLEAN, max_stack_depth : Nat, stack_skip_frames : Nat]

ASSUME ProfileAssumption ==
  /\ {Null, General} \cap Tags = {} /\ Null # General
  /\ Stacks \subseteq Seq({Null} \cup DOMAIN SymbolOf)
  /\ Configs \subseteq ConfigType /\ Sizes \subseteq Nat
  /\ Slots \in Nat /\ MaxCapture \in Nat /\ Width \in Nat
  /\ MaxObjects \in Nat

\* Ranges one above the other that leave out no size but zero
\* (histogram.hpp:24-31).
ASSUME BucketsAssumption ==
  /\ Buckets \in Seq([min : Nat \ {0}, max : Nat])
  /\ \A k, l \in DOMAIN Buckets : k < l => Buckets[k].max < Buckets[l].min
  /\ \A size \in Sizes \ {0} :
       \E k \in DOMAIN Buckets : Buckets[k].min <= size /\ size <= Buckets[k].max

VARIABLES raw,       \* per thread, g_active_scope_tag
          scopes,    \* per thread, its ScopedTag objects, the innermost last
          records    \* what the tracker lists, in some order

vars == <<raw, scopes, records>>

Init ==
  /\ raw = [t \in Threads |-> Null]
  /\ scopes = [t \in Threads |-> <<>>]
  /\ records = <<>>

-----------------------------------------------------------------------------
(* Scope tags.                                                             *)

Objects == Len(records) + MapThenSumSet(LAMBDA t : Len(scopes[t]), Threads)

\* get_current_tag.
CurrentTag(t) == IF raw[t] = Null THEN General ELSE raw[t]

\* The constructor of ScopedTag; a null tag is allowed.
OpenScope(t, tag) ==
  /\ Objects < MaxObjects
  /\ scopes' = [scopes EXCEPT ![t] = Append(@, [tag |-> tag, prev |-> CurrentTag(t)])]
  /\ raw' = [raw EXCEPT ![t] = tag]
  /\ UNCHANGED records

\* A mutant: the end of a scope ends all of them.
Forgotten(t) == Null

\* What the destructor puts back.
Restored(t) == Last(scopes[t]).prev

\* Scopes are local variables: the innermost one ends first.
CloseScope(t) ==
  /\ scopes[t] # <<>>
  /\ raw' = [raw EXCEPT ![t] = Restored(t)]
  /\ scopes' = [scopes EXCEPT ![t] = Front(@)]
  /\ UNCHANGED records

-----------------------------------------------------------------------------
(* Allocations, as far as a record remembers them.                         *)

Least(m, n) == IF m <= n THEN m ELSE n

\* capture, called with at most the record's slots.
Capture(c, stack) ==
  LET depth == Least(c.max_stack_depth, Slots)
      found == Least(Len(stack), Least(depth + c.stack_skip_frames, MaxCapture))
      last  == Least(found, depth + c.stack_skip_frames)
  IN IF ~c.enable_stacktrace \/ depth = 0 \/ found <= c.stack_skip_frames
     THEN <<>> ELSE SubSeq(stack, c.stack_skip_frames + 1, last)

FinalTag(t, tag) == IF tag # Null THEN tag ELSE CurrentTag(t)

\* The tag the source text asks for at this point: the caller's, or that of
\* the scope around it.
Written(t, tag) ==
  IF tag # Null THEN tag
  ELSE IF scopes[t] = <<>> \/ Last(scopes[t]).tag = Null THEN General
  ELSE Last(scopes[t]).tag

\* What the configurations leave of the call stacks.
Captures == {Capture(c, stack) : c \in Configs, stack \in Stacks}

\* allocate; born is history.
Allocate(t, tag, size, stack) ==
  /\ Objects < MaxObjects
  /\ records' = Append(records, [tag |-> FinalTag(t, tag), size |-> size,
                                 stack |-> stack, born |-> Written(t, tag)])
  /\ UNCHANGED <<raw, scopes>>

Free(i) == records' = RemoveAt(records, i) /\ UNCHANGED <<raw, scopes>>

\* A mutant: the new block is tagged like any other.
TagHere(t, old) == CurrentTag(t)

\* The tag reallocate hands to allocate.
TagKept(t, old) == FinalTag(t, old.tag)

\* Some thread grows or shrinks the block: a new record with a stack of its
\* own.  A new size of zero is a free.
Reallocate(t, i, size, stack) ==
  /\ size # 0
  /\ records' = Append(RemoveAt(records, i),
                       [tag |-> TagKept(t, records[i]), size |-> size,
                        stack |-> stack, born |-> records[i].born])
  /\ UNCHANGED <<raw, scopes>>

Next ==
  \/ \E t \in Threads, tag \in Tags \cup {Null} : OpenScope(t, tag)
  \/ \E t \in Threads : CloseScope(t)
  \/ \E t \in Threads, size \in Sizes, stack \in Captures :
       \/ \E tag \in Tags \cup {Null} : Allocate(t, tag, size, stack)
       \/ \E i \in DOMAIN records : Reallocate(t, i, size, stack)
  \/ \E i \in DOMAIN records : Free(i)

Spec == Init /\ [][Next]_vars

-----------------------------------------------------------------------------
(* The flamegraph.                                                         *)

\* The loops that copy a list and leave some of it out.
Without(list, out) == FoldLeft(LAMBDA kept, e : IF e \in out THEN kept ELSE Append(kept, e), <<>>, list)

\* resolve leaves null frames out.
Resolve(stack) ==
  LET real == Without(stack, {Null})
  IN [i \in DOMAIN real |-> SymbolOf[real[i]]]

\* The names from the outermost frame to the innermost.
Path(rec) == IF rec.stack = <<>> THEN <<Unknown>> ELSE Reverse(Resolve(rec.stack))

NewNode == [self |-> 0, total |-> 0, selfCount |-> 0, count |-> 0, children |-> <<>>]

\* A mutant: a node keeps what passes through it.
PassedOn(node, rec, here) == [node EXCEPT !.self = @ + rec.size, !.selfCount = @ + 1]

\* The bytes stay with the innermost frame.
Kept(node, rec, here) ==
  IF here THEN [node EXCEPT !.self = @ + rec.size, !.selfCount = @ + 1] ELSE node

\* get_or_create_child: the children stay in the order of their first record.
WithChild(node, name) ==
  IF Contains(node.children, name) THEN node ELSE [node EXCEPT !.children = Append(@, name)]

\* One record of build_tree's loop.  A node is known by its path.
AddRecord(tree, rec) ==
  LET path == Path(rec)
      on   == Prefixes(path)
      old  == [p \in DOMAIN tree \cup on |-> IF p \in DOMAIN tree THEN tree[p] ELSE NewNode]
      Visit(p) == LET node == [old[p] EXCEPT !.total = @ + rec.size, !.count = @ + 1]
                  IN Kept(IF p = path THEN node ELSE WithChild(node, path[Len(p) + 1]), rec, p = path)
  IN [p \in DOMAIN old |-> IF p \in on THEN Visit(p) ELSE old[p]]

Root == <<>>

BuildTree(list) == FoldLeft(AddRecord, [p \in {Root} |-> NewNode], list)

\* get_flamegraph_svg and export_flamegraph_svg draw all records.
Flamegraph == BuildTree(records)

\* generate_folded_stacks: a line per record.
Folded(list) == [i \in DOMAIN list |-> [path |-> Path(list[i]), size |-> list[i].size]]

Bytes(tree, p, children) == MapThenSumSet(LAMBDA i : tree[Append(p, children[i])].total, DOMAIN children)

\* A mutant: child_x is not advanced.
AllFlushLeft(tree, p) == 0

\* child_x in the parent's loop: the siblings to the left of p.
LeftOf(tree, p) ==
  LET parent   == Front(p)
      children == tree[parent].children
      place    == CHOOSE i \in DOMAIN children : children[i] = Last(p)
  IN Bytes(tree, parent, SubSeq(children, 1, place - 1))

\* The x of render_node_svg, passed down from the root.
XOf(tree, p) == MapThenSumSet(LAMBDA n : LeftOf(tree, SubSeq(p, 1, n)), 1 .. Len(p))

\* At least one pixel wide, and so is all it stands on.
Drawn(tree, p) == \A q \in Prefixes(p) : tree[q].total * Width >= tree[Root].total

\* generate_svg and render_node_svg: a row per depth, the root's at the bottom.
Rectangles(tree) ==
  IF tree[Root].total = 0 THEN {}
  ELSE {[path |-> p, row |-> Len(p), x |-> XOf(tree, p), w |-> tree[p].total] :
          p \in {q \in DOMAIN tree : Drawn(tree, q)}}

-----------------------------------------------------------------------------
(* The reports.                                                            *)

\* is_suppressed.
Suppressed(rec) == rec.tag \in Covered \/ \E i \in DOMAIN Resolve(rec.stack) : Resolve(rec.stack)[i] \in Covered

\* A mutant: an export that does not ask the engine.
EveryRecord == records

Unsuppressed == Without(records, {rec \in Range(records) : Suppressed(rec)})

SuppressedCount == Cardinality({i \in DOMAIN records : Suppressed(records[i])})

SizesAt(list, places) == MapThenSumSet(LAMBDA i : list[i].size, places)

SizeSum(list) == SizesAt(list, DOMAIN list)

\* One leak as all reports show it, but for the id, address and layout.
Shown(rec) == [size |-> rec.size, tag |-> rec.tag, frames |-> Resolve(rec.stack)]

Listed(list) == [i \in DOMAIN list |-> Shown(list[i])]

Console(list) == [clean |-> list = <<>>, count |-> Len(list), bytes |-> SizeSum(list), leaks |-> Listed(list)]

Json(list) == [leak_count |-> Len(list), leak_bytes |-> SizeSum(list), leaks |-> Listed(list)]

InBucket(list, b) == {i \in DOMAIN list : b.min <= list[i].size /\ list[i].size <= b.max}

Feed(list) == [k \in DOMAIN Buckets |-> Cardinality(InBucket(list, Buckets[k]))]

Html(list) == [clean |-> list = <<>>, count |-> Len(list), bytes |-> SizeSum(list),
               tree |-> BuildTree(list), bars |-> Feed(list), leaks |-> Listed(list)]

-----------------------------------------------------------------------------
(* Properties.                                                             *)

\* An allocation is tagged with what the text around it says, on every path
\* through nested and sequential scopes of several threads, and keeps the tag
\* of its birth when another thread reallocates it under other scopes
\* (scope_tag.hpp:36-37, memsentry.cpp:241-242, 363).
TagsFollowScopes ==
  /\ \A t \in Threads : CurrentTag(t) = Written(t, Null)
  /\ \A i \in DOMAIN records : records[i].tag = records[i].born

\* Every byte is counted once: a node's total is its own and its children's,
\* what it keeps is what the folded stacks say of its path, and the root has
\* all (flamegraph.hpp:49-109).
TreeAccounts ==
  LET tree  == Flamegraph
      lines == Folded(records)
  IN /\ tree[Root].total = SizeSum(records) /\ tree[Root].count = Len(records)
     /\ \A p \in DOMAIN tree :
          LET at == {i \in DOMAIN lines : lines[i].path = p}
          IN /\ tree[p].total = tree[p].self + Bytes(tree, p, tree[p].children)
             /\ tree[p].self = SizesAt(lines, at)
             /\ tree[p].selfCount = Cardinality(at)

Within(r, s) == s.x <= r.x /\ r.x + r.w <= s.x + s.w

Disjoint(r, s) == r.x + r.w <= s.x \/ s.x + s.w <= r.x

\* The drawing is a flamegraph: a rectangle stands on its caller's, and those
\* of a row do not overlap (flamegraph.hpp:144-196).
RectanglesNested ==
  LET drawing == Rectangles(Flamegraph)
  IN \A r \in drawing :
       /\ r.path = Root \/ \E s \in drawing : s.path = Front(r.path) /\ Within(r, s)
       /\ \A s \in drawing : r.row = s.row /\ r # s => Disjoint(r, s)

HeightOf(bars) == MapThenSumSet(LAMBDA k : bars[k], DOMAIN bars)

\* The reports agree about one list: the leaks of the JSON file and what is
\* suppressed make up the standalone flamegraph; the flamegraph of the HTML
\* page has the bytes of the console's summary and each call stack of the
\* page's table, and its histogram all blocks but those of size zero
\* (memsentry.cpp:393-449, 466-471, reporter.cpp:172-412).
ReportsAgree ==
  LET list == Unsuppressed
      page == Html(list)
  IN /\ Json(list).leak_count + SuppressedCount = Flamegraph[Root].count
     /\ page.tree[Root].total = Console(list).bytes
     /\ \A i \in DOMAIN list :
          page.leaks[i].frames # <<>> => Reverse(page.leaks[i].frames) \in DOMAIN page.tree
     /\ HeightOf(page.bars) = Cardinality({i \in DOMAIN list : list[i].size > 0})

=============================================================================
