---------------------------- MODULE Suppressions ----------------------------
(***************************************************************************)
(* What the callers of suppress, clear_suppressions and is_suppressed rely *)
(* on.  There is one list of rules.  A question about a record is answered *)
(* as of one moment: by all the rules of that moment, the record's tag and *)
(* names that its frames have, or had at an earlier time.  No lock, no     *)
(* cache, and no time between asking and answering.                        *)
(***************************************************************************)
CONSTANTS Threads, Rules, Records, Addrs,
          Names,        \* a name is a frame's symbol and file, the texts rules look in
          Matching,     \* pairs of a rule and a tag or name that contains it
          EmptyRule,    \* the empty string, which every string contains
          NoReply

VARIABLES rules,        \* the rules in force
          held,         \* per address, the names it has had so far
          reply         \* per thread, the last answer and what was asked

vars == <<rules, held, reply>>

Init ==
  /\ rules = {}
  /\ \E n \in Names : held = [a \in Addrs |-> {n}]
  /\ reply = [t \in Threads |-> NoReply]

\* Some rule is contained in the tag or in the name of a frame.
Hit(rs, tag, seen) ==
  \E r \in rs : <<r, tag>> \in Matching \/ \E i \in DOMAIN seen : <<r, seen[i]>> \in Matching

\* The names a report may give to a record's frames.
Namings(rec) == {seen \in [DOMAIN rec.frames -> Names] :
                   \A i \in DOMAIN seen : seen[i] \in held[rec.frames[i]]}

AddRule(r) == r # EmptyRule /\ rules' = rules \cup {r} /\ UNCHANGED <<held, reply>>

ClearRules == rules' = {} /\ UNCHANGED <<held, reply>>

Ask(t, rec) ==
  /\ \E seen \in Namings(rec) :
       reply' = [reply EXCEPT ![t] = [rec |-> rec, answer |-> Hit(rules, rec.tag, seen)]]
  /\ UNCHANGED <<rules, held>>

\* The program loads or unloads code: an address gets another name.
Rename(a, n) == held' = [held EXCEPT ![a] = @ \cup {n}] /\ UNCHANGED <<rules, reply>>

Next ==
  \/ \E r \in Rules : AddRule(r)
  \/ ClearRules
  \/ \E t \in Threads, rec \in Records : Ask(t, rec)
  \/ \E a \in Addrs, n \in Names : Rename(a, n)

Spec == Init /\ [][Next]_vars

=============================================================================
