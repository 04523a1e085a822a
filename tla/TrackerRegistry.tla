-------------------------- MODULE TrackerRegistry --------------------------
(***************************************************************************)
(* What core::ShardedTracker promises its callers, with no ring, no head   *)
(* and no order of visiting the shards:                                    *)
(*  - a map from the pointers in use to their records;                     *)
(*  - per shard the last QuarantineSize successful erasures, oldest first, *)
(*    in which a pointer inserted again leaves a hole;                     *)
(*  - listings that are not atomic: one returns some set of entries        *)
(*    between those tracked throughout the call and those tracked at some  *)
(*    time during it.                                                      *)
(***************************************************************************)
EXTENDS Integers, FiniteSets, Sequences

CONSTANTS Ptr, Rec, Null, NoRecord, QuarantineSize, Threads, ShardCount, ShardOf

VARIABLES live, window, call, ret

vars == <<live, window, call, ret>>

Shards == 0 .. ShardCount - 1

NoCall == [op |-> "idle", todo |-> {}, stable |-> {}, seen |-> {}]

Init ==
  /\ live = [p \in Ptr |-> NoRecord]
  /\ window = [i \in Shards |-> [j \in 1 .. QuarantineSize |-> Null]]
  /\ call = [t \in Threads |-> NoCall]
  /\ ret = [by |-> Null, op |-> "none", value |-> Null]

InUse(p) == live[p] # NoRecord

RecentlyErased(p) == \E j \in 1 .. QuarantineSize : window[ShardOf[p]][j] = p

Listed == {e \in Ptr \X Rec : live[e[1]] = e[2]}

Free(t) == call[t].op = "idle"

Return(t, op, value) == ret' = [by |-> t, op |-> op, value |-> value]

\* Every listing that is running takes note of the entries there now are.
Note ==
  call' = [t \in Threads |->
             IF Free(t) THEN NoCall
             ELSE [call[t] EXCEPT !.stable = @ \cap Listed', !.seen = @ \cup Listed']]

Insert(t, p, r) ==
  /\ Free(t)
  /\ live' = [live EXCEPT ![p] = r]
  /\ window' = [window EXCEPT ![ShardOf[p]] =
                  [j \in 1 .. QuarantineSize |-> IF @[j] = p THEN Null ELSE @[j]]]
  /\ Return(t, "insert", Null)
  /\ Note

EraseLive(t, p) ==
  /\ Free(t)
  /\ InUse(p)
  /\ live' = [live EXCEPT ![p] = NoRecord]
  /\ window' = [window EXCEPT ![ShardOf[p]] = Append(Tail(@), p)]
  /\ Return(t, "erase", <<p, "SUCCESS", live[p]>>)
  /\ Note

EraseDead(t, p) ==
  /\ Free(t)
  /\ p \in Ptr => ~InUse(p)
  /\ Return(t, "erase",
            <<p, IF p \in Ptr /\ RecentlyErased(p) THEN "DOUBLE_FREE_DETECTED" ELSE "NOT_FOUND",
              NoRecord>>)
  /\ UNCHANGED <<live, window, call>>

Find(t, p) ==
  /\ Free(t)
  /\ Return(t, "find", <<p, IF p \in Ptr THEN live[p] ELSE NoRecord>>)
  /\ UNCHANGED <<live, window, call>>

InsertNull(t) ==
  /\ Free(t)
  /\ Return(t, "insert", Null)
  /\ UNCHANGED <<live, window, call>>

Begin(t, op) ==
  /\ Free(t)
  /\ call' = [call EXCEPT ![t] = [op |-> op, todo |-> IF op = "clear" THEN Shards ELSE {},
                                  stable |-> Listed, seen |-> Listed]]
  /\ UNCHANGED <<live, window, ret>>

\* A clear in progress empties one more shard.
ClearOne(t) ==
  \E i \in call[t].todo :
    /\ live' = [p \in Ptr |-> IF ShardOf[p] = i THEN NoRecord ELSE live[p]]
    /\ window' = [window EXCEPT ![i] = [j \in 1 .. QuarantineSize |-> Null]]
    /\ call' = [u \in Threads |->
                  IF Free(u) THEN NoCall
                  ELSE [call[u] EXCEPT !.todo = IF u = t THEN @ \ {i} ELSE @,
                                       !.stable = @ \cap Listed', !.seen = @ \cup Listed']]
    /\ UNCHANGED ret

End(t) ==
  /\ ~Free(t)
  /\ call[t].todo = {}
  /\ \/ /\ call[t].op = "snapshot_all"
        /\ \E listing \in SUBSET call[t].seen :
             /\ call[t].stable \subseteq listing
             /\ Return(t, "snapshot_all", listing)
     \/ /\ call[t].op = "size"
        /\ \E n \in Cardinality(call[t].stable) .. Cardinality(call[t].seen) :
             Return(t, "size", n)
     \/ /\ call[t].op = "clear"
        /\ Return(t, "clear", Null)
  /\ call' = [call EXCEPT ![t] = NoCall]
  /\ UNCHANGED <<live, window>>

Next ==
  \E t \in Threads :
    \/ \E p \in Ptr, r \in Rec : Insert(t, p, r)
    \/ \E p \in Ptr : EraseLive(t, p)
    \/ \E p \in Ptr \cup {Null} : EraseDead(t, p) \/ Find(t, p)
    \/ InsertNull(t)
    \/ \E op \in {"snapshot_all", "size", "clear"} : Begin(t, op)
    \/ ClearOne(t)
    \/ End(t)

Spec == Init /\ [][Next]_vars

=============================================================================
