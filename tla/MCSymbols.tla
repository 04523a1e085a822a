----------------------------- MODULE MCSymbols -----------------------------
(* Two threads, two addresses and records that are matched by their tag, by *)
(* one of two frames or by nothing.                                         *)
EXTENDS Symbols

CONSTANTS a1, a2, game, audio, play, mix, byTag, byName, empty

MCRecords == {[tag |-> audio, frames |-> <<a1>>], [tag |-> game, frames |-> <<a1, a2>>],
              [tag |-> game, frames |-> <<>>]}

MCMatching == {<<byTag, audio>>, <<byName, mix>>} \cup {<<empty, s>> : s \in {audio, game, play, mix}}

=============================================================================
