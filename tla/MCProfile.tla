----------------------------- MODULE MCProfile -----------------------------
(* One hook frame on top of an application frame and its caller.  The slots *)
(* of a record and the buffer of capture are 32 and 64 frames in the code.  *)
EXTENDS Profile, TLC

CONSTANTS hook, f1, f2, g, main, F, G, Main, Hook

MCStacks == {<<hook, f1, main>>, <<hook, g, main>>, <<hook, f2, Null>>}
MCSymbolOf == (hook :> Hook) @@ (f1 :> F) @@ (f2 :> F) @@ (g :> G) @@ (main :> Main)

Off == [enable_stacktrace |-> FALSE, max_stack_depth |-> 4, stack_skip_frames |-> 1]
MCConfigs == {Off, [Off EXCEPT !.enable_stacktrace = TRUE],
              [enable_stacktrace |-> TRUE, max_stack_depth |-> 1, stack_skip_frames |-> 2]}

MCBuckets == <<[min |-> 1, max |-> 2], [min |-> 3, max |-> 9]>>

Symmetry == Permutations(Threads)

=============================================================================
