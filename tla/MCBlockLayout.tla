---------------------------- MODULE MCBlockLayout ----------------------------
(* The code's sizes scaled down by four (the header to two alignments), in   *)
(* an address space small enough that requests overflow it.                  *)
EXTENDS BlockLayout

MCRequests ==
  {q \in [size : {0, 1, 3, 30, 63}, align : {1, 4, 8, 16}, footer : {0, 1, 2, 5}, canary : BOOLEAN] :
     ~q.canary => q.footer = 0}

=============================================================================
