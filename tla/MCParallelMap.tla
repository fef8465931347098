---------------------------- MODULE MCParallelMap ----------------------------
(***************************************************************************)
(* Small instances of ParallelMap: every closure over inputs of up to      *)
(* MaxLen elements, every worker bound up to one more than that, and       *)
(* slices that disagree by one.                                            *)
(***************************************************************************)
EXTENDS ParallelMap

CONSTANT MaxLen

MCRequests ==
    UNION {[input : {n}, output : {n, n + 1}, workers : 0 .. MaxLen + 1,
            f : [1 .. n -> {"ok", "err", "panic"}]] : n \in 0 .. MaxLen}
=============================================================================
