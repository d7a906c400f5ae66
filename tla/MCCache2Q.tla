----------------------------- MODULE MCCache2Q -----------------------------
(***************************************************************************)
(* The smallest caches in which each list overflows.  Blocks and threads   *)
(* are interchangeable.                                                    *)
(***************************************************************************)
EXTENDS Cache2Q
Symmetry == Permutations(Block) \cup Permutations(Thread)
=============================================================================
