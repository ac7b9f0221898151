----------------------------- MODULE MCFdCache -----------------------------
(* FdCache for TLC: three descriptors, three handle values. *)
EXTENDS FdCache, TLC

CONSTANTS h1, h2, h3

MCHandles == {h1, h2, h3}

\* Handle values are only compared for equality.
Symmetry == Permutations(MCHandles)
=============================================================================
