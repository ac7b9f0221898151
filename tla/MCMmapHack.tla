----------------------------- MODULE MCMmapHack -----------------------------
(* MmapHack for TLC: two descriptors, two files, two addresses. *)
EXTENDS MmapHack, TLC

CONSTANTS fd1, fd2, f1, f2, p1, p2, v0, v1

MCFds == {fd1, fd2}
MCFiles == {f1, f2}
MCPtrs == {p1, p2}
MCVals == {v0, v1}

\* Descriptors, files, addresses and contents are only compared for equality.
Symmetry == Permutations(MCFds) \cup Permutations(MCFiles)
              \cup Permutations(MCPtrs) \cup Permutations(MCVals)
=============================================================================
