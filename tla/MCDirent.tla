------------------------------ MODULE MCDirent ------------------------------
(* Dirent for TLC: two directories, two short places and one whose path is too long. *)
EXTENDS Dirent, TLC

CONSTANTS a, b, p1, p2, p3, fd1, fd2, s1, s2

MCKinds == {"reg", "lnk", "none"}

Symmetry == Permutations({a, b}) \cup Permutations({p1, p2})
              \cup Permutations({fd1, fd2}) \cup Permutations({s1, s2})
=============================================================================
