----------------------------- MODULE MCAtCalls -----------------------------
(* AtCalls for TLC: the current directory and two others, four places, one of them too
   long for a path, one name. *)
EXTENDS AtCalls, TLC

CONSTANTS cwd, a, b, home, p1, p2, p3, f

\* 2 has an errno, 4390 (not a reparse point) has none, 9000 is the first behind
\* the table.
MCWinErrs == {2, 4390, winerr_map_size}

MCStart == cwd :> home @@ a :> p1 @@ b :> p2
=============================================================================
