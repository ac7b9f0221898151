----------------------------- MODULE MCSendfile -----------------------------
(* Sendfile for TLC: a buffer of three bytes, inputs up to seven, and counts up to
   OFF_MAX, from which n_left can wrap around, and three above, where it is negative. *)
EXTENDS Sendfile

MCLengths == 0 .. 7
MCCounts == 0 .. OFF_MAX + 2 \cup {SIZE_MAX}
=============================================================================
