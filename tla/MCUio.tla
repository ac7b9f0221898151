------------------------------- MODULE MCUio -------------------------------
(* Uio for TLC: int has 4 bits; buffers that are empty, ordinary, longer than
   INT_MAX and longer than UINT_MAX. *)
EXTENDS Uio, SequencesExt

CONSTANTS a, b

MCVectors == SeqOf({0, 1, 3, 8, 17}, 2) \cup {<<1, 2, 3>>, <<2, 0, 3>>, <<3, 3, 3>>, <<7, 7, 7>>}
MCInputs == SeqOf({a, b}, 5) \cup {<<a, a, b, a, b, b, a, a, b>>,
                              [k \in 1 .. 17 |-> IF k % 3 = 0 THEN b ELSE a]}
MCNeedles == SeqOf({a, b}, 3)
=============================================================================
