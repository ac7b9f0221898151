------------------------------- MODULE Memory -------------------------------
(***************************************************************************)
(* Numbers as the C code hands them on, and what the calls of memmem() in  *)
(* winsup/str.c see.  A length is converted to int or unsigned int without *)
(* a check.                                                                *)
(***************************************************************************)
EXTENDS Integers, Sequences

CONSTANT UINT_MAX   \* 2^w - 1 for an int of w bits

ASSUME WidthAssumption == UINT_MAX \in Nat /\ UINT_MAX % 2 = 1

INT_MAX == UINT_MAX \div 2
AsUnsigned(n) == n % (UINT_MAX + 1)
AsInt(n) == IF AsUnsigned(n) > INT_MAX THEN AsUnsigned(n) - UINT_MAX - 1 ELSE AsUnsigned(n)

NULL == -1

\* The places left to search from ndx for m bytes in n.
SearchLenShort(n, m, ndx) == n - ndx - m
SearchLen(n, m, ndx) == n - ndx - m + 1

\* The places at which memchr() can stop; it stops at the first.
Candidates(hay, ndx, byte, searchlen) == {k \in ndx .. ndx + searchlen - 1 : hay[k + 1] = byte}

\* memcmp() of len bytes behind place k.
SameBytes(hay, k, needle, len) == \A j \in 1 .. len : hay[k + j] = needle[j]

\* What memmem() is for: where the needle is in the first n bytes.
Occurrences(hay, n, needle) ==
    {k \in 0 .. n - Len(needle) : SameBytes(hay, k, needle, Len(needle))}
=============================================================================
