-------------------------------- MODULE Uio --------------------------------
(***************************************************************************)
(* winsup/uio.c: readv() and writev() as a loop over read() and write();   *)
(* winsup/str.c: memmem(), searching what was read.                        *)
(*                                                                         *)
(* A vector is the sequence of the lengths of its buffers; a place in      *)
(* memory is <<buffer, offset>>.  read() and write() take their length as  *)
(* unsigned int and refuse one above INT_MAX, while iov_len is size_t.     *)
(* They may serve a part, be interrupted, or fail: how often the last two  *)
(* happen is bounded by MaxMishaps.  The bytes written are not looked at;  *)
(* the bytes read are those of input.  A needle is of a length an int can  *)
(* say; what memmem() searches may be longer.                              *)
(***************************************************************************)
EXTENDS Memory

CONSTANTS
    Vectors,     \* vectors the client uses
    Byte,
    Inputs,      \* contents of the file that is read
    Needles,     \* what the client looks for
    MaxMishaps

ASSUME UioAssumption ==
    /\ Vectors \subseteq Seq(Nat) /\ MaxMishaps \in Nat
    /\ Inputs \subseteq Seq(Byte)
    /\ Needles \subseteq Seq(Byte) /\ \A n \in Needles : Len(n) <= INT_MAX

VARIABLES
    do_write, iov, input,
    i, off, ret,   \* of __uio_impl(); i counts from 1
    pc,            \* "loop", "done"; then "search" and "found" of memmem()
    moved,         \* the places bytes were moved to or from, in order
    ended,         \* a call met the end of the file, or failed
    mishaps,
    needle, ndx, result   \* of memmem()

transfer == <<do_write, iov, input, i, off, ret, moved, ended, mishaps>>
search == <<needle, ndx, result>>
vars == <<transfer, pc, search>>

Init ==
    /\ do_write \in BOOLEAN /\ iov \in Vectors
    /\ input \in IF do_write THEN {<<>>} ELSE Inputs
    /\ i = 1 /\ off = 0 /\ ret = 0
    /\ pc = "loop" /\ moved = <<>> /\ ended = FALSE /\ mishaps = 0
    /\ needle = <<>> /\ ndx = 0 /\ result = NULL

\* while (i < iov_cnt): the next call is for the rest of buffer i.
InLoop == pc = "loop" /\ i <= Len(iov)
Count == AsUnsigned(iov[i] - off)

\* What read() finds, and what write() has room for.
Available == IF do_write THEN Count ELSE Len(input) - Len(moved)

Done == pc' = "done" /\ UNCHANGED <<i, off>>

\* r > 0: on with the buffer, or with the next one.
AdvanceAlways(r) == i' = i + 1 /\ off' = 0
Advance(r) == IF off + r < iov[i] THEN off' = off + r /\ i' = i ELSE off' = 0 /\ i' = i + 1

Moves(r) ==
    /\ InLoop /\ Count <= INT_MAX
    /\ r \in 1 .. Count /\ r <= Available
    /\ moved' = moved \o [k \in 1 .. r |-> <<i, off + k>>]
    /\ ret' = ret + r
    /\ Advance(r)
    /\ UNCHANGED <<do_write, iov, input, pc, ended, mishaps, search>>

\* r = 0: at the end of the file, and for a length of 0.
NothingGoesOn ==
    /\ InLoop /\ (Count = 0 \/ (Available = 0 /\ Count <= INT_MAX))
    /\ UNCHANGED vars

Nothing ==
    /\ InLoop /\ (Count = 0 \/ (Available = 0 /\ Count <= INT_MAX))
    /\ Done
    /\ ended' = (Count > 0)
    /\ UNCHANGED <<do_write, iov, input, ret, moved, mishaps, search>>

Mishap == mishaps < MaxMishaps /\ mishaps' = mishaps + 1

\* EINTR.
Interrupted ==
    /\ InLoop /\ Mishap
    /\ UNCHANGED <<do_write, iov, input, i, off, ret, pc, moved, ended, search>>

\* "only return if there was no data processed"
Fails ==
    /\ InLoop
    /\ \/ Count > INT_MAX /\ UNCHANGED mishaps
       \/ Count <= INT_MAX /\ Mishap
    /\ ret' = IF ret = 0 THEN -1 ELSE ret
    /\ Done /\ ended' = TRUE
    /\ UNCHANGED <<do_write, iov, input, moved, search>>

LoopEnds ==
    /\ pc = "loop" /\ i > Len(iov)
    /\ Done
    /\ UNCHANGED <<do_write, iov, input, ret, moved, ended, mishaps, search>>

Transfer == LoopEnds \/ Nothing \/ Interrupted \/ Fails \/ \E r \in 1 .. INT_MAX : Moves(r)

-----------------------------------------------------------------------------
(* memmem() of what has been read. *)

haystacklen == AsInt(Len(moved))
needlelen == AsInt(Len(needle))
Left == SearchLen(haystacklen, needlelen, ndx)
Places == Candidates(input, ndx, needle[1], Left)

Answer(place) == result' = place /\ pc' = "found" /\ UNCHANGED ndx

Search(n) ==
    /\ pc = "done" /\ ~do_write
    /\ needle' = n /\ ndx' = 0
    /\ IF haystacklen = 0 \/ AsInt(Len(n)) = 0
       THEN pc' = "found" /\ result' = NULL
       ELSE pc' = "search" /\ UNCHANGED result
    /\ UNCHANGED transfer

\* The loop ends, no place is left, or none with the first byte.
GivesUp ==
    /\ pc = "search"
    /\ ndx > haystacklen \/ Left <= 0 \/ Places = {}
    /\ Answer(NULL)
    /\ UNCHANGED <<transfer, needle>>

\* The first place with the first byte: it is the needle, or on behind that place.
Compare(tptr) ==
    /\ pc = "search" /\ ndx <= haystacklen /\ Left > 0
    /\ tptr \in Places /\ \A k \in Places : tptr <= k
    /\ IF SameBytes(input, tptr, needle, needlelen) THEN Answer(tptr)
       ELSE ndx' = tptr + 1 /\ UNCHANGED <<pc, result>>
    /\ UNCHANGED <<transfer, needle>>

Memmem == GivesUp \/ \E tptr \in 0 .. haystacklen : Compare(tptr)

Next == Transfer \/ Memmem \/ \E n \in Needles : Search(n)

Spec == Init /\ [][Next]_vars

\* read() and write() return, and the loops go on.  The client need not search.
FairSpec == Spec /\ WF_vars(Transfer \/ Memmem)

-----------------------------------------------------------------------------
(* Properties. *)

\* The place after p, when the buffers are filled in order.
After(p) == IF p[2] < iov[p[1]] THEN <<p[1], p[2] + 1>> ELSE <<p[1] + 1, 1>>

\* The bytes moved fill the buffers in order from the first, without gap or repetition
\* and never beyond a buffer, and the result is their number; -1 only when there are
\* none.  Served in parts and interrupted or not, all buffers are served to the last
\* byte unless the file ends or a call fails.  Not when one is empty or longer than
\* INT_MAX: the transfer ends at it with what it has, as if the file ended there.
TransferExact ==
    /\ \A k \in DOMAIN moved :
         /\ moved[k][1] \in DOMAIN iov /\ moved[k][2] \in 1 .. iov[moved[k][1]]
         /\ moved[k] = IF k = 1 THEN <<1, 1>> ELSE After(moved[k - 1])
    /\ ret = Len(moved) \/ (ret = -1 /\ moved = <<>> /\ pc # "loop")
    /\ pc # "loop" /\ ~ended /\ (\A b \in DOMAIN iov : iov[b] \in 1 .. INT_MAX) /\ iov # <<>> =>
         moved # <<>> /\ moved[Len(moved)] = <<Len(iov), iov[Len(iov)]>>

\* Partial, empty and finitely often interrupted transfers all come to an end, and
\* every search is answered.
Finishes == <>(pc # "loop") /\ (pc = "search" ~> pc = "found")

\* memmem() finds the first occurrence of the needle in what was read, however often
\* the first byte of the needle occurs before it.  It misses one only for an empty
\* needle and in data longer than INT_MAX, and even there finds nothing wrong.
MemmemFinds ==
    pc = "found" =>
        LET there == Occurrences(input, Len(moved), needle)
        IN  /\ result # NULL => result \in there /\ \A k \in there : result <= k
            /\ result = NULL /\ needle # <<>> /\ Len(moved) <= INT_MAX => there = {}

-----------------------------------------------------------------------------
(* The inductive invariants behind TransferExact and MemmemFinds. *)

UioTypes ==
    /\ iov \in Seq(Nat) /\ i \in Nat \ {0} /\ i <= Len(iov) + 1 /\ off \in Nat
    /\ moved \in Seq(Nat \X Nat) /\ ret \in Int
    /\ pc \in {"loop", "done", "search", "found"} /\ ended \in BOOLEAN

\* The loop stands right behind the last byte moved.
Position ==
    /\ i <= Len(iov) => off = 0 \/ off < iov[i]
    /\ moved = <<>> => i = 1 /\ off = 0
    /\ moved # <<>> =>
         LET p == moved[Len(moved)]
         IN  IF p[2] < iov[p[1]] THEN p = <<i, off>> ELSE i = p[1] + 1 /\ off = 0

\* It is left early only at the end of the file, at a failure, and at a buffer whose
\* length is 0 as the call sees it.
LeftEarly ==
    pc # "loop" /\ ~ended => i = Len(iov) + 1 \/ (i <= Len(iov) /\ Count = 0)

UioInvariant == UioTypes /\ Position /\ LeftEarly /\ TransferExact

\* memmem() is past every place that is not an occurrence, and past no occurrence.
SearchRight ==
    pc = "search" =>
        /\ ndx \in Nat /\ Len(needle) > 0
        /\ \A k \in Occurrences(input, Len(moved), needle) : ndx <= k

\* What memchr() and memcmp() look at was read: from ndx on for Left places, and the
\* needle's length behind each of them.
WithinRead ==
    /\ ~do_write => Len(moved) <= Len(input)
    /\ pc = "search" => ~do_write /\ \A k \in Places : k >= 0 /\ k + Len(needle) <= Len(moved)

SearchInvariant ==
    /\ input \in Seq(Byte) /\ needle \in Needles \cup {<<>>}
    /\ SearchRight /\ WithinRead /\ MemmemFinds

\* The variants behind Finishes: a step of the transfer leaves the loop, goes on in the
\* vector and never beyond it, or uses up a mishap; one of memmem() answers or goes on in
\* what it searches.
UioProgress ==
    /\ pc = "loop" =>
         \/ pc' = "done"
         \/ i' = i + 1 /\ i' <= Len(iov) + 1
         \/ i' = i /\ off < off' /\ off' < iov[i]
         \/ UNCHANGED <<i, off>> /\ mishaps < MaxMishaps /\ mishaps' = mishaps + 1
    /\ pc = "search" => pc' = "found" \/ (pc' = "search" /\ ndx < ndx' /\ ndx' <= haystacklen)

UioProgresses == [][UioProgress]_vars
=============================================================================
