------------------------------ MODULE Sendfile ------------------------------
(***************************************************************************)
(* non-linux/sendfile_fallback.c, __sendfile_stub(): copy count bytes from *)
(* in_fd to out_fd through a buffer, for the systems without sendfile().   *)
(*                                                                         *)
(* The three counters n_read, n_write and n_write_new are size_t: the -1   *)
(* of a failed read() or write() becomes SIZE_MAX, "n < 0" is never true,  *)
(* and the branches for EINTR and for errors are never taken.  n_left is   *)
(* off_t, signed: size_t and off_t have one width, as on the 64-bit        *)
(* systems, and a count above OFF_MAX makes n_left negative.  A byte is    *)
(* named by its place in the input, 0 standing for memory that is not      *)
(* input.  What read() and write() do is chosen by the environment; Faults *)
(* says which mishaps may happen.                                          *)
(***************************************************************************)
EXTENDS Integers, Sequences

CONSTANTS
    OFF_MAX,      \* the largest off_t: 2^(w-1) - 1 for a width of w
    sf_buf_size,
    Lengths,      \* lengths of the input
    Counts,       \* values of count
    Faults,       \* subset of {"fail_read", "fail_write", "short_write"}
    MaxFaults     \* bound on the number of mishaps

SIZE_MAX == 2 * OFF_MAX + 1

ASSUME SizeAssumption ==
    /\ OFF_MAX \in Nat /\ MaxFaults \in Nat
    /\ sf_buf_size \in 1 .. OFF_MAX
    /\ Lengths \subseteq Nat /\ Counts \subseteq 0 .. SIZE_MAX

VARIABLES
    pc,       \* the next system call, or "done"
    length,   \* length of the input
    count,    \* the argument
    n_left, n_read, n_write,
    in_pos,   \* bytes read so far
    out,      \* what out_fd has received
    faults    \* mishaps so far

vars == <<pc, length, count, n_left, n_read, n_write, in_pos, out, faults>>

\* The conversion to off_t, which keeps the bits and makes the upper half negative.
AsOff(n) ==
    LET u == n % (SIZE_MAX + 1) IN IF u <= OFF_MAX THEN u ELSE u - (SIZE_MAX + 1)

Minus1 == SIZE_MAX
Least(a, b) == IF a < b THEN a ELSE b

Init ==
    /\ pc = "read"
    /\ length \in Lengths /\ count \in Counts
    /\ n_left = AsOff(count)
    /\ n_read = 0 /\ n_write = 0
    /\ in_pos = 0 /\ out = <<>> /\ faults = 0

\* The end of the outer loop body, then its test.
EndOfBlock(written) ==
    /\ n_left' = AsOff(n_left - written)
    /\ n_write' = written
    /\ pc' = "read"

Mishap(kind) == kind \in Faults /\ faults < MaxFaults /\ faults' = faults + 1

\* while (n_left) ends.
Finish ==
    /\ pc = "read" /\ n_left = 0
    /\ pc' = "done"
    /\ UNCHANGED <<length, count, n_left, n_read, n_write, in_pos, out, faults>>

\* read() of at most MIN(n_left, sf_buf_size) bytes, a signed comparison; 0 at the end
\* of the input.  A negative n_left asks for more than SSIZE_MAX, which read() refuses.
RequestNoMin == sf_buf_size
Request == Least(n_left, sf_buf_size)

Read(n) ==
    /\ pc = "read" /\ n_left # 0
    /\ n \in 1 .. Least(Request, length - in_pos)
    /\ n_read' = n
    /\ in_pos' = in_pos + n
    /\ pc' = "write"
    /\ UNCHANGED <<length, count, n_left, n_write, out, faults>>

ReadEndRetries ==
    /\ pc = "read" /\ n_left > 0 /\ in_pos = length
    /\ n_read' = 0
    /\ UNCHANGED <<pc, length, count, n_left, n_write, in_pos, out, faults>>

ReadEnd ==
    /\ pc = "read" /\ n_left > 0 /\ in_pos = length
    /\ n_read' = 0
    /\ pc' = "done"
    /\ UNCHANGED <<length, count, n_left, n_write, in_pos, out, faults>>

ReadFails ==
    /\ pc = "read" /\ n_left # 0
    /\ \/ n_left < 0 /\ UNCHANGED faults
       \/ Mishap("fail_read")
    /\ n_read' = Minus1
    /\ pc' = "write"
    /\ UNCHANGED <<length, count, n_left, n_write, in_pos, out>>

\* len bytes of memory from buffer offset n_write * sf_buf_size: &sf_buf is a
\* pointer to the whole array, so adding n_write to it skips whole buffers.
MemoryFromStart(skip, len) == [i \in 1 .. len |-> skip + i]

Memory(skip, len) ==
    [i \in 1 .. len |-> IF skip = 0 THEN in_pos - n_read + i ELSE 0]

\* The first write() of a block.  No system takes a length of SIZE_MAX, so the
\* write after a failed read() fails as well.
Write(n) ==
    /\ pc = "write" /\ n_read # Minus1
    /\ n \in 1 .. n_read
    /\ out' = out \o Memory(0, n)
    /\ \/ n = n_read /\ EndOfBlock(n) /\ UNCHANGED faults
       \/ n < n_read /\ Mishap("short_write") /\ n_write' = n /\ pc' = "rewrite"
            /\ UNCHANGED n_left
    /\ UNCHANGED <<length, count, n_read, in_pos>>

WriteFails ==
    /\ pc = "write"
    /\ \/ n_read = Minus1 /\ UNCHANGED faults
       \/ Mishap("fail_write")
    /\ EndOfBlock(Minus1)
    /\ UNCHANGED <<length, count, n_read, in_pos, out>>

\* The inner loop, while n_write < n_read.
Rewrite(n) ==
    /\ pc = "rewrite"
    /\ n \in 1 .. n_read - n_write
    /\ out' = out \o Memory(n_write, n)
    /\ \/ n_write + n = n_read /\ EndOfBlock(n_read) /\ UNCHANGED faults
       \/ n_write + n < n_read /\ Mishap("short_write") /\ n_write' = n_write + n
            /\ UNCHANGED <<n_left, pc>>
    /\ UNCHANGED <<length, count, n_read, in_pos>>

\* write() fails, adding -1 to n_write.  With n_write > 0 its argument points
\* outside the buffer, where there may be no memory, so that it can fail without
\* any mishap (EFAULT).
RewriteFails ==
    /\ pc = "rewrite"
    /\ \/ n_write > 0 /\ n_write' = n_write - 1 /\ UNCHANGED <<n_left, pc, faults>>
       \/ n_write = 0 /\ Mishap("fail_write") /\ EndOfBlock(Minus1)
    /\ UNCHANGED <<length, count, n_read, in_pos, out>>

Next ==
    \/ Finish \/ ReadEnd \/ ReadFails \/ WriteFails \/ RewriteFails
    \/ \E n \in 1 .. sf_buf_size : Read(n) \/ Write(n) \/ Rewrite(n)

Spec == Init /\ [][Next]_vars

\* A system call returns: the environment does not block for ever.
FairSpec == Spec /\ WF_vars(Next)

-----------------------------------------------------------------------------
(* Properties. *)

TypeOK ==
    /\ pc \in {"read", "write", "rewrite", "done"}
    /\ length \in Lengths /\ count \in Counts
    /\ n_left \in -(OFF_MAX + 1) .. OFF_MAX /\ n_read \in 0 .. Minus1 /\ n_write \in 0 .. Minus1
    /\ in_pos \in 0 .. length
    /\ out \in Seq(0 .. length)
    /\ faults \in 0 .. MaxFaults

InputUpTo(n) == [i \in 1 .. n |-> i]

\* As long as every call is served in full or, for read(), in part, what has been
\* written is the input in order without gap or repetition, and at the end it
\* is the first count bytes, or all of a shorter input.  A count above OFF_MAX is the
\* exception: n_left is negative, no read() is served, and nothing is copied.
CopiesExactly ==
    faults = 0 =>
        /\ out = InputUpTo(Len(out))
        /\ pc = "done" => Len(out) = IF count <= OFF_MAX THEN Least(count, length) ELSE 0

\* The copy ends, even when calls are interrupted, fail or are served in part,
\* as long as that happens finitely often.
Terminates == <>(pc = "done")

\* Whatever goes wrong, a byte is never followed by one that is sf_buf_size - 1 or
\* more before it: a mishap may lose, replace or repeat bytes of the block being
\* written, and a block whose last byte is out is never sent again.
BlocksInOrder ==
    \A i, j \in 1 .. Len(out) :
        i < j /\ out[i] # 0 /\ out[j] # 0 => out[i] - out[j] < sf_buf_size - 1

\* Everything written is input, in order and without gap ("allow retrying the
\* write").
OutputIsPrefix == out = InputUpTo(Len(out))

-----------------------------------------------------------------------------
(* The inductive invariant behind them. *)

\* The block in the buffer: it is part of what is left, its last byte is number
\* in_pos, and that is not out.
BlockInBuffer ==
    pc \in {"write", "rewrite"} /\ n_read # Minus1 =>
        /\ n_read \in 1 .. sf_buf_size /\ n_read <= in_pos /\ n_read <= n_left
        /\ \A i \in 1 .. Len(out) : out[i] < in_pos

Rewriting == pc = "rewrite" => n_read # Minus1 /\ n_write < n_read

NothingAhead == \A i \in 1 .. Len(out) : out[i] <= in_pos

\* Without a mishap the counters say how much is out; for a count above OFF_MAX they
\* only count up to 0.
CountersRight ==
    faults = 0 =>
        /\ pc # "rewrite"
        /\ count <= OFF_MAX =>
             /\ n_left = count - Len(out) /\ n_left >= 0
             /\ pc = "write" => n_read # Minus1 /\ Len(out) = in_pos - n_read
             /\ pc # "write" => Len(out) = in_pos
        /\ count > OFF_MAX =>
             /\ n_left <= 0 /\ Len(out) = 0
             /\ pc = "write" => n_left < 0 /\ n_read = Minus1

SendfileInvariant ==
    /\ TypeOK /\ BlockInBuffer /\ Rewriting /\ NothingAhead /\ CountersRight
    /\ CopiesExactly /\ BlocksInOrder

\* The variant behind Terminates, from the most significant part on: a step uses up a
\* mishap, reads on in the input, ends a block or the copy, sets n_write back, or, with
\* n_left negative, goes round the loop once more and brings n_left one nearer to 0.
SendfileProgress ==
    \/ faults < MaxFaults /\ faults' = faults + 1
    \/ UNCHANGED faults /\ in_pos < in_pos' /\ in_pos' <= length
    \/ UNCHANGED <<faults, in_pos>>
         /\ <<pc, pc'>> \in {<<"read", "done">>, <<"write", "read">>, <<"rewrite", "read">>}
         /\ pc' = "read" /\ n_left < 0 => n_left' = n_left + 1
    \/ UNCHANGED <<faults, in_pos, pc>> /\ pc = "rewrite" /\ n_write > 0 /\ n_write' = n_write - 1
    \/ UNCHANGED <<faults, in_pos, n_left>> /\ n_left < 0 /\ <<pc, pc'>> = <<"read", "write">>

SendfileProgresses == [][SendfileProgress]_vars
=============================================================================
