--------------------------- MODULE SendfileProofs ---------------------------
(***************************************************************************)
(* What __sendfile_stub() copies, for every width of size_t, every buffer  *)
(* size, every input and count, and any mishaps.                           *)
(***************************************************************************)
EXTENDS Sendfile, TLAPS

\* The sizes that occur are naturals, and a block is never as long as SIZE_MAX.
LEMMA Sizes ==
  /\ OFF_MAX \in Nat /\ SIZE_MAX \in Nat /\ SIZE_MAX = 2 * OFF_MAX + 1 /\ MaxFaults \in Nat
  /\ sf_buf_size \in Nat \ {0} /\ sf_buf_size <= OFF_MAX /\ sf_buf_size < SIZE_MAX
  /\ \A n \in Lengths : n \in Nat
  /\ \A n \in Counts : n \in Nat /\ n <= SIZE_MAX
BY SizeAssumption DEF SIZE_MAX

OffRange == -(OFF_MAX + 1) .. OFF_MAX

LEMMA AsOffType ==
  ASSUME NEW n \in Int
  PROVE  AsOff(n) \in OffRange
<1>1. SIZE_MAX + 1 \in Nat \ {0}
  BY Sizes
<1>2. n % (SIZE_MAX + 1) \in 0 .. SIZE_MAX
  BY <1>1, Sizes
<1> QED
  BY <1>2, Sizes DEF AsOff, OffRange

LEMMA AsOffSmall ==
  ASSUME NEW n \in 0 .. OFF_MAX
  PROVE  AsOff(n) = n
<1>1. n \in 0 .. SIZE_MAX /\ SIZE_MAX + 1 \in Nat \ {0}
  BY Sizes
<1>2. n % (SIZE_MAX + 1) = n
  BY <1>1, Sizes
<1> QED
  BY <1>2, Sizes DEF AsOff

\* A size_t above OFF_MAX becomes negative.
LEMMA AsOffLarge ==
  ASSUME NEW n \in 0 .. SIZE_MAX, n > OFF_MAX
  PROVE  AsOff(n) < 0
<1>1. n % (SIZE_MAX + 1) = n
  BY Sizes
<1> QED
  BY <1>1, Sizes DEF AsOff

\* Taking SIZE_MAX, the -1 of a failed call, from a negative n_left adds one to it.
LEMMA AsOffMinus1 ==
  ASSUME NEW n \in OffRange, n < 0
  PROVE  AsOff(n - Minus1) = n + 1
<1> DEFINE w == SIZE_MAX + 1
<1>1. /\ w \in Nat \ {0} /\ w = 2 * (OFF_MAX + 1) /\ n \in Int
      /\ n - Minus1 = n + 1 - w /\ -(OFF_MAX + 1) <= n
  BY Sizes DEF OffRange, Minus1
<1>2. CASE n = -1
  <2>1. n - Minus1 = -w
    BY <1>1, <1>2
  <2>2. (-w) % w = 0
    BY <1>1
  <2> QED
    BY <1>1, <1>2, <2>1, <2>2, Sizes DEF AsOff
<1>3. CASE n < -1
  <2>1. n + 1 + w \in Int /\ 0 <= n + 1 + w /\ n + 1 + w < w
    BY <1>1, <1>3, Sizes
  <2>2. (n - Minus1) % w = n + 1 + w
    BY <1>1, <2>1
  <2>3. n + 1 + w > OFF_MAX
    BY <1>1, Sizes
  <2> QED
    BY <1>1, <2>2, <2>3, Sizes DEF AsOff
<1> QED
  BY <1>1, <1>2, <1>3

LEMMA SeqElements ==
  ASSUME NEW S, NEW s \in Seq(S)
  PROVE  /\ Len(s) \in Nat /\ \A i \in 1 .. Len(s) : s[i] \in S
         /\ s = [i \in 1 .. Len(s) |-> s[i]]
OBVIOUS

LEMMA OutType ==
  ASSUME TypeOK
  PROVE  /\ out \in Seq(0 .. length) /\ Len(out) \in Nat
         /\ \A i \in 1 .. Len(out) : out[i] \in 0 .. length /\ out[i] \in Int
         /\ length \in Nat /\ count \in Nat /\ in_pos \in Nat /\ in_pos <= length
         /\ n_left \in Int /\ n_left \in OffRange
         /\ n_read \in Nat /\ n_write \in Nat /\ n_read <= SIZE_MAX /\ n_write <= SIZE_MAX
         /\ count <= SIZE_MAX
<1>1. out \in Seq(0 .. length) /\ Len(out) \in Nat
  BY DEF TypeOK
<1>2. \A i \in 1 .. Len(out) : out[i] \in 0 .. length
  BY <1>1, SeqElements
<1>3. length \in Nat /\ count \in Nat /\ count <= SIZE_MAX
  BY Sizes DEF TypeOK
<1>4. \A i \in 1 .. Len(out) : out[i] \in Int
  BY <1>2, <1>3
<1>5. /\ in_pos \in Nat /\ in_pos <= length
      /\ n_left \in Int /\ n_left \in OffRange
      /\ n_read \in Nat /\ n_write \in Nat /\ n_read <= SIZE_MAX /\ n_write <= SIZE_MAX
  BY <1>3, Sizes DEF TypeOK, Minus1, OffRange
<1> QED
  BY <1>1, <1>2, <1>3, <1>4, <1>5

\* A step that writes nothing and starts or ends a block.
LEMMA SilentStep ==
  ASSUME SendfileInvariant, UNCHANGED <<length, count, out>>,
         n_left' \in OffRange, n_read' \in 0 .. SIZE_MAX, n_write' \in 0 .. SIZE_MAX,
         in_pos' \in 0 .. length, in_pos <= in_pos', faults' \in 0 .. MaxFaults,
         pc' \in {"read", "write", "rewrite", "done"},
         BlockInBuffer', Rewriting', CountersRight', CopiesExactly'
  PROVE  SendfileInvariant'
<1>1. TypeOK'
  BY DEF SendfileInvariant, TypeOK, Minus1, OffRange
<1>2. NothingAhead'
  <2>1. \A i \in 1 .. Len(out) : out[i] \in Int
    BY OutType DEF SendfileInvariant
  <2>2. in_pos \in Int /\ in_pos' \in Int
    BY OutType DEF SendfileInvariant
  <2> QED
    BY <2>1, <2>2 DEF SendfileInvariant, NothingAhead
<1>3. BlocksInOrder'
  BY DEF SendfileInvariant, BlocksInOrder
<1> QED
  BY <1>1, <1>2, <1>3 DEF SendfileInvariant

\* The reads, which write nothing.
LEMMA ReadSteps ==
  ASSUME SendfileInvariant,
         Finish \/ ReadEnd \/ ReadFails \/ \E n \in 1 .. sf_buf_size : Read(n)
  PROVE  SendfileInvariant'
<1>1. /\ UNCHANGED <<length, count, n_left, n_write, out>> /\ pc = "read"
      /\ TypeOK /\ faults \in 0 .. MaxFaults
  BY DEF SendfileInvariant, TypeOK, Finish, ReadEnd, ReadFails, Read
<1>2. /\ Len(out) \in Nat /\ length \in Nat /\ count \in Nat /\ in_pos \in Nat
      /\ in_pos <= length /\ n_left \in Int /\ n_left \in OffRange
      /\ n_write \in Nat /\ n_read \in Nat /\ n_read <= SIZE_MAX /\ n_write <= SIZE_MAX
      /\ \A i \in 1 .. Len(out) : out[i] \in Int
  BY <1>1, OutType
<1>3. faults = 0 => /\ count <= OFF_MAX => n_left = count - Len(out) /\ n_left >= 0 /\ Len(out) = in_pos
                    /\ count > OFF_MAX => n_left <= 0 /\ Len(out) = 0
                    /\ out = InputUpTo(Len(out))
  BY <1>1 DEF SendfileInvariant, CountersRight, CopiesExactly
<1>4. CASE Finish \/ ReadEnd
  <2>1. /\ UNCHANGED <<in_pos, faults>> /\ pc' = "done" /\ n_read' \in Nat /\ n_read' <= SIZE_MAX
        /\ (n_left = 0 \/ (n_left > 0 /\ in_pos = length))
    BY <1>2, <1>4, Sizes DEF Finish, ReadEnd
  <2>2. BlockInBuffer' /\ Rewriting'
    BY <2>1 DEF BlockInBuffer, Rewriting
  <2>3. CountersRight'
    BY <1>1, <1>2, <1>3, <2>1 DEF CountersRight
  <2>4. CopiesExactly'
    <3>1. faults = 0 => Len(out) = IF count <= OFF_MAX THEN Least(count, length) ELSE 0
      BY <1>2, <1>3, <2>1, Sizes DEF Least
    <3> QED
      BY <1>1, <1>3, <2>1, <3>1 DEF CopiesExactly
  <2> QED
    BY <1>1, <1>2, <2>1, <2>2, <2>3, <2>4, SilentStep
<1>5. CASE ReadFails
  <2>1. UNCHANGED in_pos /\ pc' = "write" /\ n_read' = Minus1 /\ faults' \in 0 .. MaxFaults
    BY <1>1, <1>5, Sizes DEF ReadFails, Mishap
  <2>2. faults' # 0 \/ (n_left < 0 /\ UNCHANGED faults)
    <3>1. CASE faults' = faults + 1
      BY <1>1, <3>1, Sizes
    <3> QED
      BY <1>5, <3>1 DEF ReadFails, Mishap
  <2>3. faults' = 0 => count > OFF_MAX
    BY <1>2, <1>3, <2>2, Sizes
  <2>4. BlockInBuffer' /\ Rewriting'
    BY <2>1 DEF BlockInBuffer, Rewriting
  <2>5. CountersRight'
    BY <1>1, <1>2, <1>3, <2>1, <2>2, <2>3, Sizes DEF CountersRight
  <2>6. CopiesExactly'
    BY <1>1, <1>3, <2>1, <2>2 DEF CopiesExactly
  <2> QED
    BY <1>1, <1>2, <2>1, <2>4, <2>5, <2>6, SilentStep, Sizes DEF Minus1
<1>6. ASSUME NEW n \in 1 .. sf_buf_size, Read(n) PROVE SendfileInvariant'
  <2>1. /\ UNCHANGED faults /\ pc' = "write" /\ n_read' = n /\ in_pos' = in_pos + n
        /\ n <= n_left /\ n <= length - in_pos
    BY <1>2, <1>6, Sizes DEF Read, Request, Least
  <2>2. n \in Nat /\ n <= SIZE_MAX /\ n # SIZE_MAX /\ n <= sf_buf_size /\ n >= 1
    BY Sizes
  <2>3. BlockInBuffer'
    <3>1. \A i \in 1 .. Len(out) : out[i] < in_pos + n
      BY <1>2, <2>2 DEF SendfileInvariant, NothingAhead
    <3> QED
      BY <1>1, <1>2, <2>1, <2>2, <3>1 DEF BlockInBuffer, Minus1
  <2>4. CountersRight'
    <3>1. faults = 0 => count <= OFF_MAX
      BY <1>2, <1>3, <2>1, <2>2, Sizes
    <3> QED
      BY <1>1, <1>2, <1>3, <2>1, <2>2, <3>1, Sizes DEF CountersRight, Minus1
  <2>5. Rewriting' /\ CopiesExactly'
    BY <1>1, <1>3, <2>1 DEF Rewriting, CopiesExactly
  <2>6. in_pos' \in 0 .. length /\ in_pos <= in_pos' /\ n_read' \in 0 .. SIZE_MAX
    BY <1>2, <2>1, <2>2
  <2> QED
    BY <1>1, <1>2, <2>1, <2>3, <2>4, <2>5, <2>6, SilentStep
<1> QED
  BY <1>4, <1>5, <1>6

LEMMA FunctionIsSeq ==
  ASSUME NEW S, NEW n \in Nat, NEW f \in [1 .. n -> S]
  PROVE  f \in Seq(S) /\ Len(f) = n
OBVIOUS

\* The memory a write() takes: bytes of the block in order, or none of the input.
LEMMA MemoryType ==
  ASSUME TypeOK, NEW skip, NEW n \in Nat, n <= n_read, n_read <= in_pos
  PROVE  /\ Memory(skip, n) \in Seq(0 .. length) /\ Len(Memory(skip, n)) = n
         /\ \A i \in 1 .. n : Memory(skip, n)[i] = IF skip = 0 THEN in_pos - n_read + i ELSE 0
<1>1. \A i \in 1 .. n : (IF skip = 0 THEN in_pos - n_read + i ELSE 0) \in 0 .. length
  BY OutType
<1>2. Memory(skip, n) \in [1 .. n -> 0 .. length]
  BY <1>1 DEF Memory
<1>3. Memory(skip, n) \in Seq(0 .. length) /\ Len(Memory(skip, n)) = n
  BY <1>2, FunctionIsSeq
<1> QED
  BY <1>3 DEF Memory

\* A write() of a block whose last byte is not out: blocks stay in order, and only
\* a write of the whole block sends the last byte.
LEMMA WriteAppends ==
  ASSUME SendfileInvariant, pc \in {"write", "rewrite"}, n_read # Minus1,
         NEW skip \in Nat, NEW n \in 1 .. n_read, out' = out \o Memory(skip, n)
  PROVE  /\ out' \in Seq(0 .. length) /\ Len(out') = Len(out) + n
         /\ \A i \in 1 .. Len(out') : out'[i] <= in_pos
         /\ skip # 0 \/ n < n_read => \A i \in 1 .. Len(out') : out'[i] < in_pos
         /\ BlocksInOrder'
         /\ \A i \in 1 .. Len(out) : out'[i] = out[i]
         /\ \A i \in 1 .. n : out'[Len(out) + i] = Memory(skip, n)[i]
         /\ \A i \in 1 .. Len(out') : i \in 1 .. Len(out) \/ \E j \in 1 .. n : i = Len(out) + j
<1> DEFINE m == Memory(skip, n)
<1>1. /\ TypeOK /\ n_read \in 1 .. sf_buf_size /\ n_read <= in_pos
      /\ \A i \in 1 .. Len(out) : out[i] < in_pos
  BY DEF SendfileInvariant, BlockInBuffer
<1>2. /\ out \in Seq(0 .. length) /\ Len(out) \in Nat /\ length \in Nat /\ in_pos \in Nat
      /\ \A i \in 1 .. Len(out) : out[i] \in Int
      /\ n_read \in Nat /\ sf_buf_size \in Nat /\ n \in Nat /\ n <= n_read
  BY <1>1, OutType, Sizes
<1>3. /\ m \in Seq(0 .. length) /\ Len(m) = n
      /\ \A i \in 1 .. n : m[i] = IF skip = 0 THEN in_pos - n_read + i ELSE 0
  BY <1>1, <1>2, MemoryType
<1> HIDE DEF m
<1>4. /\ out' \in Seq(0 .. length) /\ Len(out') = Len(out) + n
      /\ \A i \in 1 .. Len(out) : out'[i] = out[i]
      /\ \A i \in 1 .. n : out'[Len(out) + i] = m[i]
      /\ \A i \in 1 .. Len(out') : i \in 1 .. Len(out) \/ \E j \in 1 .. n : i = Len(out) + j
  <2>1. out' = out \o m /\ n = Len(m)
    BY <1>3 DEF m
  <2>2. ASSUME NEW S, out \in Seq(S), m \in Seq(S)
        PROVE  /\ out' \in Seq(S) /\ Len(out') = Len(out) + n
               /\ \A i \in 1 .. Len(out) : out'[i] = out[i]
               /\ \A i \in 1 .. n : out'[Len(out) + i] = m[i]
    <3>1. out \o m \in Seq(S) /\ Len(out \o m) = Len(out) + Len(m)
      BY <2>2
    <3>2. \A i \in 1 .. Len(out) : (out \o m)[i] = out[i]
      BY <2>2
    <3>3. \A i \in 1 .. Len(m) : (out \o m)[Len(out) + i] = m[i]
      BY <2>2
    <3> QED
      BY <2>1, <3>1, <3>2, <3>3
  <2>3. /\ out' \in Seq(0 .. length) /\ Len(out') = Len(out) + n
        /\ \A i \in 1 .. Len(out) : out'[i] = out[i]
        /\ \A i \in 1 .. n : out'[Len(out) + i] = m[i]
    BY <1>2, <1>3, <2>2
  <2>4. ASSUME NEW i \in 1 .. Len(out'), i \notin 1 .. Len(out)
        PROVE  \E j \in 1 .. n : i = Len(out) + j
    <3>1. i - Len(out) \in 1 .. n /\ i = Len(out) + (i - Len(out))
      BY <1>2, <2>3, <2>4
    <3> QED
      BY <3>1
  <2> QED
    BY <2>3, <2>4
<1>5. \A j \in 1 .. n : m[j] <= in_pos /\ (skip # 0 \/ n < n_read => m[j] < in_pos)
  BY <1>1, <1>2, <1>3
<1>6. \A i \in 1 .. Len(out') : out'[i] <= in_pos
  <2> TAKE i \in 1 .. Len(out')
  <2>1. CASE i \in 1 .. Len(out)
    BY <1>1, <1>2, <1>4, <2>1
  <2>2. CASE \E j \in 1 .. n : i = Len(out) + j
    BY <1>4, <1>5, <2>2
  <2> QED
    BY <1>4, <2>1, <2>2
<1>7. skip # 0 \/ n < n_read => \A i \in 1 .. Len(out') : out'[i] < in_pos
  BY <1>1, <1>4, <1>5
<1>8. BlocksInOrder'
  <2> SUFFICES ASSUME NEW i \in 1 .. Len(out'), NEW j \in 1 .. Len(out'), i < j,
                      out'[i] # 0, out'[j] # 0
               PROVE  out'[i] - out'[j] < sf_buf_size - 1
    BY DEF BlocksInOrder
  <2>1. CASE j \in 1 .. Len(out)
    <3>1. i \in 1 .. Len(out)
      BY <1>2, <2>1
    <3> QED
      BY <1>4, <2>1, <3>1 DEF SendfileInvariant, BlocksInOrder
  <2>2. ASSUME NEW k \in 1 .. n, j = Len(out) + k PROVE out'[i] - out'[j] < sf_buf_size - 1
    <3>1. out'[j] = in_pos - n_read + k
      BY <1>3, <1>4, <2>2
    <3>2. CASE i \in 1 .. Len(out)
      <4>1. out'[i] \in Int /\ out'[i] < in_pos
        BY <1>1, <1>2, <1>4, <3>2
      <4>2. k \in Nat /\ k >= 1
        BY <1>2
      <4>3. /\ n_read \in Int /\ in_pos \in Int /\ sf_buf_size \in Int
            /\ n_read <= sf_buf_size
        BY <1>1, <1>2
      <4> QED
        BY <3>1, <4>1, <4>2, <4>3
    <3>3. ASSUME NEW l \in 1 .. n, i = Len(out) + l PROVE out'[i] - out'[j] < sf_buf_size - 1
      <4>1. out'[Len(out) + l] = m[l] /\ m[l] # 0
        BY <1>4, <3>3
      <4>2. out'[i] = in_pos - n_read + l
        BY <1>3, <3>3, <4>1
      <4>3. l < k
        BY <1>2, <2>2, <3>3
      <4> QED
        BY <1>1, <1>2, <3>1, <4>2, <4>3
    <3> QED
      BY <1>4, <3>2, <3>3
  <2> QED
    BY <1>4, <2>1, <2>2
<1> QED
  BY <1>4, <1>6, <1>7, <1>8 DEF m

\* A step that writes from the block: it ends the block, or leaves its last byte.
LEMMA WritingStep ==
  ASSUME SendfileInvariant, pc \in {"write", "rewrite"}, n_read # Minus1,
         NEW skip \in Nat, NEW n \in 1 .. n_read, out' = out \o Memory(skip, n),
         UNCHANGED <<length, count, n_read, in_pos>>,
         n_left' \in OffRange, n_write' \in 0 .. SIZE_MAX, faults' \in 0 .. MaxFaults,
         \/ pc' = "read"
         \/ pc' = "rewrite" /\ n < n_read /\ n_write' < n_read /\ UNCHANGED n_left,
         CountersRight', CopiesExactly'
  PROVE  SendfileInvariant'
<1>1. /\ out' \in Seq(0 .. length) /\ Len(out') = Len(out) + n
      /\ \A i \in 1 .. Len(out') : out'[i] <= in_pos
      /\ n < n_read => \A i \in 1 .. Len(out') : out'[i] < in_pos
      /\ BlocksInOrder'
  BY WriteAppends
<1>2. TypeOK'
  BY <1>1 DEF SendfileInvariant, TypeOK, Minus1, OffRange
<1>3. NothingAhead' /\ Rewriting' /\ BlockInBuffer'
  BY <1>1 DEF SendfileInvariant, NothingAhead, Rewriting, BlockInBuffer
<1> QED
  BY <1>1, <1>2, <1>3 DEF SendfileInvariant

\* Without a mishap a write of the whole block makes the output longer by it.
LEMMA CopyGrows ==
  ASSUME SendfileInvariant, pc = "write", faults = 0, n_read # Minus1, out' = out \o Memory(0, n_read)
  PROVE  out' = InputUpTo(Len(out')) /\ Len(out') = in_pos /\ count <= OFF_MAX
<1>0. count <= OFF_MAX
  BY OutType, Sizes DEF SendfileInvariant, CountersRight
<1>1. /\ TypeOK /\ out = InputUpTo(Len(out)) /\ n_read # Minus1
      /\ Len(out) = in_pos - n_read
  BY <1>0 DEF SendfileInvariant, CountersRight, CopiesExactly
<1>2. n_read <= in_pos /\ n_read \in 1 .. n_read
  BY <1>1, Sizes DEF SendfileInvariant, BlockInBuffer
<1>3. /\ out' \in Seq(0 .. length) /\ Len(out') = Len(out) + n_read
      /\ \A i \in 1 .. Len(out) : out'[i] = out[i]
      /\ \A i \in 1 .. n_read : out'[Len(out) + i] = Memory(0, n_read)[i]
      /\ \A i \in 1 .. Len(out') : i \in 1 .. Len(out) \/ \E j \in 1 .. n_read : i = Len(out) + j
  BY <1>1, <1>2, WriteAppends
<1>4. /\ out \in Seq(0 .. length) /\ Len(out) \in Nat /\ n_read \in Nat /\ in_pos \in Nat
  BY <1>1, OutType
<1>5. \A i \in 1 .. n_read : Memory(0, n_read)[i] = in_pos - n_read + i
  BY <1>1, <1>2, <1>4, MemoryType
<1>6. \A i \in 1 .. Len(out') : out'[i] = i
  <2> TAKE i \in 1 .. Len(out')
  <2>1. CASE i \in 1 .. Len(out)
    BY <1>1, <1>3, <2>1 DEF InputUpTo
  <2>2. ASSUME NEW j \in 1 .. n_read, i = Len(out) + j PROVE out'[i] = i
    <3>1. out'[Len(out) + j] = in_pos - n_read + j
      BY <1>3, <1>5
    <3> QED
      BY <1>1, <2>2, <3>1
  <2> QED
    BY <1>3, <2>1, <2>2
<1>7. out' = [i \in 1 .. Len(out') |-> out'[i]]
  BY <1>3, SeqElements
<1>8. out' = InputUpTo(Len(out'))
  BY <1>6, <1>7 DEF InputUpTo
<1> QED
  BY <1>0, <1>1, <1>3, <1>4, <1>8

\* The calls of write().
LEMMA WriteSteps ==
  ASSUME SendfileInvariant, NEW n \in 1 .. sf_buf_size, Write(n) \/ Rewrite(n)
  PROVE  SendfileInvariant'
<1>1. /\ TypeOK /\ pc \in {"write", "rewrite"} /\ n_read # Minus1
      /\ UNCHANGED <<length, count, n_read, in_pos>> /\ faults \in 0 .. MaxFaults
  BY DEF SendfileInvariant, TypeOK, Rewriting, Write, Rewrite
<1>2. /\ n_left \in Int /\ n_read \in Nat /\ n_write \in Nat /\ Len(out) \in Nat /\ count \in Nat
      /\ n_read <= SIZE_MAX /\ n_write <= SIZE_MAX
      /\ n_left \in OffRange /\ n_read \in 0 .. SIZE_MAX
  BY <1>1, OutType DEF TypeOK, Minus1
<1>3. CASE Write(n)
  <2>1. n \in 1 .. n_read /\ out' = out \o Memory(0, n) /\ pc = "write"
    BY <1>3 DEF Write
  <2>2. CASE n = n_read /\ EndOfBlock(n) /\ UNCHANGED faults
    <3>1. n_left' = AsOff(n_left - n_read) /\ n_write' = n_read /\ pc' = "read"
      BY <2>2 DEF EndOfBlock
    <3>2. n_left' \in OffRange
      BY <1>2, <3>1, AsOffType
    <3>3. CASE faults = 0
      <4>1. out' = InputUpTo(Len(out')) /\ Len(out') = in_pos /\ count <= OFF_MAX
        BY <1>1, <2>1, <2>2, <3>3, CopyGrows
      <4>2. n_left = count - Len(out) /\ n_read <= n_left /\ Len(out) = in_pos - n_read
        BY <1>1, <2>1, <3>3, <4>1 DEF SendfileInvariant, CountersRight, BlockInBuffer
      <4>3. n_left' = n_left - n_read
        <5>1. n_left - n_read \in 0 .. OFF_MAX
          BY <1>2, <4>1, <4>2, Sizes
        <5> QED
          BY <3>1, <5>1, AsOffSmall
      <4>4. in_pos \in Nat
        BY <1>1, OutType
      <4>5. n_left' = count - Len(out') /\ n_left' >= 0
        BY <1>2, <4>1, <4>2, <4>3, <4>4
      <4>6. CountersRight' /\ CopiesExactly'
        BY <1>1, <1>2, <3>1, <4>1, <4>5, Sizes DEF CountersRight, CopiesExactly
      <4> QED
        BY <1>1, <1>2, <2>1, <2>2, <3>1, <3>2, <4>6, WritingStep
    <3>4. CASE faults # 0
      <4>1. CountersRight' /\ CopiesExactly'
        BY <2>2, <3>4 DEF CountersRight, CopiesExactly
      <4> QED
        BY <1>1, <1>2, <2>1, <2>2, <3>1, <3>2, <4>1, WritingStep
    <3> QED
      BY <3>3, <3>4
  <2>3. CASE n < n_read /\ Mishap("short_write") /\ n_write' = n /\ pc' = "rewrite" /\ UNCHANGED n_left
    <3>1. faults' \in 0 .. MaxFaults /\ faults' # 0
      BY <1>1, <2>3, Sizes DEF Mishap
    <3>2. CountersRight' /\ CopiesExactly'
      BY <3>1 DEF CountersRight, CopiesExactly
    <3>3. n \in 0 .. SIZE_MAX
      BY <1>2, <2>1, Sizes
    <3> QED
      BY <1>1, <1>2, <2>1, <2>3, <3>1, <3>2, <3>3, WritingStep
  <2> QED
    BY <1>3, <2>2, <2>3 DEF Write
<1>4. CASE Rewrite(n)
  <2>1. n \in 1 .. n_read - n_write /\ out' = out \o Memory(n_write, n) /\ pc = "rewrite"
    BY <1>4 DEF Rewrite
  <2>2. n \in 1 .. n_read
    BY <1>2, <2>1
  <2>3. faults # 0
    BY <2>1 DEF SendfileInvariant, CountersRight
  <2>4. CASE n_write + n = n_read /\ EndOfBlock(n_read) /\ UNCHANGED faults
    <3>1. n_left' \in OffRange /\ n_write' = n_read /\ pc' = "read"
      BY <1>2, <2>4, AsOffType DEF EndOfBlock
    <3>2. CountersRight' /\ CopiesExactly'
      BY <2>3, <2>4 DEF CountersRight, CopiesExactly
    <3> QED
      BY <1>1, <1>2, <2>1, <2>2, <2>4, <3>1, <3>2, WritingStep
  <2>5. CASE /\ n_write + n < n_read /\ Mishap("short_write") /\ n_write' = n_write + n
             /\ UNCHANGED <<n_left, pc>>
    <3>1. faults' \in 0 .. MaxFaults /\ faults' # 0
      BY <1>1, <2>5, Sizes DEF Mishap
    <3>2. CountersRight' /\ CopiesExactly'
      BY <3>1 DEF CountersRight, CopiesExactly
    <3>3. n_write' \in 0 .. SIZE_MAX /\ n < n_read
      BY <1>2, <2>1, <2>5, Sizes
    <3> QED
      BY <1>1, <1>2, <2>1, <2>2, <2>5, <3>1, <3>2, <3>3, WritingStep
  <2> QED
    BY <1>4, <2>4, <2>5 DEF Rewrite
<1> QED
  BY <1>3, <1>4

\* A write() that fails ends the block, or sets n_write back by one.
LEMMA WriteFailSteps ==
  ASSUME SendfileInvariant, WriteFails \/ RewriteFails
  PROVE  SendfileInvariant'
<1>1. /\ TypeOK /\ pc \in {"write", "rewrite"}
      /\ UNCHANGED <<length, count, n_read, in_pos, out>> /\ faults \in 0 .. MaxFaults
  BY DEF SendfileInvariant, TypeOK, WriteFails, RewriteFails
<1>2. /\ n_left \in Int /\ n_read \in Nat /\ n_write \in Nat /\ in_pos \in Nat /\ count \in Nat
      /\ n_read <= SIZE_MAX /\ n_write <= SIZE_MAX /\ Len(out) \in Nat
      /\ n_left \in OffRange /\ n_read \in 0 .. SIZE_MAX /\ in_pos \in 0 .. length
  BY <1>1, OutType DEF TypeOK, Minus1
<1>3. /\ faults' \in 0 .. MaxFaults
      /\ \/ faults' # 0
         \/ /\ faults = 0 /\ count > OFF_MAX /\ n_left < 0 /\ Len(out) = 0
            /\ EndOfBlock(Minus1)
  <2>1. CASE UNCHANGED faults /\ faults = 0
    <3>1. pc = "write" /\ n_read = Minus1 /\ EndOfBlock(Minus1)
      BY <1>1, <2>1, Sizes
      DEF SendfileInvariant, CountersRight, WriteFails, RewriteFails, Mishap
    <3>2. count > OFF_MAX
      BY <1>2, <2>1, <3>1, Sizes DEF SendfileInvariant, CountersRight
    <3> QED
      BY <1>1, <2>1, <3>1, <3>2 DEF SendfileInvariant, CountersRight
  <2>2. CASE Mishap("fail_write")
    BY <1>1, <2>2, Sizes DEF Mishap
  <2> QED
    BY <1>1, <2>1, <2>2 DEF WriteFails, RewriteFails
<1>4. CountersRight' /\ CopiesExactly'
  <2>1. CASE faults' # 0
    BY <2>1 DEF CountersRight, CopiesExactly
  <2>2. CASE faults = 0 /\ count > OFF_MAX /\ n_left < 0 /\ Len(out) = 0 /\ EndOfBlock(Minus1)
    <3>1. n_left' = n_left + 1 /\ pc' = "read"
      BY <1>2, <2>2, AsOffMinus1 DEF EndOfBlock
    <3>2. n_left' <= 0
      BY <1>2, <2>2, <3>1
    <3>3. CountersRight'
      BY <1>1, <1>2, <2>2, <3>1, <3>2, Sizes DEF CountersRight
    <3> QED
      BY <1>1, <2>2, <3>1, <3>3 DEF SendfileInvariant, CopiesExactly
  <2> QED
    BY <1>3, <2>1, <2>2
<1>5. CASE EndOfBlock(Minus1)
  <2>1. n_left' \in OffRange /\ n_write' \in 0 .. SIZE_MAX /\ pc' = "read"
    BY <1>2, <1>5, AsOffType, Sizes DEF EndOfBlock, Minus1
  <2>2. BlockInBuffer' /\ Rewriting'
    BY <2>1 DEF BlockInBuffer, Rewriting
  <2> QED
    BY <1>1, <1>2, <1>3, <1>4, <2>1, <2>2, SilentStep
<1>6. CASE pc = "rewrite" /\ n_write > 0 /\ n_write' = n_write - 1 /\ UNCHANGED <<n_left, pc>>
  <2>1. n_write' \in 0 .. SIZE_MAX /\ n_write' < n_write
    BY <1>2, <1>6, Sizes
  <2>2. BlockInBuffer' /\ Rewriting'
    BY <1>1, <1>2, <1>6, <2>1 DEF SendfileInvariant, BlockInBuffer, Rewriting
  <2> QED
    BY <1>1, <1>2, <1>3, <1>4, <1>6, <2>1, <2>2, SilentStep
<1> QED
  BY <1>5, <1>6 DEF WriteFails, RewriteFails

\* The inductive invariant holds in every run of the copy loop.
THEOREM SendfileInvariantHolds == Spec => []SendfileInvariant
<1>1. Init => SendfileInvariant
  <2> SUFFICES ASSUME Init PROVE SendfileInvariant
    OBVIOUS
  <2>1. /\ length \in Nat /\ count \in Nat /\ count <= SIZE_MAX /\ SIZE_MAX \in Nat
        /\ MaxFaults \in Nat /\ OFF_MAX \in Nat
    BY Sizes DEF Init
  <2>2. out = <<>> /\ Len(out) = 0 /\ out \in Seq(0 .. length)
    BY DEF Init
  <2>3. TypeOK
    BY <2>1, <2>2, AsOffType DEF Init, TypeOK, Minus1, OffRange
  <2>4. CountersRight
    <3>1. count <= OFF_MAX => n_left = count
      BY <2>1, AsOffSmall DEF Init
    <3>2. count > OFF_MAX => n_left < 0
      BY <2>1, AsOffLarge DEF Init
    <3>3. n_left \in Int
      BY <2>1, AsOffType, Sizes DEF Init, OffRange
    <3> QED
      BY <2>1, <2>2, <3>1, <3>2, <3>3 DEF Init, CountersRight
  <2>5. CopiesExactly
    BY <2>2 DEF Init, CopiesExactly, InputUpTo
  <2>6. BlockInBuffer /\ Rewriting /\ NothingAhead /\ BlocksInOrder
    BY <2>2 DEF Init, BlockInBuffer, Rewriting, NothingAhead, BlocksInOrder
  <2> QED
    BY <2>3, <2>4, <2>5, <2>6 DEF SendfileInvariant
<1>2. SendfileInvariant /\ [Next]_vars => SendfileInvariant'
  <2> SUFFICES ASSUME SendfileInvariant, [Next]_vars PROVE SendfileInvariant'
    OBVIOUS
  <2>1. CASE Finish \/ ReadEnd \/ ReadFails \/ \E n \in 1 .. sf_buf_size : Read(n)
    BY <2>1, ReadSteps
  <2>2. CASE \E n \in 1 .. sf_buf_size : Write(n) \/ Rewrite(n)
    BY <2>2, WriteSteps
  <2>3. CASE WriteFails \/ RewriteFails
    BY <2>3, WriteFailSteps
  <2>4. CASE UNCHANGED vars
    BY <2>4 DEF vars, SendfileInvariant, TypeOK, BlockInBuffer, Rewriting, NothingAhead,
                CountersRight, CopiesExactly, BlocksInOrder
  <2> QED
    BY <2>1, <2>2, <2>3, <2>4 DEF Next
<1> QED
  BY <1>1, <1>2, PTL DEF Spec

\* With no mishap, the first count bytes of the input, or all of a shorter one,
\* arrive in order, whatever parts read() delivers; nothing does if count is above
\* OFF_MAX.
THEOREM CopiesExactlyHolds == Spec => []CopiesExactly
<1>1. SendfileInvariant => CopiesExactly
  BY DEF SendfileInvariant
<1> QED
  BY <1>1, SendfileInvariantHolds, PTL

\* Whatever goes wrong, no block whose last byte is out is sent again.
THEOREM BlocksInOrderHolds == Spec => []BlocksInOrder
<1>1. SendfileInvariant => BlocksInOrder
  BY DEF SendfileInvariant
<1> QED
  BY <1>1, SendfileInvariantHolds, PTL

\* Every step of the copy (sendfile_fallback.c:22-60) comes nearer to its end: with
\* finitely many mishaps no run of it is infinite.
THEOREM SendfileProgressHolds == Spec => SendfileProgresses
<1>1. ASSUME SendfileInvariant, Next PROVE SendfileProgress
  <2>1. in_pos \in Nat /\ length \in Nat
    BY <1>1, OutType DEF SendfileInvariant
  <2>2. CASE Finish \/ ReadEnd
    BY <2>2 DEF Finish, ReadEnd, SendfileProgress
  <2>3. CASE ReadFails
    BY <2>3 DEF ReadFails, Mishap, SendfileProgress
  <2>4. CASE WriteFails
    <3>1. n_left < 0 => AsOff(n_left - Minus1) = n_left + 1
      BY <1>1, OutType, AsOffMinus1 DEF SendfileInvariant
    <3> QED
      BY <2>4, <3>1 DEF WriteFails, Mishap, EndOfBlock, SendfileProgress
  <2>5. CASE RewriteFails
    BY <2>5 DEF RewriteFails, Mishap, SendfileProgress
  <2>6. ASSUME NEW n \in 1 .. sf_buf_size, Read(n) PROVE SendfileProgress
    <3>1. n \in 1 .. Least(Request, length - in_pos) /\ in_pos' = in_pos + n /\ UNCHANGED faults
      BY <2>6 DEF Read
    <3>2. n >= 1 /\ n <= length - in_pos
      <4>1. Request \in Int
        BY <1>1, OutType, Sizes DEF Request, Least, SendfileInvariant
      <4> QED
        BY <2>1, <3>1, <4>1 DEF Least
    <3> QED
      BY <2>1, <3>1, <3>2 DEF SendfileProgress
  <2>7. ASSUME NEW n \in 1 .. sf_buf_size, Write(n) \/ Rewrite(n) PROVE SendfileProgress
    <3>1. ~(n_left < 0)
      BY <1>1, <2>7, OutType, Sizes DEF SendfileInvariant, BlockInBuffer, Rewriting, Write, Rewrite
    <3> QED
      BY <2>7, <3>1 DEF Write, Rewrite, Mishap, EndOfBlock, SendfileProgress
  <2> QED
    BY <1>1, <2>2, <2>3, <2>4, <2>5, <2>6, <2>7 DEF Next
<1>2. SendfileInvariant /\ [Next]_vars => [SendfileProgress]_vars
  BY <1>1
<1> QED
  BY <1>2, SendfileInvariantHolds, PTL DEF Spec, SendfileProgresses
=============================================================================
