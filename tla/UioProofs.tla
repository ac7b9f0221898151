----------------------------- MODULE UioProofs -----------------------------
(***************************************************************************)
(* What readv() and writev() transfer, for every width of int, all         *)
(* vectors, inputs and results of the calls they make.                     *)
(***************************************************************************)
EXTENDS Uio, TLAPS

\* A length is handed on cut, so never as more than it is.
LEMMA CutDown ==
  ASSUME NEW n \in Nat
  PROVE  /\ AsUnsigned(n) \in 0 .. n
         /\ n <= INT_MAX => AsUnsigned(n) = n
BY WidthAssumption DEF AsUnsigned, INT_MAX

\* The length of a call stays within the buffer.
LEMMA CountWithin ==
  ASSUME UioTypes, Position, i <= Len(iov)
  PROVE  /\ iov[i] \in Nat /\ off <= iov[i] /\ Count \in 0 .. iov[i] - off
         /\ iov[i] \in 1 .. INT_MAX => Count # 0
<1>1. iov[i] \in Nat /\ off \in Nat /\ off <= iov[i] /\ INT_MAX \in Nat
  BY WidthAssumption DEF UioTypes, Position, INT_MAX
<1>2. iov[i] - off \in Nat
  BY <1>1
<1>3. Count \in 0 .. iov[i] - off
  BY <1>2, CutDown DEF Count
<1>4. ASSUME iov[i] \in 1 .. INT_MAX
      PROVE  Count # 0
  <2>1. iov[i] - off \in 1 .. INT_MAX
    BY <1>1, <1>4 DEF Position
  <2> QED
    BY <1>2, <2>1, CutDown DEF Count
<1> QED
  BY <1>1, <1>3, <1>4

\* The next place to move a byte to follows the last one moved.
LEMMA NextPlace ==
  ASSUME UioInvariant, i <= Len(iov), iov[i] > 0
  PROVE  <<i, off + 1>> = IF moved = <<>> THEN <<1, 1>> ELSE After(moved[Len(moved)])
<1>1. CASE moved = <<>>
  BY <1>1 DEF UioInvariant, Position
<1>2. CASE moved # <<>>
  <2> DEFINE p == moved[Len(moved)]
  <2>1. Len(moved) \in DOMAIN moved /\ p \in Nat \X Nat
    BY <1>2 DEF UioInvariant, UioTypes
  <2>2. p[2] \in 1 .. iov[p[1]] /\ p[1] \in Nat /\ p[2] \in Nat
    BY <2>1 DEF UioInvariant, TransferExact
  <2>3. CASE p[2] < iov[p[1]]
    <3>1. p[1] = i /\ p[2] = off
      BY <1>2, <2>3 DEF UioInvariant, Position
    <3> QED
      BY <1>2, <2>3, <3>1 DEF After
  <2>4. CASE ~(p[2] < iov[p[1]])
    <3>1. i = p[1] + 1 /\ off = 0
      BY <1>2, <2>4 DEF UioInvariant, Position
    <3> QED
      BY <1>2, <2>4, <3>1 DEF After
  <2> QED
    BY <2>3, <2>4
<1> QED
  BY <1>1, <1>2

LEMMA FunctionIsSeq ==
  ASSUME NEW S, NEW n \in Nat, NEW f \in [1 .. n -> S]
  PROVE  f \in Seq(S) /\ Len(f) = n
OBVIOUS

LEMMA BytesAppended ==
  ASSUME NEW S, NEW s \in Seq(S), NEW new \in Seq(S), NEW t, t = s \o new, NEW r, r = Len(new)
  PROVE  /\ t \in Seq(S) /\ Len(t) = Len(s) + r
         /\ \A k \in 1 .. Len(s) : t[k] = s[k]
         /\ \A k \in 1 .. r : t[Len(s) + k] = new[k]
OBVIOUS

LEMMA OldOrNew ==
  ASSUME NEW m \in Nat, NEW r \in Nat, NEW k \in 1 .. m + r
  PROVE  k \in 1 .. m \/ \E j \in 1 .. r : k = m + j
<1>1. ASSUME k \notin 1 .. m
      PROVE  k - m \in 1 .. r /\ k = m + (k - m)
  BY <1>1
<1> QED
  BY <1>1

\* A transfer moves r more bytes, to the places behind off in buffer i.
LEMMA MovesAppends ==
  ASSUME UioInvariant, NEW r \in 1 .. INT_MAX, Moves(r)
  PROVE  /\ moved' \in Seq(Nat \X Nat) /\ Len(moved') = Len(moved) + r
         /\ \A k \in 1 .. Len(moved) : moved'[k] = moved[k]
         /\ \A k \in 1 .. r : moved'[Len(moved) + k] = <<i, off + k>>
         /\ \A k \in 1 .. Len(moved') : k \in 1 .. Len(moved) \/ \E j \in 1 .. r : k = Len(moved) + j
<1>1. /\ i \in Nat /\ off \in Nat /\ r \in Nat /\ moved \in Seq(Nat \X Nat) /\ Len(moved) \in Nat
  BY WidthAssumption DEF UioInvariant, UioTypes, INT_MAX
<1> DEFINE new == [k \in 1 .. r |-> <<i, off + k>>]
<1> HIDE DEF new
<1>2. moved' = moved \o new
  BY DEF Moves, new
<1>3. \A k \in 1 .. r : <<i, off + k>> \in Nat \X Nat
  BY <1>1
<1>4. new \in [1 .. r -> Nat \X Nat] /\ \A k \in 1 .. r : new[k] = <<i, off + k>>
  BY <1>3 DEF new
<1>5. new \in Seq(Nat \X Nat) /\ Len(new) = r /\ \A k \in 1 .. r : new[k] = <<i, off + k>>
  BY <1>1, <1>4, FunctionIsSeq
<1>6. /\ moved' \in Seq(Nat \X Nat) /\ Len(moved') = Len(moved) + r
      /\ \A k \in 1 .. Len(moved) : moved'[k] = moved[k]
      /\ \A k \in 1 .. r : moved'[Len(moved) + k] = new[k]
  <2>1. moved \in Seq(Nat \X Nat) /\ new \in Seq(Nat \X Nat) /\ r = Len(new)
    BY <1>1, <1>5
  <2>2. ASSUME NEW S, moved \in Seq(S), new \in Seq(S), NEW n, n = Len(new)
        PROVE  /\ moved' \in Seq(S) /\ Len(moved') = Len(moved) + n
               /\ \A k \in 1 .. Len(moved) : moved'[k] = moved[k]
               /\ \A k \in 1 .. n : moved'[Len(moved) + k] = new[k]
    BY <1>2, <2>2, BytesAppended
  <2> QED
    BY <2>1, <2>2
<1>7. \A k \in 1 .. Len(moved') : k \in 1 .. Len(moved) \/ \E j \in 1 .. r : k = Len(moved) + j
  <2>1. Len(moved) \in Nat /\ r \in Nat /\ Len(moved') = Len(moved) + r
    BY <1>1, <1>6
  <2> QED
    BY <2>1, OldOrNew
<1> QED
  BY <1>5, <1>6, <1>7

LEMMA MovesStep ==
  ASSUME UioInvariant, NEW r \in 1 .. INT_MAX, Moves(r)
  PROVE  UioInvariant'
<1>1. /\ pc = "loop" /\ i \in 1 .. Len(iov) /\ i \in Nat /\ off \in Nat /\ Len(iov) \in Nat
      /\ r \in Nat /\ r > 0 /\ r <= Count /\ iov' = iov /\ pc' = pc /\ ended' = ended
      /\ iov \in Seq(Nat) /\ moved \in Seq(Nat \X Nat) /\ Len(moved) \in Nat
  BY WidthAssumption DEF UioInvariant, UioTypes, Moves, InLoop, INT_MAX
<1>2. iov[i] \in Nat /\ off + r <= iov[i]
  BY <1>1, CountWithin DEF UioInvariant
<1>3. /\ moved' \in Seq(Nat \X Nat) /\ Len(moved') = Len(moved) + r
      /\ \A k \in 1 .. Len(moved) : moved'[k] = moved[k]
      /\ \A k \in 1 .. r : moved'[Len(moved) + k] = <<i, off + k>>
      /\ \A k \in 1 .. Len(moved') : k \in 1 .. Len(moved) \/ \E j \in 1 .. r : k = Len(moved) + j
  BY MovesAppends
<1>4. moved'[Len(moved')] = <<i, off + r>> /\ moved' # <<>>
  BY <1>1, <1>3
<1>5. ret = Len(moved) /\ ret' = Len(moved')
  BY <1>1, <1>3 DEF UioInvariant, TransferExact, Moves
<1>6. IF off + r < iov[i] THEN off' = off + r /\ i' = i ELSE off' = 0 /\ i' = i + 1
  BY DEF Moves, Advance
<1>7. UioTypes'
  <2>1. i' \in Nat \ {0} /\ i' <= Len(iov) + 1 /\ off' \in Nat
    BY <1>1, <1>6
  <2>2. ret' \in Int /\ pc' \in {"loop", "done", "search", "found"} /\ ended' \in BOOLEAN
    BY <1>1, <1>3, <1>5 DEF UioInvariant, UioTypes
  <2> QED
    BY <1>1, <1>3, <2>1, <2>2 DEF UioTypes
<1>8. Position'
  <2>1. CASE off + r < iov[i]
    <3>1. i' = i /\ off' = off + r /\ moved'[Len(moved')] = <<i', off'>> /\ off' < iov'[i']
      BY <1>1, <1>4, <1>6, <2>1
    <3> QED
      BY <1>4, <3>1 DEF Position
  <2>2. CASE ~(off + r < iov[i])
    <3>1. i' = i + 1 /\ off' = 0 /\ moved'[Len(moved')] = <<i, off + r>> /\ ~(off + r < iov'[i])
      BY <1>1, <1>4, <1>6, <2>2
    <3> QED
      BY <1>4, <3>1 DEF Position
  <2> QED
    BY <2>1, <2>2
<1>9. ASSUME NEW k \in 1 .. Len(moved')
      PROVE  /\ moved'[k][1] \in DOMAIN iov /\ moved'[k][2] \in 1 .. iov[moved'[k][1]]
             /\ moved'[k] = IF k = 1 THEN <<1, 1>> ELSE After(moved'[k - 1])
  <2>1. CASE k \in 1 .. Len(moved)
    <3>1. DOMAIN moved = 1 .. Len(moved)
      BY <1>1
    <3>2. moved'[k] = moved[k] /\ k \in DOMAIN moved
      BY <1>3, <2>1, <3>1
    <3>3. k # 1 => k - 1 \in 1 .. Len(moved)
      BY <1>1, <2>1
    <3>4. k # 1 => moved'[k - 1] = moved[k - 1]
      BY <1>3, <3>3
    <3> QED
      BY <3>2, <3>4 DEF UioInvariant, TransferExact
  <2>2. ASSUME NEW j \in 1 .. r, k = Len(moved) + j
        PROVE  /\ moved'[k][1] \in DOMAIN iov /\ moved'[k][2] \in 1 .. iov[moved'[k][1]]
               /\ moved'[k] = IF k = 1 THEN <<1, 1>> ELSE After(moved'[k - 1])
    <3>1. i \in DOMAIN iov /\ off + j \in 1 .. iov[i]
      BY <1>1, <1>2, <2>2
    <3>2. moved'[k] = <<i, off + j>> /\ i \in DOMAIN iov /\ off + j \in 1 .. iov[i]
      BY <1>3, <2>2, <3>1
    <3>3. CASE j = 1
      <4>1. moved'[k] = IF moved = <<>> THEN <<1, 1>> ELSE After(moved[Len(moved)])
        BY <1>1, <1>2, <3>2, <3>3, NextPlace
      <4>2. (moved = <<>> <=> k = 1) /\ k - 1 = Len(moved)
        BY <1>1, <2>2, <3>3
      <4>3. moved # <<>> => Len(moved) \in 1 .. Len(moved)
        BY <1>1
      <4>4. k # 1 => moved'[k - 1] = moved[Len(moved)]
        BY <1>3, <4>2, <4>3
      <4>5. moved'[k] = IF k = 1 THEN <<1, 1>> ELSE After(moved'[k - 1])
        <5>1. CASE k = 1
          BY <4>1, <4>2, <5>1
        <5>2. CASE k # 1
          BY <4>1, <4>2, <4>4, <5>2
        <5> QED
          BY <5>1, <5>2
      <4> QED
        BY <3>2, <4>5
    <3>4. CASE j # 1
      <4>1. moved'[k - 1] = <<i, off + (j - 1)>> /\ k # 1
        <5>1. j - 1 \in 1 .. r /\ k - 1 = Len(moved) + (j - 1) /\ k # 1
          BY <1>1, <2>2, <3>4
        <5> DEFINE before == j - 1
        <5>2. moved'[Len(moved) + before] = <<i, off + before>>
          BY <1>3, <5>1
        <5> QED
          BY <5>1, <5>2
      <4>2. off + (j - 1) < iov[i] /\ off + (j - 1) + 1 = off + j
        BY <1>1, <1>2, <2>2
      <4>3. After(moved'[k - 1]) = <<i, off + j>>
        BY <4>1, <4>2 DEF After
      <4> QED
        BY <3>2, <4>1, <4>3
    <3> QED
      BY <3>3, <3>4
  <2> QED
    BY <1>3, <2>1, <2>2
<1>10. DOMAIN moved' = 1 .. Len(moved')
  BY <1>3
<1>11. TransferExact'
  BY <1>1, <1>5, <1>9, <1>10 DEF TransferExact, After
<1>12. LeftEarly'
  BY <1>1 DEF LeftEarly
<1> QED
  BY <1>7, <1>8, <1>11, <1>12 DEF UioInvariant

\* At the end of a vector of ordinary buffers the last byte moved is its last byte.
LEMMA AllServed ==
  ASSUME UioInvariant, i = Len(iov) + 1, iov # <<>>, \A b \in DOMAIN iov : iov[b] \in 1 .. INT_MAX
  PROVE  moved # <<>> /\ moved[Len(moved)] = <<Len(iov), iov[Len(iov)]>>
<1>1. Len(iov) \in Nat \ {0} /\ iov \in Seq(Nat)
  BY DEF UioInvariant, UioTypes
<1>2. moved # <<>>
  BY <1>1 DEF UioInvariant, Position
<1> DEFINE p == moved[Len(moved)]
<1>3. p \in Nat \X Nat /\ p[1] \in DOMAIN iov /\ p[2] \in 1 .. iov[p[1]]
  BY <1>2 DEF UioInvariant, UioTypes, TransferExact
<1>4. p[1] \in Nat /\ p[2] \in Nat /\ iov[p[1]] \in Nat /\ p = <<p[1], p[2]>> /\ p[1] <= Len(iov)
  BY <1>1, <1>3
<1>5. i = p[1] + 1 /\ ~(p[2] < iov[p[1]])
  <2>1. CASE p[2] < iov[p[1]]
    <3>1. p[1] = i
      BY <1>2, <2>1 DEF UioInvariant, Position
    <3> QED
      BY <1>1, <1>4, <3>1
  <2>2. CASE ~(p[2] < iov[p[1]])
    BY <1>2, <2>2 DEF UioInvariant, Position
  <2> QED
    BY <2>1, <2>2
<1>6. p[1] = Len(iov) /\ p[2] = iov[Len(iov)]
  BY <1>1, <1>3, <1>4, <1>5
<1> QED
  BY <1>2, <1>4, <1>6

\* The ways out of the loop move nothing.
LEMMA LeavesStep ==
  ASSUME UioInvariant, pc = "loop", pc' = "done", UNCHANGED <<iov, i, off, moved>>,
         \/ ret' = ret
         \/ ret = 0 /\ ret' = -1,
         ended' \in BOOLEAN,
         ended' \/ i = Len(iov) + 1 \/ (i <= Len(iov) /\ Count = 0)
  PROVE  UioInvariant'
<1>1. UioTypes' /\ Position'
  BY DEF UioInvariant, UioTypes, Position
<1>2. LeftEarly'
  BY DEF LeftEarly, Count
<1>3. ret' = Len(moved') \/ (ret' = -1 /\ moved' = <<>> /\ pc' # "loop")
  BY DEF UioInvariant, UioTypes, TransferExact
<1>4. \A k \in DOMAIN moved :
        /\ moved[k][1] \in DOMAIN iov /\ moved[k][2] \in 1 .. iov[moved[k][1]]
        /\ moved[k] = IF k = 1 THEN <<1, 1>> ELSE After(moved[k - 1])
  BY DEF UioInvariant, TransferExact
<1>5. ASSUME ~ended', \A b \in DOMAIN iov : iov[b] \in 1 .. INT_MAX, iov # <<>>
      PROVE  moved # <<>> /\ moved[Len(moved)] = <<Len(iov), iov[Len(iov)]>>
  <2>1. i = Len(iov) + 1
    <3>1. CASE i <= Len(iov)
      <4>1. i \in DOMAIN iov
        BY <3>1 DEF UioInvariant, UioTypes
      <4> QED
        BY <1>5, <3>1, <4>1, CountWithin DEF UioInvariant
    <3> QED
      BY <1>5, <3>1
  <2> QED
    BY <1>5, <2>1, AllServed
<1>6. TransferExact'
  BY <1>3, <1>4, <1>5 DEF TransferExact, After
<1> QED
  BY <1>1, <1>2, <1>6 DEF UioInvariant

LEMMA QuietStep ==
  ASSUME UioInvariant, UNCHANGED <<iov, i, off, ret, moved, ended>>,
         pc' = pc \/ (pc # "loop" /\ pc' \in {"search", "found"})
  PROVE  UioInvariant'
<1>1. UioTypes' /\ Position'
  BY DEF UioInvariant, UioTypes, Position
<1>2. LeftEarly'
  BY DEF UioInvariant, LeftEarly, Count
<1>3. TransferExact'
  BY DEF UioInvariant, TransferExact, After
<1> QED
  BY <1>1, <1>2, <1>3 DEF UioInvariant

\* Where memmem() goes, and what it leaves alone.
LEMMA MemmemIsQuiet ==
  ASSUME Memmem \/ \E n \in Needles : Search(n)
  PROVE  UNCHANGED transfer /\ pc # "loop" /\ pc' \in {"search", "found"}
BY DEF Memmem, GivesUp, Compare, Search, Answer

LEMMA UioInvariantStep == UioInvariant /\ [Next]_vars => UioInvariant'
<1> SUFFICES ASSUME UioInvariant, [Next]_vars PROVE UioInvariant'
  OBVIOUS
<1>1. CASE LoopEnds
  BY <1>1, LeavesStep DEF LoopEnds, Done, UioInvariant, UioTypes
<1>2. CASE Nothing
  <2>1. i <= Len(iov) /\ Count \in Nat
    BY <1>2, CountWithin DEF Nothing, InLoop, UioInvariant, UioTypes
  <2>2. /\ pc = "loop" /\ pc' = "done" /\ UNCHANGED <<iov, i, off, moved>> /\ ret' = ret
        /\ ended' = (Count > 0)
    BY <1>2 DEF Nothing, InLoop, Done
  <2>3. ended' \in BOOLEAN /\ (ended' \/ Count = 0)
    <3>1. CASE Count > 0
      BY <2>2, <3>1
    <3>2. CASE ~(Count > 0)
      <4>1. Count = 0
        BY <2>1, <3>2
      <4> QED
        BY <2>2, <4>1
    <3> QED
      BY <3>1, <3>2
  <2> QED
    BY <2>1, <2>2, <2>3, LeavesStep
<1>3. CASE Interrupted
  BY <1>3, QuietStep DEF Interrupted
<1>4. CASE Fails
  BY <1>4, LeavesStep DEF Fails, InLoop, Done
<1>5. ASSUME NEW r \in 1 .. INT_MAX, Moves(r) PROVE UioInvariant'
  BY <1>5, MovesStep
<1>6. CASE Memmem \/ \E n \in Needles : Search(n)
  BY <1>6, MemmemIsQuiet, QuietStep DEF transfer
<1>7. CASE UNCHANGED vars
  BY <1>7, QuietStep DEF vars, transfer
<1> QED
  BY <1>1, <1>2, <1>3, <1>4, <1>5, <1>6, <1>7 DEF Next, Transfer

\* __uio_impl() (uio.c:31-63): the loop stands right behind the last byte it moved.
THEOREM UioInvariantHolds == Spec => []UioInvariant
<1>1. Init => UioInvariant
  <2> SUFFICES ASSUME Init PROVE UioInvariant
    OBVIOUS
  <2>1. iov \in Seq(Nat) /\ moved = <<>> /\ Len(moved) = 0 /\ DOMAIN moved = {}
    BY UioAssumption DEF Init
  <2>2. UioTypes
    <3>1. i = 1 /\ off = 0 /\ ret = 0 /\ pc = "loop" /\ ended = FALSE
      BY DEF Init
    <3>2. i \in Nat \ {0} /\ i <= Len(iov) + 1 /\ off \in Nat /\ ret \in Int
      BY <2>1, <3>1
    <3>3. moved \in Seq(Nat \X Nat)
      BY <2>1
    <3> QED
      BY <2>1, <3>1, <3>2, <3>3 DEF UioTypes
  <2>3. Position /\ LeftEarly /\ TransferExact
    BY <2>1 DEF Init, Position, LeftEarly, TransferExact
  <2> QED
    BY <2>2, <2>3 DEF UioInvariant
<1> QED
  BY <1>1, UioInvariantStep, PTL DEF Spec

\* readv() and writev() (uio.c:65-71) transfer exactly: every byte to the next place of
\* the vector, all of it unless the file ends, a call fails or a buffer is out of range.
THEOREM TransferExactHolds == Spec => []TransferExact
<1>1. UioInvariant => TransferExact
  BY DEF UioInvariant
<1> QED
  BY <1>1, UioInvariantHolds, PTL

-----------------------------------------------------------------------------
(* memmem() of what was read. *)

\* A length that is handed on as an int is never more than it is.
LEMMA IntCutDown ==
  ASSUME NEW n \in Nat
  PROVE  /\ AsInt(n) \in Int /\ AsInt(n) <= n
         /\ n <= INT_MAX => AsInt(n) = n
<1>1. AsUnsigned(n) \in 0 .. n /\ (n <= INT_MAX => AsUnsigned(n) = n) /\ UINT_MAX \in Nat /\ INT_MAX \in Nat
  BY CutDown, WidthAssumption DEF INT_MAX
<1>2. CASE AsUnsigned(n) > INT_MAX
  BY <1>1, <1>2 DEF AsInt
<1>3. CASE ~(AsUnsigned(n) > INT_MAX)
  BY <1>1, <1>3 DEF AsInt
<1> QED
  BY <1>2, <1>3

LEMMA SearchTypes ==
  ASSUME UioInvariant, SearchInvariant
  PROVE  /\ Len(moved) \in Nat /\ haystacklen \in Int /\ haystacklen <= Len(moved)
         /\ Len(moved) <= INT_MAX => haystacklen = Len(moved)
         /\ needle \in Seq(Byte) /\ Len(needle) \in Nat /\ needlelen = Len(needle)
         /\ DOMAIN needle = 1 .. Len(needle)
<1>1. Len(moved) \in Nat
  BY DEF UioInvariant, UioTypes
<1>2. needle \in Seq(Byte) /\ Len(needle) \in Nat /\ Len(needle) <= INT_MAX
  <2>1. INT_MAX \in Nat
    BY WidthAssumption DEF INT_MAX
  <2>2. CASE needle \in Needles
    BY <2>2, UioAssumption
  <2>3. CASE needle = <<>>
    BY <2>1, <2>3
  <2> QED
    BY <2>2, <2>3 DEF SearchInvariant
<1>3. DOMAIN needle = 1 .. Len(needle)
  BY <1>2
<1>4. haystacklen \in Int /\ haystacklen <= Len(moved) /\ (Len(moved) <= INT_MAX => haystacklen = Len(moved))
  BY <1>1, IntCutDown DEF haystacklen
<1>5. needlelen = Len(needle)
  BY <1>2, IntCutDown DEF needlelen
<1> QED
  BY <1>1, <1>2, <1>3, <1>4, <1>5

\* An occurrence at or behind ndx is a place memchr() may stop at, unless it is beyond
\* the length memmem() was given.
LEMMA OccurrenceIsPlace ==
  ASSUME UioInvariant, SearchInvariant, pc = "search",
         NEW k \in Occurrences(input, Len(moved), needle), k <= haystacklen - needlelen
  PROVE  k \in Places /\ ndx <= haystacklen /\ Left > 0
<1>1. k \in Nat /\ ndx \in Nat /\ ndx <= k /\ Len(needle) > 0
  BY DEF SearchInvariant, SearchRight, Occurrences
<1>2. input[k + 1] = needle[1]
  <2>1. 1 \in 1 .. Len(needle)
    BY <1>1, SearchTypes
  <2> QED
    BY <2>1 DEF Occurrences, SameBytes
<1>3. k \in ndx .. ndx + Left - 1 /\ ndx <= haystacklen /\ Left > 0
  BY <1>1, SearchTypes DEF Left, SearchLen
<1> QED
  BY <1>2, <1>3 DEF Places, Candidates

\* memchr() stops at or before every occurrence that is left.
LEMMA StopsBefore ==
  ASSUME UioInvariant, SearchInvariant, pc = "search", NEW tptr \in Places, \A k \in Places : tptr <= k
  PROVE  /\ tptr \in Nat /\ tptr + Len(needle) <= Len(moved)
         /\ \A k \in Occurrences(input, Len(moved), needle) : tptr <= k
<1>1. /\ ndx \in Nat /\ haystacklen \in Int /\ Len(needle) \in Nat /\ needlelen = Len(needle)
      /\ Len(moved) \in Nat
  BY SearchTypes DEF SearchInvariant, SearchRight
<1>2. tptr \in Nat /\ tptr <= haystacklen - needlelen
  BY <1>1 DEF Places, Candidates, Left, SearchLen
<1>3. ASSUME NEW k \in Occurrences(input, Len(moved), needle)
      PROVE  tptr <= k
  <2>1. CASE k <= haystacklen - needlelen
    BY <2>1, OccurrenceIsPlace
  <2>2. CASE ~(k <= haystacklen - needlelen)
    BY <1>1, <1>2, <2>2 DEF Occurrences
  <2> QED
    BY <2>1, <2>2
<1> QED
  BY <1>1, <1>2, <1>3, SearchTypes

LEMMA PlacesWithin ==
  ASSUME UioInvariant, SearchInvariant, pc = "search"
  PROVE  \A k \in Places : k >= 0 /\ k + Len(needle) <= Len(moved)
<1>1. /\ ndx \in Nat /\ haystacklen \in Int /\ Len(needle) \in Nat /\ needlelen = Len(needle)
      /\ Len(moved) \in Nat /\ haystacklen <= Len(moved)
  BY SearchTypes DEF SearchInvariant, SearchRight
<1> QED
  BY <1>1 DEF Places, Candidates, Left, SearchLen

LEMMA SearchQuiet ==
  ASSUME SearchInvariant, UNCHANGED <<do_write, input, moved, search>>,
         pc' = pc \/ (pc = "loop" /\ pc' = "done")
  PROVE  SearchInvariant'
<1>1. SearchRight'
  BY DEF SearchInvariant, SearchRight, search
<1>2. WithinRead'
  BY DEF SearchInvariant, WithinRead, Places, Left, haystacklen, needlelen, search
<1>3. MemmemFinds'
  BY DEF SearchInvariant, MemmemFinds, search
<1> QED
  BY <1>1, <1>2, <1>3 DEF SearchInvariant, search

LEMMA SearchMoves ==
  ASSUME UioInvariant, SearchInvariant, NEW r \in 1 .. INT_MAX, Moves(r)
  PROVE  SearchInvariant'
<1>1. pc = "loop" /\ pc' = "loop" /\ UNCHANGED <<do_write, input, search>> /\ r \in Nat
  BY WidthAssumption DEF Moves, InLoop, INT_MAX
<1>2. ~do_write => Len(moved') <= Len(input)
  <2>1. Len(moved') = Len(moved) + r /\ Len(moved) \in Nat /\ Len(input) \in Nat
    BY MovesAppends DEF UioInvariant, UioTypes, SearchInvariant
  <2>2. r <= Available
    BY DEF Moves
  <2> QED
    BY <1>1, <2>1, <2>2 DEF Available
<1>3. SearchRight' /\ WithinRead' /\ MemmemFinds'
  BY <1>1, <1>2 DEF SearchRight, WithinRead, MemmemFinds
<1> QED
  BY <1>1, <1>3 DEF SearchInvariant, search

LEMMA SearchBegins ==
  ASSUME UioInvariant, UioInvariant', SearchInvariant, NEW n \in Needles, Search(n)
  PROVE  SearchInvariant'
<1>1. /\ needle' = n /\ ndx' = 0 /\ UNCHANGED transfer /\ ~do_write
      /\ input \in Seq(Byte) /\ Len(moved) \in Nat /\ Len(moved) <= Len(input)
  BY DEF Search, SearchInvariant, WithinRead, UioInvariant, UioTypes
<1>2. /\ n \in Seq(Byte) /\ Len(n) \in Nat /\ AsInt(Len(n)) = Len(n)
      /\ AsInt(Len(moved)) \in Int /\ AsInt(Len(moved)) <= Len(moved)
      /\ Len(moved) <= INT_MAX => AsInt(Len(moved)) = Len(moved)
  <2>1. n \in Seq(Byte) /\ Len(n) <= INT_MAX
    BY UioAssumption
  <2>2. Len(n) \in Nat
    BY <2>1
  <2> QED
    BY <1>1, <2>1, <2>2, IntCutDown
<1>3. CASE haystacklen = 0 \/ AsInt(Len(n)) = 0
  <2>1. pc' = "found" /\ result' = NULL
    BY <1>3 DEF Search
  <2>2. ASSUME n # <<>>, Len(moved) <= INT_MAX
        PROVE  Occurrences(input, Len(moved), n) = {}
    <3>1. Len(n) > 0
      BY <1>2, <2>2
    <3>2. Len(moved) = 0
      BY <1>2, <1>3, <2>2, <3>1 DEF haystacklen
    <3> QED
      BY <1>2, <3>1, <3>2 DEF Occurrences
  <2>3. MemmemFinds'
    BY <1>1, <2>1, <2>2 DEF MemmemFinds, transfer
  <2> QED
    BY <1>1, <2>1, <2>3 DEF SearchInvariant, SearchRight, WithinRead, transfer
<1>4. CASE ~(haystacklen = 0 \/ AsInt(Len(n)) = 0)
  <2>1. pc' = "search" /\ Len(n) > 0
    BY <1>2, <1>4 DEF Search
  <2>2. SearchRight'
    BY <1>1, <2>1 DEF SearchRight, Occurrences
  <2>3. \A k \in Places' : k >= 0 /\ k + Len(n) <= Len(moved)
    <3>1. haystacklen' = AsInt(Len(moved)) /\ needlelen' = Len(n) /\ ndx' = 0
      BY <1>1, <1>2 DEF haystacklen, needlelen, transfer
    <3>2. Left' = AsInt(Len(moved)) - Len(n) + 1
      BY <1>2, <3>1 DEF Left, SearchLen
    <3>3. \A k \in Places' : k \in 0 .. Left' - 1
      BY <1>2, <3>1, <3>2 DEF Places, Candidates
    <3> QED
      BY <1>1, <1>2, <3>2, <3>3
  <2>4. WithinRead' /\ MemmemFinds'
    BY <1>1, <2>1, <2>3 DEF WithinRead, MemmemFinds, transfer
  <2> QED
    BY <1>1, <2>2, <2>4 DEF SearchInvariant, transfer
<1> QED
  BY <1>3, <1>4

LEMMA SearchGivesUp ==
  ASSUME UioInvariant, SearchInvariant, GivesUp
  PROVE  SearchInvariant'
<1>1. /\ pc = "search" /\ pc' = "found" /\ result' = NULL /\ UNCHANGED <<transfer, needle, ndx>>
      /\ ndx > haystacklen \/ Left <= 0 \/ Places = {}
  BY DEF GivesUp, Answer
<1>2. ASSUME Len(moved) <= INT_MAX, NEW k \in Occurrences(input, Len(moved), needle)
      PROVE  FALSE
  <2>1. k <= haystacklen - needlelen
    BY <1>2, SearchTypes DEF Occurrences
  <2>2. k \in Places /\ ndx <= haystacklen /\ Left > 0
    BY <1>1, <2>1, OccurrenceIsPlace
  <2>3. ndx \in Nat /\ haystacklen \in Int /\ Left \in Int
    BY <1>1, SearchTypes DEF SearchInvariant, SearchRight, Left, SearchLen
  <2> QED
    BY <1>1, <2>2, <2>3
<1>3. MemmemFinds'
  BY <1>1, <1>2 DEF MemmemFinds, transfer
<1> QED
  BY <1>1, <1>3 DEF SearchInvariant, SearchRight, WithinRead, transfer

LEMMA SearchCompares ==
  ASSUME UioInvariant, UioInvariant', SearchInvariant, NEW tptr \in Int, Compare(tptr)
  PROVE  SearchInvariant'
<1>1. /\ pc = "search" /\ tptr \in Places /\ \A k \in Places : tptr <= k
      /\ UNCHANGED <<transfer, needle>>
  BY DEF Compare
<1>2. /\ tptr \in Nat /\ tptr + Len(needle) <= Len(moved)
      /\ \A k \in Occurrences(input, Len(moved), needle) : tptr <= k
  BY <1>1, StopsBefore
<1>3. Len(moved) \in Nat /\ Len(needle) \in Nat /\ Len(needle) > 0 /\ needlelen = Len(needle)
  BY <1>1, SearchTypes DEF SearchInvariant, SearchRight
<1>4. CASE SameBytes(input, tptr, needle, needlelen)
  <2>1. pc' = "found" /\ result' = tptr
    BY <1>4 DEF Compare, Answer
  <2>2. tptr \in Occurrences(input, Len(moved), needle)
    BY <1>2, <1>3, <1>4 DEF Occurrences
  <2>3. tptr # NULL
    BY <1>2 DEF NULL
  <2>4. MemmemFinds'
    BY <1>1, <1>2, <2>1, <2>2, <2>3 DEF MemmemFinds, transfer
  <2> QED
    BY <1>1, <2>1, <2>4 DEF SearchInvariant, SearchRight, WithinRead, transfer
<1>5. CASE ~SameBytes(input, tptr, needle, needlelen)
  <2>1. pc' = "search" /\ ndx' = tptr + 1
    BY <1>1, <1>5 DEF Compare
  <2>2. \A k \in Occurrences(input, Len(moved), needle) : tptr + 1 <= k
    <3>1. \A k \in Occurrences(input, Len(moved), needle) : k \in Int /\ k # tptr
      BY <1>3, <1>5 DEF Occurrences
    <3> QED
      BY <1>2, <3>1
  <2>3. SearchRight'
    BY <1>1, <1>2, <1>3, <2>1, <2>2 DEF SearchRight, transfer
  <2>4. \A k \in Places' : k >= 0 /\ k + Len(needle) <= Len(moved)
    <3>1. haystacklen' = haystacklen /\ needlelen' = Len(needle) /\ haystacklen \in Int /\ haystacklen <= Len(moved)
      <4>1. haystacklen' = haystacklen /\ needlelen' = needlelen
        BY <1>1 DEF haystacklen, needlelen, transfer
      <4> QED
        BY <4>1, SearchTypes
    <3>2. Left' = haystacklen - (tptr + 1) - Len(needle) + 1
      BY <2>1, <3>1 DEF Left, SearchLen
    <3>3. \A k \in Places' : k \in tptr + 1 .. tptr + 1 + Left' - 1
      BY <2>1 DEF Places, Candidates
    <3> QED
      BY <1>2, <1>3, <3>1, <3>2, <3>3
  <2>5. WithinRead' /\ MemmemFinds'
    BY <1>1, <2>1, <2>4 DEF SearchInvariant, WithinRead, MemmemFinds, transfer
  <2> QED
    BY <1>1, <2>3, <2>5 DEF SearchInvariant, transfer
<1> QED
  BY <1>4, <1>5

LEMMA SearchInvariantStep ==
  ASSUME UioInvariant, UioInvariant', SearchInvariant, [Next]_vars
  PROVE  SearchInvariant'
<1>1. CASE LoopEnds
  BY <1>1, SearchQuiet DEF LoopEnds, Done
<1>2. CASE Nothing
  BY <1>2, SearchQuiet DEF Nothing, InLoop, Done
<1>3. CASE Interrupted
  BY <1>3, SearchQuiet DEF Interrupted
<1>4. CASE Fails
  BY <1>4, SearchQuiet DEF Fails, InLoop, Done
<1>5. ASSUME NEW r \in 1 .. INT_MAX, Moves(r) PROVE SearchInvariant'
  BY <1>5, SearchMoves
<1>6. ASSUME NEW n \in Needles, Search(n) PROVE SearchInvariant'
  BY <1>6, SearchBegins
<1>7. CASE GivesUp
  BY <1>7, SearchGivesUp
<1>8. ASSUME NEW tptr \in 0 .. haystacklen, Compare(tptr) PROVE SearchInvariant'
  <2>1. tptr \in Int
    OBVIOUS
  <2> QED
    BY <1>8, <2>1, SearchCompares
<1>9. CASE UNCHANGED vars
  BY <1>9, SearchQuiet DEF vars, transfer
<1> QED
  BY <1>1, <1>2, <1>3, <1>4, <1>5, <1>6, <1>7, <1>8, <1>9 DEF Next, Transfer, Memmem

\* memmem() (str.c:7-31): every occurrence of the needle is at ndx or behind it, and no
\* byte is looked at that was not read.
THEOREM SearchInvariantHolds == Spec => []SearchInvariant
<1>1. Init => SearchInvariant
  <2> SUFFICES ASSUME Init PROVE SearchInvariant
    OBVIOUS
  <2>1. input \in Seq(Byte)
    <3>1. input = <<>> \/ input \in Inputs
      BY DEF Init
    <3>2. <<>> \in Seq(Byte)
      OBVIOUS
    <3>3. Inputs \subseteq Seq(Byte)
      BY UioAssumption
    <3> QED
      BY <3>1, <3>2, <3>3
  <2>2. Len(moved) = 0 /\ Len(input) \in Nat
    BY <2>1 DEF Init
  <2> QED
    BY <2>1, <2>2 DEF Init, SearchInvariant, SearchRight, WithinRead, MemmemFinds
<1> QED
  BY <1>1, SearchInvariantStep, UioInvariantHolds, PTL DEF Spec

\* memmem() (str.c:7-31) answers with the first occurrence, for every content, needle and
\* width of int, and with none only where none is: the search that goes on behind the
\* first byte of a failed comparison skips nothing.
THEOREM MemmemFindsHolds == Spec => []MemmemFinds
<1>1. SearchInvariant => MemmemFinds
  BY DEF SearchInvariant
<1> QED
  BY <1>1, SearchInvariantHolds, PTL

-----------------------------------------------------------------------------
(* What brings both loops to their end. *)

LEMMA MovesProgress ==
  ASSUME UioInvariant, NEW r \in 1 .. INT_MAX, Moves(r)
  PROVE  UioProgress
<1>1. /\ pc = "loop" /\ i \in Nat /\ i <= Len(iov) /\ Len(iov) \in Nat /\ off \in Nat /\ r \in Nat /\ r > 0
      /\ IF off + r < iov[i] THEN off' = off + r /\ i' = i ELSE off' = 0 /\ i' = i + 1
  BY WidthAssumption DEF Moves, InLoop, Advance, UioInvariant, UioTypes, INT_MAX
<1>2. CASE off + r < iov[i]
  BY <1>1, <1>2 DEF UioProgress
<1>3. CASE ~(off + r < iov[i])
  BY <1>1, <1>3 DEF UioProgress
<1> QED
  BY <1>2, <1>3

LEMMA ComparesProgress ==
  ASSUME UioInvariant, SearchInvariant, NEW tptr \in Int, Compare(tptr)
  PROVE  UioProgress
<1>1. /\ pc = "search" /\ tptr \in Places
      /\ pc' = "found" \/ (pc' = "search" /\ ndx' = tptr + 1)
  BY DEF Compare, Answer
<1>2. ndx \in Nat /\ haystacklen \in Int /\ Len(needle) \in Nat /\ Len(needle) > 0 /\ needlelen = Len(needle)
  BY <1>1, SearchTypes DEF SearchInvariant, SearchRight
<1>3. ndx <= tptr /\ tptr + 1 <= haystacklen
  BY <1>1, <1>2 DEF Places, Candidates, Left, SearchLen
<1> QED
  BY <1>1, <1>2, <1>3 DEF UioProgress

\* __uio_impl() (uio.c:31-63) and memmem() (str.c:16-31) come nearer to their end with
\* every step: no call of read() or write() that is counted is made twice for the same
\* bytes, and no place is searched twice.
THEOREM UioProgressHolds == Spec => UioProgresses
<1>1. ASSUME UioInvariant, SearchInvariant, Next PROVE UioProgress
  <2>1. CASE LoopEnds \/ Nothing \/ Fails
    BY <2>1 DEF LoopEnds, Nothing, Fails, InLoop, Done, UioProgress
  <2>2. CASE Interrupted
    BY <2>2 DEF Interrupted, InLoop, Mishap, UioProgress
  <2>3. ASSUME NEW r \in 1 .. INT_MAX, Moves(r) PROVE UioProgress
    BY <1>1, <2>3, MovesProgress
  <2>4. ASSUME NEW n \in Needles, Search(n) PROVE UioProgress
    BY <2>4 DEF Search, UioProgress
  <2>5. CASE GivesUp
    BY <2>5 DEF GivesUp, Answer, UioProgress
  <2>6. ASSUME NEW tptr \in 0 .. haystacklen, Compare(tptr) PROVE UioProgress
    <3>1. tptr \in Int
      OBVIOUS
    <3> QED
      BY <1>1, <2>6, <3>1, ComparesProgress
  <2> QED
    BY <1>1, <2>1, <2>2, <2>3, <2>4, <2>5, <2>6 DEF Next, Transfer, Memmem
<1>2. UioInvariant /\ SearchInvariant /\ [Next]_vars => [UioProgress]_vars
  BY <1>1
<1> QED
  BY <1>2, UioInvariantHolds, SearchInvariantHolds, PTL DEF Spec, UioProgresses
=============================================================================
