---------------------------- MODULE AtCallsProofs ----------------------------
(***************************************************************************)
(* The *at() calls of winsup/at.c act where they are asked to, free their  *)
(* paths and set errno, for any directories, places and names, any errors  *)
(* of Windows, and whatever other processes move.                          *)
(***************************************************************************)
EXTENDS AtCalls, TLAPS

-----------------------------------------------------------------------------
(* The errno table. *)

\* No stretch of the table lists "0" or "garbage" as an errno.
LEMMA StretchErrnos ==
  ASSUME NEW i \in DOMAIN Stretches
  PROVE  (DOMAIN Stretches[i]) \cap {"0", "garbage"} = {}
<1>0. DOMAIN Stretches = 1 .. 13
  BY DEF Stretches
<1>1. CASE i = 1
  BY <1>1 DEF Stretches, Codes0
<1>2. CASE i = 2
  BY <1>2 DEF Stretches, Codes150
<1>3. CASE i = 3
  BY <1>3 DEF Stretches, Codes300
<1>4. CASE i = 4
  BY <1>4 DEF Stretches, Codes450
<1>5. CASE i = 5
  BY <1>5 DEF Stretches, Codes900
<1>6. CASE i = 6
  BY <1>6 DEF Stretches, Codes1050
<1>7. CASE i = 7
  BY <1>7 DEF Stretches, Codes1200
<1>8. CASE i = 8
  BY <1>8 DEF Stretches, Codes1350
<1>9. CASE i = 9
  BY <1>9 DEF Stretches, Codes1800
<1>10. CASE i = 10
  BY <1>10 DEF Stretches, Codes2100
<1>11. CASE i = 11
  BY <1>11 DEF Stretches, Codes2250
<1>12. CASE i = 12
  BY <1>12 DEF Stretches, Codes2400
<1>13. CASE i = 13
  BY <1>13 DEF Stretches, Codes8250
<1> QED
  BY <1>0, <1>1, <1>2, <1>3, <1>4, <1>5, <1>6, <1>7, <1>8, <1>9, <1>10, <1>11, <1>12, <1>13

\* set_errno_via_winerr() of an error sets an errno the table holds, or -1: the
\* table is not read past its end, and its zeros do not come through.
LEMMA WinerrErrno ==
  ASSUME NEW w \in Nat \ {0}
  PROVE  set_errno_via_winerr(w) \notin {"0", "garbage"}
<1>1. CASE ~InTable(w)
  BY <1>1 DEF set_errno_via_winerr
<1>2. CASE InTable(w)
  <2>1. set_errno_via_winerr(w) = Unmapped(winerr_map(w)) /\ ~(w >= winerr_map_size)
    BY <1>2 DEF set_errno_via_winerr, InTable, winerr_map_size
  <2>2. CASE Listed(w) = {}
    BY <2>1, <2>2 DEF winerr_map, Unmapped
  <2>3. CASE Listed(w) # {}
    <3>1. winerr_map(w) \in Listed(w)
      BY <2>1, <2>3 DEF winerr_map
    <3>2. \E i \in DOMAIN Stretches : winerr_map(w) \in DOMAIN Stretches[i]
      BY <3>1 DEF Listed
    <3>3. winerr_map(w) \notin {"0", "garbage"}
      BY <3>2, StretchErrnos
    <3> QED
      BY <2>1, <3>3 DEF Unmapped
  <2> QED
    BY <2>2, <2>3
<1> QED
  BY <1>1, <1>2

-----------------------------------------------------------------------------
(* The steps of a call. *)

\* A path argument of a call.
LEMMA PathType ==
  ASSUME NEW c \in Calls, NEW i \in DOMAIN c.path
  PROVE  c.path[i].abs => c.path[i].at \in Places
<1>1. PICK op \in Ops :
        c \in [op : {op}, flags : Flags(op),
               path : [1 .. (IF op \in TwoPaths THEN 2 ELSE 1) -> AbsPath \cup RelPath]]
  BY DEF Calls
<1>2. c.path \in [1 .. (IF op \in TwoPaths THEN 2 ELSE 1) -> AbsPath \cup RelPath]
  BY <1>1
<1>3. c.path[i] \in AbsPath \cup RelPath
  BY <1>2
<1>4. CASE c.path[i] \in AbsPath
  BY <1>4 DEF AbsPath
<1>5. CASE c.path[i] \in RelPath
  BY <1>5 DEF RelPath
<1> QED
  BY <1>3, <1>4, <1>5

\* How many paths a call has.
LEMMA PathDomain ==
  ASSUME NEW c \in Calls
  PROVE  DOMAIN c.path = 1 .. (IF c.op \in TwoPaths THEN 2 ELSE 1)
<1>1. PICK op \in Ops :
        c \in [op : {op}, flags : Flags(op),
               path : [1 .. (IF op \in TwoPaths THEN 2 ELSE 1) -> AbsPath \cup RelPath]]
  BY DEF Calls
<1>2. c.op = op /\ c.path \in [1 .. (IF op \in TwoPaths THEN 2 ELSE 1) -> AbsPath \cup RelPath]
  BY <1>1
<1> QED
  BY <1>2

\* A call of one path has no other path in memory.
LEMMA OnePath ==
  ASSUME AtInvariant, Running, call.op \notin TwoPaths
  PROVE  DOMAIN call.path = {1} /\ heap \subseteq {1}
<1>1. DOMAIN call.path = 1 .. 1
  BY PathDomain DEF AtInvariant, AtTypes
<1>2. DOMAIN call.path = {1}
  BY <1>1
<1> QED
  BY <1>2 DEF AtInvariant, HeapRight

\* The frees behind the plain call leave nothing, whichever call it is.
LEMMA CallFreesAll ==
  ASSUME AtInvariant, Running, CallFrees
  PROVE  heap' = {}
<1>1. CASE call.op \in TwoPaths /\ ErrorFrees
  BY <1>1 DEF AtInvariant, HeapRight, ErrorFrees
<1>2. CASE call.op = "openat" /\ heap' = heap \ {1}
  BY <1>2, OnePath DEF TwoPaths
<1>3. CASE call.op \notin Copying /\ heap' = IF call.path[1].abs THEN heap ELSE heap \ {1}
  <2>1. DOMAIN call.path = {1} /\ heap \subseteq {1}
    BY <1>3, OnePath DEF TwoPaths, Copying
  <2>2. call.path[1].abs => 1 \notin heap
    BY <1>3 DEF AtInvariant, HeapRight, Path
  <2> QED
    BY <1>3, <2>1, <2>2
<1> QED
  BY <1>1, <1>2, <1>3 DEF CallFrees

\* A path that cannot be made leaves nothing: the calls of one path have none yet.
LEMMA FailureFreesAll ==
  ASSUME AtInvariant, NEW i \in 1 .. 2, At(i), FailureFrees
  PROVE  heap' = {}
<1>1. Running /\ i \in DOMAIN call.path
  BY DEF At, Running
<1>2. CASE call.op \in TwoPaths /\ ErrorFrees
  BY <1>1, <1>2 DEF AtInvariant, HeapRight, ErrorFrees
<1>3. CASE call.op \notin TwoPaths /\ UNCHANGED heap
  <2>1. i = 1 /\ pc = "path1"
    BY <1>1, <1>3, OnePath DEF At
  <2> QED
    BY <1>1, <1>3, <2>1 DEF AtInvariant, HeapRight
<1> QED
  BY <1>2, <1>3 DEF FailureFrees

\* A step that answers -1 has to see to errno and to the memory; the rest is as it
\* should be.
LEMMA ReturnsError ==
  ASSUME AtInvariant, Return("-1"), UNCHANGED where, faults' \in Nat, heap' = {},
         \/ errno' \notin {"0", "garbage"}
         \/ call'.op = "faccessat" /\ call'.flags = "other"
         \/ faults' > 0
  PROVE  AtInvariant'
<1>1. pc' = "returned" /\ ret' = "-1"
  BY DEF Return
<1>2. AtTypes' /\ PlacesApart' /\ ResolvedRight' /\ HeapRight'
  BY <1>1 DEF AtInvariant, AtTypes, PlacesApart, ResolvedRight, HeapRight, Running
<1>3. OthersActWhereAsked' /\ NoPathLeak' /\ ErrnoSet'
  BY <1>1 DEF OthersActWhereAsked, ActsWhereAsked, NoPathLeak, ErrnoSet
<1> QED
  BY <1>2, <1>3 DEF AtInvariant

\* A step that goes on, or ends the process, has to see to the paths.
LEMMA GoesOn ==
  ASSUME AtInvariant, pc' # "returned", AtTypes', PlacesApart', ResolvedRight', HeapRight'
  PROVE  AtInvariant'
BY DEF AtInvariant, OthersActWhereAsked, ActsWhereAsked, NoPathLeak, ErrnoSet

LEMMA BeginStep ==
  ASSUME AtInvariant, NEW c \in Calls, Begin(c)
  PROVE  AtInvariant'
<1>1. /\ UNCHANGED <<where, faults, heap>> /\ call' = c
      /\ real' = [i \in DOMAIN c.path |-> NoPath] /\ faults \in Nat /\ heap = {}
  BY DEF Begin, AtInvariant, AtTypes, HeapRight
<1>2. CASE errno' = "EINVAL" /\ Return("-1")
  BY <1>1, <1>2, ReturnsError
<1>3. CASE pc' = "path1"
  <2>1. AtTypes' /\ PlacesApart'
    BY <1>1, <1>3 DEF AtInvariant, AtTypes, PlacesApart
  <2>2. ResolvedRight' /\ HeapRight'
    BY <1>1, <1>3 DEF ResolvedRight, HeapRight
  <2> QED
    BY <1>3, <2>1, <2>2, GoesOn
<1> QED
  BY <1>2, <1>3 DEF Begin

\* A path is made, or the one that was given is taken.
LEMMA PathStep ==
  ASSUME AtInvariant, NEW i \in 1 .. 2, TakeAbsolute(i) \/ Resolve(i)
  PROVE  AtInvariant'
<1>1. At(i) /\ Running /\ i \in DOMAIN call.path
  BY DEF TakeAbsolute, Resolve, At, Running
<1>2. /\ UNCHANGED <<where, call, moved, faults>>
      /\ pc' \in {"path2", "plain"}
  BY DEF TakeAbsolute, Resolve, NextStep
<1>3. call \in Calls /\ real \in [DOMAIN call.path -> Places \cup {NoPath}] /\ where \in [Dirs -> Places]
      /\ faults \in Nat
  BY <1>1 DEF AtInvariant, AtTypes
<1>4. PICK p \in Places :
        /\ real' = [real EXCEPT ![i] = p]
        /\ unwritten \subseteq unwritten'
        /\ Path(i).abs \/ (Path(i).at \in Dirs /\ (p = where[Path(i).at] \/ i \in unwritten'))
  <2>1. CASE TakeAbsolute(i)
    BY <1>1, <1>3, <2>1, PathType DEF TakeAbsolute, Path
  <2>2. CASE Resolve(i)
    BY <1>3, <2>2 DEF Resolve, GetPathAt
  <2> QED
    BY <2>1, <2>2
<1>5. AtTypes' /\ PlacesApart'
  BY <1>1, <1>2, <1>3, <1>4 DEF AtInvariant, AtTypes, PlacesApart
<1>6. ResolvedRight'
  <2> SUFFICES ASSUME NEW j \in DOMAIN call.path, real'[j] # NoPath, ~Path(j).abs
               PROVE  /\ Path(j).at \in Dirs
                      /\ \/ real'[j] = where[Path(j).at]
                         \/ Path(j).at \in moved \/ j \in unwritten'
    BY <1>2 DEF ResolvedRight, Path
  <2>1. CASE j = i
    BY <1>1, <1>3, <1>4, <2>1
  <2>2. CASE j # i
    BY <1>1, <1>3, <1>4, <2>2 DEF AtInvariant, ResolvedRight
  <2> QED
    BY <2>1, <2>2
<1>7. HeapRight'
  <2>1. heap' = IF ~Path(i).abs \/ call.op \in Copying THEN heap \cup {i} ELSE heap
    BY DEF TakeAbsolute, Resolve
  <2>2. heap = {j \in DOMAIN call.path :
                  real[j] # NoPath /\ (~Path(j).abs \/ call.op \in Copying)}
    BY <1>1 DEF AtInvariant, HeapRight
  <2>3. p # NoPath => heap' = {j \in DOMAIN call.path :
                  real'[j] # NoPath /\ (~Path(j).abs \/ call.op \in Copying)}
    BY <1>1, <1>3, <1>4, <2>1, <2>2
  <2> QED
    BY <1>2, <1>4, <2>3, AtAssumption DEF HeapRight, Path
<1> QED
  BY <1>2, <1>5, <1>6, <1>7, GoesOn

LEMMA StrdupFailsStep ==
  ASSUME AtInvariant, NEW i \in 1 .. 2, StrdupFails(i)
  PROVE  AtInvariant'
<1>1. At(i) /\ Running /\ faults' \in Nat
  BY DEF StrdupFails, At, Running, Fault, AtInvariant, AtTypes
<1>2. pc' \in {"aborted", "path2", "plain"} /\ UNCHANGED <<where, call, real, unwritten, heap, moved>>
  BY DEF StrdupFails, NextStep
<1>3. AtTypes' /\ PlacesApart' /\ ResolvedRight' /\ HeapRight'
  BY <1>1, <1>2 DEF AtInvariant, AtTypes, PlacesApart, ResolvedRight, HeapRight, Path
<1> QED
  BY <1>2, <1>3, GoesOn

LEMMA ResolveFailsStep ==
  ASSUME AtInvariant, NEW i \in 1 .. 2, ResolveFails(i)
  PROVE  AtInvariant'
<1>1. Return("-1") /\ UNCHANGED where /\ faults \in Nat /\ heap' = {}
  BY FailureFreesAll DEF ResolveFails, AtInvariant, AtTypes
<1>2. CASE Fault
  BY <1>1, <1>2, ReturnsError DEF Fault
<1>3. CASE UNCHANGED faults /\ errno' \notin {"0", "garbage"}
  BY <1>1, <1>3, ReturnsError
<1>4. CASE NoFinalPath
  BY <1>3, <1>4, WinerrErrno, AtAssumption DEF NoFinalPath
<1> QED
  BY <1>2, <1>3, <1>4 DEF ResolveFails, NotDirfd, NoParent, TooLong, NoBuffer

\* The plain call finds the directory the path was made from, for no two are in
\* one place.
LEMMA SucceedStep ==
  ASSUME AtInvariant, Succeed
  PROVE  AtInvariant'
<1>1. PICK d \in [DOMAIN call.path -> Dirs] :
        (\A i \in DOMAIN d : d[i] \in Found(i)) /\ acted' = d
  BY DEF Succeed
<1>2. /\ pc = "plain" /\ Running /\ PathsReady /\ pc' = "returned" /\ ret' = "0" /\ heap' = {}
      /\ UNCHANGED <<where, call, unwritten, moved, faults>>
  BY CallFreesAll DEF Succeed, Return, Running
<1>3. AtTypes' /\ PlacesApart' /\ ResolvedRight' /\ HeapRight' /\ NoPathLeak' /\ ErrnoSet'
  BY <1>2
  DEF AtInvariant, AtTypes, PlacesApart, ResolvedRight, HeapRight, Running, NoPathLeak, ErrnoSet
<1>4. OthersActWhereAsked'
  <2> SUFFICES ASSUME call.op # "openat", NEW i \in DOMAIN call.path, ~Path(i).abs,
                      Path(i).at \notin moved, i \notin unwritten
               PROVE  d[i] = Path(i).at
    BY <1>1, <1>2 DEF OthersActWhereAsked, ActsWhereAsked, Path
  <2>1. d[i] \in Dirs /\ where[d[i]] = real[i] /\ real[i] # NoPath
    BY <1>1, <1>2 DEF Found, Used, PathsReady
  <2>2. Path(i).at \in Dirs /\ real[i] = where[Path(i).at]
    BY <1>2, <2>1 DEF AtInvariant, ResolvedRight
  <2> QED
    BY <2>1, <2>2 DEF AtInvariant, PlacesApart
<1> QED
  BY <1>3, <1>4 DEF AtInvariant

LEMMA FailStep ==
  ASSUME AtInvariant, Fail \/ AccessDenied \/ ChmodFails
  PROVE  AtInvariant'
<1>1. Return("-1") /\ UNCHANGED <<where, call, faults>> /\ faults \in Nat /\ heap' = {}
  BY CallFreesAll DEF Fail, AccessDenied, ChmodFails, AtInvariant, AtTypes, Running
<1>2. CASE Fail
  <2>1. errno' \notin {"0", "garbage"}
    BY <1>2, WinerrErrno, AtAssumption DEF Fail
  <2> QED
    BY <1>1, <2>1, ReturnsError
<1>3. CASE AccessDenied
  BY <1>1, <1>3, ReturnsError DEF AccessDenied
<1>4. CASE ChmodFails
  BY <1>1, <1>4, ReturnsError DEF ChmodFails
<1> QED
  BY <1>2, <1>3, <1>4

\* Another process moves a directory: the paths made from it are excused.
LEMMA MoveStep ==
  ASSUME AtInvariant, NEW d \in Dirs, NEW p \in Places, Move(d, p)
  PROVE  AtInvariant'
<1>1. /\ UNCHANGED <<pc, call, real, unwritten, heap, errno, ret, acted, faults>>
      /\ where' = [where EXCEPT ![d] = p] /\ \A e \in Dirs : where[e] # p
      /\ moved' = IF Running THEN moved \cup {d} ELSE moved
  BY DEF Move
<1>2. where \in [Dirs -> Places]
  BY DEF AtInvariant, AtTypes
<1>3. where' \in [Dirs -> Places] /\ where'[d] = p /\ \A e \in Dirs : e # d => where'[e] = where[e]
  BY <1>1, <1>2
<1>4. AtTypes' /\ PlacesApart'
  BY <1>1, <1>3 DEF AtInvariant, AtTypes, PlacesApart, Running
<1>5. ResolvedRight' /\ HeapRight'
  BY <1>1, <1>3 DEF AtInvariant, ResolvedRight, HeapRight, Running, Path
<1>6. OthersActWhereAsked' /\ NoPathLeak' /\ ErrnoSet'
  BY <1>1 DEF AtInvariant, OthersActWhereAsked, ActsWhereAsked, NoPathLeak, ErrnoSet, Path
<1> QED
  BY <1>4, <1>5, <1>6 DEF AtInvariant

\* Every step keeps AtInvariant.
LEMMA AtInvariantStep == AtInvariant /\ [Next]_vars => AtInvariant'
<1> SUFFICES ASSUME AtInvariant, [Next]_vars PROVE AtInvariant'
  OBVIOUS
<1>1. CASE \E c \in Calls : Begin(c)
  BY <1>1, BeginStep
<1>2. CASE \E i \in 1 .. 2 : TakeAbsolute(i) \/ Resolve(i)
  BY <1>2, PathStep
<1>3. CASE \E i \in 1 .. 2 : StrdupFails(i)
  BY <1>3, StrdupFailsStep
<1>4. CASE \E i \in 1 .. 2 : ResolveFails(i)
  BY <1>4, ResolveFailsStep
<1>5. CASE Succeed
  BY <1>5, SucceedStep
<1>6. CASE Fail \/ AccessDenied \/ ChmodFails
  BY <1>6, FailStep
<1>7. CASE NullPath \/ TakeAnswer
  <2>1. /\ pc' \in {"crashed", "idle"} /\ UNCHANGED <<where, faults, heap>>
        /\ pc' = "idle" => heap = {}
    BY <1>7 DEF NullPath, TakeAnswer, AtInvariant, NoPathLeak
  <2>2. AtTypes' /\ PlacesApart' /\ ResolvedRight' /\ HeapRight'
    BY <2>1 DEF AtInvariant, AtTypes, PlacesApart, ResolvedRight, HeapRight, Running
  <2> QED
    BY <2>1, <2>2, GoesOn
<1>8. CASE \E d \in Dirs, p \in Places : Move(d, p)
  BY <1>8, MoveStep
<1>9. CASE UNCHANGED vars
  BY <1>9 DEF vars, AtInvariant, AtTypes, PlacesApart, ResolvedRight, HeapRight, Running, Path,
              OthersActWhereAsked, ActsWhereAsked, NoPathLeak, ErrnoSet
<1> QED
  BY <1>1, <1>2, <1>3, <1>4, <1>5, <1>6, <1>7, <1>8, <1>9 DEF Next, Step

\* The inductive invariant holds in every run of the *at() calls.
THEOREM AtInvariantHolds == Spec => []AtInvariant
<1>1. Init => AtInvariant
  BY AtAssumption DEF Init, AtInvariant, AtTypes, PlacesApart, ResolvedRight, HeapRight, Running,
                      OthersActWhereAsked, NoPathLeak, ErrnoSet
<1> QED
  BY <1>1, AtInvariantStep, PTL DEF Spec

\* Every *at() call but openat() that succeeds has acted in the directory of its
\* descriptor, unless that directory was moved while the call ran or its path was
\* longer than PATH_MAX (fd.c:58).
THEOREM OthersActWhereAskedHolds == Spec => []OthersActWhereAsked
<1>1. AtInvariant => OthersActWhereAsked
  BY DEF AtInvariant
<1> QED
  BY <1>1, AtInvariantHolds, PTL

\* A call that has returned, by whatever path, holds no memory for a path: each has a
\* free() for what it had made or copied (at.c:35,53,99-104,134,169,212,241,257,301-306).
THEOREM NoPathLeakHolds == Spec => []NoPathLeak
<1>1. AtInvariant => NoPathLeak
  BY DEF AtInvariant
<1> QED
  BY <1>1, AtInvariantHolds, PTL

\* A call that fails says why, for every Windows error there is: the table is
\* never read past its end and its zeros never become an errno.
THEOREM ErrnoSetHolds == Spec => []ErrnoSet
<1>1. AtInvariant => ErrnoSet
  BY DEF AtInvariant
<1> QED
  BY <1>1, AtInvariantHolds, PTL

\* In a debug build a call that fails has changed no directory.
THEOREM FailureLeavesNoTraceHolds == Spec => FailureLeavesNoTrace
<1>1. [Next]_vars => [~NDEBUG /\ ret = "none" /\ ret' = "-1" => names' = names]_vars
  <2> SUFFICES ASSUME [Next]_vars, ~NDEBUG, ret = "none", ret' = "-1"
               PROVE  names' = names
    OBVIOUS
  <2>1. CASE ChmodFails
    BY <2>1 DEF ChmodFails, MkdirUndo
  <2>2. CASE Succeed
    BY <2>2 DEF Succeed, Return
  <2>3. CASE UNCHANGED names
    BY <2>3
  <2> QED
    BY <2>1, <2>2, <2>3
    DEF Next, Step, vars, Begin, TakeAnswer, Move, TakeAbsolute, StrdupFails, Resolve,
        ResolveFails, Fail, AccessDenied, NullPath
<1> QED
  BY <1>1, PTL DEF Spec, FailureLeavesNoTrace

-----------------------------------------------------------------------------
(* What brings a call to its end. *)

LEMMA PathCount ==
  ASSUME NEW c \in Calls
  PROVE  Len(c.path) = 1 \/ Len(c.path) = 2
<1>1. PICK op \in Ops :
        c \in [op : {op}, flags : Flags(op),
               path : [1 .. (IF op \in TwoPaths THEN 2 ELSE 1) -> AbsPath \cup RelPath]]
  BY DEF Calls
<1>2. PICK n \in 1 .. 2 : c.path \in [1 .. n -> AbsPath \cup RelPath]
  <2>1. c.path \in [1 .. (IF op \in TwoPaths THEN 2 ELSE 1) -> AbsPath \cup RelPath]
    BY <1>1
  <2>2. CASE op \in TwoPaths
    BY <2>1, <2>2
  <2>3. CASE op \notin TwoPaths
    BY <2>1, <2>3
  <2> QED
    BY <2>2, <2>3
<1>3. ASSUME NEW S, c.path \in [1 .. n -> S]
      PROVE  c.path \in Seq(S) /\ Len(c.path) = n
  BY <1>3
<1>4. Len(c.path) = n
  BY <1>2, <1>3
<1> QED
  BY <1>2, <1>4

\* From path 2 a call goes on to the plain call.
LEMMA NextStepOn ==
  ASSUME AtInvariant, NEW i \in 1 .. 2, At(i)
  PROVE  /\ Running /\ pc = IF i = 1 THEN "path1" ELSE "path2"
         /\ NextStep(i) \in (IF i = 1 THEN {"path2", "plain"} ELSE {"plain"})
<1>1. Running /\ pc = IF i = 1 THEN "path1" ELSE "path2"
  BY DEF At, Running
<1>2. call \in Calls
  BY <1>1 DEF AtInvariant, AtTypes
<1>3. Len(call.path) = 1 \/ Len(call.path) = 2
  BY <1>2, PathCount
<1>4. CASE i = 1
  BY <1>1, <1>4 DEF NextStep
<1>5. CASE i = 2
  <2>1. ASSUME NEW n, n = 1 \/ n = 2
        PROVE  ~(2 < n)
    BY <2>1
  <2>2. ~(2 < Len(call.path))
    BY <1>3, <2>1
  <2> QED
    BY <1>1, <1>5, <2>2 DEF NextStep
<1> QED
  BY <1>4, <1>5

LEMMA AtProgressStep ==
  ASSUME AtInvariant, Next
  PROVE  AtProgress
<1>1. ASSUME NEW i \in 1 .. 2, TakeAbsolute(i) \/ Resolve(i)
      PROVE  AtProgress
  BY <1>1, NextStepOn DEF TakeAbsolute, Resolve, AtProgress
<1>2. ASSUME NEW i \in 1 .. 2, StrdupFails(i)
      PROVE  AtProgress
  <2>1. /\ pc = IF i = 1 THEN "path1" ELSE "path2"
        /\ NextStep(i) \in (IF i = 1 THEN {"path2", "plain"} ELSE {"plain"})
    BY <1>2, NextStepOn DEF StrdupFails
  <2>2. pc' = "aborted" \/ pc' = (IF i = 1 THEN NextStep(1) ELSE "path2")
    BY <1>2 DEF StrdupFails
  <2>3. faults < MaxFaults /\ faults' = faults + 1 /\ UNCHANGED moves
    BY <1>2 DEF StrdupFails, Fault
  <2> QED
    BY <2>1, <2>2, <2>3 DEF AtProgress
<1>3. ASSUME NEW i \in 1 .. 2, ResolveFails(i)
      PROVE  AtProgress
  BY <1>3 DEF ResolveFails, Return, AtProgress
<1>4. CASE Succeed \/ Fail \/ AccessDenied \/ ChmodFails \/ NullPath
  BY <1>4 DEF Succeed, Fail, AccessDenied, ChmodFails, NullPath, Return, AtProgress
<1>5. CASE (\E c \in Calls : Begin(c)) \/ TakeAnswer
  BY <1>5 DEF Begin, TakeAnswer, Running, AtProgress
<1>6. ASSUME NEW d \in Dirs, NEW p \in Places, Move(d, p)
      PROVE  AtProgress
  BY <1>6 DEF Move, AtProgress
<1> QED
  BY <1>1, <1>2, <1>3, <1>4, <1>5, <1>6 DEF Next, Step

\* No *at() call goes round for ever: the label the second strdup() of linkat() and
\* renameat() goes back to is behind the first path (at.c:69-103, 247-291).
THEOREM CallsProgressHolds == Spec => CallsProgress
<1>1. AtInvariant /\ [Next]_vars => [AtProgress]_vars
  BY AtProgressStep
<1> QED
  BY <1>1, AtInvariantHolds, PTL DEF Spec, CallsProgress
=============================================================================
