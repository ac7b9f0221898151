--------------------------- MODULE FdCacheProofs ---------------------------
(***************************************************************************)
(* FdCache for any number of descriptors and handles: the cache never      *)
(* loses the flag of a file the wrapped open() opened, nothing cached is   *)
(* out of the walk's reach, and no handle is closed by two owners.         *)
(***************************************************************************)
EXTENDS FdCache, TLAPS

\* A look-up keeps everything the invariant says of the cache: it drops entries
\* of closed descriptors only, and lowers the bound only past an empty entry.
LEMMA LookupStep ==
  ASSUME CacheInvariant, ~overrun, NEW h \in Handles, NEW oflag \in Oflags,
         GetOsfhandleOflag(h, oflag)
  PROVE  /\ fd_cache' \in [CacheIndex -> Oflags \cup {NotCached}]
         /\ fd_cache_max_size' \in 0 .. CRT_MAX /\ fd_cache_max_size' <= OPEN_MAX
         /\ answer' \in [given : Oflags, true : Oflags]
         /\ overrun' = overrun
         /\ CacheReachable'
         /\ \A fd \in opened : fd_cache'[fd] = fd_cache[fd]
<1> USE SizeAssumption, InvalidAssumption
<1>0. TypeOK /\ OpenedLive /\ CacheReachable /\ OpenedStaysCached /\ fd_cache_max_size <= OPEN_MAX
  BY DEF CacheInvariant
<1>1. Purged(h) \subseteq 0 .. fd_cache_max_size - 1
  BY DEF Purged, Cached
<1>2. fd_cache' = [i \in CacheIndex |-> IF i \in Purged(h) THEN NotCached ELSE fd_cache[i]]
  BY DEF GetOsfhandleOflag
<1>3. fd_cache_max_size' = IF fd_cache_max_size - 1 \in Purged(h)
                           THEN fd_cache_max_size - 1 ELSE fd_cache_max_size
  BY DEF GetOsfhandleOflag
<1>4. fd_cache' \in [CacheIndex -> Oflags \cup {NotCached}]
  BY <1>0, <1>2 DEF TypeOK
<1>5. fd_cache_max_size' \in 0 .. CRT_MAX /\ fd_cache_max_size' <= OPEN_MAX
  BY <1>0, <1>1, <1>3 DEF TypeOK
<1>6. answer' \in [given : Oflags, true : Oflags] /\ overrun' = overrun
  BY DEF GetOsfhandleOflag, TrueOflag, Oflags
<1>7. CacheReachable'
  BY <1>0, <1>2, <1>3 DEF CacheReachable, CacheIndex, TypeOK
<1>8. ASSUME NEW fd \in opened PROVE fd_cache'[fd] = fd_cache[fd]
  <2>1. osfhandle[fd] # Invalid
    BY <1>0 DEF OpenedLive
  <2>2. fd \notin Purged(h)
    BY <2>1 DEF Purged
  <2>3. fd \in CacheIndex
    BY <1>0 DEF OpenedStaysCached
  <2> QED
    BY <1>2, <2>2, <2>3
<1> QED
  BY <1>4, <1>5, <1>6, <1>7, <1>8

-----------------------------------------------------------------------------
(* One lemma per action: a step keeps CacheInvariant. *)

\* A wrapped open() takes a descriptor that was closed and a handle value that
\* was free, and caches its flag below the new bound.
LEMMA WrapOpenStep ==
  ASSUME CacheInvariant, NEW fd \in Fds, NEW h \in Handles, NEW append \in BOOLEAN,
         WrapOpen(fd, h, append)
  PROVE  CacheInvariant'
<1> USE SizeAssumption, InvalidAssumption
<1> DEFINE o == IF append THEN "crtappend" ELSE "plain"
           g == IF append THEN O_APPEND ELSE 0
<1>0. /\ TypeOK /\ SingleOwner /\ OpenedLive
      /\ ~overrun => CacheReachable /\ OpenedStaysCached /\ fd_cache_max_size <= OPEN_MAX
  BY DEF CacheInvariant
<1>1. /\ ~overrun /\ osfhandle[fd] = Invalid /\ object[h] = "none"
      /\ osfhandle' = [osfhandle EXCEPT ![fd] = h]
      /\ object' = [object EXCEPT ![h] = o]
      /\ cfds' = cfds \cup {fd} /\ opened' = opened \cup {fd}
      /\ overrun' = (fd \notin CacheIndex)
      /\ fd_cache' = [i \in CacheIndex |-> IF i = fd THEN g ELSE fd_cache[i]]
      /\ fd_cache_max_size' = IF fd_cache_max_size <= fd THEN fd + 1 ELSE fd_cache_max_size
      /\ UNCHANGED <<rfiles, answer>>
  BY DEF NewFd, WrapOpen, IsLowest, FreeFds, CacheOflag, MaxAfterCaching
<1>2. o \in Objects /\ o # "none" /\ g \in Oflags /\ (g = O_APPEND <=> o = "crtappend")
  BY DEF Objects, Oflags, O_APPEND
<1>2a. o \in {"crtappend", "plain"} /\ g \in {0, O_APPEND}
  OBVIOUS
<1> HIDE DEF o, g
<1>3. TypeOK'
  <2>1. fd_cache' \in [CacheIndex -> Oflags \cup {NotCached}]
    BY <1>0, <1>1, <1>2 DEF TypeOK
  <2>2. fd_cache_max_size' \in 0 .. CRT_MAX
    BY <1>0, <1>1 DEF TypeOK, Fds
  <2>3. osfhandle' \in [Fds -> Handles \cup {Invalid}] /\ object' \in [Handles -> Objects]
    BY <1>0, <1>1, <1>2 DEF TypeOK
  <2>4. overrun' \in BOOLEAN
    BY <1>1
  <2> QED
    BY <1>0, <1>1, <2>1, <2>2, <2>3, <2>4 DEF TypeOK
<1>4. fd \notin cfds /\ fd \notin opened /\ h \notin rfiles
  BY <1>0, <1>1 DEF SingleOwner, OpenedLive
<1>5. \A x \in cfds \cup opened :
         osfhandle[x] # h /\ osfhandle[x] \in Handles /\ osfhandle'[x] = osfhandle[x]
  BY <1>0, <1>1, <1>4 DEF SingleOwner, OpenedLive, TypeOK
<1>6. osfhandle'[fd] = h /\ object'[h] = o /\ \A x \in Handles : x # h => object'[x] = object[x]
  BY <1>0, <1>1 DEF TypeOK
<1>7. SingleOwner'
  BY <1>0, <1>1, <1>2, <1>4, <1>5, <1>6 DEF SingleOwner, TypeOK
<1>8. OpenedLive'
  BY <1>0, <1>1, <1>2, <1>5, <1>6 DEF OpenedLive
<1>9. ASSUME ~overrun' PROVE CacheReachable' /\ OpenedStaysCached' /\ fd_cache_max_size' <= OPEN_MAX
  <2>1. fd \in CacheIndex
    BY <1>1, <1>9
  <2>2. CacheReachable' /\ fd_cache_max_size' <= OPEN_MAX
    BY <1>0, <1>1, <2>1 DEF CacheReachable, CacheIndex, TypeOK, Fds
  <2>3. \A x \in opened : /\ x \in CacheIndex /\ fd_cache'[x] = fd_cache[x]
                          /\ TrueOflag(osfhandle[x])' = TrueOflag(osfhandle[x])
    BY <1>0, <1>1, <1>4, <1>5, <1>6 DEF OpenedStaysCached, TrueOflag
  <2>4. fd_cache'[fd] = g /\ TrueOflag(osfhandle[fd])' = g
    BY <1>1, <1>2, <1>2a, <1>6, <2>1 DEF TrueOflag, Oflags
  <2> QED
    BY <1>0, <1>1, <1>5, <1>6, <2>1, <2>2, <2>3, <2>4 DEF OpenedStaysCached
<1> QED
  BY <1>3, <1>7, <1>8, <1>9 DEF CacheInvariant, CacheReachable, OpenedStaysCached

\* close() ends the object, and with it every wrapped open() of it.
LEMMA CrtCloseStep ==
  ASSUME CacheInvariant, NEW fd \in Fds, CrtClose(fd)
  PROVE  CacheInvariant'
<1> USE SizeAssumption, InvalidAssumption
<1>0. /\ TypeOK /\ SingleOwner /\ OpenedLive
      /\ ~overrun => CacheReachable /\ OpenedStaysCached /\ fd_cache_max_size <= OPEN_MAX
  BY DEF CacheInvariant
<1>1. /\ ~overrun /\ fd \in cfds
      /\ object' = [object EXCEPT ![osfhandle[fd]] = "none"]
      /\ osfhandle' = [osfhandle EXCEPT ![fd] = Invalid]
      /\ cfds' = cfds \ {fd}
      /\ opened' = {x \in opened : osfhandle[x] # osfhandle[fd]}
      /\ UNCHANGED <<fd_cache, fd_cache_max_size, rfiles, answer, overrun>>
  BY DEF CrtClose
<1>2. osfhandle[fd] \in Handles
  BY <1>0, <1>1 DEF SingleOwner, TypeOK
<1>3. TypeOK'
  BY <1>0, <1>1, <1>2 DEF TypeOK, Objects
<1>4. \A x \in Handles : x # osfhandle[fd] => object'[x] = object[x]
  BY <1>0, <1>1 DEF TypeOK
<1>5. \A x \in cfds' \cup opened' : /\ x # fd /\ osfhandle'[x] = osfhandle[x]
                                    /\ osfhandle[x] # osfhandle[fd]
                                    /\ osfhandle[x] \in Handles
  BY <1>0, <1>1 DEF SingleOwner, OpenedLive, TypeOK
<1>6. SingleOwner'
  BY <1>0, <1>1, <1>4, <1>5 DEF SingleOwner, TypeOK
<1>7. OpenedLive'
  BY <1>0, <1>1, <1>4, <1>5 DEF OpenedLive
<1>8. CacheReachable' /\ fd_cache_max_size' <= OPEN_MAX
  BY <1>0, <1>1 DEF CacheReachable
<1>9. OpenedStaysCached'
  BY <1>0, <1>1, <1>4, <1>5 DEF OpenedStaysCached, TrueOflag
<1> QED
  BY <1>3, <1>6, <1>7, <1>8, <1>9 DEF CacheInvariant

\* readlink() and lstat() leave a descriptor behind that was closed before: no
\* owned or wrapped descriptor changes.
LEMMA SymlinkStep ==
  ASSUME CacheInvariant, NEW fd \in Fds, NEW h \in Handles,
         Readlink(fd, h) \/ \E next \in Fds : Lstat(fd, next, h)
  PROVE  CacheInvariant'
<1> USE SizeAssumption, InvalidAssumption
<1>0. /\ TypeOK /\ SingleOwner /\ OpenedLive
      /\ ~overrun => CacheReachable /\ OpenedStaysCached /\ fd_cache_max_size <= OPEN_MAX
  BY DEF CacheInvariant
<1>1. UNCHANGED <<fd_cache, fd_cache_max_size, cfds, rfiles, opened, answer, overrun>>
  BY DEF Readlink, Lstat
<1>2. /\ object[h] = "none" /\ object' \in {object, [object EXCEPT ![h] = "plain"]}
      /\ \E y \in Fds : osfhandle[y] = Invalid /\ osfhandle' = [osfhandle EXCEPT ![y] = h]
  BY DEF NewFd, Readlink, Lstat, HandleAfterReadlink, IsLowest, FreeFds
<1>3. TypeOK'
  BY <1>0, <1>1, <1>2 DEF TypeOK, Objects
<1>4. \A x \in cfds \cup opened : /\ osfhandle'[x] = osfhandle[x]
                                  /\ osfhandle[x] # h /\ osfhandle[x] \in Handles
                                  /\ object'[osfhandle[x]] = object[osfhandle[x]]
  BY <1>0, <1>2 DEF SingleOwner, OpenedLive, TypeOK
<1>5. \A x \in rfiles : object'[x] # "none"
  BY <1>0, <1>2 DEF SingleOwner, TypeOK
<1>6. SingleOwner' /\ OpenedLive'
  BY <1>0, <1>1, <1>4, <1>5 DEF SingleOwner, OpenedLive
<1>7. ~overrun' => CacheReachable' /\ OpenedStaysCached' /\ fd_cache_max_size' <= OPEN_MAX
  BY <1>0, <1>1, <1>4 DEF CacheReachable, OpenedStaysCached, TrueOflag
<1> QED
  BY <1>3, <1>6, <1>7 DEF CacheInvariant, CacheReachable, OpenedStaysCached

\* Rust's own open takes a free handle value, which no descriptor in use holds.
LEMMA RustOpenStep ==
  ASSUME CacheInvariant, NEW h \in Handles, NEW append \in BOOLEAN, RustOpen(h, append)
  PROVE  CacheInvariant'
<1> USE SizeAssumption, InvalidAssumption
<1> DEFINE o == IF append THEN "winappend" ELSE "plain"
<1>0. /\ TypeOK /\ SingleOwner /\ OpenedLive
      /\ ~overrun => CacheReachable /\ OpenedStaysCached /\ fd_cache_max_size <= OPEN_MAX
  BY DEF CacheInvariant
<1>1. /\ object[h] = "none" /\ object' = [object EXCEPT ![h] = o]
      /\ rfiles' = rfiles \cup {h}
      /\ UNCHANGED <<fd_cache, fd_cache_max_size, osfhandle, cfds, opened, answer, overrun>>
  BY DEF RustOpen
<1>2. o \in Objects /\ o # "none"
  BY DEF Objects
<1> HIDE DEF o
<1>3. TypeOK'
  BY <1>0, <1>1, <1>2 DEF TypeOK
<1>4. \A x \in cfds \cup opened : /\ osfhandle[x] # h /\ osfhandle[x] \in Handles
                                  /\ object'[osfhandle[x]] = object[osfhandle[x]]
  BY <1>0, <1>1 DEF SingleOwner, OpenedLive, TypeOK
<1>5. SingleOwner'
  BY <1>0, <1>1, <1>2, <1>4 DEF SingleOwner, TypeOK
<1>6. OpenedLive'
  BY <1>0, <1>1, <1>4 DEF OpenedLive
<1>7. ~overrun' => CacheReachable' /\ OpenedStaysCached' /\ fd_cache_max_size' <= OPEN_MAX
  BY <1>0, <1>1, <1>4 DEF CacheReachable, OpenedStaysCached, TrueOflag
<1> QED
  BY <1>3, <1>5, <1>6, <1>7 DEF CacheInvariant, CacheReachable, OpenedStaysCached

\* Dropping a File ends an object that no C descriptor owns.
LEMMA RustDropStep ==
  ASSUME CacheInvariant, NEW h \in Handles, RustDrop(h)
  PROVE  CacheInvariant'
<1> USE SizeAssumption, InvalidAssumption
<1>0. /\ TypeOK /\ SingleOwner /\ OpenedLive
      /\ ~overrun => CacheReachable /\ OpenedStaysCached /\ fd_cache_max_size <= OPEN_MAX
  BY DEF CacheInvariant
<1>1. /\ h \in rfiles /\ object' = [object EXCEPT ![h] = "none"]
      /\ rfiles' = rfiles \ {h}
      /\ opened' = {fd \in opened : osfhandle[fd] # h}
      /\ UNCHANGED <<fd_cache, fd_cache_max_size, osfhandle, cfds, answer, overrun>>
  BY DEF RustDrop
<1>2. TypeOK'
  BY <1>0, <1>1 DEF TypeOK, Objects
<1>3. \A x \in cfds \cup opened' : /\ osfhandle[x] # h /\ osfhandle[x] \in Handles
                                   /\ object'[osfhandle[x]] = object[osfhandle[x]]
  BY <1>0, <1>1 DEF SingleOwner, OpenedLive, TypeOK
<1>4. SingleOwner'
  BY <1>0, <1>1, <1>3 DEF SingleOwner, TypeOK
<1>5. OpenedLive'
  BY <1>0, <1>1, <1>3 DEF OpenedLive
<1>6. ~overrun' => CacheReachable' /\ OpenedStaysCached' /\ fd_cache_max_size' <= OPEN_MAX
  BY <1>0, <1>1, <1>3 DEF CacheReachable, OpenedStaysCached, TrueOflag
<1> QED
  BY <1>2, <1>4, <1>5, <1>6 DEF CacheInvariant, CacheReachable, OpenedStaysCached

\* from_raw_fd() moves the one ownership of the handle from C to Rust.
LEMMA FromRawFdStep ==
  ASSUME CacheInvariant, NEW fd \in Fds, FromRawFd(fd)
  PROVE  CacheInvariant'
<1> USE SizeAssumption, InvalidAssumption
<1>0. /\ TypeOK /\ SingleOwner /\ OpenedLive
      /\ ~overrun => CacheReachable /\ OpenedStaysCached /\ fd_cache_max_size <= OPEN_MAX
  BY DEF CacheInvariant
<1>1. /\ fd \in cfds /\ rfiles' = rfiles \cup {osfhandle[fd]} /\ cfds' = cfds \ {fd}
      /\ UNCHANGED <<fd_cache, fd_cache_max_size, osfhandle, object, opened, answer, overrun>>
  BY DEF FromRawFd
<1>2. TypeOK'
  BY <1>0, <1>1 DEF TypeOK, SingleOwner
<1>3. SingleOwner' /\ OpenedLive'
  BY <1>0, <1>1 DEF SingleOwner, OpenedLive
<1>4. ~overrun' => CacheReachable' /\ OpenedStaysCached' /\ fd_cache_max_size' <= OPEN_MAX
  BY <1>0, <1>1 DEF CacheReachable, OpenedStaysCached, TrueOflag
<1> QED
  BY <1>2, <1>3, <1>4 DEF CacheInvariant, CacheReachable, OpenedStaysCached

\* as_raw_fd() and into_raw_fd() look the flag up and take a closed descriptor;
\* into_raw_fd() moves the ownership of the handle to it, or drops it when the
\* CRT has no descriptor left.
LEMMA RawFdStep ==
  ASSUME CacheInvariant, NEW h \in Handles, NEW oflag \in Oflags,
         \/ \E fd \in Fds : AsRawFd(fd, h, oflag) \/ IntoRawFd(fd, h, oflag)
         \/ AsRawFdFull(h, oflag) \/ IntoRawFdFull(h, oflag)
  PROVE  CacheInvariant'
<1> USE SizeAssumption, InvalidAssumption
<1>0. /\ TypeOK /\ SingleOwner /\ OpenedLive
      /\ ~overrun => CacheReachable /\ OpenedStaysCached /\ fd_cache_max_size <= OPEN_MAX
  BY DEF CacheInvariant
<1>1. /\ ~overrun /\ h \in rfiles /\ GetOsfhandleOflag(h, oflag)
      /\ UNCHANGED <<object, opened>>
  BY DEF AsRawFd, IntoRawFd, AsRawFdFull, IntoRawFdFull
<1>2. /\ fd_cache' \in [CacheIndex -> Oflags \cup {NotCached}]
      /\ fd_cache_max_size' \in 0 .. CRT_MAX /\ fd_cache_max_size' <= OPEN_MAX
      /\ answer' \in [given : Oflags, true : Oflags]
      /\ overrun' = overrun
      /\ CacheReachable'
      /\ \A fd \in opened : fd_cache'[fd] = fd_cache[fd]
  BY <1>1, LookupStep
<1>3. \/ UNCHANGED osfhandle /\ UNCHANGED cfds /\ rfiles' \in {rfiles, rfiles \ {h}}
      \/ \E fd \in Fds : /\ osfhandle[fd] = Invalid
                         /\ osfhandle' = [osfhandle EXCEPT ![fd] = h]
                         /\ \/ UNCHANGED <<cfds, rfiles>>
                            \/ cfds' = cfds \cup {fd} /\ rfiles' = rfiles \ {h}
  BY DEF AsRawFd, IntoRawFd, AsRawFdFull, IntoRawFdFull, IsLowest, FreeFds
<1>4. /\ osfhandle' \in [Fds -> Handles \cup {Invalid}]
      /\ cfds' \subseteq Fds /\ rfiles' \subseteq rfiles
      /\ \A x \in cfds \cup opened : osfhandle'[x] = osfhandle[x]
  BY <1>0, <1>3 DEF TypeOK, SingleOwner, OpenedLive
<1>5. TypeOK'
  BY <1>0, <1>1, <1>2, <1>4 DEF TypeOK
<1>6. SingleOwner'
  BY <1>0, <1>1, <1>3, <1>4 DEF SingleOwner, TypeOK
<1>7. OpenedLive'
  BY <1>0, <1>1, <1>4 DEF OpenedLive
<1>8. OpenedStaysCached'
  BY <1>0, <1>1, <1>2, <1>4 DEF OpenedStaysCached, TrueOflag
<1> QED
  BY <1>2, <1>5, <1>6, <1>7, <1>8 DEF CacheInvariant

-----------------------------------------------------------------------------
(* The invariant, and what follows from it. *)

\* Every step keeps CacheInvariant.
LEMMA CacheInvariantStep == CacheInvariant /\ [Next]_vars => CacheInvariant'
<1> SUFFICES ASSUME CacheInvariant, [Next]_vars PROVE CacheInvariant'
  OBVIOUS
<1>1. CASE Next
  BY <1>1, WrapOpenStep, CrtCloseStep, SymlinkStep, RustOpenStep, RustDropStep,
     FromRawFdStep, RawFdStep
  DEF Next
<1>2. CASE UNCHANGED vars
  BY <1>2 DEF vars, CacheInvariant, TypeOK, SingleOwner, OpenedLive, CacheReachable,
              OpenedStaysCached, TrueOflag
<1> QED
  BY <1>1, <1>2

\* Types, ownership and the cache agree in every reachable state, for every
\* size of the cache and of the CRT table.
THEOREM CacheInvariantHolds == Spec => []CacheInvariant
<1>1. Init => CacheInvariant
  <2> SUFFICES ASSUME Init PROVE CacheInvariant
    OBVIOUS
  <2>1. fd_cache \in [CacheIndex -> Oflags \cup {NotCached}] /\ CacheReachable
    BY DEF Init, InitCache, CacheReachable
  <2>2. fd_cache_max_size \in 0 .. CRT_MAX /\ fd_cache_max_size <= OPEN_MAX
    BY SizeAssumption DEF Init
  <2>3. TypeOK
    BY <2>1, <2>2 DEF Init, NoAnswer, TypeOK, Objects, Oflags
  <2> QED
    BY <2>1, <2>2, <2>3
    DEF Init, CacheInvariant, SingleOwner, OpenedLive, OpenedStaysCached
<1> QED
  BY <1>1, CacheInvariantStep, PTL DEF Spec

\* No handle has two owners, so none is closed twice.
THEOREM SingleOwnerHolds == Spec => []SingleOwner
<1>1. CacheInvariant => SingleOwner
  BY DEF CacheInvariant
<1> QED
  BY <1>1, CacheInvariantHolds, PTL

\* The cache keeps O_APPEND of every file opened through the wrapped open() for
\* as long as that file is open.
THEOREM OpenedStaysCachedHolds == Spec => []OpenedStaysCached
<1>1. CacheInvariant => OpenedStaysCached
  BY DEF CacheInvariant, OpenedStaysCached
<1> QED
  BY <1>1, CacheInvariantHolds, PTL

\* Nothing that is cached lies beyond the bound of the walk, however look-ups shrink it,
\* for every size of the cache and of the CRT table.
THEOREM CacheReachableHolds == Spec => []CacheReachable
<1>1. CacheInvariant => CacheReachable
  BY DEF CacheInvariant
<1> QED
  BY <1>1, CacheInvariantHolds, PTL

\* A file that is open for appending through the CRT stays the file of a descriptor
\* its open() made.
LEMMA AppendOpenedStep == CacheInvariant /\ AppendOpened /\ [Next]_vars => AppendOpened'
<1> SUFFICES ASSUME CacheInvariant, AppendOpened, [Next]_vars,
                    NEW h \in Handles, object'[h] = "crtappend"
             PROVE  \E fd \in opened' : osfhandle'[fd] = h
  BY DEF AppendOpened
<1>0. TypeOK /\ SingleOwner /\ OpenedLive
  BY DEF CacheInvariant
<1>1. ASSUME NEW fd \in Fds, NEW g \in Handles, NEW append \in BOOLEAN, WrapOpen(fd, g, append)
      PROVE  \E x \in opened' : osfhandle'[x] = h
  <2>1. /\ osfhandle[fd] = Invalid /\ osfhandle' = [osfhandle EXCEPT ![fd] = g]
        /\ object' = [object EXCEPT ![g] = IF append THEN "crtappend" ELSE "plain"]
        /\ opened' = opened \cup {fd}
    BY <1>1 DEF NewFd, WrapOpen, IsLowest, FreeFds
  <2>2. CASE h = g
    BY <1>0, <2>1, <2>2 DEF TypeOK
  <2>3. CASE h # g
    <3>1. PICK x \in opened : osfhandle[x] = h
      BY <1>0, <2>1, <2>3 DEF TypeOK, AppendOpened
    <3> QED
      BY <1>0, <2>1, <3>1, InvalidAssumption DEF TypeOK
  <2> QED
    BY <2>2, <2>3
<1>2. ASSUME NEW fd \in Fds, CrtClose(fd)
      PROVE  \E x \in opened' : osfhandle'[x] = h
  <2>1. /\ fd \in cfds /\ object' = [object EXCEPT ![osfhandle[fd]] = "none"]
        /\ osfhandle' = [osfhandle EXCEPT ![fd] = Invalid]
        /\ opened' = {x \in opened : osfhandle[x] # osfhandle[fd]}
    BY <1>2 DEF CrtClose
  <2>2. h # osfhandle[fd] /\ object[h] = "crtappend"
    BY <1>0, <2>1 DEF TypeOK, SingleOwner
  <2>3. PICK x \in opened : osfhandle[x] = h
    BY <2>2 DEF AppendOpened
  <2> QED
    BY <1>0, <2>1, <2>2, <2>3 DEF TypeOK
<1>3. ASSUME NEW g \in Handles, RustDrop(g)
      PROVE  \E x \in opened' : osfhandle'[x] = h
  <2>1. /\ object' = [object EXCEPT ![g] = "none"] /\ osfhandle' = osfhandle
        /\ opened' = {x \in opened : osfhandle[x] # g}
    BY <1>3 DEF RustDrop
  <2>2. h # g /\ object[h] = "crtappend"
    BY <1>0, <2>1 DEF TypeOK
  <2> QED
    BY <2>1, <2>2 DEF AppendOpened
<1>4. ASSUME NEW g \in Handles, NEW append \in BOOLEAN, RustOpen(g, append)
      PROVE  \E x \in opened' : osfhandle'[x] = h
  <2>1. /\ object' = [object EXCEPT ![g] = IF append THEN "winappend" ELSE "plain"]
        /\ UNCHANGED <<osfhandle, opened>>
    BY <1>4 DEF RustOpen
  <2>2. object[h] = "crtappend"
    BY <1>0, <2>1 DEF TypeOK
  <2> QED
    BY <2>1, <2>2 DEF AppendOpened
<1>5. CASE /\ UNCHANGED <<object, opened>>
           /\ \/ osfhandle' = osfhandle
              \/ \E fd \in Fds, g \in Handles :
                   osfhandle[fd] = Invalid /\ osfhandle' = [osfhandle EXCEPT ![fd] = g]
  <2>1. PICK x \in opened : osfhandle[x] = h
    BY <1>5 DEF AppendOpened
  <2> QED
    BY <1>0, <1>5, <2>1, InvalidAssumption DEF TypeOK
<1>6. ASSUME NEW fd \in Fds, NEW g \in Handles,
             \E oflag \in Oflags : AsRawFd(fd, g, oflag) \/ IntoRawFd(fd, g, oflag)
      PROVE  \E x \in opened' : osfhandle'[x] = h
  BY <1>5, <1>6 DEF AsRawFd, IntoRawFd, IsLowest, FreeFds
<1>7. ASSUME NEW g \in Handles, NEW oflag \in Oflags, AsRawFdFull(g, oflag) \/ IntoRawFdFull(g, oflag)
      PROVE  \E x \in opened' : osfhandle'[x] = h
  BY <1>5, <1>7 DEF AsRawFdFull, IntoRawFdFull
<1>8. ASSUME NEW fd \in Fds, FromRawFd(fd)
      PROVE  \E x \in opened' : osfhandle'[x] = h
  BY <1>5, <1>8 DEF FromRawFd
<1>9. ASSUME NEW fd \in Fds, NEW g \in Handles,
             Readlink(fd, g) \/ \E next \in Fds : Lstat(fd, next, g)
      PROVE  \E x \in opened' : osfhandle'[x] = h
  <2>1. /\ UNCHANGED opened /\ object' \in {object, [object EXCEPT ![g] = "plain"]}
        /\ \E y \in Fds : osfhandle[y] = Invalid /\ osfhandle' = [osfhandle EXCEPT ![y] = g]
    BY <1>9 DEF NewFd, Readlink, Lstat, HandleAfterReadlink, IsLowest, FreeFds
  <2>2. object[h] = "crtappend"
    BY <1>0, <2>1 DEF TypeOK
  <2>3. PICK x \in opened : osfhandle[x] = h
    BY <2>2 DEF AppendOpened
  <2> QED
    BY <1>0, <2>1, <2>3, InvalidAssumption DEF TypeOK
<1>10. CASE UNCHANGED vars
  BY <1>5, <1>10 DEF vars
<1> QED
  BY <1>1, <1>2, <1>3, <1>4, <1>6, <1>7, <1>8, <1>9, <1>10 DEF Next

\* A look-up answers what the file was opened with when every cached descriptor in use
\* is one its open() made: it meets the descriptor of the file and no other of the
\* same handle, or the file was not opened through the CRT.
LEMMA LookupAnswer ==
  ASSUME CacheInvariant, AppendOpened, ~overrun, NEW h \in Handles, NEW oflag \in Oflags,
         GetOsfhandleOflag(h, oflag),
         \A fd \in CacheIndex \cap Fds :
           fd_cache[fd] # NotCached /\ osfhandle[fd] # Invalid => fd \in opened
  PROVE  answer'.given = answer'.true
<1> USE SizeAssumption, InvalidAssumption
<1>0. TypeOK /\ CacheReachable /\ OpenedStaysCached /\ fd_cache_max_size <= OPEN_MAX
  BY DEF CacheInvariant
<1>1. answer'.given = oflag /\ answer'.true = TrueOflag(h) /\ Answer(h, oflag)
  BY DEF GetOsfhandleOflag
<1>2. Cached \subseteq CacheIndex \cap Fds
  BY <1>0 DEF Cached, TypeOK, CacheIndex, Fds
<1>3. ASSUME NEW fd \in Hits(h)
      PROVE  fd_cache[fd] = TrueOflag(h)
  <2>1. /\ fd \in CacheIndex \cap Fds /\ fd_cache[fd] >= 0 /\ osfhandle[fd] = h
    BY <1>2, <1>3 DEF Hits, Cached
  <2>2. fd \in opened
    BY <2>1 DEF NotCached
  <2> QED
    BY <1>0, <2>1, <2>2 DEF OpenedStaysCached
<1>4. ASSUME NEW fd \in opened, osfhandle[fd] = h
      PROVE  fd \in Hits(h)
  <2>1. fd \in CacheIndex /\ fd_cache[fd] = TrueOflag(h)
    BY <1>0, <1>4 DEF OpenedStaysCached
  <2>2. TrueOflag(h) >= 0 /\ TrueOflag(h) # NotCached
    BY DEF TrueOflag, O_APPEND, NotCached
  <2>3. fd < fd_cache_max_size
    BY <1>0, <2>1, <2>2 DEF CacheReachable
  <2> QED
    BY <1>0, <1>4, <2>1, <2>2, <2>3 DEF Hits, Cached, CacheIndex, TypeOK
<1>5. CASE Hits(h) = {} /\ oflag = Fallback(h)
  <2>1. object[h] # "crtappend"
    BY <1>4, <1>5 DEF AppendOpened
  <2> QED
    BY <1>1, <1>5, <2>1 DEF Fallback, TrueOflag
<1>6. CASE \E fd \in Hits(h) : oflag = fd_cache[fd]
  BY <1>1, <1>3, <1>6
<1> QED
  BY <1>1, <1>5, <1>6 DEF Answer

\* Unless a cached descriptor has been left behind over a handle its open() did not
\* make, as_raw_fd() and into_raw_fd() answer the flag the file was opened with.
THEOREM AnswerRightHolds == Spec => AnswerRight
<1> DEFINE Right == \/ answer' = answer
                    \/ answer'.given = answer'.true
                    \/ \E fd \in CacheIndex \cap Fds :
                         fd_cache[fd] # NotCached /\ osfhandle[fd] # Invalid /\ fd \notin opened
<1>1. ASSUME CacheInvariant, AppendOpened, [Next]_vars PROVE Right
  <2>1. ASSUME NEW h \in Handles, NEW oflag \in Oflags,
               \/ \E fd \in Fds : AsRawFd(fd, h, oflag) \/ IntoRawFd(fd, h, oflag)
               \/ AsRawFdFull(h, oflag) \/ IntoRawFdFull(h, oflag)
        PROVE  Right
    <3>1. ~overrun /\ GetOsfhandleOflag(h, oflag)
      BY <2>1 DEF AsRawFd, IntoRawFd, AsRawFdFull, IntoRawFdFull
    <3> QED
      BY <1>1, <3>1, LookupAnswer
  <2>2. CASE answer' = answer
    BY <2>2
  <2> QED
    BY <1>1, <2>1, <2>2
    DEF Next, vars, NewFd, WrapOpen, CrtClose, Readlink, Lstat, RustOpen, RustDrop, FromRawFd
<1>2. CacheInvariant /\ AppendOpened /\ [Next]_vars => Right
  BY <1>1
<1>3. Init => AppendOpened
  BY DEF Init, AppendOpened
<1> QED
  BY <1>2, <1>3, CacheInvariantHolds, AppendOpenedStep, PTL DEF Spec, AnswerRight
=============================================================================
