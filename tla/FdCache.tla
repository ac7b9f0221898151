------------------------------ MODULE FdCache ------------------------------
(***************************************************************************)
(* C runtime descriptors, Windows handles and the O_APPEND cache:          *)
(* winsup/internal/fd.c, winsup/open.c, the descriptor use of readlink()   *)
(* (winsup/link.c) and lstat() (winsup/stat.c), and the Rust traits of     *)
(* winsup-rs/fd.rs.                                                        *)
(*                                                                         *)
(* The C runtime (CRT) has a table from descriptors to handle VALUES; the  *)
(* system has the objects behind the values and reissues a value once it   *)
(* is closed.  O_APPEND of a descriptor opened by C is known to the CRT    *)
(* alone, so fd.c remembers it per descriptor number and answers for a     *)
(* handle by looking for a descriptor that holds it.  close() is not       *)
(* wrapped: an entry outlives its descriptor until a look-up notices.      *)
(***************************************************************************)
EXTENDS Integers, FiniteSets

CONSTANTS
    OPEN_MAX,  \* length of the array fd_cache
    CRT_MAX,   \* number of descriptors of the C runtime
    Handles,   \* handle values
    Invalid,   \* INVALID_HANDLE_VALUE
    Rust,      \* TRUE when Rust code shares handles with C (winsup-rs)
    Symlinks   \* TRUE when symbolic links are inspected

ASSUME SizeAssumption == OPEN_MAX \in Nat /\ CRT_MAX \in Nat
ASSUME InvalidAssumption == Invalid \notin Handles
ASSUME FeatureAssumption == Rust \in BOOLEAN /\ Symlinks \in BOOLEAN

VARIABLES
    fd_cache,           \* fd_cache[i].oflag
    fd_cache_max_size,
    osfhandle,          \* osfhandle[fd]: the handle value in the CRT table
    object,             \* object[h]: what the handle value h denotes now
    cfds,               \* descriptors C code has to close
    rfiles,             \* handles a Rust File or OwnedHandle has to close
    opened,             \* history: descriptors made by the wrapped open()
    answer,             \* last answer of __get_osfhandle_oflag, and the truth
    overrun             \* fd_cache was indexed outside the array

vars == <<fd_cache, fd_cache_max_size, osfhandle, object, cfds, rfiles,
          opened, answer, overrun>>

Fds == 0 .. CRT_MAX - 1
CacheIndex == 0 .. OPEN_MAX - 1

O_APPEND == 8
NotCached == -1
Oflags == {0, O_APPEND}

\* An open handle appends because the CRT moves to the end ("crtappend": the
\* handle itself may write anywhere) or because its access rights say so
\* ("winappend", how Rust's std opens for append).
Objects == {"none", "plain", "crtappend", "winappend"}

TrueOflag(h) == IF object[h] \in {"crtappend", "winappend"} THEN O_APPEND ELSE 0

NoAnswer == [given |-> 0, true |-> 0]

FreeFds == {fd \in Fds : osfhandle[fd] = Invalid}

\* The CRT hands out the lowest free descriptor.
IsLowest(fd, S) == fd \in S /\ \A x \in S : fd <= x

\* __init_oflag_cache() runs as a constructor, before main().
InitCache == [i \in CacheIndex |-> NotCached]

Init ==
    /\ fd_cache = InitCache
    /\ fd_cache_max_size = 0
    /\ osfhandle = [fd \in Fds |-> Invalid]
    /\ object = [h \in Handles |-> "none"]
    /\ cfds = {} /\ rfiles = {} /\ opened = {}
    /\ answer = NoAnswer
    /\ overrun = FALSE

-----------------------------------------------------------------------------
(* The cache. *)

\* __fd_cache_oflag(): with fd >= OPEN_MAX a debug build aborts here, and a
\* Release build writes past the array.
MaxOffByOne(fd) == IF fd_cache_max_size <= fd THEN fd ELSE fd_cache_max_size
MaxAfterCaching(fd) == IF fd_cache_max_size <= fd THEN fd + 1 ELSE fd_cache_max_size

CacheOflag(fd, oflag) ==
    /\ overrun' = (fd \notin CacheIndex)
    /\ fd_cache' = [i \in CacheIndex |-> IF i = fd THEN oflag ELSE fd_cache[i]]
    /\ fd_cache_max_size' = MaxAfterCaching(fd)

\* __get_osfhandle_oflag_fallback(): from the access rights of the handle.
FallbackIgnoresRights(h) == 0
Fallback(h) == IF object[h] = "winappend" THEN O_APPEND ELSE 0

\* __get_osfhandle_oflag(): the walk ends at the first cached descriptor that
\* holds h; the entries of closed descriptors it meets are dropped.
Cached == {fd \in 0 .. fd_cache_max_size - 1 : fd_cache[fd] >= 0}
Hits(h) == {fd \in Cached : osfhandle[fd] = h}

PurgedOnMiss(h) == {fd \in Cached : osfhandle[fd] # h /\ \A x \in Hits(h) : fd < x}
Purged(h) == {fd \in Cached : /\ osfhandle[fd] = Invalid
                              /\ \A x \in Hits(h) : fd < x}

Answer(h, oflag) ==
    \/ Hits(h) = {} /\ oflag = Fallback(h)
    \/ \E fd \in Hits(h) : IsLowest(fd, Hits(h)) /\ oflag = fd_cache[fd]

GetOsfhandleOflag(h, oflag) ==
    /\ Answer(h, oflag)
    /\ fd_cache' = [i \in CacheIndex |-> IF i \in Purged(h) THEN NotCached ELSE fd_cache[i]]
    /\ fd_cache_max_size' = IF fd_cache_max_size - 1 \in Purged(h)
                            THEN fd_cache_max_size - 1 ELSE fd_cache_max_size
    /\ answer' = [given |-> oflag, true |-> TrueOflag(h)]
    /\ UNCHANGED overrun

-----------------------------------------------------------------------------
(* C code. *)

\* __open_dir_fd() and __open_symlink_fd(), and open() of the CRT: a new handle under
\* the lowest free descriptor.  When _open_osfhandle() has none the handle is closed.
NewFd(fd, h) ==
    /\ IsLowest(fd, FreeFds)
    /\ object[h] = "none"
    /\ osfhandle' = [osfhandle EXCEPT ![fd] = h]

\* __wrap_open() and all that ends in it (open, _open, creat, fopen, openat):
\* open_impl() makes a descriptor over a new handle, through the CRT or, for
\* a directory, through __open_dir_fd(); its flag is cached.  A failed open
\* leaves nothing behind.
WrapOpen(fd, h, append) ==
    /\ ~overrun
    /\ NewFd(fd, h)
    /\ object' = [object EXCEPT ![h] = IF append THEN "crtappend" ELSE "plain"]
    /\ cfds' = cfds \cup {fd}
    /\ opened' = opened \cup {fd}
    /\ CacheOflag(fd, IF append THEN O_APPEND ELSE 0)
    /\ UNCHANGED <<rfiles, answer>>

\* close() of the CRT, which is not wrapped on Windows.
CrtClose(fd) ==
    /\ ~overrun
    /\ fd \in cfds
    /\ object' = [object EXCEPT ![osfhandle[fd]] = "none"]
    /\ osfhandle' = [osfhandle EXCEPT ![fd] = Invalid]
    /\ cfds' = cfds \ {fd}
    /\ opened' = {x \in opened : osfhandle[x] # osfhandle[fd]}
    /\ UNCHANGED <<fd_cache, fd_cache_max_size, rfiles, answer, overrun>>

\* readlink(): __open_symlink_fd() makes a descriptor past the cache; the way
\* out closes the handle and not the descriptor.  For a link with no name at all a
\* debug build aborts, and a Release build returns at once, the handle left open too.
HandleAfterReadlink(h) == object' \in {object, [object EXCEPT ![h] = "plain"]}

Readlink(fd, h) ==
    /\ ~overrun /\ Symlinks
    /\ NewFd(fd, h)
    /\ HandleAfterReadlink(h)
    /\ UNCHANGED <<fd_cache, fd_cache_max_size, cfds, rfiles, opened, answer, overrun>>

\* lstat() of a symbolic link: its own descriptor fd is closed again; fstat()
\* on it calls readlink(), which takes the next descriptor and leaves it.
Lstat(fd, next, h) ==
    /\ ~overrun /\ Symlinks
    /\ IsLowest(fd, FreeFds)
    /\ IsLowest(next, FreeFds \ {fd})
    /\ \E own \in Handles \ {h} : object[own] = "none"
    /\ object[h] = "none"
    /\ osfhandle' = [osfhandle EXCEPT ![next] = h]
    /\ HandleAfterReadlink(h)
    /\ UNCHANGED <<fd_cache, fd_cache_max_size, cfds, rfiles, opened, answer, overrun>>

-----------------------------------------------------------------------------
(* Rust code: winsup-rs/fd.rs and std. *)

\* File::open / OpenOptions of std, with no descriptor at all.
RustOpen(h, append) ==
    /\ ~overrun /\ Rust
    /\ object[h] = "none"
    /\ object' = [object EXCEPT ![h] = IF append THEN "winappend" ELSE "plain"]
    /\ rfiles' = rfiles \cup {h}
    /\ UNCHANGED <<fd_cache, fd_cache_max_size, osfhandle, cfds, opened, answer, overrun>>

\* Drop of a File or OwnedHandle.
RustDrop(h) ==
    /\ ~overrun
    /\ h \in rfiles
    /\ object' = [object EXCEPT ![h] = "none"]
    /\ rfiles' = rfiles \ {h}
    /\ opened' = {fd \in opened : osfhandle[fd] # h}
    /\ UNCHANGED <<fd_cache, fd_cache_max_size, osfhandle, cfds, answer, overrun>>

\* from_raw_fd(): Rust takes over the handle; the descriptor stays in the CRT.
FromRawFdShares(fd) ==
    /\ ~overrun /\ Rust
    /\ fd \in cfds
    /\ rfiles' = rfiles \cup {osfhandle[fd]}
    /\ UNCHANGED <<fd_cache, fd_cache_max_size, osfhandle, object, cfds, opened, answer, overrun>>

FromRawFd(fd) ==
    /\ ~overrun /\ Rust
    /\ fd \in cfds
    /\ rfiles' = rfiles \cup {osfhandle[fd]}
    /\ cfds' = cfds \ {fd}
    /\ UNCHANGED <<fd_cache, fd_cache_max_size, osfhandle, object, opened, answer, overrun>>

\* as_raw_fd(): one more CRT descriptor over the same handle, at every call.
AsRawFd(fd, h, oflag) ==
    /\ ~overrun
    /\ h \in rfiles
    /\ IsLowest(fd, FreeFds)
    /\ GetOsfhandleOflag(h, oflag)
    /\ osfhandle' = [osfhandle EXCEPT ![fd] = h]
    /\ UNCHANGED <<object, cfds, rfiles, opened>>

\* into_raw_fd(): a new CRT descriptor that now owns the handle.
IntoRawFd(fd, h, oflag) ==
    /\ ~overrun
    /\ h \in rfiles
    /\ IsLowest(fd, FreeFds)
    /\ GetOsfhandleOflag(h, oflag)
    /\ osfhandle' = [osfhandle EXCEPT ![fd] = h]
    /\ rfiles' = rfiles \ {h}
    /\ cfds' = cfds \cup {fd}
    /\ UNCHANGED <<object, opened>>

\* With the CRT table full both return -1 after the look-up; into_raw_fd() has
\* given the handle up by then.
AsRawFdFull(h, oflag) ==
    /\ ~overrun
    /\ h \in rfiles
    /\ FreeFds = {}
    /\ GetOsfhandleOflag(h, oflag)
    /\ UNCHANGED <<osfhandle, object, cfds, rfiles, opened>>

IntoRawFdFull(h, oflag) ==
    /\ ~overrun
    /\ h \in rfiles
    /\ FreeFds = {}
    /\ GetOsfhandleOflag(h, oflag)
    /\ rfiles' = rfiles \ {h}
    /\ UNCHANGED <<osfhandle, object, cfds, opened>>

Next ==
    \/ \E fd \in Fds, h \in Handles :
         \/ \E append \in BOOLEAN : WrapOpen(fd, h, append)
         \/ Readlink(fd, h)
         \/ \E next \in Fds : Lstat(fd, next, h)
         \/ \E oflag \in Oflags : AsRawFd(fd, h, oflag) \/ IntoRawFd(fd, h, oflag)
    \/ \E fd \in Fds : CrtClose(fd) \/ FromRawFd(fd)
    \/ \E h \in Handles :
         \/ RustDrop(h)
         \/ \E append \in BOOLEAN : RustOpen(h, append)
         \/ \E oflag \in Oflags : AsRawFdFull(h, oflag) \/ IntoRawFdFull(h, oflag)

Spec == Init /\ [][Next]_vars

-----------------------------------------------------------------------------
(* Properties. *)

TypeOK ==
    /\ fd_cache \in [CacheIndex -> Oflags \cup {NotCached}]
    /\ fd_cache_max_size \in 0 .. CRT_MAX
    /\ osfhandle \in [Fds -> Handles \cup {Invalid}]
    /\ object \in [Handles -> Objects]
    /\ cfds \subseteq Fds /\ rfiles \subseteq Handles /\ opened \subseteq Fds
    /\ answer \in [given : Oflags, true : Oflags]
    /\ overrun \in BOOLEAN

\* The walk of __get_osfhandle_oflag() stops at fd_cache_max_size, and nothing
\* that is cached lies beyond it, whatever was cached and dropped before: no
\* flag is out of the walk's reach.
CacheReachable ==
    ~overrun => \A i \in CacheIndex : fd_cache[i] # NotCached => i < fd_cache_max_size

\* A handle has one owner: every descriptor C code has to close denotes an open
\* object that no Rust value and no other such descriptor will close, and every
\* handle Rust has to close is open.
SingleOwner ==
    /\ \A fd \in cfds : /\ osfhandle[fd] # Invalid
                        /\ object[osfhandle[fd]] # "none"
                        /\ osfhandle[fd] \notin rfiles
                        /\ \A x \in cfds : osfhandle[x] = osfhandle[fd] => x = fd
    /\ \A h \in rfiles : object[h] # "none"

\* As long as the file a wrapped open() opened is open, through whomever, the
\* cache holds its O_APPEND: closes, look-ups and other descriptors never make
\* the cache lose or change it.
OpenedStaysCached ==
    ~overrun => \A fd \in opened : /\ fd \in CacheIndex
                                   /\ osfhandle[fd] # Invalid
                                   /\ fd_cache[fd] = TrueOflag(osfhandle[fd])

\* The flag answered for a handle is the one its file was opened with, unless a
\* cached descriptor is in the CRT table over a handle its open() did not make:
\* one left behind by from_raw_fd() or readlink().
AnswerRight ==
    [][\/ answer' = answer
       \/ answer'.given = answer'.true
       \/ \E fd \in CacheIndex \cap Fds :
             fd_cache[fd] # NotCached /\ osfhandle[fd] # Invalid /\ fd \notin opened]_vars

\* The descriptors of wrapped opens denote open objects.
OpenedLive ==
    \A fd \in opened : /\ osfhandle[fd] \in Handles
                       /\ object[osfhandle[fd]] # "none"

\* What holds between two calls while the cache has not been overrun.
CacheInvariant ==
    /\ TypeOK
    /\ SingleOwner
    /\ OpenedLive
    /\ CacheReachable /\ OpenedStaysCached
    /\ ~overrun => fd_cache_max_size <= OPEN_MAX

\* What AnswerRight rests on besides: a file open for appending through the CRT is that
\* of a descriptor its open() made, so that a look-up does not miss it.
AppendOpened ==
    \A h \in Handles : object[h] = "crtappend" => \E fd \in opened : osfhandle[fd] = h
=============================================================================
