------------------------------ MODULE AtCalls ------------------------------
(***************************************************************************)
(* winsup/at.c: the *at() calls for Windows, over __get_path_at() of       *)
(* internal/fd.c.  Windows has no such calls: a path is made from the      *)
(* place the directory's handle is at NOW and the name, and the plain call *)
(* is made with that path.  Between the two another process may move the   *)
(* directory.                                                              *)
(*                                                                         *)
(* A directory is an object of Dirs, found at a place of Places; a path is *)
(* a place and a name.  names[d] are the names in d: what kind of file a   *)
(* name is does not matter here.  What the plain calls of the CRT and of   *)
(* Windows do is their effect on names, or failure for any reason.  A call *)
(* of the client is a few steps: the checks of its flags, one resolution   *)
(* per path, the plain call, the answer.  The process has one thread; the  *)
(* client clears errno before each call.                                   *)
(***************************************************************************)
EXTENDS WinErr, FiniteSets, Sequences

CONSTANTS
    Dirs, Cwd,     \* directories; the current directory, which cannot move
    Places, Home,  \* where directories can be; the place of Cwd
    LongPlaces,    \* the places whose path is longer than PATH_MAX
    Start,         \* where the directories are at the start
    Names,
    Ops,           \* the calls the client makes
    WinErrs,       \* errors Windows calls fail with
    Builds,        \* the builds of the program: TRUE is a Release build, with NDEBUG
    MaxMoves,      \* bound on the moves of other processes
    MaxFaults      \* bound on failed allocations

AllOps == {"readlinkat", "symlinkat", "linkat", "unlinkat", "openat", "faccessat",
           "fstatat", "mkdirat", "renameat"}

NoPath == "NULL"

ASSUME AtAssumption ==
    /\ Cwd \in Dirs /\ Home \in Places /\ LongPlaces \subseteq Places
    /\ NoPath \notin Places
    /\ Start \in [Dirs -> Places] /\ Start[Cwd] = Home
    /\ \A d, e \in Dirs : d # e => Start[d] # Start[e]
    /\ Ops \subseteq AllOps
    /\ WinErrs \subseteq Nat \ {0}
    /\ Builds \subseteq BOOLEAN /\ MaxMoves \in Nat /\ MaxFaults \in Nat

\* A path argument: absolute, or relative to a descriptor of a directory, of
\* another file, or of nothing.
AbsPath == [abs : {TRUE}, at : Places, name : Names]
RelPath == [abs : {FALSE}, at : Dirs \cup {"file", "closed"}, name : Names]

NoCall == [op |-> "none"]

\* The calls that take two paths, and that copy an absolute path.
TwoPaths == {"linkat", "renameat"}
Copying == {"linkat", "renameat", "openat"}

\* flags: "other" is any that means something to the call (AT_REMOVEDIR,
\* AT_SYMLINK_NOFOLLOW, O_CREAT), "unknown" any that does not.
FlagChecking == {"unlinkat", "faccessat", "fstatat"}
Flags(op) == IF op \in FlagChecking THEN {"0", "other", "unknown"}
             ELSE IF op = "openat" THEN {"0", "other"} ELSE {"0"}

Calls ==
    UNION {[op : {op}, flags : Flags(op),
            path : [1 .. (IF op \in TwoPaths THEN 2 ELSE 1) -> AbsPath \cup RelPath]] : op \in Ops}

VARIABLES
    NDEBUG,  \* the build that runs
    where,   \* where[d]: the place of a directory
    names,   \* names[d]: the names in it
    pc,      \* "idle", "path1", "path2", "plain", "returned"; or how the process ended
    call,    \* the call being made, until its answer is taken
    real,    \* real[i]: the path made for path i
    unwritten, \* the paths made from a buffer nothing was written to
    heap,    \* the paths that are in allocated memory
    errno, ret,
    acted,   \* acted[i]: the directory the plain call found for path i
    moved,   \* directories moved since the call began
    moves, faults

vars == <<NDEBUG, where, names, pc, call, real, unwritten, heap, errno, ret, acted, moved, moves, faults>>

Init ==
    /\ NDEBUG \in Builds
    /\ where = Start
    /\ names \in [Dirs -> SUBSET Names]
    /\ pc = "idle" /\ call = NoCall /\ real = <<>> /\ unwritten = {} /\ heap = {}
    /\ errno = "0" /\ ret = "none"
    /\ acted = <<>> /\ moved = {} /\ moves = 0 /\ faults = 0

Running == pc \in {"path1", "path2", "plain"}

Fault == faults < MaxFaults /\ faults' = faults + 1

Return(result) == ret' = result /\ pc' = "returned"

\* The label "error" of linkat() and renameat(): the paths that are not NULL.
ErrorFreesSecond == heap' = heap \ {2}

ErrorFrees == heap' = heap \ {i \in DOMAIN call.path : real[i] # NoPath}

\* What a call frees behind the plain call: the calls that do not copy an absolute
\* path return without a free() for it.
CallFrees ==
    \/ call.op \in TwoPaths /\ ErrorFrees
    \/ call.op = "openat" /\ heap' = heap \ {1}
    \/ call.op \notin Copying /\ heap' = IF call.path[1].abs THEN heap ELSE heap \ {1}

\* What it frees when a path cannot be made.
FailureFrees ==
    \/ call.op \in TwoPaths /\ ErrorFrees
    \/ call.op \notin TwoPaths /\ UNCHANGED heap

-----------------------------------------------------------------------------
(* A call begins.  unlinkat(), faccessat() and fstatat() refuse flags they do
   not know before they look at the path. *)

Begin(c) ==
    /\ pc = "idle"
    /\ call' = c /\ real' = [i \in DOMAIN c.path |-> NoPath]
    /\ \/ c.flags # "unknown" /\ pc' = "path1" /\ UNCHANGED <<errno, ret>>
       \/ c.flags = "unknown" /\ errno' = "EINVAL" /\ Return("-1")
    /\ UNCHANGED <<NDEBUG, where, names, unwritten, heap, acted, moved, moves, faults>>

\* The client takes the answer.
TakeAnswer ==
    /\ pc = "returned"
    /\ pc' = "idle" /\ call' = NoCall /\ real' = <<>> /\ unwritten' = {}
    /\ acted' = <<>> /\ moved' = {}
    /\ errno' = "0" /\ ret' = "none"
    /\ UNCHANGED <<NDEBUG, where, names, heap, moves, faults>>

Path(i) == call.path[i]

At(i) == pc = <<"path1", "path2">>[i] /\ i \in DOMAIN call.path

NextStep(i) == IF i < Len(call.path) THEN "path2" ELSE "plain"

\* An absolute path is used as it is, or copied.
TakeAbsoluteAgain(i) ==
    /\ At(i) /\ Path(i).abs
    /\ real' = [real EXCEPT ![i] = Path(i).at]
    /\ heap' = IF call.op \in Copying THEN heap \cup {i} ELSE heap
    /\ pc' = IF i = 2 THEN "path1" ELSE NextStep(i)
    /\ UNCHANGED <<NDEBUG, where, names, call, unwritten, errno, ret, acted, moved, moves, faults>>

TakeAbsolute(i) ==
    /\ At(i) /\ Path(i).abs
    /\ real' = [real EXCEPT ![i] = Path(i).at]
    /\ heap' = IF call.op \in Copying THEN heap \cup {i} ELSE heap
    /\ pc' = NextStep(i)
    /\ UNCHANGED <<NDEBUG, where, names, call, unwritten, errno, ret, acted, moved, moves, faults>>

\* strdup() fails: assert(0).  A Release build goes on: with path 1 missing to
\* path 2, and from path 2 back to the label under path 1, so to path 2 again.
StrdupFails(i) ==
    /\ At(i) /\ Path(i).abs /\ call.op \in Copying
    /\ Fault
    /\ errno' = "ENOMEM"
    /\ pc' = IF ~NDEBUG THEN "aborted" ELSE IF i = 1 THEN NextStep(1) ELSE "path2"
    /\ UNCHANGED <<NDEBUG, where, names, call, real, unwritten, heap, ret, acted, moved, moves>>

\* __get_path_at(): the place of the directory, now, and the name.  For a path longer
\* than PATH_MAX GetFinalPathNameByHandle() writes nothing and answers the length it
\* needs, which is not 0: the path is whatever malloc() left in the buffer.
GetPathAtCwd(i) == real' = [real EXCEPT ![i] = Home] /\ UNCHANGED unwritten

GetPathAt(i) ==
    \/ /\ where[Path(i).at] \notin LongPlaces
       /\ real' = [real EXCEPT ![i] = where[Path(i).at]]
       /\ UNCHANGED unwritten
    \/ /\ where[Path(i).at] \in LongPlaces
       /\ \E p \in Places : real' = [real EXCEPT ![i] = p]
       /\ unwritten' = unwritten \cup {i}

Resolve(i) ==
    /\ At(i) /\ ~Path(i).abs /\ Path(i).at \in Dirs
    /\ GetPathAt(i)
    /\ heap' = heap \cup {i}
    /\ pc' = NextStep(i)
    /\ UNCHANGED <<NDEBUG, where, names, call, errno, ret, acted, moved, moves, faults>>

\* __is_dirfd() fails: fstat() sets errno for a descriptor of nothing, and the
\* label "not" overwrites it.
NotDirfdKeepsErrno(i) == errno' = IF Path(i).at = "closed" THEN "EBADF" ELSE errno
NotDirfd(i) == errno' = "ENOTDIR"

\* The other failures of __get_path_at(): no memory for the directory's path, when
\* errno is set from a Windows error no call has set; no path for the handle; a
\* path too long; no memory for the whole.
NoParent == Fault /\ \E w \in WinErrs \cup {0} : errno' = set_errno_via_winerr(w)
NoFinalPath == UNCHANGED faults /\ \E w \in WinErrs : errno' = set_errno_via_winerr(w)
TooLong == UNCHANGED faults /\ errno' = "ENAMETOOLONG"
NoBuffer == Fault /\ errno' = "ENOMEM"

ResolveFails(i) ==
    /\ At(i) /\ ~Path(i).abs
    /\ \/ Path(i).at \notin Dirs /\ NotDirfd(i) /\ UNCHANGED faults
       \/ Path(i).at \in Dirs /\ (NoParent \/ NoFinalPath \/ TooLong \/ NoBuffer)
    /\ FailureFrees /\ Return("-1")
    /\ UNCHANGED <<NDEBUG, where, names, call, real, unwritten, acted, moved, moves>>

-----------------------------------------------------------------------------
(* The plain call.  openat() makes it with the path it was given. *)

Used(i) ==
    IF call.op # "openat" THEN real[i]
    ELSE IF Path(i).abs THEN Path(i).at ELSE Home

\* The directory at a place, and whether the name is in it.
Found(i) == {d \in Dirs : where[d] = Used(i)}
Exists(d, i) == Path(i).name \in names[d]
With(f, d, n) == [f EXCEPT ![d] = @ \cup {n}]
Without(f, d, n) == [f EXCEPT ![d] = @ \ {n}]

\* What each plain call does to the names when it succeeds: what it needs there, and
\* what it leaves.
Readlink(d) == call.op = "readlinkat" /\ Exists(d[1], 1) /\ UNCHANGED names

Symlink(d) == call.op = "symlinkat" /\ ~Exists(d[1], 1) /\ names' = With(names, d[1], Path(1).name)

Link(d) ==
    /\ call.op = "linkat" /\ Exists(d[1], 1) /\ ~Exists(d[2], 2)
    /\ names' = With(names, d[2], Path(2).name)

Unlink(d) == call.op = "unlinkat" /\ Exists(d[1], 1) /\ names' = Without(names, d[1], Path(1).name)

Open(d) ==
    /\ call.op = "openat"
    /\ \/ call.flags = "other" /\ names' = With(names, d[1], Path(1).name)
       \/ call.flags = "0" /\ Exists(d[1], 1) /\ UNCHANGED names

Access(d) == call.op = "faccessat" /\ Exists(d[1], 1) /\ UNCHANGED names

Stat(d) == call.op = "fstatat" /\ Exists(d[1], 1) /\ UNCHANGED names

Mkdir(d) == call.op = "mkdirat" /\ ~Exists(d[1], 1) /\ names' = With(names, d[1], Path(1).name)

Rename(d) ==
    /\ call.op = "renameat" /\ Exists(d[1], 1) /\ ~Exists(d[2], 2)
    /\ names' = With(Without(names, d[1], Path(1).name), d[2], Path(2).name)

PlainCall(d) ==
    \/ Readlink(d) \/ Symlink(d) \/ Link(d) \/ Unlink(d) \/ Open(d)
    \/ Access(d) \/ Stat(d) \/ Mkdir(d) \/ Rename(d)

PathsReady == \A i \in DOMAIN call.path : Used(i) # NoPath

Succeed ==
    /\ pc = "plain" /\ PathsReady
    /\ \E d \in [DOMAIN call.path -> Dirs] :
         /\ \A i \in DOMAIN d : d[i] \in Found(i)
         /\ PlainCall(d)
         /\ acted' = d
    /\ CallFrees /\ Return("0")
    /\ UNCHANGED <<NDEBUG, where, call, real, unwritten, errno, moved, moves, faults>>

\* readlink(), symlink(), link() and lstat() set errno from the Windows error.
ViaWinerr ==
    \/ call.op \in {"readlinkat", "symlinkat", "linkat"}
    \/ call.op \in {"fstatat", "faccessat"} /\ call.flags = "other"

\* It fails, for any reason.
Fail ==
    /\ pc = "plain" /\ PathsReady
    /\ \/ errno' = "ECRT"
       \/ ViaWinerr /\ \E w \in WinErrs : errno' = set_errno_via_winerr(w)
    /\ CallFrees /\ Return("-1")
    /\ UNCHANGED <<NDEBUG, where, names, call, real, unwritten, acted, moved, moves, faults>>

\* faccessat() of the link itself answers from the mode bits, errno left alone.
AccessDenied ==
    /\ pc = "plain" /\ call.op = "faccessat" /\ call.flags = "other"
    /\ \E d \in Found(1) : Exists(d, 1)
    /\ CallFrees /\ Return("-1")
    /\ UNCHANGED <<NDEBUG, where, names, call, real, unwritten, errno, acted, moved, moves, faults>>

\* _mkdir_stub(): mkdir() succeeds, chmod() fails, and the directory is removed
\* again, by a call inside assert().
MkdirUndoForgotten(d) == names' = With(names, d, Path(1).name)
MkdirUndo(d) == IF NDEBUG THEN names' = With(names, d, Path(1).name) ELSE UNCHANGED names

ChmodFails ==
    /\ pc = "plain" /\ call.op = "mkdirat"
    /\ \E d \in Found(1) : ~Exists(d, 1) /\ MkdirUndo(d)
    /\ errno' = "ECRT"
    /\ CallFrees /\ Return("-1")
    /\ UNCHANGED <<NDEBUG, where, call, real, unwritten, acted, moved, moves, faults>>

\* The plain call with a null pointer, which no call defines.
NullPath ==
    /\ pc = "plain" /\ ~PathsReady
    /\ pc' = "crashed"
    /\ UNCHANGED <<NDEBUG, where, names, call, real, unwritten, heap, errno, ret, acted, moved,
                   moves, faults>>

\* Another process moves a directory to a free place: the handles are opened with
\* FILE_SHARE_VALID_FLAGS, which lets it.
Move(d, p) ==
    /\ d # Cwd /\ moves < MaxMoves
    /\ \A e \in Dirs : where[e] # p
    /\ where' = [where EXCEPT ![d] = p]
    /\ moved' = IF Running THEN moved \cup {d} ELSE moved
    /\ moves' = moves + 1
    /\ UNCHANGED <<NDEBUG, names, pc, call, real, unwritten, heap, errno, ret, acted, faults>>

Step ==
    \/ \E i \in 1 .. 2 : TakeAbsolute(i) \/ StrdupFails(i) \/ Resolve(i) \/ ResolveFails(i)
    \/ Succeed \/ Fail \/ AccessDenied \/ ChmodFails \/ NullPath

Next ==
    \/ \E c \in Calls : Begin(c)
    \/ Step
    \/ TakeAnswer
    \/ \E d \in Dirs, p \in Places : Move(d, p)

Spec == Init /\ [][Next]_vars

\* The thread goes on while it is in a call.
FairSpec == Spec /\ WF_vars(Step)

-----------------------------------------------------------------------------
(* Properties. *)

\* A call that succeeds has acted in the directory its descriptor stands for,
\* unless somebody moved that directory while the call ran, or its path was longer than
\* PATH_MAX.
ActsWhereAsked ==
    pc = "returned" /\ ret = "0" =>
        \A i \in DOMAIN call.path :
            \/ Path(i).abs \/ acted[i] = Path(i).at
            \/ Path(i).at \in moved \/ i \in unwritten

\* The same of every call but openat(), which gives the plain call the name it was
\* given and not the path it made.
OthersActWhereAsked == call = NoCall \/ call.op = "openat" \/ ActsWhereAsked

\* A call that fails has changed nothing, in a debug build: in a Release build the
\* directory mkdirat() could not chmod() stays, its rmdir() being in an assert().
FailureLeavesNoTrace ==
    [][~NDEBUG /\ ret = "none" /\ ret' = "-1" => names' = names]_vars

\* Every path a call allocated is freed by the time it returns: by the free() behind its
\* plain call, at the label "error", or because there was none yet.
NoPathLeak == pc = "returned" => heap = {}

\* A call that fails says why: "errno already set by this call", with a value the
\* errno table holds.  Not faccessat() of a link, which answers from the mode bits,
\* and not a call that found no memory, which may ask for an error nobody set.
ErrnoSet ==
    pc = "returned" /\ ret = "-1" =>
        \/ errno \notin {"0", "garbage"}
        \/ call.op = "faccessat" /\ call.flags = "other"
        \/ faults > 0

\* Every call returns, or ends the process, however memory runs out for a while.
Returns == Running ~> ~Running

-----------------------------------------------------------------------------
(* The inductive invariant behind them. *)

AtTypes ==
    /\ where \in [Dirs -> Places] /\ faults \in Nat
    /\ Running => call \in Calls /\ real \in [DOMAIN call.path -> Places \cup {NoPath}]

\* No two directories are in one place.
PlacesApart == \A d, e \in Dirs : where[d] = where[e] => d = e

\* A path made from a descriptor leads to its directory, until that is moved, unless
\* the path was too long to be written.
ResolvedRight ==
    Running => \A i \in DOMAIN call.path :
        real[i] # NoPath /\ ~Path(i).abs =>
            /\ Path(i).at \in Dirs
            /\ real[i] = where[Path(i).at] \/ Path(i).at \in moved \/ i \in unwritten

\* The paths in allocated memory are those a call has made or copied.  The first path
\* is made when there is none.
HeapRight ==
    /\ Running => heap = {i \in DOMAIN call.path :
                            real[i] # NoPath /\ (~Path(i).abs \/ call.op \in Copying)}
    /\ pc = "path1" => \A i \in DOMAIN call.path : real[i] = NoPath
    /\ pc = "idle" => heap = {}

AtInvariant ==
    /\ AtTypes /\ PlacesApart /\ ResolvedRight /\ HeapRight
    /\ OthersActWhereAsked /\ NoPathLeak /\ ErrnoSet

\* The variant behind Returns: a call goes from path to path to the plain call and
\* returns, or ends the process; it stays where it is only for a failed allocation and
\* while another process moves a directory.
AtProgress ==
    Running =>
        \/ <<pc, pc'>> \in {<<"path1", "path2">>, <<"path1", "plain">>, <<"path2", "plain">>}
        \/ pc' \in {"returned", "aborted", "crashed"}
        \/ pc' = pc /\ \/ faults < MaxFaults /\ faults' = faults + 1 /\ UNCHANGED moves
                       \/ moves < MaxMoves /\ moves' = moves + 1 /\ UNCHANGED faults

CallsProgress == [][AtProgress]_vars
=============================================================================
