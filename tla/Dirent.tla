------------------------------- MODULE Dirent -------------------------------
(***************************************************************************)
(* winsup/dirent.c: directory streams that also have a descriptor, for     *)
(* Windows.  A stream is the CRT's DIR, which has none, and a descriptor   *)
(* opened beside it (opendir) or brought by the client (fdopendir).  Both  *)
(* are opened by path, one after the other, while other processes may      *)
(* move, fill and empty directories.                                       *)
(*                                                                         *)
(* assert(e) is `abort unless e' in a debug build and NOTHING in a Release *)
(* build, the calls inside e included: a Release build of readdir() never  *)
(* looks at the file, and answers from an uninitialized struct stat.       *)
(***************************************************************************)
EXTENDS Naturals

CONSTANTS
    Dirs, NoDir, Places, Fds, Streams, NoStream,
    LongPlaces,   \* the places whose path is longer than PATH_MAX
    Names,        \* the names files can have, as their lengths
    Kinds,        \* types of files; "none" is no file, and DT_UNKNOWN as an answer
    Builds,       \* the builds of the program: TRUE is a Release build, with NDEBUG
    OthersActive, \* other processes change directories
    MaxUpsets     \* bound on what they do and on failed calls

SizeOfName == 260  \* sizeof(res.d_name)

ASSUME DirentAssumption ==
    /\ NoDir \notin Dirs /\ LongPlaces \subseteq Places
    /\ NoStream \notin [fd : Fds, dir : Dirs, left : SUBSET Names, stray : BOOLEAN]
    /\ Names \subseteq 1 .. SizeOfName - 1
    /\ Builds \subseteq BOOLEAN /\ OthersActive \in BOOLEAN /\ MaxUpsets \in Nat

VARIABLES
    NDEBUG,   \* the build that runs
    where,    \* where[d]: the place of a directory
    files,    \* files[d]: the kinds of the files in it, by name
    table,    \* table[fd]: the directory open as fd, or NoDir
    client,   \* client[fd]: the directory the client opened as fd and has to close
    dirp,     \* dirp[s]: a stream: descriptor, directory of the DIR, names it has left
    pc,       \* "idle", "opening", "reading", or the call whose assert() failed
    cur,      \* the call being made; stray: its path may lead elsewhere, as a
              \* directory was moved since or the path was never written
    res,      \* the static answer of readdir()
    upsets

vars == <<NDEBUG, where, files, table, client, dirp, pc, cur, res, upsets>>

NoCall == [op |-> "none"]
NoEntry == [name |-> 0, d_namlen |-> 0, copied |-> 0, type |-> "none"]

Init ==
    /\ NDEBUG \in Builds
    /\ where \in {w \in [Dirs -> Places] : \A d, e \in Dirs : d # e => w[d] # w[e]}
    /\ files \in [Dirs -> [Names -> Kinds]]
    /\ table = [fd \in Fds |-> NoDir] /\ client = table
    /\ dirp = [s \in Streams |-> NoStream]
    /\ pc = "idle" /\ cur = NoCall /\ res = NoEntry /\ upsets = 0

Upset == upsets < MaxUpsets /\ upsets' = upsets + 1

Listed(d) == {n \in Names : files[d][n] # "none"}
Idle == pc = "idle"
Live(s) == dirp[s] # NoStream
Return == pc' = "idle" /\ cur' = NoCall

-----------------------------------------------------------------------------
(* Opening and closing. *)

\* opendir(): open() a descriptor of the path, then the DIR by the same path.
Opendir(s, fd, d) ==
    /\ Idle /\ ~Live(s) /\ table[fd] = NoDir
    /\ table' = [table EXCEPT ![fd] = d]
    /\ pc' = "opening"
    /\ cur' = [op |-> "opendir", s |-> s, fd |-> fd, path |-> where[d], stray |-> FALSE]
    /\ UNCHANGED <<NDEBUG, where, files, client, dirp, res, upsets>>

\* __fd_get_path(): the place of a descriptor's directory.  For a path longer than
\* PATH_MAX GetFinalPathNameByHandle() writes nothing and answers the length it needs,
\* which is not 0: the path is whatever malloc() left in the buffer.
Unwritten(fd) == where[table[fd]] \in LongPlaces
FdGetPath(fd) == IF Unwritten(fd) THEN Places ELSE {where[table[fd]]}

\* fdopendir(): the path of the client's descriptor, then the DIR by that path.
Fdopendir(s, fd) ==
    /\ Idle /\ ~Live(s) /\ client[fd] # NoDir
    /\ pc' = "opening"
    /\ \E p \in FdGetPath(fd) :
         cur' = [op |-> "fdopendir", s |-> s, fd |-> fd, path |-> p, stray |-> Unwritten(fd)]
    /\ UNCHANGED <<NDEBUG, where, files, table, client, dirp, res, upsets>>

\* The real opendir() succeeds: the descriptor is the stream's.
OpenRealOther ==
    /\ pc = "opening"
    /\ \E d \in Dirs :
         dirp' = [dirp EXCEPT ![cur.s] =
                    [fd |-> cur.fd, dir |-> d, left |-> Listed(d), stray |-> cur.stray]]
    /\ client' = [client EXCEPT ![cur.fd] = NoDir]
    /\ Return
    /\ UNCHANGED <<NDEBUG, where, files, table, res, upsets>>

OpenReal ==
    /\ pc = "opening"
    /\ \E d \in Dirs :
         /\ where[d] = cur.path
         /\ dirp' = [dirp EXCEPT ![cur.s] =
                       [fd |-> cur.fd, dir |-> d, left |-> Listed(d), stray |-> cur.stray]]
    /\ client' = [client EXCEPT ![cur.fd] = NoDir]
    /\ Return
    /\ UNCHANGED <<NDEBUG, where, files, table, res, upsets>>

\* malloc() or opendir() fails: what opendir() opened is closed, what the client
\* brought is not.
CloseNothing == UNCHANGED table
CloseAlways == table' = [table EXCEPT ![cur.fd] = NoDir]
CloseOnError == table' = IF cur.op = "opendir" THEN [table EXCEPT ![cur.fd] = NoDir] ELSE table

OpenFails ==
    /\ pc = "opening" /\ Upset
    /\ CloseOnError
    /\ Return
    /\ UNCHANGED <<NDEBUG, where, files, client, dirp, res>>

\* The path is gone: opendir() of the CRT fails for certain.
OpenFindsNothing ==
    /\ pc = "opening" /\ \A d \in Dirs : where[d] # cur.path
    /\ CloseOnError
    /\ Return
    /\ UNCHANGED <<NDEBUG, where, files, client, dirp, res, upsets>>

Closedir(s) ==
    /\ Idle /\ Live(s)
    /\ table' = [table EXCEPT ![dirp[s].fd] = NoDir]
    /\ dirp' = [dirp EXCEPT ![s] = NoStream]
    /\ UNCHANGED <<NDEBUG, where, files, client, pc, cur, res, upsets>>

-----------------------------------------------------------------------------
(* Reading. *)

\* readdir() of the CRT; it may deliver a name that is gone since.
Readdir(s, n) ==
    /\ Idle /\ Live(s) /\ n \in dirp[s].left
    /\ dirp' = [dirp EXCEPT ![s].left = @ \ {n}]
    /\ pc' = "reading"
    /\ cur' = [op |-> "readdir", s |-> s, name |-> n]
    /\ UNCHANGED <<NDEBUG, where, files, table, client, res, upsets>>

\* strlcpy(dst, src, siz) of a name of length len.
strlcpy(len, siz) == [copied |-> IF len < siz THEN len ELSE siz - 1, ret |-> len]
Smaller(a, b) == IF a < b THEN a ELSE b

CloneData(n, type) ==
    LET cpy == strlcpy(n, Smaller(SizeOfName, n))
    IN  res' = [name |-> n, d_namlen |-> cpy.ret, copied |-> cpy.copied, type |-> type]

\* Debug: fstatat() by the stream's descriptor, then lseek() one further.  Neither
\* the new offset nor -1 is 0, so the second assert() fails.
FinishReadDebug ==
    /\ pc = "reading" /\ ~NDEBUG
    /\ LET kind == files[table[dirp[cur.s].fd]][cur.name]
       IN  \/ kind = "none" /\ pc' = "fstatat" /\ UNCHANGED res
           \/ kind # "none" /\ pc' = "lseek" /\ CloneData(cur.name, kind)
    /\ cur' = NoCall
    /\ UNCHANGED <<NDEBUG, where, files, table, client, dirp, upsets>>

\* Release: neither call is made; the type comes from whatever buf held.
FinishReadRelease(type) ==
    /\ pc = "reading" /\ NDEBUG
    /\ CloneData(cur.name, type)
    /\ Return
    /\ UNCHANGED <<NDEBUG, where, files, table, client, dirp, upsets>>

\* rewinddir(): lseek() to 0 answers 0.
Rewinddir(s) ==
    /\ Idle /\ Live(s)
    /\ dirp' = [dirp EXCEPT ![s].left = Listed(dirp[s].dir)]
    /\ UNCHANGED <<NDEBUG, where, files, table, client, pc, cur, res, upsets>>

\* seekdir() to a place other than the start: lseek() answers that place.
Seekdir(s, rest) ==
    /\ Idle /\ Live(s)
    /\ rest \subseteq Listed(dirp[s].dir) /\ rest # Listed(dirp[s].dir)
    /\ dirp' = [dirp EXCEPT ![s].left = rest]
    /\ pc' = IF NDEBUG THEN "idle" ELSE "lseek"
    /\ UNCHANGED <<NDEBUG, where, files, table, client, cur, res, upsets>>

-----------------------------------------------------------------------------
(* The client's own descriptors, and other processes. *)

Open(fd, d) ==
    /\ Idle /\ table[fd] = NoDir
    /\ table' = [table EXCEPT ![fd] = d]
    /\ client' = [client EXCEPT ![fd] = d]
    /\ UNCHANGED <<NDEBUG, where, files, dirp, pc, cur, res, upsets>>

Close(fd) ==
    /\ Idle /\ client[fd] # NoDir
    /\ table' = [table EXCEPT ![fd] = NoDir]
    /\ client' = [client EXCEPT ![fd] = NoDir]
    /\ UNCHANGED <<NDEBUG, where, files, dirp, pc, cur, res, upsets>>

Move(d, p) ==
    /\ OthersActive /\ Upset
    /\ \A e \in Dirs : where[e] # p
    /\ where' = [where EXCEPT ![d] = p]
    /\ cur' = IF pc = "opening" THEN [cur EXCEPT !.stray = TRUE] ELSE cur
    /\ UNCHANGED <<NDEBUG, files, table, client, dirp, pc, res>>

Change(d, n, kind) ==
    /\ OthersActive /\ Upset
    /\ files' = [files EXCEPT ![d][n] = kind]
    /\ UNCHANGED <<NDEBUG, where, table, client, dirp, pc, cur, res>>

Next ==
    \/ \E s \in Streams :
         \/ Closedir(s) \/ Rewinddir(s)
         \/ \E fd \in Fds : Fdopendir(s, fd) \/ \E d \in Dirs : Opendir(s, fd, d)
         \/ \E n \in Names : Readdir(s, n)
         \/ \E rest \in SUBSET Names : Seekdir(s, rest)
    \/ OpenReal \/ OpenFails \/ OpenFindsNothing
    \/ FinishReadDebug \/ \E type \in Kinds : FinishReadRelease(type)
    \/ \E fd \in Fds : Close(fd) \/ \E d \in Dirs : Open(fd, d)
    \/ \E d \in Dirs : (\E p \in Places : Move(d, p))
                         \/ \E n \in Names, kind \in Kinds : Change(d, n, kind)

Spec == Init /\ [][Next]_vars

-----------------------------------------------------------------------------
(* Properties. *)

\* Between calls every open descriptor has exactly one owner who will close it:
\* the client or one stream.  None leaks when opendir() fails half-way, and none
\* is closed by two.
OneOwner ==
    Idle => \A fd \in Fds :
        LET over == {s \in Streams : Live(s) /\ dirp[s].fd = fd}
        IN  /\ table[fd] = NoDir => client[fd] = NoDir /\ over = {}
            /\ table[fd] # NoDir =>
                 \/ client[fd] # NoDir /\ over = {}
                 \/ client[fd] = NoDir /\ \E s \in over : over = {s}

\* A descriptor the client brought to a fdopendir() that failed is still open on
\* the directory the client opened ("so the ownership is not transferred").
ClientKeeps == \A fd \in Fds : client[fd] # NoDir => table[fd] = client[fd]

\* A stream reads the directory its descriptor names, unless a directory was moved
\* while it was opened, or fdopendir() was given one whose path is longer than PATH_MAX.
SameDirectory ==
    \A s \in Streams : Live(s) => dirp[s].dir = table[dirp[s].fd] \/ dirp[s].stray
-----------------------------------------------------------------------------
(* The inductive invariant behind the three. *)

StreamType == [fd : Fds, dir : Dirs, left : SUBSET Names, stray : BOOLEAN]
OpenCall == [op : {"opendir", "fdopendir"}, s : Streams, fd : Fds, path : Places, stray : BOOLEAN]

DirentTypes ==
    /\ where \in [Dirs -> Places]
    /\ table \in [Fds -> Dirs \cup {NoDir}]
    /\ client \in [Fds -> Dirs \cup {NoDir}]
    /\ dirp \in [Streams -> StreamType \cup {NoStream}]
    /\ pc \in {"idle", "opening", "reading", "fstatat", "lseek"}
    /\ pc = "opening" => cur \in OpenCall

\* No two directories are in one place.
PlacesApart == \A d, e \in Dirs : where[d] = where[e] => d = e

\* The descriptor of a stream is open and not the client's.
StreamsOwn ==
    \A s \in Streams : Live(s) => table[dirp[s].fd] # NoDir /\ client[dirp[s].fd] = NoDir

StreamsApart ==
    \A s, t \in Streams : Live(s) /\ Live(t) /\ dirp[s].fd = dirp[t].fd => s = t

\* Who may own an open descriptor: during a call, the call too.
EveryOwned ==
    \A fd \in Fds : table[fd] # NoDir =>
        \/ client[fd] # NoDir
        \/ \E s \in Streams : Live(s) /\ dirp[s].fd = fd
        \/ pc = "opening" /\ cur.fd = fd

\* Between opening the descriptor and opening the DIR.
OpeningSound ==
    pc = "opening" =>
        /\ ~Live(cur.s) /\ table[cur.fd] # NoDir
        /\ \A s \in Streams : Live(s) => dirp[s].fd # cur.fd
        /\ cur.op = "opendir" <=> client[cur.fd] = NoDir
        /\ ~cur.stray => where[table[cur.fd]] = cur.path

DirentInvariant ==
    /\ DirentTypes /\ PlacesApart /\ StreamsOwn /\ StreamsApart
    /\ EveryOwned /\ OpeningSound /\ ClientKeeps /\ SameDirectory
=============================================================================
