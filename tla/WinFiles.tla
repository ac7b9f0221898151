------------------------------ MODULE WinFiles ------------------------------
(***************************************************************************)
(* Files of Windows behind the C calls of winsup: fopen(), fdopen() and    *)
(* creat() (file.c), open() and CreateFileW() (open.c), fchmod() and the   *)
(* chown() family (acl.c), fstat() and lstat() (stat.c), readlink()        *)
(* (link.c), mknod() (mknod_stub.c).                                       *)
(*                                                                         *)
(* A file has attributes, a name and, unless it is a link, data or none.   *)
(* The program has a descriptor table and streams.  A call that looks at a *)
(* file more than once is a few steps, and other processes change the      *)
(* attributes and the name in between; one that looks once is one step.    *)
(* What an external call may do is listed case by case; a failure the code *)
(* cannot foresee uses up one of MaxUpsets.  The client takes the answer   *)
(* of a call, and clears errno, before the next.  fd_cache is module       *)
(* FdCache; names are ASCII, so that each wide character becomes one byte. *)
(***************************************************************************)
EXTENDS FileModes, WinErr, FiniteSets

CONSTANTS
    Files, Kind,   \* files, and what each is: "file", "dir", "link", "chr", "fifo"
    Stdin,         \* the file open as descriptor 0 at the start
    Names,         \* names: [ext: extension, long: longer than PATH_MAX when complete]
    Start,         \* the name each file has at the start
    Targets,       \* what links may hold: the length of their target, or Junction
    Junction,      \* a reparse point that is not a symbolic link
    PATH_MAX,
    Fds, Streams,
    Modes,         \* mode strings the client uses
    Perms,         \* permission bits the client uses
    Lengths,       \* buffer lengths given to readlink()
    WinErrs,       \* errors Windows calls fail with
    Builds,        \* builds of the program: TRUE is a Release build, with NDEBUG, which
                   \* makes a difference in one place and is chosen there
    MaxUpsets      \* bound on failed calls and on what other processes do

ASSUME WinFilesAssumption ==
    /\ Kind \in [Files -> {"file", "dir", "link", "chr", "fifo"}]
    /\ Stdin \in Files /\ 0 \in Fds /\ Fds \subseteq Nat
    /\ Start \in [Files -> Names]
    /\ \A f, g \in Files : f # g => Start[f] # Start[g]
    /\ Targets \subseteq Nat \cup {Junction} /\ Junction \notin Nat
    /\ PATH_MAX \in Nat /\ Lengths \subseteq Nat
    /\ Builds \subseteq BOOLEAN /\ MaxUpsets \in Nat

VARIABLES
    attrs,    \* attrs[f]: the attributes of a file, or Absent
    name,     \* name[f]
    data,     \* data[f]: the file is not empty
    table,    \* table[fd]: an open descriptor, or NoFd
    streams,  \* streams[s]: an open FILE, or NoStream
    pc,       \* "idle", "returned", the next step of a call, or "aborted", "crashed"
    call,     \* the call being made, until its answer is taken
    hfi,      \* the attributes the call has read
    buf,      \* struct stat, as far as it is filled in
    ret, errno,
    asked,    \* history: asked[f]: what mode the program last gave the file
    upsets

vars == <<attrs, name, data, table, streams, pc, call, hfi, buf,
          ret, errno, asked, upsets>>
disk == <<attrs, data, asked>>

Absent == {"absent"}
NoFd == [owner |-> "none"]
LostFd == [owner |-> "lost"]  \* a descriptor nobody will close
NoStream == [by |-> "none"]
NoCall == [op |-> "none"]
NoStat == [type |-> "none", w |-> FALSE, x |-> FALSE, size |-> 0]
NoPath == [null |-> TRUE]

KindAttrs(f) == Flag(Kind[f] = "dir", "DIRECTORY") \cup Flag(Kind[f] = "link", "REPARSE_POINT")
Settable == {"READONLY", "ARCHIVE"}
Attributes == Settable \cup {"DIRECTORY", "REPARSE_POINT"}
Exists(f) == attrs[f] # Absent
FreeFds == {fd \in Fds : table[fd] = NoFd}
FreeFd == {fd \in FreeFds : \A g \in FreeFds : fd <= g}  \* the CRT takes the lowest
FreeStreams == {s \in Streams : streams[s] = NoStream}
Open(fd) == table[fd] # NoFd

Init ==
    /\ attrs \in {a \in [Files -> (SUBSET Attributes) \cup {Absent}] :
                    \A f \in Files :
                       IF Kind[f] = "file" THEN a[f] \in (SUBSET Settable) \cup {Absent}
                       ELSE a[f] = KindAttrs(f)}
    /\ Exists(Stdin)
    /\ name = Start
    /\ data = [f \in Files |-> Kind[f] = "file" /\ Exists(f)]
    /\ table = [fd \in Fds |-> IF fd = 0 THEN [file |-> Stdin, can |-> {"r"}, append |-> FALSE,
                                               owner |-> "client"]
                               ELSE NoFd]
    /\ streams = [s \in Streams |-> NoStream]
    /\ pc = "idle" /\ call = NoCall /\ hfi = {} /\ buf = NoStat
    /\ ret = "none" /\ errno = "0"
    /\ asked = [f \in Files |-> "none"]
    /\ upsets = 0

Idle == pc = "idle"
Upset == upsets < MaxUpsets /\ upsets' = upsets + 1
ViaWinerr == \E w \in WinErrs : errno' = set_errno_via_winerr(w)

\* The answer of a call made in one step, and of one made in several: lstat() and
\* lchown() close the descriptor they opened.
Answer(c, result) == pc' = "returned" /\ call' = c /\ ret' = result

LeftOpen(t) == t
Closed(t) == [fd \in Fds |-> IF t[fd].owner = "call" THEN NoFd ELSE t[fd]]

ReturnWith(t, result) == pc' = "returned" /\ ret' = result /\ table' = Closed(t)
Return(result) == ReturnWith(table, result)

\* The client takes the answer.
TakeAnswer ==
    /\ pc = "returned"
    /\ pc' = "idle" /\ call' = NoCall /\ hfi' = {} /\ buf' = NoStat
    /\ ret' = "none" /\ errno' = "0"
    /\ UNCHANGED <<disk, name, table, streams, upsets>>

-----------------------------------------------------------------------------
(* Opening.  open() as open.c wraps it: without O_CREAT a directory is opened by
   a call of its own, for reading only. *)

Creates(flags) == "O_CREAT" \in flags

OpenErrors(f, flags) ==
    Flag(Creates(flags) /\ Exists(f) /\ "O_EXCL" \in flags, "EEXIST")
    \cup Flag(Creates(flags) /\ Kind[f] = "dir", "EACCES")
    \cup Flag(~Creates(flags) /\ ~Exists(f), "ENOENT")
    \cup Flag(~Creates(flags) /\ Kind[f] = "dir" /\ Access(flags) # {"r"}, "EISDIR")
    \cup Flag("READONLY" \in attrs[f] /\ Kind[f] # "dir" /\ Access(flags) # {"r"}, "EACCES")
    \cup Flag(FreeFds = {}, IF Kind[f] = "dir" THEN "EINVAL" ELSE "EMFILE")

OpenFails(f, flags) ==
    /\ errno' \in OpenErrors(f, flags)
    /\ UNCHANGED <<disk, table>>

RwForAll == {"usr", "grp", "oth"} \X {"r", "w"}  \* 0666
Wanted(perm) == IF perm \cap ({"usr", "grp", "oth"} \X {"w"}) = {} THEN "ro" ELSE "w"

Opened(f, flags, owner) ==
    [file |-> f, can |-> Access(flags), append |-> "O_APPEND" \in flags, owner |-> owner]

\* A new file, and one that O_CREAT | O_TRUNC replaces, gets the attributes asked
\* for.
OpenSucceeds(f, flags, perm, fd, entry) ==
    LET replaced == Creates(flags) /\ (~Exists(f) \/ "O_TRUNC" \in flags)
    IN  /\ OpenErrors(f, flags) = {} /\ fd \in FreeFd
        /\ table' = [table EXCEPT ![fd] = entry]
        /\ IF replaced
           THEN /\ attrs' = [attrs EXCEPT ![f] = {"ARCHIVE"} \cup Flag(~AnyMayWrite(perm), "READONLY")]
                /\ data' = [data EXCEPT ![f] = FALSE]
                /\ asked' = [asked EXCEPT ![f] = Wanted(perm)]
           ELSE UNCHANGED disk

Openable(f) == Kind[f] \in {"file", "dir"}

\* fopen() ends in fdopen(); when that fails nobody has the descriptor.
Fopen(f, mode) ==
    LET flags == __fmodeflags(mode)
        c == [op |-> "fopen", mode |-> mode]
        can == __fixup_fmode(mode)
    IN  /\ Idle /\ Openable(f)
        /\ \/ flags = Invalid
                /\ Answer(c, "NULL") /\ errno' = "EINVAL" /\ UNCHANGED <<disk, table, streams>>
           \/ flags # Invalid /\ OpenFails(f, flags)
                /\ Answer(c, "NULL") /\ UNCHANGED streams
           \/ \E fd \in Fds : flags # Invalid /\ can = Invalid
                /\ OpenSucceeds(f, flags, RwForAll, fd, LostFd)
                /\ Answer(c, "NULL") /\ errno' = "EINVAL" /\ UNCHANGED streams
           \/ \E fd \in Fds : flags # Invalid /\ can # Invalid /\ FreeStreams = {}
                /\ OpenSucceeds(f, flags, RwForAll, fd, LostFd)
                /\ Answer(c, "NULL") /\ errno' = "EMFILE" /\ UNCHANGED streams
           \/ \E fd \in Fds, s \in FreeStreams : flags # Invalid /\ can # Invalid
                /\ OpenSucceeds(f, flags, RwForAll, fd, Opened(f, flags, "stream"))
                /\ streams' = [streams EXCEPT ![s] = [by |-> "fopen", fd |-> fd, can |-> can]]
                /\ Answer(c, "FILE") /\ UNCHANGED errno
        /\ UNCHANGED <<name, hfi, buf, upsets>>

Fdopen(fd, mode) ==
    LET can == __fixup_fmode(mode)
    IN  /\ Idle /\ table[fd].owner \in {"client", "none"}
        /\ call' = [op |-> "fdopen"] /\ pc' = "returned"
        /\ \/ can = Invalid /\ errno' = "EINVAL" /\ ret' = "NULL" /\ UNCHANGED <<table, streams>>
           \/ can # Invalid /\ ~Open(fd) /\ errno' = "EBADF" /\ ret' = "NULL"
                /\ UNCHANGED <<table, streams>>
           \/ can # Invalid /\ Open(fd) /\ FreeStreams = {} /\ errno' = "EMFILE" /\ ret' = "NULL"
                /\ UNCHANGED <<table, streams>>
           \/ \E s \in FreeStreams :
                /\ can # Invalid /\ Open(fd)
                /\ streams' = [streams EXCEPT ![s] = [by |-> "fdopen", fd |-> fd, can |-> can]]
                /\ table' = [table EXCEPT ![fd].owner = "stream"]
                /\ ret' = "FILE" /\ UNCHANGED errno
        /\ UNCHANGED <<disk, name, hfi, buf, upsets>>

\* creat() reduces the mode to what the CRT knows, and opens for reading as well.
CREAT_OFLAGS == {"O_CREAT", "O_TRUNC", "O_RDWR"}

Creat(f, perm) ==
    /\ Idle /\ Openable(f)
    /\ \/ OpenFails(f, CREAT_OFLAGS) /\ Answer([op |-> "creat"], "-1")
       \/ \E fd \in Fds : OpenSucceeds(f, CREAT_OFLAGS, perm, fd, Opened(f, CREAT_OFLAGS, "client"))
            /\ Answer([op |-> "creat"], "fd") /\ UNCHANGED errno
    /\ UNCHANGED <<name, streams, hfi, buf, upsets>>

\* CreateFileW() as Rust calls it: a disposition that may create makes sure first
\* that C code can name the file, or ends the program.  The handle is Rust's.
Dispositions == {"CREATE_ALWAYS", "CREATE_NEW", "OPEN_ALWAYS", "OPEN_EXISTING",
                 "TRUNCATE_EXISTING"}
MayCreate(disposition) == disposition \in {"CREATE_ALWAYS", "CREATE_NEW", "OPEN_ALWAYS"}
Truncates(disposition) == disposition \in {"CREATE_ALWAYS", "TRUNCATE_EXISTING"}

CreateFails(f, disposition) ==
    IF Exists(f)
    THEN \/ disposition = "CREATE_NEW"
         \/ Truncates(disposition) /\ "READONLY" \in attrs[f]
    ELSE ~MayCreate(disposition)

CreateFileW(f, disposition) ==
    /\ Idle /\ Kind[f] = "file"
    /\ \/ MayCreate(disposition) /\ name[f].long
            /\ pc' = "aborted" /\ UNCHANGED <<disk, call, ret>>
       \/ ~(MayCreate(disposition) /\ name[f].long)
            /\ IF CreateFails(f, disposition)
               THEN Answer([op |-> "CreateFileW"], "INVALID_HANDLE_VALUE") /\ UNCHANGED disk
               ELSE /\ Answer([op |-> "CreateFileW"], "HANDLE")
                    /\ IF Exists(f) /\ ~Truncates(disposition) THEN UNCHANGED disk
                       ELSE /\ attrs' = [attrs EXCEPT ![f] = {"ARCHIVE"}]
                            /\ data' = [data EXCEPT ![f] = FALSE]
                            /\ asked' = [asked EXCEPT ![f] = "none"]
    /\ UNCHANGED <<name, table, streams, hfi, buf, errno, upsets>>

Fclose(s) ==
    /\ Idle /\ streams[s] # NoStream
    /\ table' = [table EXCEPT ![streams[s].fd] = NoFd]
    /\ streams' = [streams EXCEPT ![s] = NoStream]
    /\ UNCHANGED <<disk, name, pc, call, hfi, buf, ret, errno, upsets>>

Close(fd) ==
    /\ Idle /\ table[fd].owner = "client"
    /\ table' = [table EXCEPT ![fd] = NoFd]
    /\ UNCHANGED <<disk, name, streams, pc, call, hfi, buf, ret, errno, upsets>>

\* The client writes through a descriptor of its own or through a stream.
Write(fd) ==
    /\ Idle /\ table[fd].owner \in {"client", "stream"}
    /\ "w" \in table[fd].can /\ Kind[table[fd].file] = "file"
    /\ data' = [data EXCEPT ![table[fd].file] = TRUE]
    /\ UNCHANGED <<attrs, asked, name, table, streams, pc, call, hfi, buf, ret, errno, upsets>>

-----------------------------------------------------------------------------
(* fchmod(): read the attributes, then set them with READONLY changed. *)

EndsBadly(result) == Return(result) /\ UNCHANGED <<disk, name, streams, call, hfi, buf>>

Fchmod(fd, perm) ==
    /\ Idle /\ table[fd].owner \in {"client", "stream", "none"}
    /\ call' = [op |-> "fchmod", fd |-> fd, perm |-> perm, raced |-> FALSE]
    /\ \/ ~Open(fd) /\ pc' = "returned" /\ ret' = "-1" /\ errno' = "EBADF"
       \/ Open(fd) /\ pc' = "info" /\ UNCHANGED <<ret, errno>>
    /\ UNCHANGED <<disk, name, table, streams, hfi, buf, upsets>>

File == table[call.fd].file

NewAttr(old, perm) ==
    IF AnyMayWrite(perm) THEN old \ {"READONLY"} ELSE old \cup {"READONLY"}

Given(f, perm) ==
    asked' = [asked EXCEPT ![f] = IF call.raced THEN "none"
                                  ELSE Wanted(perm)]

\* GetFileInformationByHandle() succeeds; attributes that need no change end the
\* call.
FchmodReads ==
    /\ pc = "info" /\ call.op = "fchmod"
    /\ hfi' = attrs[File]
    /\ \/ /\ NewAttr(attrs[File], call.perm) = attrs[File]
          /\ Given(File, call.perm) /\ Return("0")
       \/ /\ NewAttr(attrs[File], call.perm) # attrs[File]
          /\ pc' = "set" /\ UNCHANGED <<ret, table, asked>>
    /\ UNCHANGED <<attrs, data, name, streams, call, buf, errno, upsets>>

\* SetFileInformationByHandle() needs a handle that may write, and takes 0 for
\* `leave the attributes alone'.
FchmodSets ==
    LET new == NewAttr(hfi, call.perm)
    IN  /\ pc = "set" /\ "w" \in table[call.fd].can
        /\ attrs' = [attrs EXCEPT ![File] = IF new = {} THEN @ ELSE new]
        /\ Given(File, call.perm) /\ Return("0")
        /\ UNCHANGED <<data, name, streams, call, hfi, buf, errno, upsets>>

FchmodDenied ==
    /\ pc = "set" /\ "w" \notin table[call.fd].can
    /\ errno' = set_errno_via_winerr(5) /\ UNCHANGED upsets
    /\ EndsBadly("-1")

-----------------------------------------------------------------------------
(* fstat() and lstat().  fchown() and lchown() are the same two calls with the
   struct stat thrown away. *)

StatCall(op, fd) ==
    [op |-> op, fd |-> fd, path |-> NoPath, len |-> PATH_MAX, held |-> 0, calm |-> TRUE,
     raced |-> FALSE]

Fstat(fd) ==
    /\ Idle /\ table[fd].owner \in {"client", "stream", "none"}
    /\ call' = StatCall("fstat", fd)
    /\ \/ ~Open(fd) /\ pc' = "returned" /\ ret' = "-1" /\ errno' = "EBADF"
       \/ Open(fd) /\ pc' = "info" /\ UNCHANGED <<ret, errno>>
    /\ UNCHANGED <<disk, name, table, streams, hfi, buf, upsets>>

\* __open_symlink_fd(): the file itself, links included.
SymlinkFd(f) == [file |-> f, can |-> {"r"}, append |-> FALSE, owner |-> "call"]

\* A table without room is reported as an invalid parameter (87).
OpenSymlinkError(exists) ==
    \/ ~exists /\ errno' = set_errno_via_winerr(2) /\ UNCHANGED upsets
    \/ exists /\ FreeFds = {} /\ errno' = set_errno_via_winerr(87) /\ UNCHANGED upsets
    \/ exists /\ Upset /\ ViaWinerr

Lstat(f) ==
    /\ Idle
    /\ \/ \E fd \in Fds :
            /\ Exists(f) /\ fd \in FreeFd
            /\ table' = [table EXCEPT ![fd] = SymlinkFd(f)]
            /\ call' = StatCall("lstat", fd)
            /\ pc' = "info" /\ UNCHANGED <<ret, errno, upsets>>
       \/ OpenSymlinkError(Exists(f))
            /\ Answer(StatCall("lstat", 0), "-1") /\ UNCHANGED table
    /\ UNCHANGED <<disk, name, streams, hfi, buf>>

\* GetFileInformationByHandle() fails, for fchmod() too.
InfoFails ==
    /\ pc = "info" /\ Upset /\ ViaWinerr
    /\ EndsBadly("-1")

Info ==
    /\ pc = "info" /\ call.op # "fchmod"
    /\ hfi' = attrs[File]
    /\ pc' = "type"
    /\ UNCHANGED <<disk, name, table, streams, call, buf, ret, errno, upsets>>

\* __fd_get_path(): no memory or no name; or GetFinalPathNameByHandle() answers the
\* length it needs, taken for success, and the buffer holds whatever it held.
FdPath(path) ==
    \/ path = NoPath /\ Upset
    \/ ~name[File].long /\ path = name[File] /\ UNCHANGED upsets
    \/ name[File].long /\ path # NoPath /\ UNCHANGED upsets

TypeUnknown ==
    /\ pc = "type" /\ Upset
    /\ errno' = "ENOENT" \/ ViaWinerr
    /\ EndsBadly("-1")

\* A name that never ends is read beyond the buffer.
GarbagePath ==
    /\ pc = "type" /\ name[File].long
    /\ pc' = "crashed"
    /\ UNCHANGED <<disk, name, table, streams, call, hfi, buf, ret, errno, upsets>>

StatType(type) ==
    IF type # "disk" THEN type
    ELSE IF "REPARSE_POINT" \in hfi THEN "link"
    ELSE IF "DIRECTORY" \in hfi THEN "dir" ELSE "file"

FileType == IF Kind[File] \in {"chr", "fifo"} THEN Kind[File] ELSE "disk"

Executable(type, path) ==
    \/ type = "dir"
    \/ type = "file" /\ path # NoPath /\ HasExecSuffix(path.ext)

\* The mode from the attributes read before and the name read now, then the size,
\* for which a link is opened by its name and read.
StatMode(path) ==
    LET type == StatType(FileType)
        asLink == "REPARSE_POINT" \in hfi
    IN  /\ pc = "type" /\ FdPath(path)
        /\ call' = [call EXCEPT !.path = path,
                                !.calm = @ /\ path # NoPath /\ ~name[File].long]
        /\ buf' = [type |-> type, w |-> "READONLY" \notin hfi, x |-> Executable(type, path),
                   size |-> IF ~asLink /\ data[File] THEN 1 ELSE 0]
        /\ IF asLink /\ path # NoPath THEN pc' = "readlink" /\ UNCHANGED <<ret, table>>
           ELSE Return("0")
        /\ UNCHANGED <<disk, name, streams, hfi, errno>>

-----------------------------------------------------------------------------
(* readlink(), for the client and for st_size.  It ends with CloseHandle(): the
   descriptor stays in the table, over a handle that is closed. *)

Readlink(f, len) ==
    /\ Idle
    /\ call' = [StatCall("readlink", 0) EXCEPT !.path = name[f], !.len = len]
    /\ \/ len = 0 /\ errno' = "EINVAL" /\ Return("-1")
       \/ len > 0 /\ pc' = "readlink" /\ UNCHANGED <<table, ret, errno>>
    /\ UNCHANGED <<disk, name, streams, hfi, buf, upsets>>

\* len is readlink()'s result; fstat() takes it when it is positive.  held is the
\* length of the target, kept for the properties.
LinkResult(t, len, held) ==
    /\ buf' = [buf EXCEPT !.size = IF len > 0 THEN len ELSE 0]
    /\ call' = [call EXCEPT !.calm = @ /\ len >= 0, !.held = held]
    /\ ReturnWith(t, IF call.op = "readlink" /\ len < 0 THEN "-1" ELSE "0")

AtPath == {f \in Files : name[f] = call.path /\ Exists(f)}

ReadlinkCannotOpen ==
    /\ pc = "readlink"
    /\ OpenSymlinkError(AtPath # {})
    /\ LinkResult(table, -1, 0)
    /\ UNCHANGED <<disk, name, streams, hfi>>

\* No memory, no reparse point, or one that is no symbolic link.
ReadlinkFails(f, fd) ==
    /\ pc = "readlink" /\ f \in AtPath /\ fd \in FreeFd
    /\ \/ Upset /\ (errno' = "ENOMEM" \/ ViaWinerr)
       \/ Kind[f] # "link" /\ errno' = set_errno_via_winerr(4390) /\ UNCHANGED upsets
       \/ Kind[f] = "link" /\ Junction \in Targets /\ errno' = "EINVAL" /\ UNCHANGED upsets
    /\ LinkResult([table EXCEPT ![fd] = LostFd], -1, 0)
    /\ UNCHANGED <<disk, name, streams, hfi>>

\* Both names are empty: assert(0), or a return past all clean-up.
ReadlinkNoName(f, fd) ==
    /\ pc = "readlink" /\ f \in AtPath /\ fd \in FreeFd
    /\ Kind[f] = "link" /\ 0 \in Targets
    /\ \/ FALSE \in Builds /\ pc' = "aborted" /\ UNCHANGED <<table, call, buf, ret>>
       \/ TRUE \in Builds /\ LinkResult([table EXCEPT ![fd] = LostFd], -1, 0)
    /\ UNCHANGED <<disk, name, streams, hfi, errno, upsets>>

\* ws_len is in bytes and is given as a number of wide characters, of which the
\* target has half as many: what is behind it is converted and counted as well.
CharsHalved(bytes) == bytes \div 2
Chars(bytes) == bytes + 1

ReadlinkConverts(f, fd, length) ==
    /\ pc = "readlink" /\ f \in AtPath /\ fd \in FreeFd
    /\ Kind[f] = "link" /\ length \notin {0, Junction}
    /\ LET chars == Chars(2 * length)
       IN  \/ chars > call.len /\ pc' = "aborted" /\ UNCHANGED <<table, call, buf, ret>>
           \/ chars <= call.len
                /\ LinkResult([table EXCEPT ![fd] = LostFd], chars - 1, length)
    /\ UNCHANGED <<disk, name, streams, hfi, errno, upsets>>

-----------------------------------------------------------------------------
(* chown() and mknod() only look. *)

Chown(f) ==
    /\ Idle
    /\ Answer([op |-> "chown"], IF Exists(f) THEN "0" ELSE "-1")
    /\ errno' = IF Exists(f) THEN errno ELSE "ENOENT"
    /\ UNCHANGED <<disk, name, table, streams, hfi, buf, upsets>>

Mknod(f) ==
    /\ Idle
    /\ Answer([op |-> "mknod"], "-1")
    /\ errno' = IF Exists(f) THEN "EEXIST" ELSE "ENOTSUP"
    /\ UNCHANGED <<disk, name, table, streams, hfi, buf, upsets>>

-----------------------------------------------------------------------------
(* Other processes.  What they do while an answer waits is the same as doing it
   right after. *)

Raced ==
    \/ Idle /\ UNCHANGED call
    \/ pc \in {"info", "set", "type", "readlink"} /\ call' = [call EXCEPT !.raced = TRUE]

SetAttributes(f, a) ==
    /\ Upset /\ Kind[f] = "file" /\ Exists(f) /\ a # attrs[f]
    /\ attrs' = [attrs EXCEPT ![f] = a]
    /\ asked' = [asked EXCEPT ![f] = "none"]
    /\ Raced
    /\ UNCHANGED <<data, name, table, streams, pc, hfi, buf, ret, errno>>

Rename(f, n) ==
    /\ Upset /\ Kind[f] \notin {"chr", "fifo"} /\ Exists(f) /\ \A g \in Files : name[g] # n
    /\ name' = [name EXCEPT ![f] = n]
    /\ Raced
    /\ UNCHANGED <<disk, table, streams, pc, hfi, buf, ret, errno>>

Next ==
    \/ TakeAnswer
    \/ \E f \in Files :
         \/ \E mode \in Modes : Fopen(f, mode)
         \/ \E perm \in Perms : Creat(f, perm)
         \/ \E disposition \in Dispositions : CreateFileW(f, disposition)
         \/ Lstat(f)
         \/ \E len \in Lengths : Readlink(f, len)
         \/ \E fd \in Fds : ReadlinkFails(f, fd) \/ ReadlinkNoName(f, fd)
                           \/ \E length \in Targets : ReadlinkConverts(f, fd, length)
         \/ Chown(f) \/ Mknod(f)
         \/ \E a \in SUBSET Settable : SetAttributes(f, a)
         \/ \E n \in Names : Rename(f, n)
    \/ \E fd \in Fds :
         \/ \E mode \in Modes : Fdopen(fd, mode)
         \/ \E perm \in Perms : Fchmod(fd, perm)
         \/ Fstat(fd) \/ Close(fd) \/ Write(fd)
    \/ \E s \in Streams : Fclose(s)
    \/ FchmodReads \/ FchmodSets \/ FchmodDenied
    \/ InfoFails \/ Info \/ TypeUnknown \/ GarbagePath
    \/ \E path \in Names \cup {NoPath} : StatMode(path)
    \/ ReadlinkCannotOpen

Spec == Init /\ [][Next]_vars

-----------------------------------------------------------------------------
(* Properties. *)

Answered(ops) == pc = "returned" /\ call.op \in ops

\* Types, and who has to close what: every descriptor of a stream belongs to exactly
\* one stream, and the descriptor of lstat() is closed when lstat() returns, on all
\* ways out.
FilesInvariant ==
    /\ attrs \in [Files -> (SUBSET Attributes) \cup {Absent}]
    /\ name \in [Files -> Names] /\ data \in [Files -> BOOLEAN]
    /\ asked \in [Files -> {"none", "w", "ro"}]
    /\ upsets \in 0 .. MaxUpsets
    /\ \A fd \in Fds :
         LET over == {s \in Streams : streams[s] # NoStream /\ streams[s].fd = fd}
         IN  IF table[fd].owner = "stream" THEN Cardinality(over) = 1 ELSE over = {}
    /\ \A fd \in Fds : table[fd].owner = "call" => pc \in {"info", "type", "readlink", "aborted", "crashed"}

\* fopen() works out twice what a mode string asks for, once as flags for open() and
\* once as a mode for fdopen(): the stream may do exactly what its descriptor can.
StreamFitsDescriptor ==
    \A s \in Streams : streams[s].by = "fopen" =>
        LET fd == table[streams[s].fd]
        IN  streams[s].can = fd.can \cup Flag(fd.append, "append")

\* fopen() that fails says why and leaves the files and the descriptors alone, so a
\* bad mode string ("check if mode is valid") creates nothing.  Not with an empty
\* mode string or without a free stream: it then has created or emptied the file, and
\* its descriptor is lost.
FopenFailsClean ==
    [][Idle /\ ret' = "NULL" /\ call'.op = "fopen" =>
         /\ errno' # "0"
         /\ \/ UNCHANGED <<disk, table>>
            \/ call'.mode.first = ""
            \/ FreeStreams = {}]_vars

\* Whether a file may be written is what creat(), fopen() or a successful fchmod()
\* asked for last, as long as no other process sets attributes.  Not when fchmod()
\* takes READONLY from a file that has no other attribute: it answers 0 and READONLY
\* stays.
ModeRemembered ==
    \A f \in Files : Exists(f) =>
        /\ asked[f] = "ro" => "READONLY" \in attrs[f]
        /\ asked[f] = "w" => "READONLY" \notin attrs[f] \/ attrs[f] = {"READONLY"}

Runnable == {<<101, 120, 101>>, <<98, 97, 116>>, <<99, 109, 100>>, <<99, 111, 109>>}
LowerCase(ext) == [i \in DOMAIN ext |-> tolower(ext[i])]

\* What struct stat says is true of f, but for the size.
TrueOf(f) ==
    /\ name[f] = call.path
    /\ buf.type = Kind[f]
    /\ buf.w = ("READONLY" \notin attrs[f])
    /\ Kind[f] = "file" /\ LowerCase(name[f].ext) \in Runnable => buf.x
    /\ Kind[f] = "link" => ~buf.x

\* What fstat() and lstat() answer is true of the file when they return, if the name
\* was read, fitted and nobody raced: its type; who may write it; that an exe, bat,
\* cmd or com file is executable, and no link; that a link has room for its target.
\* Not that ONLY those are executable: an img or a png is, too.
StatTrue ==
    Answered({"fstat", "lstat"}) /\ ret = "0" /\ call.calm /\ ~call.raced =>
        \E f \in Files : TrueOf(f) /\ (Kind[f] = "link" => buf.size >= call.held)

-----------------------------------------------------------------------------
(* The inductive invariant behind the properties. *)

\* The attributes that say what a file is never change, and only an ordinary file
\* can be absent.
DiskRight ==
    /\ attrs \in [Files -> (SUBSET Attributes) \cup {Absent}]
    /\ name \in [Files -> Names] /\ data \in [Files -> BOOLEAN]
    /\ asked \in [Files -> {"none", "w", "ro"}]
    /\ \A f \in Files : IF Exists(f) THEN attrs[f] \ Settable = KindAttrs(f) ELSE Kind[f] = "file"
    /\ ModeRemembered

OpenFds ==
    [file : Files, can : SUBSET {"r", "w"}, append : BOOLEAN, owner : {"client", "stream", "call"}]
OpenStreams == [by : {"fopen", "fdopen"}, fd : Fds, can : SUBSET {"r", "w", "append"}]

\* An open descriptor is of a file that exists; the streams and the descriptors that
\* belong to streams stand for each other one to one.
TableRight ==
    /\ table \in [Fds -> OpenFds \cup {NoFd, LostFd}]
    /\ streams \in [Streams -> OpenStreams \cup {NoStream}]
    /\ \A fd \in Fds : table[fd] \in OpenFds => Exists(table[fd].file)
    /\ \A s \in Streams : streams[s] # NoStream => table[streams[s].fd].owner = "stream"
    /\ \A s, t \in Streams :
         streams[s] # NoStream /\ streams[t] # NoStream /\ streams[s].fd = streams[t].fd => s = t
    /\ \A fd \in Fds : table[fd].owner = "stream" =>
         \E s \in Streams : streams[s] # NoStream /\ streams[s].fd = fd
    /\ StreamFitsDescriptor

FchmodCalls == [op : {"fchmod"}, fd : Fds, perm : Perms, raced : BOOLEAN]
StatCalls(ops) ==
    [op : ops, fd : Fds, path : Names \cup {NoPath}, len : Lengths \cup {PATH_MAX}, held : Nat,
     calm : BOOLEAN, raced : BOOLEAN]

\* What a call has in hand at each of its steps.  At "set" and "type" hfi is what the
\* file has, unless another process came in between, and at any rate says what it is.
CallRight ==
    /\ buf \in [type : {"none", "file", "dir", "link", "chr", "fifo"}, w : BOOLEAN, x : BOOLEAN,
                size : Nat]
    /\ Idle => ret = "none"
    /\ \A fd \in Fds : table[fd].owner = "call" =>
         pc \in {"info", "type", "readlink", "aborted", "crashed"} /\ (pc = "info" => call.op = "lstat")
    /\ pc = "info" => call \in FchmodCalls \cup StatCalls({"fstat", "lstat"})
    /\ pc = "set" => call \in FchmodCalls
    /\ pc = "type" => call \in StatCalls({"fstat", "lstat"})
    /\ pc = "readlink" => call \in StatCalls({"fstat", "lstat", "readlink"})
    /\ pc \in {"info", "set", "type"} => table[call.fd] \in OpenFds
    /\ pc \in {"set", "type"} =>
         /\ hfi \in SUBSET Attributes /\ hfi \ Settable = KindAttrs(File)
         /\ ~call.raced => hfi = attrs[File]
    /\ pc = "readlink" /\ call.op # "readlink" /\ call.calm /\ ~call.raced =>
         \E f \in Files : TrueOf(f)
    /\ StatTrue

WinFilesInvariant == DiskRight /\ TableRight /\ CallRight /\ upsets \in 0 .. MaxUpsets
=============================================================================
