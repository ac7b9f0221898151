--------------------------- MODULE WinFilesProofs ---------------------------
(***************************************************************************)
(* Streams fit their descriptors, the read-only attribute is the one asked *)
(* for and stat tells the truth, for any files, names, mode strings and    *)
(* tables, and whatever other processes do.                                *)
(***************************************************************************)
EXTENDS WinFiles, FiniteSetTheorems, TLAPS

-----------------------------------------------------------------------------
(* Mode strings and permission bits. *)

\* A mode string is refused exactly when its first character is.
LEMMA FlagsInvalid ==
  ASSUME NEW mode
  PROVE  (__fmodeflags(mode) = Invalid) <=> (mode.first \notin AcceptedFirst)
BY DEF __fmodeflags, Invalid

\* The flags of each of the accepted first characters, as far as the access goes.
LEMMA FlagsOf ==
  ASSUME NEW mode, mode.first \in AcceptedFirst
  PROVE  /\ "O_RDWR" \in __fmodeflags(mode) <=> "+" \in mode.rest
         /\ "O_WRONLY" \in __fmodeflags(mode) <=> "+" \notin mode.rest /\ mode.first # "r"
         /\ "O_CREAT" \in __fmodeflags(mode) <=> mode.first # "r"
         /\ "O_TRUNC" \in __fmodeflags(mode) <=> mode.first = "w"
         /\ "O_APPEND" \in __fmodeflags(mode) <=> mode.first = "a"
BY DEF __fmodeflags, Flag

\* The two conversions of a mode string agree: the mode given to fdopen() asks for
\* what the flags given to open() ask for.
LEMMA ConversionsAgree ==
  ASSUME NEW mode, __fmodeflags(mode) # Invalid, __fixup_fmode(mode) # Invalid
  PROVE  __fixup_fmode(mode) = Access(__fmodeflags(mode))
                                 \cup Flag("O_APPEND" \in __fmodeflags(mode), "append")
<1> DEFINE flags == __fmodeflags(mode)
<1>0. mode.first \in AcceptedFirst
  BY FlagsInvalid
<1>1. mode.first \in {"r", "w", "a", ""}
  BY <1>0 DEF AcceptedFirst
<1>2. /\ "O_RDWR" \in flags <=> "+" \in mode.rest
      /\ "O_WRONLY" \in flags <=> "+" \notin mode.rest /\ mode.first # "r"
      /\ "O_CREAT" \in flags <=> mode.first # "r"
      /\ "O_TRUNC" \in flags <=> mode.first = "w"
      /\ "O_APPEND" \in flags <=> mode.first = "a"
  BY <1>0, FlagsOf, Zenon
<1>3. /\ FixedFirst(flags) # "none"
      /\ __fixup_fmode(mode) = StreamCan(flags) \cup Flag(FixedFirst(flags) = "a", "append")
  BY DEF __fixup_fmode
<1> HIDE DEF flags
<1>4. FixedFirst(flags) = mode.first
  BY <1>1, <1>2, <1>3 DEF FixedFirst
<1>5. StreamCan(flags) = Access(flags)
  BY <1>1, <1>2, <1>4 DEF StreamCan, Access
<1> QED
  BY <1>2, <1>3, <1>4, <1>5 DEF flags

\* Only the empty mode string is accepted by one conversion and not by the other.
LEMMA ConversionsDiffer ==
  ASSUME NEW mode, __fmodeflags(mode) # Invalid, __fixup_fmode(mode) = Invalid
  PROVE  mode.first = ""
<1> DEFINE flags == __fmodeflags(mode)
<1>0. mode.first \in AcceptedFirst
  BY FlagsInvalid
<1>1. mode.first \in {"r", "w", "a", ""}
  BY <1>0 DEF AcceptedFirst
<1>2. /\ "O_RDWR" \in flags <=> "+" \in mode.rest
      /\ "O_WRONLY" \in flags <=> "+" \notin mode.rest /\ mode.first # "r"
      /\ "O_CREAT" \in flags <=> mode.first # "r"
      /\ "O_TRUNC" \in flags <=> mode.first = "w"
      /\ "O_APPEND" \in flags <=> mode.first = "a"
  BY <1>0, FlagsOf, Zenon
<1>3. __fixup_fmode(mode) =
        IF FixedFirst(flags) = "none" \/ (FixedFirst(flags) # "r" /\ "O_CREAT" \notin flags)
        THEN Invalid ELSE StreamCan(flags) \cup Flag(FixedFirst(flags) = "a", "append")
  BY DEF __fixup_fmode
<1>4. "invalid" \notin StreamCan(flags) \cup Flag(FixedFirst(flags) = "a", "append")
  BY DEF StreamCan, Flag
<1>5. FixedFirst(flags) = "none" \/ (FixedFirst(flags) # "r" /\ "O_CREAT" \notin flags)
  BY <1>3, <1>4 DEF Invalid
<1> HIDE DEF flags
<1> QED
  BY <1>1, <1>2, <1>5 DEF FixedFirst

\* What a stream may do, and what a descriptor can, is of the right type.
LEMMA ModeTypes ==
  ASSUME NEW mode, NEW flags
  PROVE  /\ __fixup_fmode(mode) # Invalid => __fixup_fmode(mode) \in SUBSET {"r", "w", "append"}
         /\ Access(flags) \in SUBSET {"r", "w"}
<1>1. StreamCan(__fmodeflags(mode)) \in SUBSET {"r", "w", "append"}
  BY DEF StreamCan
<1> QED
  BY <1>1 DEF __fixup_fmode, Access, Flag

\* What creat() and fchmod() are asked for, in the two ways the model says it.
LEMMA WantedMode ==
  ASSUME NEW perm
  PROVE  Wanted(perm) = IF AnyMayWrite(perm) THEN "w" ELSE "ro"
<1>1. AnyMayWrite(perm) <=> perm \cap ({"usr", "grp", "oth"} \X {"w"}) # {}
  BY DEF AnyMayWrite
<1> QED
  BY <1>1 DEF Wanted

\* No executable is missed by the comparison of suffixes, in upper or lower case.
LEMMA RunnableFound ==
  ASSUME NEW ext, LowerCase(ext) \in Runnable
  PROVE  HasExecSuffix(ext)
<1>1. PICK r \in Runnable : LowerCase(ext) = r
  OBVIOUS
<1>2. /\ DOMAIN r = 1 .. 3
      /\ SuffixBits(r[1], r[2], r[3]) \in {EXE_SUFFIX, BAT_SUFFIX, CMD_SUFFIX, COM_SUFFIX}
  BY <1>1 DEF Runnable, EXE_SUFFIX, BAT_SUFFIX, CMD_SUFFIX, COM_SUFFIX
<1>3. DOMAIN ext = 1 .. 3 /\ \A i \in 1 .. 3 : r[i] = tolower(ext[i])
  BY <1>1, <1>2 DEF LowerCase
<1>4. ext # <<>>
  BY <1>3
<1>5. r[1] = tolower(ext[1]) /\ r[2] = tolower(ext[2]) /\ r[3] = tolower(ext[3])
  BY <1>3
<1> QED
  BY <1>2, <1>4, <1>5, Zenon DEF HasExecSuffix

-----------------------------------------------------------------------------
(* How the parts of the invariant are kept, whichever call it is. *)

\* Files are not removed.
StillThere == \A g \in Files : Exists(g) => attrs'[g] # Absent

BufType == [type : {"none", "file", "dir", "link", "chr", "fifo"}, w : BOOLEAN, x : BOOLEAN,
            size : Nat]

\* A step that sets no attributes.
LEMMA DiskKept ==
  ASSUME DiskRight, UNCHANGED <<attrs, asked>>, name' \in [Files -> Names],
         data' \in [Files -> BOOLEAN]
  PROVE  DiskRight' /\ StillThere
BY DEF DiskRight, ModeRemembered, Exists, KindAttrs, StillThere

\* A step that gives one file attributes: those that say what it is, and READONLY as
\* asked for.
LEMMA DiskSet ==
  ASSUME DiskRight, NEW f \in Files, NEW a \in SUBSET Attributes, NEW q \in {"none", "w", "ro"},
         a \ Settable = KindAttrs(f),
         q = "ro" => "READONLY" \in a,
         q = "w" => "READONLY" \notin a \/ a = {"READONLY"},
         attrs' = [attrs EXCEPT ![f] = a], asked' = [asked EXCEPT ![f] = q],
         name' = name, data' \in [Files -> BOOLEAN]
  PROVE  DiskRight' /\ StillThere /\ attrs'[f] # Absent
<1>1. a # Absent
  BY DEF Absent, Attributes, Settable
<1>2. /\ attrs' \in [Files -> (SUBSET Attributes) \cup {Absent}] /\ name' \in [Files -> Names]
      /\ asked' \in [Files -> {"none", "w", "ro"}]
  BY DEF DiskRight
<1>3. attrs'[f] = a /\ asked'[f] = q
  BY DEF DiskRight
<1>4. \A g \in Files \ {f} : attrs'[g] = attrs[g] /\ asked'[g] = asked[g]
  BY DEF DiskRight
<1>5. StillThere /\ attrs'[f] # Absent
  BY <1>1, <1>3, <1>4 DEF StillThere, Exists
<1>6. ASSUME NEW g \in Files
      PROVE  IF attrs'[g] # Absent THEN attrs'[g] \ Settable = KindAttrs(g) ELSE Kind[g] = "file"
  BY <1>3, <1>4, <1>5 DEF DiskRight, Exists
<1>7. ModeRemembered'
  BY <1>3, <1>4 DEF ModeRemembered, DiskRight, Exists
<1> QED
  BY <1>2, <1>5, <1>6, <1>7 DEF DiskRight, Exists, KindAttrs

\* A step that leaves the streams and their descriptors alone.
LEMMA TableKept ==
  ASSUME TableRight, StillThere, streams' = streams,
         table' \in [Fds -> OpenFds \cup {NoFd, LostFd}],
         \A fd \in Fds :
           \/ table'[fd] = table[fd]
           \/ /\ table[fd].owner # "stream" /\ table'[fd].owner # "stream"
              /\ table'[fd] \in OpenFds => attrs'[table'[fd].file] # Absent
  PROVE  TableRight'
<1>1. ASSUME NEW fd \in Fds, table'[fd] \in OpenFds
      PROVE  attrs'[table'[fd].file] # Absent
  <2>1. CASE table'[fd] = table[fd]
    <3>1. table[fd].file \in Files /\ Exists(table[fd].file)
      BY <1>1, <2>1 DEF TableRight, OpenFds
    <3> QED
      BY <2>1, <3>1 DEF StillThere, Exists
  <2> QED
    BY <1>1, <2>1
<1>2. \A fd \in Fds : table[fd].owner = "stream" \/ table'[fd].owner = "stream" =>
                      table'[fd] = table[fd]
  OBVIOUS
<1>3. ASSUME NEW s \in Streams, streams'[s] # NoStream
      PROVE  table'[streams'[s].fd] = table[streams[s].fd] /\ table'[streams'[s].fd].owner = "stream"
  <2>1. streams[s].fd \in Fds /\ table[streams[s].fd].owner = "stream"
    BY <1>3 DEF TableRight, OpenStreams
  <2> QED
    BY <1>2, <2>1
<1>4. \A fd \in Fds : table'[fd].owner = "stream" =>
         \E s \in Streams : streams'[s] # NoStream /\ streams'[s].fd = fd
  BY <1>2 DEF TableRight
<1>5. StreamFitsDescriptor'
  <2> SUFFICES ASSUME NEW s \in Streams, streams'[s].by = "fopen"
               PROVE  streams'[s].can = table'[streams'[s].fd].can
                                          \cup Flag(table'[streams'[s].fd].append, "append")
    BY DEF StreamFitsDescriptor
  <2>1. streams[s] # NoStream
    BY DEF NoStream
  <2> QED
    BY <1>3, <2>1 DEF TableRight, StreamFitsDescriptor
<1> QED
  BY <1>1, <1>3, <1>4, <1>5 DEF TableRight, Exists

\* A step that makes a stream of a descriptor.
LEMMA StreamMade ==
  ASSUME TableRight, StillThere,
         NEW fd \in Fds, NEW s \in FreeStreams, NEW entry \in OpenFds, NEW stream \in OpenStreams,
         table[fd].owner # "stream", entry.owner = "stream", attrs'[entry.file] # Absent,
         stream.fd = fd,
         stream.by = "fopen" => stream.can = entry.can \cup Flag(entry.append, "append"),
         table' = [table EXCEPT ![fd] = entry], streams' = [streams EXCEPT ![s] = stream]
  PROVE  TableRight'
<1>1. /\ s \in Streams /\ streams[s] = NoStream /\ stream # NoStream
      /\ table' \in [Fds -> OpenFds \cup {NoFd, LostFd}]
      /\ streams' \in [Streams -> OpenStreams \cup {NoStream}]
  BY DEF FreeStreams, TableRight, OpenStreams, NoStream
<1>2. /\ table'[fd] = entry /\ \A g \in Fds \ {fd} : table'[g] = table[g]
      /\ streams'[s] = stream /\ \A t \in Streams \ {s} : streams'[t] = streams[t]
  BY <1>1 DEF TableRight
<1>3. \A t \in Streams \ {s} : streams[t] # NoStream =>
         /\ streams[t].fd \in Fds \ {fd}
         /\ table'[streams'[t].fd] = table[streams[t].fd]
  BY <1>2 DEF TableRight, OpenStreams
<1>4. ASSUME NEW g \in Fds, table'[g] \in OpenFds
      PROVE  attrs'[table'[g].file] # Absent
  <2>1. CASE g # fd
    <3>1. table[g].file \in Files /\ Exists(table[g].file)
      BY <1>2, <1>4, <2>1 DEF TableRight, OpenFds
    <3> QED
      BY <1>2, <2>1, <3>1 DEF StillThere, Exists
  <2> QED
    BY <1>2, <2>1
<1>5. \A t \in Streams : streams'[t] # NoStream => table'[streams'[t].fd].owner = "stream"
  BY <1>2, <1>3 DEF TableRight
<1>6. \A t, u \in Streams :
        streams'[t] # NoStream /\ streams'[u] # NoStream /\ streams'[t].fd = streams'[u].fd => t = u
  BY <1>2, <1>3 DEF TableRight
<1>7. ASSUME NEW g \in Fds, table'[g].owner = "stream"
      PROVE  \E t \in Streams : streams'[t] # NoStream /\ streams'[t].fd = g
  <2>1. CASE g = fd
    BY <1>1, <1>2, <2>1
  <2>2. CASE g # fd
    BY <1>1, <1>2, <1>7, <2>2 DEF TableRight
  <2> QED
    BY <2>1, <2>2
<1>8. StreamFitsDescriptor'
  <2> SUFFICES ASSUME NEW t \in Streams, streams'[t].by = "fopen"
               PROVE  streams'[t].can = table'[streams'[t].fd].can
                                          \cup Flag(table'[streams'[t].fd].append, "append")
    BY DEF StreamFitsDescriptor
  <2>1. CASE t = s
    BY <1>2, <2>1
  <2>2. CASE t # s
    <3>1. streams[t] # NoStream
      BY <1>2, <2>2 DEF NoStream
    <3> QED
      BY <1>2, <1>3, <2>2, <3>1 DEF TableRight, StreamFitsDescriptor
  <2> QED
    BY <2>1, <2>2
<1> QED
  BY <1>1, <1>4, <1>5, <1>6, <1>7, <1>8 DEF TableRight, Exists

\* Closed() closes what lstat() opened.
LEMMA ClosedTable ==
  ASSUME NEW t \in [Fds -> OpenFds \cup {NoFd, LostFd}]
  PROVE  /\ Closed(t) \in [Fds -> OpenFds \cup {NoFd, LostFd}]
         /\ \A fd \in Fds : Closed(t)[fd] = t[fd] \/ (t[fd].owner = "call" /\ Closed(t)[fd] = NoFd)
         /\ \A fd \in Fds : Closed(t)[fd].owner # "call"
<1>1. ASSUME NEW fd \in Fds
      PROVE  Closed(t)[fd] = IF t[fd].owner = "call" THEN NoFd ELSE t[fd]
  BY DEF Closed
<1>2. Closed(t) \in [Fds -> OpenFds \cup {NoFd, LostFd}]
  BY DEF Closed
<1>3. NoFd.owner # "call"
  BY DEF NoFd
<1> QED
  BY <1>1, <1>2, <1>3

\* A call returns, and is no stat, or one that fails.
LEMMA Answers ==
  ASSUME pc' = "returned", buf' \in BufType, \A fd \in Fds : table'[fd].owner # "call",
         call'.op \notin {"fstat", "lstat"} \/ ret' # "0"
  PROVE  CallRight'
BY DEF CallRight, BufType, Idle, StatTrue, Answered

\* The program stops.
LEMMA Stops ==
  ASSUME CallRight, pc' \in {"aborted", "crashed"}, buf' = buf
  PROVE  CallRight'
BY DEF CallRight, BufType, Idle, StatTrue, Answered

\* The client does something between two calls.
LEMMA StaysIdle ==
  ASSUME CallRight, Idle, UNCHANGED <<pc, buf, ret>>, \A fd \in Fds : table'[fd].owner # "call"
  PROVE  CallRight'
BY DEF CallRight, BufType, Idle, StatTrue, Answered

\* Between two calls there is no descriptor of lstat().
LEMMA IdleTable ==
  ASSUME CallRight, pc \in {"idle", "returned", "set"}
  PROVE  \A fd \in Fds : table[fd].owner # "call"
BY DEF CallRight

\* A descriptor is taken that is no stream's.
LEMMA TableGains ==
  ASSUME TableRight, StillThere, streams' = streams,
         NEW fd \in Fds, NEW entry \in OpenFds \cup {LostFd}, table[fd] = NoFd,
         entry.owner # "stream", entry \in OpenFds => attrs'[entry.file] # Absent,
         table' = [table EXCEPT ![fd] = entry]
  PROVE  TableRight'
<1>1. table' \in [Fds -> OpenFds \cup {NoFd, LostFd}] /\ table[fd].owner = "none"
  BY DEF TableRight, NoFd
<1>2. table'[fd] = entry /\ \A g \in Fds \ {fd} : table'[g] = table[g]
  BY DEF TableRight
<1> QED
  BY <1>1, <1>2, TableKept

\* Nothing happens to files, descriptors and streams.
LEMMA NothingChanges ==
  ASSUME WinFilesInvariant, UNCHANGED <<disk, name, table, streams>>
  PROVE  DiskRight' /\ TableRight'
<1>1. DiskRight' /\ StillThere
  BY DiskKept DEF WinFilesInvariant, DiskRight, disk
<1>2. TableRight'
  BY <1>1, TableKept DEF WinFilesInvariant, TableRight
<1> QED
  BY <1>1, <1>2

\* Upset keeps its count.
LEMMA UpsetsCounted ==
  ASSUME WinFilesInvariant, Upset \/ UNCHANGED upsets
  PROVE  upsets' \in 0 .. MaxUpsets
BY WinFilesAssumption DEF WinFilesInvariant, Upset

\* open() that succeeds: the file is there, and is as asked for when it is new.
LEMMA OpenDisk ==
  ASSUME DiskRight, NEW f \in Files, NEW flags, NEW perm, NEW fd \in Fds, NEW entry, Openable(f),
         OpenSucceeds(f, flags, perm, fd, entry), name' = name
  PROVE  /\ DiskRight' /\ StillThere /\ attrs'[f] # Absent
         /\ table[fd] = NoFd /\ table' = [table EXCEPT ![fd] = entry]
<1> DEFINE replaced == Creates(flags) /\ (~Exists(f) \/ "O_TRUNC" \in flags)
<1>1. OpenErrors(f, flags) = {} /\ table[fd] = NoFd /\ table' = [table EXCEPT ![fd] = entry]
  BY DEF OpenSucceeds, FreeFd, FreeFds
<1>2. (Creates(flags) => Kind[f] = "file") /\ (~Creates(flags) => Exists(f))
  BY <1>1 DEF OpenErrors, Flag, Openable
<1>3. CASE replaced
  <2> DEFINE a == {"ARCHIVE"} \cup Flag(~AnyMayWrite(perm), "READONLY")
  <2>1. /\ attrs' = [attrs EXCEPT ![f] = a] /\ data' = [data EXCEPT ![f] = FALSE]
        /\ asked' = [asked EXCEPT ![f] = Wanted(perm)]
    BY <1>3 DEF OpenSucceeds
  <2>2. a \in SUBSET Attributes /\ a \ Settable = KindAttrs(f)
    BY <1>2, <1>3 DEF Attributes, Settable, KindAttrs, Flag
  <2>3. /\ Wanted(perm) \in {"none", "w", "ro"}
        /\ Wanted(perm) = "ro" => "READONLY" \in a
        /\ Wanted(perm) = "w" => "READONLY" \notin a
    BY WantedMode DEF Flag
  <2>4. data' \in [Files -> BOOLEAN]
    BY <2>1 DEF DiskRight
  <2> HIDE DEF a
  <2> QED
    BY <1>1, <2>1, <2>2, <2>3, <2>4, DiskSet
<1>4. CASE ~replaced
  <2>1. UNCHANGED <<attrs, data, asked>>
    BY <1>4 DEF OpenSucceeds, disk
  <2>2. attrs'[f] # Absent
    BY <1>2, <1>4, <2>1 DEF Exists
  <2> QED
    BY <1>1, <2>1, <2>2, DiskKept DEF DiskRight
<1> QED
  BY <1>3, <1>4

\* An entry made by open() is of the right type.
LEMMA OpenedType ==
  ASSUME NEW f \in Files, NEW flags, NEW owner \in {"client", "stream", "call"}
  PROVE  /\ Opened(f, flags, owner) \in OpenFds
         /\ Opened(f, flags, owner).file = f /\ Opened(f, flags, owner).owner = owner
         /\ Opened(f, flags, owner).can = Access(flags)
         /\ Opened(f, flags, owner).append = ("O_APPEND" \in flags)
<1>1. Access(flags) \in SUBSET {"r", "w"} /\ ("O_APPEND" \in flags) \in BOOLEAN
  BY ModeTypes
<1> QED
  BY <1>1 DEF Opened, OpenFds

-----------------------------------------------------------------------------
(* The steps: opening and closing. *)

LEMMA FopenStep ==
  ASSUME WinFilesInvariant, NEW f \in Files, NEW mode \in Modes, Fopen(f, mode)
  PROVE  WinFilesInvariant'
<1> USE DEF WinFilesInvariant
<1> DEFINE flags == __fmodeflags(mode)
           can == __fixup_fmode(mode)
<1>1. /\ Idle /\ Openable(f) /\ pc' = "returned" /\ call'.op = "fopen"
      /\ UNCHANGED <<name, hfi, buf, upsets>>
  BY DEF Fopen, Answer
<1>2. \A fd \in Fds : table[fd].owner # "call"
  BY <1>1, IdleTable DEF Idle
<1>3. CASE UNCHANGED <<disk, table, streams>>
  <2>1. CallRight'
    BY <1>1, <1>2, <1>3, Answers DEF CallRight, BufType
  <2> QED
    BY <1>1, <1>3, <2>1, NothingChanges
<1>4. ASSUME NEW fd \in Fds, OpenSucceeds(f, flags, RwForAll, fd, LostFd), UNCHANGED streams
      PROVE  WinFilesInvariant'
  <2>1. /\ DiskRight' /\ StillThere /\ table[fd] = NoFd
        /\ table' = [table EXCEPT ![fd] = LostFd]
    BY <1>1, <1>4, OpenDisk
  <2>2. LostFd.owner = "lost" /\ LostFd \notin OpenFds
    BY DEF LostFd, OpenFds
  <2>3. TableRight'
    BY <1>4, <2>1, <2>2, TableGains
  <2>4. \A g \in Fds : table'[g].owner # "call"
    BY <1>2, <2>1, <2>2 DEF TableRight
  <2>5. CallRight'
    BY <1>1, <2>4, Answers DEF CallRight, BufType
  <2> QED
    BY <1>1, <2>1, <2>3, <2>5
<1>5. ASSUME NEW fd \in Fds, NEW s \in FreeStreams, flags # Invalid, can # Invalid,
             OpenSucceeds(f, flags, RwForAll, fd, Opened(f, flags, "stream")),
             streams' = [streams EXCEPT ![s] = [by |-> "fopen", fd |-> fd, can |-> can]]
      PROVE  WinFilesInvariant'
  <2> DEFINE entry == Opened(f, flags, "stream")
             stream == [by |-> "fopen", fd |-> fd, can |-> can]
  <2>1. /\ DiskRight' /\ StillThere /\ table[fd] = NoFd /\ attrs'[f] # Absent
        /\ table' = [table EXCEPT ![fd] = entry]
    BY <1>1, <1>5, OpenDisk
  <2>2. /\ entry \in OpenFds /\ entry.file = f /\ entry.owner = "stream"
        /\ entry.can = Access(flags) /\ entry.append = ("O_APPEND" \in flags)
    BY OpenedType
  <2>3. can \in SUBSET {"r", "w", "append"} /\ can = entry.can \cup Flag(entry.append, "append")
    BY <1>5, <2>2, ModeTypes, ConversionsAgree
  <2>4. stream \in OpenStreams /\ stream.fd = fd /\ stream.can = can
    BY <2>3 DEF OpenStreams
  <2>5. table[fd].owner # "stream"
    BY <2>1 DEF NoFd
  <2> HIDE DEF entry, stream, can
  <2>6. streams' = [streams EXCEPT ![s] = stream]
    BY <1>5 DEF stream, can
  <2>7. TableRight'
    BY <2>1, <2>2, <2>3, <2>4, <2>5, <2>6, StreamMade
  <2>8. \A g \in Fds : table'[g].owner # "call"
    BY <1>2, <2>1, <2>2 DEF TableRight
  <2>9. CallRight'
    BY <1>1, <2>8, Answers DEF CallRight, BufType
  <2> QED
    BY <1>1, <2>1, <2>7, <2>9
<1> QED
  BY <1>3, <1>4, <1>5 DEF Fopen, OpenFails

LEMMA FdopenStep ==
  ASSUME WinFilesInvariant, NEW fd \in Fds, NEW mode \in Modes, Fdopen(fd, mode)
  PROVE  WinFilesInvariant'
<1> USE DEF WinFilesInvariant
<1> DEFINE can == __fixup_fmode(mode)
<1>1. /\ Idle /\ pc' = "returned" /\ call'.op = "fdopen"
      /\ table[fd].owner \in {"client", "none"}
      /\ UNCHANGED <<disk, name, hfi, buf, upsets>>
  BY DEF Fdopen
<1>2. \A g \in Fds : table[g].owner # "call"
  BY <1>1, IdleTable DEF Idle
<1>3. CASE UNCHANGED <<table, streams>>
  <2>1. CallRight'
    BY <1>1, <1>2, <1>3, Answers DEF CallRight, BufType
  <2> QED
    BY <1>1, <1>3, <2>1, NothingChanges
<1>4. ASSUME NEW s \in FreeStreams, can # Invalid, Open(fd),
             streams' = [streams EXCEPT ![s] = [by |-> "fdopen", fd |-> fd, can |-> can]],
             table' = [table EXCEPT ![fd].owner = "stream"]
      PROVE  WinFilesInvariant'
  <2> DEFINE entry == [table[fd] EXCEPT !.owner = "stream"]
             stream == [by |-> "fdopen", fd |-> fd, can |-> can]
  <2>1. DiskRight' /\ StillThere
    BY <1>1, DiskKept DEF DiskRight, disk
  <2>2. table[fd] \in OpenFds
    BY <1>1, <1>4 DEF TableRight, Open, NoFd, LostFd
  <2>3. /\ entry \in OpenFds /\ entry.file = table[fd].file /\ entry.file \in Files
        /\ entry.owner = "stream"
    BY <2>2 DEF OpenFds
  <2>4. attrs'[entry.file] # Absent
    BY <2>1, <2>2, <2>3 DEF StillThere, TableRight
  <2>5. stream \in OpenStreams /\ stream.fd = fd /\ stream.by = "fdopen"
    BY <1>4, ModeTypes DEF OpenStreams
  <2>6. streams' = [streams EXCEPT ![s] = stream] /\ table' = [table EXCEPT ![fd] = entry]
    BY <1>4 DEF TableRight
  <2>7. table[fd].owner # "stream"
    BY <1>1
  <2> HIDE DEF entry, stream
  <2>8. TableRight'
    BY <2>1, <2>3, <2>4, <2>5, <2>6, <2>7, StreamMade
  <2>9. \A g \in Fds : table'[g].owner # "call"
    BY <1>2, <2>3, <2>6 DEF TableRight
  <2>10. CallRight'
    BY <1>1, <2>9, Answers DEF CallRight, BufType
  <2> QED
    BY <1>1, <2>1, <2>8, <2>10
<1> QED
  BY <1>3, <1>4 DEF Fdopen

LEMMA CreatStep ==
  ASSUME WinFilesInvariant, NEW f \in Files, NEW perm \in Perms, Creat(f, perm)
  PROVE  WinFilesInvariant'
<1> USE DEF WinFilesInvariant
<1>1. /\ Idle /\ Openable(f) /\ pc' = "returned" /\ call'.op = "creat"
      /\ UNCHANGED <<name, streams, hfi, buf, upsets>>
  BY DEF Creat, Answer
<1>2. \A fd \in Fds : table[fd].owner # "call"
  BY <1>1, IdleTable DEF Idle
<1>3. CASE UNCHANGED <<disk, table>>
  <2>1. CallRight'
    BY <1>1, <1>2, <1>3, Answers DEF CallRight, BufType
  <2> QED
    BY <1>1, <1>3, <2>1, NothingChanges
<1>4. ASSUME NEW fd \in Fds,
             OpenSucceeds(f, CREAT_OFLAGS, perm, fd, Opened(f, CREAT_OFLAGS, "client"))
      PROVE  WinFilesInvariant'
  <2> DEFINE entry == Opened(f, CREAT_OFLAGS, "client")
  <2>1. /\ DiskRight' /\ StillThere /\ table[fd] = NoFd /\ attrs'[f] # Absent
        /\ table' = [table EXCEPT ![fd] = entry]
    BY <1>1, <1>4, OpenDisk
  <2>2. entry \in OpenFds /\ entry.file = f /\ entry.owner = "client"
    BY OpenedType
  <2> HIDE DEF entry
  <2>3. TableRight'
    BY <1>1, <2>1, <2>2, TableGains
  <2>4. \A g \in Fds : table'[g].owner # "call"
    BY <1>2, <2>1, <2>2 DEF TableRight
  <2>5. CallRight'
    BY <1>1, <2>4, Answers DEF CallRight, BufType
  <2> QED
    BY <1>1, <2>1, <2>3, <2>5
<1> QED
  BY <1>3, <1>4 DEF Creat, OpenFails

LEMMA CreateFileWStep ==
  ASSUME WinFilesInvariant, NEW f \in Files, NEW disposition \in Dispositions,
         CreateFileW(f, disposition)
  PROVE  WinFilesInvariant'
<1> USE DEF WinFilesInvariant
<1>1. Idle /\ Kind[f] = "file" /\ UNCHANGED <<name, table, streams, hfi, buf, errno, upsets>>
  BY DEF CreateFileW
<1>2. \A fd \in Fds : table[fd].owner # "call"
  BY <1>1, IdleTable DEF Idle
<1>3. CallRight'
  <2>1. CASE pc' = "aborted"
    BY <1>1, <2>1, Stops
  <2>2. CASE pc' # "aborted"
    <3>1. pc' = "returned" /\ call'.op = "CreateFileW"
      BY <2>2 DEF CreateFileW, Answer
    <3> QED
      BY <1>1, <1>2, <3>1, Answers DEF CallRight, BufType
  <2> QED
    BY <2>1, <2>2
<1>4. CASE UNCHANGED disk
  BY <1>1, <1>3, <1>4, NothingChanges
<1>5. CASE /\ attrs' = [attrs EXCEPT ![f] = {"ARCHIVE"}] /\ data' = [data EXCEPT ![f] = FALSE]
           /\ asked' = [asked EXCEPT ![f] = "none"]
  <2>1. {"ARCHIVE"} \in SUBSET Attributes /\ {"ARCHIVE"} \ Settable = KindAttrs(f)
    BY <1>1 DEF Attributes, Settable, KindAttrs, Flag
  <2>2. data' \in [Files -> BOOLEAN]
    BY <1>5 DEF DiskRight
  <2>3. DiskRight' /\ StillThere
    BY <1>1, <1>5, <2>1, <2>2, DiskSet
  <2>4. TableRight'
    BY <1>1, <2>3, TableKept DEF TableRight
  <2> QED
    BY <1>1, <1>3, <2>3, <2>4
<1> QED
  BY <1>4, <1>5 DEF CreateFileW

LEMMA FcloseStep ==
  ASSUME WinFilesInvariant, NEW s \in Streams, Fclose(s)
  PROVE  WinFilesInvariant'
<1> USE DEF WinFilesInvariant
<1> DEFINE fd == streams[s].fd
<1>1. /\ Idle /\ streams[s] # NoStream
      /\ table' = [table EXCEPT ![fd] = NoFd] /\ streams' = [streams EXCEPT ![s] = NoStream]
      /\ UNCHANGED <<disk, name, pc, call, hfi, buf, ret, errno, upsets>>
  BY DEF Fclose
<1>2. fd \in Fds /\ streams[s] \in OpenStreams
  BY <1>1 DEF TableRight, OpenStreams
<1> HIDE DEF fd
<1>3. /\ table' \in [Fds -> OpenFds \cup {NoFd, LostFd}]
      /\ streams' \in [Streams -> OpenStreams \cup {NoStream}]
      /\ table'[fd] = NoFd /\ \A g \in Fds \ {fd} : table'[g] = table[g]
      /\ streams'[s] = NoStream /\ \A t \in Streams \ {s} : streams'[t] = streams[t]
  BY <1>1, <1>2 DEF TableRight
<1>4. NoFd.owner = "none" /\ NoFd \notin OpenFds /\ NoStream.by = "none"
  BY DEF NoFd, OpenFds, NoStream
<1>5. \A t \in Streams : streams'[t] # NoStream =>
         /\ t # s /\ streams'[t] = streams[t] /\ streams[t].fd \in Fds \ {fd}
         /\ table'[streams'[t].fd] = table[streams[t].fd]
  BY <1>1, <1>2, <1>3 DEF TableRight, OpenStreams, fd
<1>6. DiskRight' /\ StillThere
  BY <1>1, DiskKept DEF DiskRight, disk
<1>7. ASSUME NEW g \in Fds, table'[g] \in OpenFds
      PROVE  attrs'[table'[g].file] # Absent
  BY <1>1, <1>3, <1>4, <1>7 DEF TableRight, Exists, disk
<1>8. ASSUME NEW g \in Fds, table'[g].owner = "stream"
      PROVE  \E t \in Streams : streams'[t] # NoStream /\ streams'[t].fd = g
  <2>1. g # fd /\ table[g].owner = "stream"
    BY <1>3, <1>4, <1>8
  <2>2. PICK t \in Streams : streams[t] # NoStream /\ streams[t].fd = g
    BY <2>1 DEF TableRight
  <2> QED
    BY <1>3, <2>1, <2>2 DEF fd
<1>9. StreamFitsDescriptor'
  <2> SUFFICES ASSUME NEW t \in Streams, streams'[t].by = "fopen"
               PROVE  streams'[t].can = table'[streams'[t].fd].can
                                          \cup Flag(table'[streams'[t].fd].append, "append")
    BY DEF StreamFitsDescriptor
  <2>1. streams'[t] # NoStream
    BY <1>4
  <2> QED
    BY <1>5, <2>1 DEF TableRight, StreamFitsDescriptor
<1>10. TableRight'
  <2>1. \A t \in Streams : streams'[t] # NoStream => table'[streams'[t].fd].owner = "stream"
    BY <1>5 DEF TableRight
  <2>2. \A t, u \in Streams :
          streams'[t] # NoStream /\ streams'[u] # NoStream /\ streams'[t].fd = streams'[u].fd
            => t = u
    BY <1>5 DEF TableRight
  <2> QED
    BY <1>3, <1>7, <1>8, <1>9, <2>1, <2>2 DEF TableRight, Exists
<1>11. \A g \in Fds : table'[g].owner # "call"
  BY <1>1, <1>3, <1>4, IdleTable DEF Idle
<1>12. CallRight'
  BY <1>1, <1>11, StaysIdle
<1> QED
  BY <1>1, <1>6, <1>10, <1>12

LEMMA CloseStep ==
  ASSUME WinFilesInvariant, NEW fd \in Fds, Close(fd)
  PROVE  WinFilesInvariant'
<1> USE DEF WinFilesInvariant
<1>1. /\ Idle /\ table[fd].owner = "client" /\ table' = [table EXCEPT ![fd] = NoFd]
      /\ UNCHANGED <<disk, name, streams, pc, call, hfi, buf, ret, errno, upsets>>
  BY DEF Close
<1>2. /\ table' \in [Fds -> OpenFds \cup {NoFd, LostFd}]
      /\ table'[fd] = NoFd /\ \A g \in Fds \ {fd} : table'[g] = table[g]
  BY <1>1 DEF TableRight
<1>3. NoFd.owner = "none" /\ NoFd \notin OpenFds
  BY DEF NoFd, OpenFds
<1>4. DiskRight' /\ StillThere
  BY <1>1, DiskKept DEF DiskRight, disk
<1>5. TableRight'
  BY <1>1, <1>2, <1>3, <1>4, TableKept
<1>6. \A g \in Fds : table'[g].owner # "call"
  BY <1>1, <1>2, <1>3, IdleTable DEF Idle
<1>7. CallRight'
  BY <1>1, <1>6, StaysIdle
<1> QED
  BY <1>1, <1>4, <1>5, <1>7

LEMMA WriteStep ==
  ASSUME WinFilesInvariant, NEW fd \in Fds, Write(fd)
  PROVE  WinFilesInvariant'
<1> USE DEF WinFilesInvariant
<1>1. /\ Idle /\ data' = [data EXCEPT ![table[fd].file] = TRUE]
      /\ UNCHANGED <<attrs, asked, name, table, streams, pc, call, hfi, buf, ret, errno, upsets>>
  BY DEF Write
<1>2. DiskRight' /\ StillThere
  BY <1>1, DiskKept DEF DiskRight
<1>3. TableRight'
  BY <1>1, <1>2, TableKept DEF TableRight
<1>4. CallRight'
  BY <1>1, IdleTable, StaysIdle DEF Idle
<1> QED
  BY <1>1, <1>2, <1>3, <1>4

\* The client takes an answer; chown() and mknod(), which only look.
LEMMA ShortStep ==
  ASSUME WinFilesInvariant, TakeAnswer \/ (\E f \in Files : Chown(f) \/ Mknod(f))
  PROVE  WinFilesInvariant'
<1> USE DEF WinFilesInvariant
<1>1. UNCHANGED <<disk, name, table, streams, upsets>>
  BY DEF TakeAnswer, Chown, Mknod
<1>2. CASE TakeAnswer
  <2>1. NoStat \in BufType
    BY DEF NoStat, BufType
  <2>2. \A fd \in Fds : table'[fd].owner # "call"
    BY <1>1, <1>2, IdleTable DEF TakeAnswer
  <2>3. CallRight'
    BY <1>2, <2>1, <2>2 DEF TakeAnswer, CallRight, BufType, Idle, StatTrue, Answered
  <2> QED
    BY <1>1, <2>3, NothingChanges
<1>3. ASSUME NEW f \in Files, Chown(f) \/ Mknod(f)
      PROVE  WinFilesInvariant'
  <2>1. Idle /\ pc' = "returned" /\ call'.op \in {"chown", "mknod"} /\ buf' = buf
    BY <1>3 DEF Chown, Mknod, Answer
  <2>2. \A fd \in Fds : table'[fd].owner # "call"
    BY <1>1, <2>1, IdleTable DEF Idle
  <2>3. CallRight'
    BY <2>1, <2>2, Answers DEF CallRight, BufType
  <2> QED
    BY <1>1, <2>3, NothingChanges
<1> QED
  BY <1>2, <1>3

-----------------------------------------------------------------------------
(* The steps of fchmod(), fstat() and lstat(). *)

\* A call of several steps returns: its descriptor is closed, the streams are left.
LEMMA Returns ==
  ASSUME TableRight, StillThere, streams' = streams,
         NEW t \in [Fds -> OpenFds \cup {NoFd, LostFd}],
         \A fd \in Fds : t[fd] = table[fd] \/ (table[fd] = NoFd /\ t[fd] = LostFd),
         table' = Closed(t)
  PROVE  TableRight' /\ \A fd \in Fds : table'[fd].owner # "call"
<1>1. /\ table' \in [Fds -> OpenFds \cup {NoFd, LostFd}]
      /\ \A fd \in Fds : table'[fd] = t[fd] \/ (t[fd].owner = "call" /\ table'[fd] = NoFd)
      /\ \A fd \in Fds : table'[fd].owner # "call"
  BY ClosedTable
<1>2. /\ NoFd.owner = "none" /\ NoFd \notin OpenFds
      /\ LostFd.owner = "lost" /\ LostFd \notin OpenFds
  BY DEF NoFd, LostFd, OpenFds
<1>3. ASSUME NEW fd \in Fds
      PROVE  \/ table'[fd] = table[fd]
             \/ /\ table[fd].owner # "stream" /\ table'[fd].owner # "stream"
                /\ table'[fd] \in OpenFds => attrs'[table'[fd].file] # Absent
  BY <1>1, <1>2
<1> QED
  BY <1>1, <1>3, TableKept

\* A call that has to look more than once begins.
LEMMA Begins ==
  ASSUME CallRight, pc' = "info", buf' = buf,
         call' \in FchmodCalls \cup StatCalls({"fstat", "lstat"}),
         table'[call'.fd] \in OpenFds,
         \A fd \in Fds : table'[fd].owner = "call" => call'.op = "lstat"
  PROVE  CallRight'
BY DEF CallRight, Idle, StatTrue, Answered

\* The file of the descriptor at hand is there.
LEMMA FileThere ==
  ASSUME WinFilesInvariant, pc \in {"info", "set", "type"}
  PROVE  /\ call.fd \in Fds /\ table[call.fd] \in OpenFds /\ File \in Files
         /\ attrs[File] \in SUBSET Attributes /\ attrs[File] \ Settable = KindAttrs(File)
<1>1. table[call.fd] \in OpenFds
  BY DEF WinFilesInvariant, CallRight
<1>2. call.fd \in Fds
  BY DEF WinFilesInvariant, CallRight, FchmodCalls, StatCalls
<1>3. File \in Files /\ Exists(File)
  BY <1>1, <1>2 DEF WinFilesInvariant, TableRight, OpenFds, File
<1>4. ASSUME NEW f \in Files, Exists(f)
      PROVE  attrs[f] \in SUBSET Attributes /\ attrs[f] \ Settable = KindAttrs(f)
  <2>1. attrs[f] \in (SUBSET Attributes) \cup {Absent} /\ attrs[f] # Absent
    BY <1>4 DEF WinFilesInvariant, DiskRight, Exists
  <2>2. attrs[f] \ Settable = KindAttrs(f)
    BY <1>4 DEF WinFilesInvariant, DiskRight
  <2> QED
    BY <2>1, <2>2
<1> QED
  BY <1>1, <1>2, <1>3, <1>4, Zenon

LEMMA FchmodStep ==
  ASSUME WinFilesInvariant, NEW fd \in Fds, NEW perm \in Perms, Fchmod(fd, perm)
  PROVE  WinFilesInvariant'
<1> USE DEF WinFilesInvariant
<1>1. /\ Idle /\ table[fd].owner \in {"client", "stream", "none"}
      /\ call' = [op |-> "fchmod", fd |-> fd, perm |-> perm, raced |-> FALSE]
      /\ UNCHANGED <<disk, name, table, streams, hfi, buf, upsets>>
  BY DEF Fchmod
<1>2. \A g \in Fds : table'[g].owner # "call"
  BY <1>1, IdleTable DEF Idle
<1>3. call' \in FchmodCalls /\ call'.fd = fd /\ call'.op = "fchmod"
  BY <1>1 DEF FchmodCalls
<1>4. CASE pc' = "returned"
  <2>1. CallRight'
    BY <1>1, <1>2, <1>3, <1>4, Answers DEF CallRight, BufType
  <2> QED
    BY <1>1, <2>1, NothingChanges
<1>5. CASE Open(fd) /\ pc' = "info"
  <2>1. table[fd] \in OpenFds
    BY <1>1, <1>5 DEF TableRight, Open, LostFd
  <2>2. CallRight'
    BY <1>1, <1>2, <1>3, <1>5, <2>1, Begins
  <2> QED
    BY <1>1, <2>2, NothingChanges
<1> QED
  BY <1>4, <1>5 DEF Fchmod

LEMMA FstatStep ==
  ASSUME WinFilesInvariant, NEW fd \in Fds, Fstat(fd)
  PROVE  WinFilesInvariant'
<1> USE DEF WinFilesInvariant
<1>1. /\ Idle /\ table[fd].owner \in {"client", "stream", "none"}
      /\ call' = StatCall("fstat", fd)
      /\ UNCHANGED <<disk, name, table, streams, hfi, buf, upsets>>
  BY DEF Fstat
<1>2. \A g \in Fds : table'[g].owner # "call"
  BY <1>1, IdleTable DEF Idle
<1>3. call' \in StatCalls({"fstat", "lstat"}) /\ call'.fd = fd
  BY <1>1 DEF StatCall, StatCalls
<1>4. CASE pc' = "returned" /\ ret' = "-1"
  <2>1. CallRight'
    BY <1>1, <1>2, <1>4, Answers DEF CallRight, BufType
  <2> QED
    BY <1>1, <2>1, NothingChanges
<1>5. CASE Open(fd) /\ pc' = "info"
  <2>1. table[fd] \in OpenFds
    BY <1>1, <1>5 DEF TableRight, Open, LostFd
  <2>2. CallRight'
    BY <1>1, <1>2, <1>3, <1>5, <2>1, Begins
  <2> QED
    BY <1>1, <2>2, NothingChanges
<1> QED
  BY <1>4, <1>5 DEF Fstat

LEMMA LstatStep ==
  ASSUME WinFilesInvariant, NEW f \in Files, Lstat(f)
  PROVE  WinFilesInvariant'
<1> USE DEF WinFilesInvariant
<1>1. Idle /\ UNCHANGED <<disk, name, streams, hfi, buf>>
  BY DEF Lstat
<1>2. \A g \in Fds : table[g].owner # "call"
  BY <1>1, IdleTable DEF Idle
<1>3. ASSUME NEW fd \in Fds, Exists(f), fd \in FreeFd,
             table' = [table EXCEPT ![fd] = SymlinkFd(f)], call' = StatCall("lstat", fd),
             pc' = "info", UNCHANGED <<ret, errno, upsets>>
      PROVE  WinFilesInvariant'
  <2>1. DiskRight' /\ StillThere
    BY <1>1, DiskKept DEF DiskRight, disk
  <2>2. /\ SymlinkFd(f) \in OpenFds /\ SymlinkFd(f).owner = "call" /\ SymlinkFd(f).file = f
        /\ table[fd] = NoFd
    BY <1>3 DEF SymlinkFd, OpenFds, FreeFd, FreeFds
  <2>3. attrs'[f] # Absent
    BY <1>1, <1>3 DEF Exists, disk
  <2>4. TableRight'
    BY <1>1, <1>3, <2>1, <2>2, <2>3, TableGains
  <2>5. call' \in StatCalls({"fstat", "lstat"}) /\ call'.fd = fd /\ call'.op = "lstat"
    BY <1>3 DEF StatCall, StatCalls
  <2>6. table'[call'.fd] \in OpenFds
    BY <1>3, <2>2, <2>5 DEF TableRight
  <2>7. CallRight'
    BY <1>1, <1>3, <2>5, <2>6, Begins
  <2> QED
    BY <1>3, <2>1, <2>4, <2>7
<1>4. CASE /\ OpenSymlinkError(Exists(f)) /\ Answer(StatCall("lstat", 0), "-1")
           /\ UNCHANGED table
  <2>1. CallRight'
    BY <1>1, <1>2, <1>4, Answers DEF CallRight, BufType, Answer
  <2>2. upsets' \in 0 .. MaxUpsets
    BY <1>4, UpsetsCounted DEF OpenSymlinkError
  <2> QED
    BY <1>1, <1>4, <2>1, <2>2, NothingChanges
<1> QED
  BY <1>1, <1>3, <1>4 DEF Lstat

\* A call of several steps fails.
LEMMA EndsBadlyStep ==
  ASSUME WinFilesInvariant, EndsBadly("-1"), Upset \/ UNCHANGED upsets
  PROVE  WinFilesInvariant'
<1> USE DEF WinFilesInvariant
<1>1. /\ pc' = "returned" /\ ret' = "-1" /\ table' = Closed(table)
      /\ UNCHANGED <<disk, name, streams, call, hfi, buf>>
  BY DEF EndsBadly, Return, ReturnWith
<1>2. DiskRight' /\ StillThere
  BY <1>1, DiskKept DEF DiskRight, disk
<1>3. TableRight' /\ \A fd \in Fds : table'[fd].owner # "call"
  BY <1>1, <1>2, Returns DEF TableRight
<1>4. CallRight'
  BY <1>1, <1>3, Answers DEF CallRight, BufType
<1> QED
  BY <1>2, <1>3, <1>4, UpsetsCounted

LEMMA FchmodReadsStep ==
  ASSUME WinFilesInvariant, FchmodReads
  PROVE  WinFilesInvariant'
<1> USE DEF WinFilesInvariant
<1>1. /\ pc = "info" /\ call.op = "fchmod" /\ hfi' = attrs[File]
      /\ UNCHANGED <<attrs, data, name, streams, call, buf, errno, upsets>>
  BY DEF FchmodReads
<1>2. /\ call.fd \in Fds /\ table[call.fd] \in OpenFds /\ File \in Files
      /\ attrs[File] \in SUBSET Attributes /\ attrs[File] \ Settable = KindAttrs(File)
  BY <1>1, FileThere
<1>3. call \in FchmodCalls
  BY <1>1 DEF CallRight, StatCalls
<1>4. CASE /\ NewAttr(attrs[File], call.perm) = attrs[File]
           /\ Given(File, call.perm) /\ Return("0")
  <2> DEFINE q == IF call.raced THEN "none" ELSE Wanted(call.perm)
  <2>1. /\ q \in {"none", "w", "ro"}
        /\ q = "ro" => "READONLY" \in attrs[File]
        /\ q = "w" => "READONLY" \notin attrs[File]
    BY <1>4, WantedMode DEF NewAttr
  <2>2. attrs' = [attrs EXCEPT ![File] = attrs[File]] /\ asked' = [asked EXCEPT ![File] = q]
    BY <1>1, <1>2, <1>4 DEF Given, DiskRight
  <2> HIDE DEF q
  <2>d. data' \in [Files -> BOOLEAN]
    BY <1>1 DEF DiskRight
  <2>f. PICK f \in Files : f = File
    BY <1>2
  <2>3. DiskRight' /\ StillThere
    <3> DEFINE a == attrs[f]
    <3>1. /\ a \in SUBSET Attributes /\ a \ Settable = KindAttrs(f)
          /\ q = "w" => "READONLY" \notin a \/ a = {"READONLY"}
          /\ q = "ro" => "READONLY" \in a
          /\ attrs' = [attrs EXCEPT ![f] = a] /\ asked' = [asked EXCEPT ![f] = q]
      BY <1>2, <2>1, <2>2, <2>f
    <3>2. name' = name
      BY <1>1
    <3> HIDE DEF a
    <3> QED
      BY <2>1, <2>d, <2>f, <3>1, <3>2, DiskSet
  <2>4. TableRight' /\ \A fd \in Fds : table'[fd].owner # "call"
    BY <1>1, <1>4, <2>3, Returns DEF TableRight, Return, ReturnWith
  <2>5. CallRight'
    BY <1>1, <1>4, <2>4, Answers DEF CallRight, BufType, Return, ReturnWith
  <2> QED
    BY <1>1, <2>3, <2>4, <2>5
<1>5. CASE pc' = "set" /\ UNCHANGED <<ret, table, asked>>
  <2>1. DiskRight' /\ TableRight'
    BY <1>1, <1>5, NothingChanges DEF disk
  <2>2. \A fd \in Fds : table[fd].owner # "call"
    BY <1>1 DEF CallRight
  <2>3. File' = File
    BY <1>1, <1>5 DEF File
  <2>4. CallRight'
    BY <1>1, <1>2, <1>3, <1>5, <2>2, <2>3 DEF CallRight, Idle, StatTrue, Answered, KindAttrs
  <2> QED
    BY <1>1, <2>1, <2>4
<1> QED
  BY <1>4, <1>5 DEF FchmodReads

LEMMA FchmodSetsStep ==
  ASSUME WinFilesInvariant, FchmodSets
  PROVE  WinFilesInvariant'
<1> USE DEF WinFilesInvariant
<1> DEFINE new == NewAttr(hfi, call.perm)
           a == IF new = {} THEN attrs[File] ELSE new
           q == IF call.raced THEN "none" ELSE Wanted(call.perm)
<1>1. /\ pc = "set" /\ attrs' = [attrs EXCEPT ![File] = a] /\ asked' = [asked EXCEPT ![File] = q]
      /\ pc' = "returned" /\ table' = Closed(table)
      /\ UNCHANGED <<data, name, streams, call, hfi, buf, errno, upsets>>
  <2>1. File \in Files
    BY FileThere DEF FchmodSets
  <2> QED
    BY <2>1 DEF FchmodSets, Given, Return, ReturnWith, DiskRight
<1>2. /\ File \in Files
      /\ attrs[File] \in SUBSET Attributes /\ attrs[File] \ Settable = KindAttrs(File)
  BY <1>1, FileThere
<1>3. /\ call \in FchmodCalls /\ hfi \in SUBSET Attributes /\ hfi \ Settable = KindAttrs(File)
      /\ ~call.raced => hfi = attrs[File]
  BY <1>1 DEF CallRight
<1>4. new = IF AnyMayWrite(call.perm) THEN hfi \ {"READONLY"} ELSE hfi \cup {"READONLY"}
  BY DEF NewAttr
<1>5. a \in SUBSET Attributes /\ a \ Settable = KindAttrs(File)
  BY <1>2, <1>3, <1>4 DEF Attributes, Settable
<1>6. /\ q \in {"none", "w", "ro"}
      /\ q = "ro" => "READONLY" \in a
      /\ q = "w" => "READONLY" \notin a \/ a = {"READONLY"}
  BY <1>2, <1>3, <1>4, WantedMode
<1> HIDE DEF new, a, q
<1>d. data' \in [Files -> BOOLEAN]
  BY <1>1 DEF DiskRight
<1>f. PICK f \in Files : f = File
  BY <1>2
<1>7. DiskRight' /\ StillThere
  <2>1. /\ a \in SUBSET Attributes /\ a \ Settable = KindAttrs(f)
        /\ q \in {"none", "w", "ro"}
        /\ q = "w" => "READONLY" \notin a \/ a = {"READONLY"}
        /\ q = "ro" => "READONLY" \in a
        /\ attrs' = [attrs EXCEPT ![f] = a] /\ asked' = [asked EXCEPT ![f] = q]
    BY <1>1, <1>5, <1>6, <1>f
  <2>2. name' = name
    BY <1>1
  <2> QED
    BY <1>d, <1>f, <2>1, <2>2, DiskSet
<1>8. TableRight' /\ \A fd \in Fds : table'[fd].owner # "call"
  BY <1>1, <1>7, Returns DEF TableRight
<1>9. CallRight'
  BY <1>1, <1>3, <1>8, Answers DEF CallRight, BufType, FchmodCalls
<1> QED
  BY <1>1, <1>7, <1>8, <1>9

LEMMA FailingStep ==
  ASSUME WinFilesInvariant, InfoFails \/ TypeUnknown \/ FchmodDenied \/ GarbagePath
  PROVE  WinFilesInvariant'
<1>1. CASE InfoFails \/ TypeUnknown \/ FchmodDenied
  BY <1>1, EndsBadlyStep DEF InfoFails, TypeUnknown, FchmodDenied
<1>2. CASE GarbagePath
  <2>1. /\ pc' = "crashed"
        /\ UNCHANGED <<disk, name, table, streams, call, hfi, buf, ret, errno, upsets>>
    BY <1>2 DEF GarbagePath
  <2>2. CallRight'
    BY <2>1, Stops DEF WinFilesInvariant
  <2> QED
    BY <2>1, <2>2, NothingChanges DEF WinFilesInvariant
<1> QED
  BY <1>1, <1>2

LEMMA InfoStep ==
  ASSUME WinFilesInvariant, Info
  PROVE  WinFilesInvariant'
<1> USE DEF WinFilesInvariant
<1>1. /\ pc = "info" /\ call.op # "fchmod" /\ hfi' = attrs[File] /\ pc' = "type"
      /\ UNCHANGED <<disk, name, table, streams, call, buf, ret, errno, upsets>>
  BY DEF Info
<1>2. /\ table[call.fd] \in OpenFds
      /\ attrs[File] \in SUBSET Attributes /\ attrs[File] \ Settable = KindAttrs(File)
  BY <1>1, FileThere
<1>3. call \in StatCalls({"fstat", "lstat"})
  BY <1>1 DEF CallRight, FchmodCalls
<1>4. File' = File /\ attrs'[File] = attrs[File]
  BY <1>1 DEF File, disk
<1>5. CallRight'
  BY <1>1, <1>2, <1>3, <1>4 DEF CallRight, Idle, StatTrue, Answered, KindAttrs
<1> QED
  BY <1>1, <1>5, NothingChanges

\* The mode and the size are true of the file when the attributes were read in peace.
LEMMA StatModeStep ==
  ASSUME WinFilesInvariant, NEW path \in Names \cup {NoPath}, StatMode(path)
  PROVE  WinFilesInvariant'
<1> USE DEF WinFilesInvariant
<1> DEFINE type == StatType(FileType)
           asLink == "REPARSE_POINT" \in hfi
<1>0. PICK f \in Files : f = File
  BY FileThere DEF StatMode
<1>1. /\ pc = "type" /\ FdPath(path)
      /\ call' = [call EXCEPT !.path = path, !.calm = @ /\ path # NoPath /\ ~name[f].long]
      /\ buf' = [type |-> type, w |-> "READONLY" \notin hfi, x |-> Executable(type, path),
                 size |-> IF ~asLink /\ data[f] THEN 1 ELSE 0]
      /\ UNCHANGED <<disk, name, streams, hfi, errno>>
  BY <1>0 DEF StatMode
<1>2. /\ call.fd \in Fds /\ table[call.fd] \in OpenFds
      /\ attrs[f] \in SUBSET Attributes /\ attrs[f] \ Settable = KindAttrs(f)
  BY <1>0, <1>1, FileThere
<1>3. /\ call \in StatCalls({"fstat", "lstat"})
      /\ hfi \in SUBSET Attributes /\ hfi \ Settable = KindAttrs(f)
      /\ ~call.raced => hfi = attrs[f]
  BY <1>0, <1>1 DEF CallRight
<1>4. type = Kind[f] /\ (asLink <=> Kind[f] = "link") /\ Kind[f] \in {"file", "dir", "link", "chr", "fifo"}
  <2>1. Kind[f] \in {"file", "dir", "link", "chr", "fifo"}
    BY WinFilesAssumption
  <2>2. /\ "REPARSE_POINT" \in hfi <=> Kind[f] = "link"
        /\ "DIRECTORY" \in hfi <=> Kind[f] = "dir"
    BY <1>3, <2>1 DEF Settable, KindAttrs, Flag
  <2> QED
    BY <1>0, <2>1, <2>2 DEF StatType, FileType
<1> HIDE DEF type, asLink
<1>5. Executable(type, path) \in BOOLEAN
  BY DEF Executable
<1>6. /\ call' \in StatCalls({"fstat", "lstat", "readlink"})
      /\ call'.op = call.op /\ call'.op # "readlink" /\ call'.fd = call.fd
      /\ call'.path = path /\ call'.raced = call.raced
      /\ call'.calm => path # NoPath /\ ~name[f].long
  BY <1>1, <1>3 DEF StatCalls
<1>7. /\ buf' \in BufType
      /\ buf'.type = type /\ buf'.w = ("READONLY" \notin hfi) /\ buf'.x = Executable(type, path)
  BY <1>1, <1>4, <1>5 DEF BufType
<1>8. call'.calm /\ ~call'.raced => TrueOf(f)'
  <2> SUFFICES ASSUME call'.calm, ~call'.raced
               PROVE  /\ name[f] = call'.path
                      /\ buf'.type = Kind[f]
                      /\ buf'.w = ("READONLY" \notin attrs[f])
                      /\ Kind[f] = "file" /\ LowerCase(name[f].ext) \in Runnable => buf'.x
                      /\ Kind[f] = "link" => ~buf'.x
    BY <1>1 DEF TrueOf, disk
  <2>1. path # NoPath /\ path = name[f]
    BY <1>0, <1>1, <1>6 DEF FdPath
  <2>2. ASSUME Kind[f] = "file", LowerCase(name[f].ext) \in Runnable
        PROVE  buf'.x
    <3>1. HasExecSuffix(path.ext)
      BY <2>1, <2>2, RunnableFound
    <3>2. Executable(type, path)
      BY <1>4, <2>1, <2>2, <3>1 DEF Executable
    <3> QED
      BY <1>7, <3>2
  <2>3. ASSUME Kind[f] = "link"
        PROVE  ~buf'.x
    <3>1. ~Executable(type, path)
      BY <1>4, <2>3 DEF Executable
    <3> QED
      BY <1>7, <3>1
  <2> QED
    BY <1>3, <1>4, <1>6, <1>7, <2>1, <2>2, <2>3
<1>9. upsets' \in 0 .. MaxUpsets
  BY <1>1, UpsetsCounted DEF FdPath
<1>10. CASE asLink /\ path # NoPath /\ pc' = "readlink" /\ UNCHANGED <<ret, table>>
  <2>1. DiskRight' /\ TableRight'
    BY <1>1, <1>10, NothingChanges
  <2>2. \E g \in Files : call'.calm /\ ~call'.raced => TrueOf(g)'
    BY <1>8
  <2>3. CallRight'
    BY <1>1, <1>6, <1>7, <1>10, <2>2 DEF CallRight, Idle, StatTrue, Answered, BufType
  <2> QED
    BY <1>9, <2>1, <2>3
<1>11. CASE ~(asLink /\ path # NoPath) /\ Return("0")
  <2>1. DiskRight' /\ StillThere
    BY <1>1, DiskKept DEF DiskRight, disk
  <2>2. TableRight' /\ \A fd \in Fds : table'[fd].owner # "call"
    BY <1>1, <1>11, <2>1, Returns DEF TableRight, Return, ReturnWith
  <2>3. call'.calm => Kind[f] # "link"
    BY <1>4, <1>6, <1>11
  <2>4. StatTrue'
    BY <1>8, <2>3 DEF StatTrue
  <2>5. CallRight'
    BY <1>7, <1>11, <2>2, <2>4 DEF CallRight, Idle, BufType, Return, ReturnWith
  <2> QED
    BY <1>9, <2>1, <2>2, <2>5
<1> QED
  BY <1>10, <1>11 DEF StatMode, asLink

-----------------------------------------------------------------------------
(* The steps of readlink(), and other processes. *)

LEMMA ReadlinkStep ==
  ASSUME WinFilesInvariant, NEW f \in Files, NEW len \in Lengths, Readlink(f, len)
  PROVE  WinFilesInvariant'
<1> USE DEF WinFilesInvariant
<1>1. /\ Idle /\ call' = [StatCall("readlink", 0) EXCEPT !.path = name[f], !.len = len]
      /\ UNCHANGED <<disk, name, streams, hfi, buf, upsets>>
  BY DEF Readlink
<1>2. \A fd \in Fds : table[fd].owner # "call"
  BY <1>1, IdleTable DEF Idle
<1>3. call' \in StatCalls({"fstat", "lstat", "readlink"}) /\ call'.op = "readlink"
  <2>1. name[f] \in Names /\ 0 \in Fds
    BY WinFilesAssumption DEF DiskRight
  <2> QED
    BY <1>1, <2>1 DEF StatCall, StatCalls
<1>4. DiskRight' /\ StillThere
  BY <1>1, DiskKept DEF DiskRight, disk
<1>5. CASE Return("-1")
  <2>1. TableRight' /\ \A fd \in Fds : table'[fd].owner # "call"
    BY <1>1, <1>4, <1>5, Returns DEF TableRight, Return, ReturnWith
  <2>2. CallRight'
    BY <1>1, <1>3, <1>5, <2>1, Answers DEF CallRight, BufType, Return, ReturnWith
  <2> QED
    BY <1>1, <1>4, <2>1, <2>2
<1>6. CASE pc' = "readlink" /\ UNCHANGED <<table, ret, errno>>
  <2>1. TableRight'
    BY <1>1, <1>6, NothingChanges
  <2>2. CallRight'
    BY <1>1, <1>2, <1>3, <1>6 DEF CallRight, Idle, StatTrue, Answered
  <2> QED
    BY <1>1, <1>4, <2>1, <2>2
<1> QED
  BY <1>5, <1>6 DEF Readlink

\* readlink() answers, to the client or to stat: the size takes the length when it is
\* positive, and has room for the target as the length has.
LEMMA LinkResultStep ==
  ASSUME WinFilesInvariant, pc = "readlink",
         NEW t \in [Fds -> OpenFds \cup {NoFd, LostFd}],
         \A fd \in Fds : t[fd] = table[fd] \/ (table[fd] = NoFd /\ t[fd] = LostFd),
         NEW len \in Int, NEW held \in Nat, len >= 0 => len >= held,
         LinkResult(t, len, held), UNCHANGED <<disk, name, streams, hfi>>,
         Upset \/ UNCHANGED upsets
  PROVE  WinFilesInvariant'
<1> USE DEF WinFilesInvariant
<1>1. /\ pc' = "returned" /\ table' = Closed(t)
      /\ buf' = [buf EXCEPT !.size = IF len > 0 THEN len ELSE 0]
      /\ call' = [call EXCEPT !.calm = @ /\ len >= 0, !.held = held]
  BY DEF LinkResult, ReturnWith
<1>2. DiskRight' /\ StillThere
  BY DiskKept DEF DiskRight, disk
<1>3. TableRight' /\ \A fd \in Fds : table'[fd].owner # "call"
  BY <1>1, <1>2, Returns
<1>4. call \in StatCalls({"fstat", "lstat", "readlink"}) /\ buf \in BufType
  BY DEF CallRight, BufType
<1>5. /\ buf' \in BufType
      /\ buf'.type = buf.type /\ buf'.w = buf.w /\ buf'.x = buf.x
      /\ buf'.size = IF len > 0 THEN len ELSE 0
  BY <1>1, <1>4 DEF BufType
<1>6. /\ call'.op = call.op /\ call'.path = call.path /\ call'.raced = call.raced
      /\ call'.held = held
      /\ call'.calm => call.calm /\ len >= 0
  BY <1>1, <1>4 DEF StatCalls
<1>7. StatTrue'
  <2> SUFFICES ASSUME call'.op \in {"fstat", "lstat"}, call'.calm, ~call'.raced
               PROVE  \E f \in Files : TrueOf(f)' /\ (Kind[f] = "link" => buf'.size >= call'.held)
    BY DEF StatTrue, Answered
  <2>1. PICK f \in Files : TrueOf(f)
    BY <1>6 DEF CallRight
  <2>2. TrueOf(f)'
    BY <1>5, <1>6, <2>1 DEF TrueOf, disk
  <2>3. buf'.size >= call'.held
    BY <1>5, <1>6
  <2> QED
    BY <2>2, <2>3
<1>8. CallRight'
  BY <1>1, <1>3, <1>5, <1>7 DEF CallRight, Idle, BufType
<1> QED
  BY <1>2, <1>3, <1>8, UpsetsCounted

LEMMA ReadlinkEnds ==
  ASSUME WinFilesInvariant,
         \/ ReadlinkCannotOpen
         \/ \E f \in Files, fd \in Fds :
              \/ ReadlinkFails(f, fd) \/ ReadlinkNoName(f, fd)
              \/ \E length \in Targets : ReadlinkConverts(f, fd, length)
  PROVE  WinFilesInvariant'
<1> USE DEF WinFilesInvariant
<1>1. ASSUME NEW fd \in Fds, fd \in FreeFd
      PROVE  /\ [table EXCEPT ![fd] = LostFd] \in [Fds -> OpenFds \cup {NoFd, LostFd}]
             /\ \A g \in Fds :
                  \/ [table EXCEPT ![fd] = LostFd][g] = table[g]
                  \/ table[g] = NoFd /\ [table EXCEPT ![fd] = LostFd][g] = LostFd
  BY <1>1 DEF TableRight, FreeFd, FreeFds
<1>2. table \in [Fds -> OpenFds \cup {NoFd, LostFd}]
  BY DEF TableRight
<1>3. CASE ReadlinkCannotOpen
  BY <1>2, <1>3, LinkResultStep DEF ReadlinkCannotOpen, OpenSymlinkError
<1>4. ASSUME NEW fd \in Fds, pc = "readlink", pc' = "aborted", UNCHANGED <<disk, name, streams, hfi>>,
             UNCHANGED <<table, call, buf, ret>>, UNCHANGED upsets
      PROVE  WinFilesInvariant'
  BY <1>4, NothingChanges, Stops
<1>5. ASSUME NEW f \in Files, NEW fd \in Fds, ReadlinkFails(f, fd)
      PROVE  WinFilesInvariant'
  BY <1>1, <1>5, LinkResultStep DEF ReadlinkFails
<1>6. ASSUME NEW f \in Files, NEW fd \in Fds, ReadlinkNoName(f, fd)
      PROVE  WinFilesInvariant'
  <2>1. pc = "readlink" /\ fd \in FreeFd /\ UNCHANGED <<disk, name, streams, hfi, upsets>>
    BY <1>6 DEF ReadlinkNoName
  <2>2. CASE pc' = "aborted" /\ UNCHANGED <<table, call, buf, ret>>
    BY <1>4, <2>1, <2>2
  <2>3. CASE LinkResult([table EXCEPT ![fd] = LostFd], -1, 0)
    BY <1>1, <2>1, <2>3, LinkResultStep
  <2> QED
    BY <1>6, <2>2, <2>3 DEF ReadlinkNoName
<1>7. ASSUME NEW f \in Files, NEW fd \in Fds, NEW length \in Targets,
             ReadlinkConverts(f, fd, length)
      PROVE  WinFilesInvariant'
  <2>1. /\ pc = "readlink" /\ fd \in FreeFd
        /\ UNCHANGED <<disk, name, streams, hfi, errno, upsets>>
    BY <1>7 DEF ReadlinkConverts
  <2>2. length \in Nat
    BY <1>7, WinFilesAssumption DEF ReadlinkConverts
  <2>3. Chars(2 * length) - 1 = 2 * length
    BY <2>2 DEF Chars
  <2>4. CASE pc' = "aborted" /\ UNCHANGED <<table, call, buf, ret>>
    BY <1>4, <2>1, <2>4
  <2>5. CASE LinkResult([table EXCEPT ![fd] = LostFd], 2 * length, length)
    <3>1. 2 * length \in Int /\ 2 * length >= length
      BY <2>2
    <3> QED
      BY <1>1, <2>1, <2>2, <2>5, <3>1, LinkResultStep
  <2> QED
    BY <1>7, <2>3, <2>4, <2>5 DEF ReadlinkConverts
<1> QED
  BY <1>3, <1>5, <1>6, <1>7

\* What another process does shows in the call that is being made.
LEMMA Races ==
  ASSUME CallRight, Raced, UNCHANGED <<table, streams, pc, hfi, buf, ret>>
  PROVE  CallRight'
<1>1. CASE Idle
  BY <1>1, IdleTable, StaysIdle DEF Idle
<1>2. CASE pc \in {"info", "set", "type", "readlink"} /\ call' = [call EXCEPT !.raced = TRUE]
  <2>1. call \in FchmodCalls \cup StatCalls({"fstat", "lstat", "readlink"})
    BY <1>2 DEF CallRight, StatCalls
  <2>2. call'.op = call.op /\ call'.fd = call.fd /\ call'.raced
    BY <1>2, <2>1 DEF FchmodCalls, StatCalls
  <2>3. /\ call \in FchmodCalls => call' \in FchmodCalls
        /\ call \in StatCalls({"fstat", "lstat"}) => call' \in StatCalls({"fstat", "lstat"})
        /\ call \in StatCalls({"fstat", "lstat", "readlink"}) =>
             call' \in StatCalls({"fstat", "lstat", "readlink"})
    BY <1>2 DEF FchmodCalls, StatCalls
  <2>4. File' = File
    BY <2>2 DEF File
  <2>5. pc \in {"set", "type"} => hfi' \in SUBSET Attributes /\ hfi' \ Settable = KindAttrs(File')
    BY <2>4 DEF CallRight
  <2> QED
    BY <1>2, <2>1, <2>2, <2>3, <2>4, <2>5 DEF CallRight, Idle, StatTrue, Answered, KindAttrs
<1> QED
  BY <1>1, <1>2 DEF Raced

LEMMA OthersStep ==
  ASSUME WinFilesInvariant, NEW f \in Files,
         \/ \E a \in SUBSET Settable : SetAttributes(f, a)
         \/ \E n \in Names : Rename(f, n)
  PROVE  WinFilesInvariant'
<1> USE DEF WinFilesInvariant
<1>1. /\ Upset /\ Raced /\ UNCHANGED <<data, table, streams, pc, hfi, buf, ret>>
  BY DEF SetAttributes, Rename, disk
<1>2. CallRight'
  BY <1>1, Races
<1>3. DiskRight' /\ StillThere
  <2>1. ASSUME NEW a \in SUBSET Settable, SetAttributes(f, a)
        PROVE  DiskRight' /\ StillThere
    <3>1. /\ Kind[f] = "file" /\ attrs' = [attrs EXCEPT ![f] = a]
          /\ asked' = [asked EXCEPT ![f] = "none"] /\ name' = name /\ data' = data
      BY <2>1 DEF SetAttributes
    <3>2. a \in SUBSET Attributes /\ a \ Settable = KindAttrs(f)
      BY <3>1 DEF Attributes, KindAttrs, Flag
    <3>3. data' \in [Files -> BOOLEAN]
      BY <3>1 DEF DiskRight
    <3> QED
      BY <3>1, <3>2, <3>3, DiskSet
  <2>2. ASSUME NEW n \in Names, Rename(f, n)
        PROVE  DiskRight' /\ StillThere
    <3>1. name' = [name EXCEPT ![f] = n] /\ UNCHANGED <<attrs, data, asked>>
      BY <2>2 DEF Rename, disk
    <3>2. name' \in [Files -> Names] /\ data' \in [Files -> BOOLEAN]
      BY <3>1 DEF DiskRight
    <3> QED
      BY <3>1, <3>2, DiskKept
  <2> QED
    BY <2>1, <2>2
<1>4. TableRight'
  BY <1>1, <1>3, TableKept DEF TableRight
<1> QED
  BY <1>1, <1>2, <1>3, <1>4, UpsetsCounted

-----------------------------------------------------------------------------
(* The theorems. *)

LEMMA WinFilesInit == Init => WinFilesInvariant
<1> SUFFICES ASSUME Init PROVE WinFilesInvariant
  OBVIOUS
<1> DEFINE stdin == [file |-> Stdin, can |-> {"r"}, append |-> FALSE, owner |-> "client"]
<1>1. /\ attrs \in [Files -> (SUBSET Attributes) \cup {Absent}]
      /\ \A f \in Files : IF Kind[f] = "file" THEN attrs[f] \in (SUBSET Settable) \cup {Absent}
                          ELSE attrs[f] = KindAttrs(f)
      /\ Exists(Stdin) /\ name = Start /\ data = [f \in Files |-> Kind[f] = "file" /\ Exists(f)]
      /\ table = [fd \in Fds |-> IF fd = 0 THEN stdin ELSE NoFd]
      /\ streams = [s \in Streams |-> NoStream]
      /\ pc = "idle" /\ buf = NoStat /\ ret = "none" /\ upsets = 0
      /\ asked = [f \in Files |-> "none"]
  BY DEF Init
<1>2. ASSUME NEW f \in Files
      PROVE  IF Exists(f) THEN attrs[f] \ Settable = KindAttrs(f) ELSE Kind[f] = "file"
  <2>1. CASE Kind[f] = "file"
    BY <1>1, <2>1 DEF Exists, KindAttrs, Flag
  <2>2. CASE Kind[f] # "file"
    <3>1. attrs[f] = KindAttrs(f)
      BY <1>1, <2>2
    <3>2. KindAttrs(f) # Absent /\ KindAttrs(f) \ Settable = KindAttrs(f)
      BY DEF KindAttrs, Absent, Settable, Flag
    <3> QED
      BY <3>1, <3>2 DEF Exists
  <2> QED
    BY <2>1, <2>2
<1>3. ModeRemembered
  BY <1>1 DEF ModeRemembered
<1>4. DiskRight
  <2>1. data \in [Files -> BOOLEAN] /\ name \in [Files -> Names]
    BY <1>1, WinFilesAssumption
  <2> QED
    BY <1>1, <1>2, <1>3, <2>1 DEF DiskRight
<1>5. stdin \in OpenFds /\ stdin.owner = "client" /\ stdin.file = Stdin /\ Stdin \in Files
  BY WinFilesAssumption DEF OpenFds
<1> HIDE DEF stdin
<1>6. NoFd.owner = "none" /\ NoFd \notin OpenFds /\ NoStream.by = "none"
  BY DEF NoFd, OpenFds, NoStream
<1>7. TableRight
  BY <1>1, <1>5, <1>6 DEF TableRight, StreamFitsDescriptor
<1>8. CallRight
  <2>1. NoStat \in BufType
    BY DEF NoStat, BufType
  <2> QED
    BY <1>1, <1>5, <1>6, <2>1 DEF CallRight, BufType, Idle, StatTrue, Answered
<1> QED
  BY <1>1, <1>4, <1>7, <1>8, WinFilesAssumption DEF WinFilesInvariant

LEMMA WinFilesStep == WinFilesInvariant /\ [Next]_vars => WinFilesInvariant'
<1> SUFFICES ASSUME WinFilesInvariant, [Next]_vars PROVE WinFilesInvariant'
  OBVIOUS
<1>1. CASE UNCHANGED vars
  <2>1. UNCHANGED <<disk, name, table, streams, pc, call, hfi, buf, ret, upsets>>
    BY <1>1 DEF vars, disk
  <2>2. DiskRight' /\ TableRight'
    BY <2>1, NothingChanges
  <2>3. File' = File
    BY <2>1 DEF File
  <2>4. StatTrue' /\ \A f \in Files : TrueOf(f)' <=> TrueOf(f)
    BY <2>1 DEF StatTrue, Answered, TrueOf, WinFilesInvariant, CallRight, disk
  <2>5. CallRight'
    BY <2>1, <2>3, <2>4 DEF WinFilesInvariant, CallRight, Idle, KindAttrs, disk
  <2> QED
    BY <2>1, <2>2, <2>5 DEF WinFilesInvariant
<1>2. CASE TakeAnswer \/ (\E f \in Files : Chown(f) \/ Mknod(f))
  BY <1>2, ShortStep
<1>3. ASSUME NEW f \in Files
      PROVE  /\ \A mode \in Modes : Fopen(f, mode) => WinFilesInvariant'
             /\ \A perm \in Perms : Creat(f, perm) => WinFilesInvariant'
             /\ \A disposition \in Dispositions : CreateFileW(f, disposition) => WinFilesInvariant'
             /\ Lstat(f) => WinFilesInvariant'
             /\ \A len \in Lengths : Readlink(f, len) => WinFilesInvariant'
  BY FopenStep, CreatStep, CreateFileWStep, LstatStep, ReadlinkStep
<1>4. ASSUME NEW f \in Files, \/ \E a \in SUBSET Settable : SetAttributes(f, a)
                              \/ \E n \in Names : Rename(f, n)
      PROVE  WinFilesInvariant'
  BY <1>4, OthersStep
<1>5. CASE \/ ReadlinkCannotOpen
           \/ \E f \in Files, fd \in Fds :
                \/ ReadlinkFails(f, fd) \/ ReadlinkNoName(f, fd)
                \/ \E length \in Targets : ReadlinkConverts(f, fd, length)
  BY <1>5, ReadlinkEnds
<1>6. ASSUME NEW fd \in Fds
      PROVE  /\ \A mode \in Modes : Fdopen(fd, mode) => WinFilesInvariant'
             /\ \A perm \in Perms : Fchmod(fd, perm) => WinFilesInvariant'
             /\ Fstat(fd) \/ Close(fd) \/ Write(fd) => WinFilesInvariant'
  BY FdopenStep, FchmodStep, FstatStep, CloseStep, WriteStep
<1>7. \A s \in Streams : Fclose(s) => WinFilesInvariant'
  BY FcloseStep
<1>8. CASE FchmodReads \/ FchmodSets \/ Info
  BY <1>8, FchmodReadsStep, FchmodSetsStep, InfoStep
<1>9. CASE InfoFails \/ TypeUnknown \/ FchmodDenied \/ GarbagePath
  BY <1>9, FailingStep
<1>10. CASE \E path \in Names \cup {NoPath} : StatMode(path)
  BY <1>10, StatModeStep
<1> QED
  BY <1>1, <1>2, <1>3, <1>4, <1>5, <1>6, <1>7, <1>8, <1>9, <1>10, Zenon DEF Next

\* What files, descriptors, streams and the call in progress have to do with each
\* other, in every reachable state.
THEOREM WinFilesInvariantHolds == Spec => []WinFilesInvariant
BY WinFilesInit, WinFilesStep, PTL DEF Spec

\* fopen()'s two conversions of the mode string agree: the stream may do what its
\* descriptor can.
THEOREM StreamFitsDescriptorHolds == Spec => []StreamFitsDescriptor
<1>1. WinFilesInvariant => StreamFitsDescriptor
  BY DEF WinFilesInvariant, TableRight
<1> QED
  BY <1>1, WinFilesInvariantHolds, PTL

\* The read-only attribute is what creat(), fopen() or fchmod() asked for last, but
\* for a file that has no other attribute.
THEOREM ModeRememberedHolds == Spec => []ModeRemembered
<1>1. WinFilesInvariant => ModeRemembered
  BY DEF WinFilesInvariant, DiskRight
<1> QED
  BY <1>1, WinFilesInvariantHolds, PTL

\* What fstat() and lstat() answer is true of the file, when nobody raced.
THEOREM StatTrueHolds == Spec => []StatTrue
<1>1. WinFilesInvariant => StatTrue
  BY DEF WinFilesInvariant, CallRight
<1> QED
  BY <1>1, WinFilesInvariantHolds, PTL

\* A descriptor of a stream belongs to exactly one, and lstat() closes what it opened.
THEOREM FilesInvariantHolds == Spec => []FilesInvariant
<1>1. ASSUME WinFilesInvariant PROVE FilesInvariant
  <2>1. ASSUME NEW fd \in Fds
        PROVE  LET over == {s \in Streams : streams[s] # NoStream /\ streams[s].fd = fd}
               IN  IF table[fd].owner = "stream" THEN Cardinality(over) = 1 ELSE over = {}
    <3> DEFINE over == {s \in Streams : streams[s] # NoStream /\ streams[s].fd = fd}
    <3>1. CASE table[fd].owner = "stream"
      <4>1. PICK s \in Streams : streams[s] # NoStream /\ streams[s].fd = fd
        BY <1>1, <3>1 DEF WinFilesInvariant, TableRight
      <4>2. over = {s}
        BY <1>1, <4>1 DEF WinFilesInvariant, TableRight
      <4>3. Cardinality(over) = 1
        BY <4>2, FS_Singleton
      <4> QED
        BY <3>1, <4>3
    <3>2. CASE table[fd].owner # "stream"
      <4>1. over = {}
        BY <1>1, <3>2 DEF WinFilesInvariant, TableRight
      <4> QED
        BY <3>2, <4>1
    <3> QED
      BY <3>1, <3>2
  <2> QED
    BY <1>1, <2>1 DEF FilesInvariant, WinFilesInvariant, DiskRight, CallRight
<1> QED
  BY <1>1, WinFilesInvariantHolds, PTL

\* fopen() that fails says why; it leaves files and descriptors alone unless the mode
\* string is empty or no stream is free.
THEOREM FopenFailsCleanHolds == Spec => FopenFailsClean
<1> DEFINE Clean == Idle /\ ret' = "NULL" /\ call'.op = "fopen" =>
              /\ errno' # "0"
              /\ UNCHANGED <<disk, table>> \/ call'.mode.first = "" \/ FreeStreams = {}
<1>1. ASSUME WinFilesInvariant, Next PROVE Clean
  <2> SUFFICES ASSUME Idle, ret' = "NULL", call'.op = "fopen"
               PROVE  /\ errno' # "0"
                      /\ UNCHANGED <<disk, table>> \/ call'.mode.first = "" \/ FreeStreams = {}
    OBVIOUS
  <2>1. ret = "none"
    BY <1>1 DEF WinFilesInvariant, CallRight
  <2>2. PICK f \in Files, mode \in Modes : Fopen(f, mode)
    BY <1>1, <2>1 DEF Next, Idle, TakeAnswer, Creat, CreateFileW, Lstat, Readlink, ReadlinkFails,
      ReadlinkNoName, ReadlinkConverts, Chown, Mknod, SetAttributes, Rename, Fdopen, Fchmod, Fstat,
      Close, Write, Fclose, FchmodReads, FchmodSets, FchmodDenied, InfoFails, Info, TypeUnknown,
      GarbagePath, StatMode, ReadlinkCannotOpen, Answer, Return, ReturnWith, StatCall
  <2> DEFINE flags == __fmodeflags(mode)
             can == __fixup_fmode(mode)
  <2>3. call'.mode = mode /\ ret' # "FILE"
    BY <2>2 DEF Fopen, Answer
  <2>4. CASE flags # Invalid /\ OpenFails(f, flags)
    BY <2>4 DEF OpenFails, OpenErrors, Flag
  <2>5. CASE flags # Invalid /\ can = Invalid /\ errno' = "EINVAL"
    BY <2>3, <2>5, ConversionsDiffer
  <2> QED
    BY <2>2, <2>3, <2>4, <2>5 DEF Fopen, Answer
<1>2. ASSUME WinFilesInvariant, UNCHANGED vars PROVE Clean
  BY <1>2 DEF WinFilesInvariant, CallRight, vars
<1>3. WinFilesInvariant /\ [Next]_vars => Clean
  BY <1>1, <1>2
<1> QED
  BY <1>3, WinFilesInvariantHolds, PTL DEF Spec, FopenFailsClean

-----------------------------------------------------------------------------
(* Device numbers. *)

\* Division of numbers of either sign.
LEMMA DivModType ==
  ASSUME NEW P \in Nat \ {0}, NEW n \in Int
  PROVE  /\ n \div P \in Int /\ n % P \in 0 .. P - 1
         /\ n = P * (n \div P) + (n % P)
<1>1. n \div P \in Int /\ n % P \in 0 .. P - 1
  OBVIOUS
<1>2. n = P * (n \div P) + (n % P)
  BY Z3
<1> QED
  BY <1>1, <1>2

\* There is one way to divide with remainder.
LEMMA DivModUnique ==
  ASSUME NEW P \in Nat \ {0}, NEW q \in Int, NEW r \in 0 .. P - 1, NEW n \in Int,
         n = P * q + r
  PROVE  n \div P = q /\ n % P = r
OBVIOUS

\* maj << w | min, of parts that fit, is a number of twice the bits.
LEMMA Shifted ==
  ASSUME NEW P \in Nat \ {0}, NEW q \in 0 .. P - 1, NEW r \in 0 .. P - 1
  PROVE  q * P + r \in 0 .. P * P - 1
<1>1. q * P \in Nat /\ q * P + P = (q + 1) * P
  OBVIOUS
<1>2. (P - 1 - q) * P \in Nat
  OBVIOUS
<1>3. (q + 1) * P + (P - 1 - q) * P = P * P
  OBVIOUS
<1>4. P * P \in Nat /\ (q + 1) * P \in Nat
  OBVIOUS
<1> QED
  BY <1>1, <1>2, <1>3, <1>4

\* Both parts come back from a device number (mknod_compat.h:14-30), cut to their bits,
\* for any arguments, negative ones included: parts that fit come back as they are, and
\* no two pairs of them share a number.
THEOREM DeviceNumberParts ==
  \A maj, min \in Int :
     /\ makedev(maj, min) \in 0 .. Minors * Minors - 1
     /\ major(makedev(maj, min)) = maj % Minors /\ minor(makedev(maj, min)) = min % Minors
<1> SUFFICES ASSUME NEW maj \in Int, NEW min \in Int
             PROVE  /\ makedev(maj, min) \in 0 .. Minors * Minors - 1
                    /\ major(makedev(maj, min)) = maj % Minors
                    /\ minor(makedev(maj, min)) = min % Minors
  OBVIOUS
<1> DEFINE P == Minors
<1> DEFINE t == maj \div P
<1> DEFINE q == maj % P
<1> DEFINE r == min % P
<1> DEFINE v == q * P + r
<1>1. P \in Nat \ {0} /\ P * P \in Nat \ {0}
  BY MinorsAssumption
<1>2. t \in Int /\ q \in 0 .. P - 1 /\ r \in 0 .. P - 1 /\ maj = P * t + q
  BY <1>1, DivModType
<1> HIDE DEF t, q, r
<1>3. v \in 0 .. P * P - 1
  BY <1>1, <1>2, Shifted
<1>4. maj * P + r = (P * P) * t + v
  <2>1. q \in Int /\ r \in Int /\ P \in Int
    BY <1>1, <1>2
  <2>2. (P * t + q) * P + r = (P * P) * t + (q * P + r)
    BY <1>2, <2>1, Z3
  <2> QED
    BY <1>2, <2>2
<1>5. maj * P + r \in Int /\ v = P * q + r
  BY <1>1, <1>2
<1>6. (maj * P + r) % (P * P) = v
  <2>1. ASSUME NEW N \in Nat \ {0}, v \in 0 .. N - 1, NEW m \in Int, m = N * t + v
        PROVE  m % N = v
    BY <1>2, <2>1, DivModUnique
  <2> DEFINE N == P * P
  <2> DEFINE m == maj * P + r
  <2> HIDE DEF N, m, v
  <2>2. N \in Nat \ {0} /\ v \in 0 .. N - 1 /\ m \in Int /\ m = N * t + v
    BY <1>1, <1>3, <1>4, <1>5 DEF N, m
  <2>3. m % N = v
    BY <2>1, <2>2
  <2> QED
    BY <2>3 DEF N, m
<1> HIDE DEF v
<1>7. makedev(maj, min) = v
  BY <1>6 DEF makedev, r
<1>8. v \div P = q /\ v % P = r
  BY <1>1, <1>2, <1>3, <1>5, DivModUnique
<1>9. q % P = q
  BY <1>1, <1>2
<1> QED
  BY <1>3, <1>7, <1>8, <1>9 DEF major, minor, q, r

\* A device number is put together again from its parts.
THEOREM DeviceNumberWhole ==
  \A dev \in 0 .. Minors * Minors - 1 : makedev(major(dev), minor(dev)) = dev
<1> SUFFICES ASSUME NEW dev \in 0 .. Minors * Minors - 1
             PROVE  makedev(major(dev), minor(dev)) = dev
  OBVIOUS
<1> DEFINE P == Minors
<1> DEFINE q == dev \div P
<1> DEFINE r == dev % P
<1>1. P \in Nat \ {0} /\ P * P \in Nat \ {0} /\ dev \in Int /\ dev < P * P /\ dev >= 0
  BY MinorsAssumption
<1>2. q \in Int /\ r \in 0 .. P - 1 /\ dev = P * q + r
  BY <1>1, DivModType
<1> HIDE DEF q, r
<1>3. q \in 0 .. P - 1
  <2>1. q >= 0
    BY <1>1, <1>2
  <2>2. ASSUME q >= P PROVE FALSE
    <3>1. (q - P) * P \in Nat
      BY <1>1, <1>2, <2>2
    <3>2. (q - P) * P = P * q - P * P
      BY <1>1, <1>2
    <3> QED
      BY <1>1, <1>2, <3>1, <3>2
  <2> QED
    BY <1>1, <1>2, <2>1, <2>2
<1>4. q % P = q /\ r % P = r
  BY <1>1, <1>2, <1>3
<1>5. major(dev) = q /\ minor(dev) = r
  BY <1>4 DEF major, minor, q, r
<1>6. (q * P + r) = dev
  BY <1>1, <1>2
<1>7. dev % (P * P) = dev
  BY <1>1
<1> QED
  BY <1>4, <1>5, <1>6, <1>7 DEF makedev
=============================================================================
