------------------------------ MODULE MmapHack ------------------------------
(***************************************************************************)
(* libc-compat/emsup/mmap_hack.c.  On Emscripten munmap() writes a shared  *)
(* mapping back through the descriptor NUMBER the mapping was made with,   *)
(* so the descriptor has to stay open, and keep naming the same file,      *)
(* until the mapping is gone.  The library therefore keeps a list `maps'   *)
(* of the mappings that need it, turns close()/fclose() of such a          *)
(* descriptor into a mark, and performs the close in munmap() of the last  *)
(* mapping.                                                                *)
(*                                                                         *)
(* State of the C file: `maps'.  The list is modelled as a set of entries: *)
(* the code walks it by key only, and a walk that stops at the first match *)
(* is a choice among the matches.  Everything else is the environment the  *)
(* file works on: the descriptor table and the mappings of Emscripten, the *)
(* FILE streams, the files, and what the client still owns.  The client is *)
(* any sequence of calls that respects ownership: it uses a descriptor or  *)
(* a stream until it closes it, closes it once, and unmaps whole mappings. *)
(*                                                                         *)
(* NDEBUG is the build type: assert(e) is `abort unless e' in a debug      *)
(* build, and NOTHING in a Release build, the calls inside e included.     *)
(* EnvFaults lets malloc() and fflush() fail.                              *)
(***************************************************************************)
EXTENDS FiniteSets

CONSTANTS
    Fds, Files, NoFile, Ptrs, NoRegion, Vals,
    NDEBUG,    \* TRUE for -DCMAKE_BUILD_TYPE=Release
    EnvFaults  \* TRUE when the environment's calls may fail

ASSUME NoFileAssumption == NoFile \notin Files
ASSUME NoRegionAssumption ==
    /\ NoRegion \notin [fd : Fds, sync : BOOLEAN, val : Vals, file : Files]
    /\ NoRegion \notin [file : Files, sync : BOOLEAN, val : Vals]
ASSUME BuildAssumption == NDEBUG \in BOOLEAN /\ EnvFaults \in BOOLEAN

VARIABLES
    maps,     \* the tracked mappings: the list `maps'
    table,    \* table[fd]: the file Emscripten has open as fd, or NoFile
    mapped,   \* mapped[p]: Emscripten's mapping at p, or NoRegion
    stream,   \* stream[fd]: a FILE exists over fd
    unsaved,  \* unsaved[fd]: that FILE holds output it has not written
    owned,    \* owned[fd]: what the client still has to close
    disk,     \* disk[f]: the contents of file f
    aborted,  \* an assert() failed: the process is gone
    lost      \* history: the mappings there were when a failed malloc() emptied the list

vars == <<maps, table, mapped, stream, unsaved, owned, disk, aborted, lost>>

\* struct map_entry.  fp is the stream over fd, so have_fp says it all; len
\* is the length of the mapping, named by the mapping itself.
Entry == [ptr : Ptrs, fd : Fds, have_fp : BOOLEAN, want_close : BOOLEAN]

\* Emscripten's own record of a mapping: the descriptor it will write back
\* through, whether it writes back at all (shared and writable), what it
\* holds, and (history only) the file it was made from.
Mapping == [fd : Fds, sync : BOOLEAN, val : Vals, file : Files]

Init ==
    /\ maps = {}
    /\ table = [fd \in Fds |-> NoFile]
    /\ mapped = [p \in Ptrs |-> NoRegion]
    /\ stream = [fd \in Fds |-> FALSE]
    /\ unsaved = [fd \in Fds |-> FALSE]
    /\ owned = [fd \in Fds |-> "none"]
    /\ disk \in [Files -> Vals]
    /\ aborted = FALSE /\ lost = {}

-----------------------------------------------------------------------------
(* The environment: calls that are not wrapped. *)

\* open(), or fopen() when how = "fp": a descriptor number that is free.
Open(fd, f, how) ==
    /\ ~aborted
    /\ table[fd] = NoFile
    /\ table' = [table EXCEPT ![fd] = f]
    /\ owned' = [owned EXCEPT ![fd] = how]
    /\ stream' = [stream EXCEPT ![fd] = (how = "fp")]
    /\ unsaved' = [unsaved EXCEPT ![fd] = FALSE]
    /\ UNCHANGED <<maps, mapped, disk, aborted, lost>>

\* fdopen(): from here on the client closes the stream, not the descriptor.
Fdopen(fd) ==
    /\ ~aborted
    /\ owned[fd] = "fd"
    /\ owned' = [owned EXCEPT ![fd] = "fp"]
    /\ stream' = [stream EXCEPT ![fd] = TRUE]
    /\ UNCHANGED <<maps, table, mapped, unsaved, disk, aborted, lost>>

\* fwrite() into the stream's buffer.
Fwrite(fd) ==
    /\ ~aborted
    /\ owned[fd] = "fp"
    /\ unsaved' = [unsaved EXCEPT ![fd] = TRUE]
    /\ UNCHANGED <<maps, table, mapped, stream, owned, disk, aborted, lost>>

\* A store through a mapping.
Store(p, v) ==
    /\ ~aborted
    /\ mapped[p] # NoRegion
    /\ mapped' = [mapped EXCEPT ![p].val = v]
    /\ UNCHANGED <<maps, table, stream, unsaved, owned, disk, aborted, lost>>

\* Emscripten's munmap() of the mapping at p: what the files hold afterwards.
\* Nothing is written when the descriptor is closed by then.
SyncedDisk(p) ==
    LET m == mapped[p] IN
    IF m.sync /\ table[m.fd] # NoFile
    THEN [disk EXCEPT ![table[m.fd]] = m.val]
    ELSE disk

\* The close() and fclose() of libc: fclose() writes the buffer out first.
RealClose(fd) ==
    /\ table' = [table EXCEPT ![fd] = NoFile]
    /\ UNCHANGED <<stream, unsaved>>

RealFclose(fd) ==
    /\ table' = [table EXCEPT ![fd] = NoFile]
    /\ stream' = [stream EXCEPT ![fd] = FALSE]
    /\ unsaved' = [unsaved EXCEPT ![fd] = FALSE]

-----------------------------------------------------------------------------
(* The wrapped calls. *)

\* _mmap_stub_impl(): mmap() of a descriptor; a shared writable mapping is
\* put on the list.  When malloc() fails the process aborts; without asserts
\* the entry is written at address 0, which WebAssembly lets pass, and `maps'
\* becomes NULL.
PrivateTracked(prot_write, map_shared) == prot_write /\ ~map_shared
Tracked(prot_write, map_shared) == prot_write /\ map_shared

Mmap(p, fd, prot_write, map_shared) ==
    /\ ~aborted
    /\ owned[fd] # "none"
    /\ mapped[p] = NoRegion
    /\ mapped' = [mapped EXCEPT ![p] =
          [fd |-> fd, sync |-> prot_write /\ map_shared,
           val |-> disk[table[fd]], file |-> table[fd]]]
    /\ \/ /\ Tracked(prot_write, map_shared)
          /\ maps' = maps \cup {[ptr |-> p, fd |-> fd,
                                 have_fp |-> FALSE, want_close |-> FALSE]}
          /\ UNCHANGED <<aborted, lost>>
       \/ /\ ~Tracked(prot_write, map_shared)
          /\ UNCHANGED <<maps, aborted, lost>>
       \/ /\ EnvFaults /\ Tracked(prot_write, map_shared)
          /\ \/ aborted' = TRUE /\ UNCHANGED <<maps, lost>>
             \/ /\ NDEBUG /\ maps' = {} /\ UNCHANGED aborted
                /\ lost' = {q \in Ptrs : mapped[q] # NoRegion \/ q = p}
    /\ UNCHANGED <<table, stream, unsaved, owned, disk>>

EntriesOf(fd) == {i \in maps : i.fd = fd}

\* __wrap_close(): of an open descriptor (otherwise -1 and no effect).
MarkFirstOnly(fd) ==
    LET first == CHOOSE i \in maps : i.fd = fd
    IN  (maps \ {first}) \cup {[first EXCEPT !.want_close = TRUE]}

MarkClose(fd) ==
    {IF i.fd = fd THEN [i EXCEPT !.want_close = TRUE] ELSE i : i \in maps}

CloseAtOnce(fd) ==
    /\ ~aborted
    /\ owned[fd] = "fd"
    /\ table[fd] # NoFile
    /\ owned' = [owned EXCEPT ![fd] = "none"]
    /\ RealClose(fd)
    /\ UNCHANGED <<maps, mapped, disk, aborted, lost>>

Close(fd) ==
    /\ ~aborted
    /\ owned[fd] = "fd"
    /\ table[fd] # NoFile
    /\ owned' = [owned EXCEPT ![fd] = "none"]
    /\ \/ /\ EntriesOf(fd) # {}
          /\ maps' = MarkClose(fd)
          /\ UNCHANGED <<table, stream, unsaved>>
       \/ /\ EntriesOf(fd) = {}
          /\ RealClose(fd)
          /\ UNCHANGED maps
    /\ UNCHANGED <<mapped, disk, aborted, lost>>

\* __wrap_fclose(): the flush is tried at once, its result is ignored.
MarkFclose(fd) ==
    {IF i.fd = fd THEN [i EXCEPT !.want_close = TRUE, !.have_fp = TRUE] ELSE i
       : i \in maps}

FcloseNoFlush(fd) ==
    /\ ~aborted
    /\ owned[fd] = "fp"
    /\ owned' = [owned EXCEPT ![fd] = "none"]
    /\ \/ /\ EntriesOf(fd) # {}
          /\ maps' = MarkFclose(fd)
          /\ UNCHANGED <<table, stream, unsaved>>
       \/ /\ EntriesOf(fd) = {}
          /\ RealFclose(fd)
          /\ UNCHANGED maps
    /\ UNCHANGED <<mapped, disk, aborted, lost>>

Fclose(fd) ==
    /\ ~aborted
    /\ owned[fd] = "fp"
    /\ owned' = [owned EXCEPT ![fd] = "none"]
    /\ \/ /\ EntriesOf(fd) # {}
          /\ maps' = MarkFclose(fd)
          /\ \/ unsaved' = [unsaved EXCEPT ![fd] = FALSE]
             \/ EnvFaults /\ UNCHANGED unsaved
          /\ UNCHANGED <<table, stream>>
       \/ /\ EntriesOf(fd) = {}
          /\ RealFclose(fd)
          /\ UNCHANGED maps
    /\ UNCHANGED <<mapped, disk, aborted, lost>>

\* post_munmap_hook() for the entry e just unlinked; rest is the list now.
\* The delayed close is written inside an assert().  A stream whose output
\* could not be written makes __real_fclose() fail after it has closed.
HookForgetsLast(e, rest) ==
    /\ e \notin rest
    /\ UNCHANGED <<table, stream, unsaved, aborted>>

HookIgnoresStream(e, rest) ==
    \/ /\ {i \in rest : i.fd = e.fd} # {}
       /\ UNCHANGED <<table, stream, unsaved, aborted>>
    \/ /\ {i \in rest : i.fd = e.fd} = {}
       /\ RealClose(e.fd)
       /\ UNCHANGED aborted

PostMunmapHook(e, rest) ==
    LET others == {i \in rest : i.fd = e.fd} IN
    \/ /\ others # {}
       /\ \E i \in others : aborted' = (~NDEBUG /\ ~i.want_close)
       /\ UNCHANGED <<table, stream, unsaved>>
    \/ /\ others = {}
       /\ ~NDEBUG
       /\ \/ e.have_fp /\ RealFclose(e.fd) /\ aborted' = unsaved[e.fd]
          \/ ~e.have_fp /\ RealClose(e.fd) /\ UNCHANGED aborted
    \/ /\ others = {}
       /\ NDEBUG
       /\ UNCHANGED <<table, stream, unsaved, aborted>>

\* _munmap_stub_impl(): munmap() first, then the entry at that address.
MunmapAlwaysCloses(p) ==
    /\ ~aborted
    /\ mapped[p] # NoRegion
    /\ disk' = SyncedDisk(p)
    /\ mapped' = [mapped EXCEPT ![p] = NoRegion] /\ lost' = lost \ {p}
    /\ \/ \E e \in maps :
            /\ e.ptr = p
            /\ maps' = maps \ {e}
            /\ PostMunmapHook(e, maps \ {e})
       \/ /\ \A e \in maps : e.ptr # p
          /\ UNCHANGED <<maps, table, stream, unsaved, aborted>>
    /\ UNCHANGED owned

Munmap(p) ==
    /\ ~aborted
    /\ mapped[p] # NoRegion
    /\ disk' = SyncedDisk(p)
    /\ mapped' = [mapped EXCEPT ![p] = NoRegion] /\ lost' = lost \ {p}
    /\ \/ \E e \in maps :
            /\ e.ptr = p
            /\ maps' = maps \ {e}
            /\ \/ e.want_close /\ PostMunmapHook(e, maps \ {e})
               \/ ~e.want_close /\ UNCHANGED <<table, stream, unsaved, aborted>>
       \/ /\ \A e \in maps : e.ptr # p
          /\ UNCHANGED <<maps, table, stream, unsaved, aborted>>
    /\ UNCHANGED owned

Next ==
    \/ \E fd \in Fds :
         \/ \E f \in Files, how \in {"fd", "fp"} : Open(fd, f, how)
         \/ Fdopen(fd)
         \/ Fwrite(fd)
         \/ \E p \in Ptrs, w \in BOOLEAN, s \in BOOLEAN : Mmap(p, fd, w, s)
         \/ Close(fd)
         \/ Fclose(fd)
    \/ \E p \in Ptrs :
         \/ \E v \in Vals : Store(p, v)
         \/ Munmap(p)

Spec == Init /\ [][Next]_vars

\* A mapping is unmapped by the destructor of the object that owns it, so
\* the client unmaps every mapping in the end.
Fairness == \A p \in Ptrs : WF_vars(Munmap(p))

FairSpec == Spec /\ Fairness

-----------------------------------------------------------------------------
(* Properties. *)

TypeOK ==
    /\ maps \subseteq Entry
    /\ table \in [Fds -> Files \cup {NoFile}]
    /\ mapped \in [Ptrs -> Mapping \cup {NoRegion}]
    /\ stream \in [Fds -> BOOLEAN]
    /\ unsaved \in [Fds -> BOOLEAN]
    /\ owned \in [Fds -> {"none", "fd", "fp"}]
    /\ disk \in [Files -> Vals]
    /\ aborted \in BOOLEAN /\ lost \subseteq Ptrs

\* Every mapping that munmap() will write back through its descriptor finds
\* that descriptor open and naming the file the mapping was made from, however
\* the client has closed and reopened descriptors meanwhile.
WriteBackReady ==
    ~aborted =>
    \A p \in Ptrs : mapped[p] # NoRegion /\ mapped[p].sync =>
                      table[mapped[p].fd] = mapped[p].file

\* A failed malloc() costs the write-back of no mapping but those there were when it
\* emptied the list of a Release build: every later one is on the list again, and keeps
\* its descriptor open on its file, whatever becomes of the earlier ones' descriptors.
LossContained ==
    ~aborted =>
    \A p \in Ptrs \ lost : mapped[p] # NoRegion /\ mapped[p].sync =>
                             table[mapped[p].fd] = mapped[p].file

\* A descriptor is open only for someone: the client has not closed it yet, or
\* a tracked mapping still needs it.  A delayed close is never forgotten.
NoDescriptorLeak ==
    ~aborted => \A fd \in Fds :
                  table[fd] # NoFile => owned[fd] # "none" \/ EntriesOf(fd) # {}

\* A delayed close never hits a descriptor the client has open: what the client
\* owns is open, and so is what lies under a stream that still exists.
OwnedStaysOpen ==
    \A fd \in Fds : owned[fd] # "none" \/ stream[fd] => table[fd] # NoFile

\* With a sound environment no assert() of the file fails: another mapping of a
\* descriptor being closed is marked too, and the delayed close succeeds.
AssertsHold == ~aborted

\* A stream the client has closed holds no unwritten output while its real
\* fclose() waits for munmap().
ClosedStreamsFlushed ==
    \A fd \in Fds : stream[fd] /\ owned[fd] = "none" => ~unsaved[fd]

\* Every delayed close is carried out in the end.
DelayedCloseHappens ==
    \A fd \in Fds : (owned[fd] = "none") ~> (table[fd] = NoFile \/ owned[fd] # "none")

\* The client sees the contract of WriteBack: the file written by munmap() is
\* the one that was mapped, whatever close() and fclose() did to descriptors.
WB == INSTANCE WriteBack WITH
        handle <- [fd \in Fds |-> IF owned[fd] = "none" THEN NoFile ELSE table[fd]],
        region <- [p \in Ptrs |->
                     IF mapped[p] = NoRegion THEN NoRegion
                     ELSE [file |-> mapped[p].file, sync |-> mapped[p].sync,
                           val |-> mapped[p].val]]

ImplementsWriteBack == WB!ASpec

-----------------------------------------------------------------------------
(* The inductive invariant of a live process. *)

\* An entry describes a live shared writable mapping made through an open
\* descriptor that still names the mapped file, and is the only one at its
\* address.
EntriesBacked ==
    /\ \A e \in maps : /\ mapped[e.ptr] # NoRegion
                       /\ mapped[e.ptr].sync
                       /\ mapped[e.ptr].fd = e.fd
                       /\ table[e.fd] = mapped[e.ptr].file
    /\ \A e, g \in maps : e.ptr = g.ptr => e = g

\* Every shared writable mapping is on the list, but those that were on one that is lost.
\* None is while malloc() succeeds, and a debug build ends instead.
SyncTracked ==
    /\ \A p \in Ptrs \ lost : mapped[p] # NoRegion /\ mapped[p].sync => \E e \in maps : e.ptr = p
    /\ lost # {} => NDEBUG /\ EnvFaults

\* want_close says exactly that the client has closed the descriptor, have_fp
\* that it did so through a stream: all entries of a descriptor agree.
MarksAgree ==
    \A e \in maps : /\ e.want_close <=> owned[e.fd] = "none"
                    /\ e.have_fp <=> (e.want_close /\ stream[e.fd])

\* A stream exists while the client owns it, or while its close is delayed.
StreamsAgree ==
    \A fd \in Fds : /\ owned[fd] = "fp" => stream[fd]
                    /\ owned[fd] = "fd" => ~stream[fd]

\* What holds of a live process between two calls: the parts above together.
ListInvariant ==
    /\ TypeOK
    /\ OwnedStaysOpen
    /\ ~aborted => EntriesBacked /\ SyncTracked /\ MarksAgree /\ StreamsAgree

\* What is left of DelayedCloseHappens without the client's promise to unmap: a
\* descriptor the client has closed is open only as long as a shared writable mapping
\* made through it is there.
ClosedOnceUnmapped ==
    ~aborted => \A fd \in Fds :
        owned[fd] = "none" /\ table[fd] # NoFile =>
            \E p \in Ptrs : mapped[p] # NoRegion /\ mapped[p].sync /\ mapped[p].fd = fd
=============================================================================
