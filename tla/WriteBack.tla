----------------------------- MODULE WriteBack -----------------------------
(***************************************************************************)
(* What a client of the file API may rely on, whatever happens to file     *)
(* descriptors underneath: a shared writable mapping belongs to the FILE   *)
(* it was made from.  Closing the descriptor ends the client's use of the  *)
(* descriptor and nothing else; unmapping carries the mapped contents to   *)
(* the file that was mapped.  libc-compat/emsup/mmap_hack.c exists to give *)
(* magiskboot this contract on Emscripten, whose own munmap() works        *)
(* through the descriptor number.                                          *)
(***************************************************************************)
CONSTANTS
    Fds,      \* descriptor numbers
    Files,    \* files
    NoFile,   \* "not a file": a descriptor that is not open
    Ptrs,     \* addresses mmap() may return
    NoRegion, \* an address at which nothing is mapped
    Vals      \* contents of a file, or of a mapping

VARIABLES
    handle,   \* handle[fd]: the file the client has open as fd, or NoFile
    region,   \* region[p]: the mapping at p as a record, or NoRegion
    disk      \* disk[f]: the contents of file f

avars == <<handle, region, disk>>

\* sync: the mapping is shared and writable, so its contents go back to file.
Region == [file : Files, sync : BOOLEAN, val : Vals]

AInit ==
    /\ handle = [fd \in Fds |-> NoFile]
    /\ region = [p \in Ptrs |-> NoRegion]
    /\ disk \in [Files -> Vals]

AOpen(fd, f) ==
    /\ handle[fd] = NoFile
    /\ handle' = [handle EXCEPT ![fd] = f]
    /\ UNCHANGED <<region, disk>>

AClose(fd) ==
    /\ handle[fd] # NoFile
    /\ handle' = [handle EXCEPT ![fd] = NoFile]
    /\ UNCHANGED <<region, disk>>

AMap(p, fd, sync) ==
    /\ handle[fd] # NoFile
    /\ region[p] = NoRegion
    /\ region' = [region EXCEPT ![p] = [file |-> handle[fd], sync |-> sync,
                                        val |-> disk[handle[fd]]]]
    /\ UNCHANGED <<handle, disk>>

AStore(p, v) ==
    /\ region[p] # NoRegion
    /\ region' = [region EXCEPT ![p].val = v]
    /\ UNCHANGED <<handle, disk>>

AUnmap(p) ==
    /\ region[p] # NoRegion
    /\ disk' = IF region[p].sync
               THEN [disk EXCEPT ![region[p].file] = region[p].val]
               ELSE disk
    /\ region' = [region EXCEPT ![p] = NoRegion]
    /\ UNCHANGED handle

ANext ==
    \/ \E fd \in Fds : \/ \E f \in Files : AOpen(fd, f)
                       \/ AClose(fd)
                       \/ \E p \in Ptrs, sync \in BOOLEAN : AMap(p, fd, sync)
    \/ \E p \in Ptrs : (\E v \in Vals : AStore(p, v)) \/ AUnmap(p)

ASpec == AInit /\ [][ANext]_avars
=============================================================================
