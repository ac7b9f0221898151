--------------------------- MODULE MmapHackProofs ---------------------------
(***************************************************************************)
(* MmapHack for any descriptors, files, addresses and contents: the list   *)
(* of tracked mappings stays in step with the descriptor table, so no      *)
(* write-back is lost but those of the mappings there are when a failed    *)
(* malloc() empties the list of a Release build, and, in a build whose     *)
(* asserts are compiled in, no descriptor leaks.                           *)
(***************************************************************************)
EXTENDS MmapHack, TLAPS

\* Builds and environments in which `maps' is never overwritten through a
\* failed malloc(): Release builds are covered when malloc() does not fail.
SoundList == ~(NDEBUG /\ EnvFaults)

-----------------------------------------------------------------------------
(* One lemma per action: a step keeps ListInvariant. *)

\* Opening takes a free descriptor number, which no entry of the list names.
LEMMA OpenStep ==
  ASSUME ListInvariant, NEW fd \in Fds, NEW f \in Files, NEW how \in {"fd", "fp"},
         Open(fd, f, how)
  PROVE  ListInvariant'
<1> USE NoFileAssumption, NoRegionAssumption
<1>1. TypeOK'
  BY DEF ListInvariant, TypeOK, Open
<1>2. OwnedStaysOpen'
  BY DEF ListInvariant, TypeOK, Open, OwnedStaysOpen
<1>3. ~aborted /\ ~aborted'
  BY DEF Open
<1>4. \A e \in maps : e.fd # fd
  BY <1>3 DEF ListInvariant, TypeOK, Open, EntriesBacked, Entry, Mapping
<1>5. EntriesBacked' /\ SyncTracked'
  BY <1>3, <1>4 DEF ListInvariant, TypeOK, Open, EntriesBacked, SyncTracked, Entry
<1>6. MarksAgree' /\ StreamsAgree'
  BY <1>3, <1>4 DEF ListInvariant, TypeOK, Open, MarksAgree, StreamsAgree, Entry
<1> QED
  BY <1>1, <1>2, <1>5, <1>6 DEF ListInvariant

\* fdopen() and fwrite() touch descriptors the client owns, marked by no entry.
LEMMA StreamUseStep ==
  ASSUME ListInvariant, NEW fd \in Fds, Fdopen(fd) \/ Fwrite(fd)
  PROVE  ListInvariant'
<1> USE NoFileAssumption, NoRegionAssumption
<1>1. TypeOK'
  BY DEF ListInvariant, TypeOK, Fdopen, Fwrite
<1>2. OwnedStaysOpen'
  BY DEF ListInvariant, TypeOK, Fdopen, Fwrite, OwnedStaysOpen
<1>3. ~aborted /\ ~aborted'
  BY DEF Fdopen, Fwrite
<1>5. EntriesBacked' /\ SyncTracked'
  BY <1>3 DEF ListInvariant, Fdopen, Fwrite, EntriesBacked, SyncTracked
<1>6. MarksAgree' /\ StreamsAgree'
  BY <1>3 DEF ListInvariant, TypeOK, Fdopen, Fwrite, MarksAgree, StreamsAgree, Entry
<1> QED
  BY <1>1, <1>2, <1>5, <1>6 DEF ListInvariant

\* A store changes the contents of a mapping and no other part of it.
LEMMA StoreStep ==
  ASSUME ListInvariant, NEW p \in Ptrs, NEW v \in Vals, Store(p, v)
  PROVE  ListInvariant'
<1> USE NoFileAssumption, NoRegionAssumption
<1>1. TypeOK'
  BY DEF ListInvariant, TypeOK, Store, Mapping
<1>2. OwnedStaysOpen'
  BY DEF ListInvariant, Store, OwnedStaysOpen
<1>3. ~aborted /\ ~aborted'
  BY DEF Store
<1>4. \A q \in Ptrs : /\ mapped'[q] = NoRegion <=> mapped[q] = NoRegion
                      /\ mapped[q] # NoRegion =>
                           /\ mapped'[q].sync = mapped[q].sync
                           /\ mapped'[q].fd = mapped[q].fd
                           /\ mapped'[q].file = mapped[q].file
  BY DEF ListInvariant, TypeOK, Store, Mapping
<1>5. EntriesBacked' /\ SyncTracked'
  BY <1>3, <1>4 DEF ListInvariant, TypeOK, Store, EntriesBacked, SyncTracked, Entry
<1>6. MarksAgree' /\ StreamsAgree'
  BY <1>3 DEF ListInvariant, Store, MarksAgree, StreamsAgree
<1> QED
  BY <1>1, <1>2, <1>5, <1>6 DEF ListInvariant

\* A new mapping is made through a descriptor the client owns, so its entry,
\* unmarked, agrees with the client; its address was free, so it is alone.  A list that
\* is lost leaves no entry to disagree.
LEMMA MmapStep ==
  ASSUME ListInvariant, NEW fd \in Fds, NEW p \in Ptrs,
         NEW w \in BOOLEAN, NEW s \in BOOLEAN, Mmap(p, fd, w, s)
  PROVE  ListInvariant'
<1> USE NoFileAssumption, NoRegionAssumption, BuildAssumption
<1> DEFINE m == [fd |-> fd, sync |-> w /\ s, val |-> disk[table[fd]], file |-> table[fd]]
           e == [ptr |-> p, fd |-> fd, have_fp |-> FALSE, want_close |-> FALSE]
<1>0. table[fd] \in Files
  BY DEF ListInvariant, TypeOK, OwnedStaysOpen, Mmap
<1>1. m \in Mapping /\ e \in Entry /\ m # NoRegion
  BY <1>0 DEF ListInvariant, TypeOK, Mapping, Entry
<1>2. /\ ~aborted /\ owned[fd] # "none" /\ mapped[p] = NoRegion
      /\ mapped' = [mapped EXCEPT ![p] = m]
      /\ UNCHANGED <<table, stream, unsaved, owned, disk>>
  BY DEF Mmap
<1>3. \/ w /\ s /\ maps' = maps \cup {e} /\ aborted' = aborted /\ lost' = lost
      \/ ~(w /\ s) /\ maps' = maps /\ aborted' = aborted /\ lost' = lost
      \/ maps' = maps /\ aborted' = TRUE /\ lost' = lost
      \/ /\ EnvFaults /\ NDEBUG /\ maps' = {} /\ aborted' = aborted
         /\ lost' = {q \in Ptrs : mapped[q] # NoRegion \/ q = p}
  BY DEF Mmap, Tracked
<1> HIDE DEF m, e
<1>4. TypeOK'
  BY <1>1, <1>2, <1>3 DEF ListInvariant, TypeOK
<1>5. OwnedStaysOpen'
  BY <1>2 DEF ListInvariant, OwnedStaysOpen
<1>6. /\ m.fd = fd /\ m.sync = (w /\ s) /\ m.file = table[fd]
      /\ e.ptr = p /\ e.fd = fd /\ ~e.have_fp /\ ~e.want_close
  BY DEF m, e
<1>7. \A g \in maps : g.ptr # p /\ g.ptr \in Ptrs /\ g.fd \in Fds
  BY <1>2 DEF ListInvariant, TypeOK, EntriesBacked, Entry
<1>8. ASSUME ~aborted' PROVE EntriesBacked' /\ SyncTracked'
  <2>1. \/ maps' = maps \cup {e} /\ w /\ s /\ lost' = lost
        \/ maps' = maps /\ ~(w /\ s) /\ lost' = lost
        \/ /\ EnvFaults /\ NDEBUG /\ maps' = {}
           /\ lost' = {q \in Ptrs : mapped[q] # NoRegion \/ q = p}
    BY <1>3, <1>8, Zenon
  <2>2. mapped'[p] = m /\ \A q \in Ptrs : q # p => mapped'[q] = mapped[q]
    BY <1>2 DEF ListInvariant, TypeOK
  <2>3. EntriesBacked'
    BY <2>1, <2>2, <1>1, <1>2, <1>6, <1>7 DEF ListInvariant, EntriesBacked
  <2>4. SyncTracked'
    BY <2>1, <2>2, <1>2, <1>6 DEF ListInvariant, SyncTracked
  <2> QED
    BY <2>3, <2>4
<1>9. ASSUME ~aborted' PROVE MarksAgree' /\ StreamsAgree'
  BY <1>2, <1>3, <1>6, <1>9 DEF ListInvariant, MarksAgree, StreamsAgree
<1> QED
  BY <1>4, <1>5, <1>8, <1>9 DEF ListInvariant

\* Marking entries for a close changes only their marks: it keeps addresses and
\* descriptors, and one entry per address.
LEMMA MarkingKeepsEntries ==
  ASSUME TypeOK, EntriesBacked, NEW fd \in Fds, NEW M,
         M = MarkClose(fd) \/ M = MarkFclose(fd)
  PROVE  /\ M \subseteq Entry
         /\ \A g \in M : \E i \in maps : g.ptr = i.ptr /\ g.fd = i.fd
         /\ \A i \in maps : \E g \in M : g.ptr = i.ptr /\ g.fd = i.fd
         /\ \A g, h \in M : g.ptr = h.ptr => g = h
<1>1. CASE M = MarkClose(fd)
  <2> DEFINE c(i) == IF i.fd = fd THEN [i EXCEPT !.want_close = TRUE] ELSE i
  <2>1. \A i \in maps : c(i) \in Entry /\ c(i).ptr = i.ptr /\ c(i).fd = i.fd
    BY DEF TypeOK, Entry
  <2>2. M = {c(i) : i \in maps}
    BY <1>1 DEF MarkClose
  <2> HIDE DEF c
  <2> QED
    BY <2>1, <2>2 DEF EntriesBacked
<1>2. CASE M = MarkFclose(fd)
  <2> DEFINE c(i) == IF i.fd = fd
                     THEN [i EXCEPT !.want_close = TRUE, !.have_fp = TRUE] ELSE i
  <2>1. \A i \in maps : c(i) \in Entry /\ c(i).ptr = i.ptr /\ c(i).fd = i.fd
    BY DEF TypeOK, Entry
  <2>2. M = {c(i) : i \in maps}
    BY <1>2 DEF MarkFclose
  <2> HIDE DEF c
  <2> QED
    BY <2>1, <2>2 DEF EntriesBacked
<1> QED
  BY <1>1, <1>2

\* A close either marks every entry of the descriptor or, when there is none,
\* really closes a descriptor no entry names.
LEMMA CloseStep ==
  ASSUME ListInvariant, NEW fd \in Fds, Close(fd)
  PROVE  ListInvariant'
<1> USE NoFileAssumption, NoRegionAssumption
<1>1. /\ ~aborted /\ aborted' = aborted /\ owned[fd] = "fd"
      /\ owned' = [owned EXCEPT ![fd] = "none"]
      /\ UNCHANGED <<mapped, disk, stream, unsaved, lost>>
  BY DEF Close, RealClose
<1>2. TypeOK /\ EntriesBacked /\ SyncTracked /\ MarksAgree /\ StreamsAgree /\ OwnedStaysOpen
  BY <1>1 DEF ListInvariant
<1>3. ~stream[fd]
  BY <1>1, <1>2 DEF StreamsAgree
<1>4. StreamsAgree'
  BY <1>1, <1>2 DEF StreamsAgree, TypeOK
<1>5. CASE EntriesOf(fd) # {}
  <2>1. maps' = MarkClose(fd) /\ UNCHANGED table
    BY <1>5 DEF Close
  <2>2. /\ maps' \subseteq Entry
        /\ \A g \in maps' : \E i \in maps : g.ptr = i.ptr /\ g.fd = i.fd
        /\ \A i \in maps : \E g \in maps' : g.ptr = i.ptr
        /\ \A g, h \in maps' : g.ptr = h.ptr => g = h
    BY <1>2, <2>1, MarkingKeepsEntries
  <2>3. TypeOK' /\ OwnedStaysOpen'
    BY <1>1, <1>2, <2>1, <2>2 DEF TypeOK, OwnedStaysOpen
  <2>4. EntriesBacked' /\ SyncTracked'
    BY <1>1, <1>2, <2>1, <2>2 DEF EntriesBacked, SyncTracked
  <2>5. MarksAgree'
    <3> SUFFICES ASSUME NEW i \in maps,
                        NEW g, g = IF i.fd = fd THEN [i EXCEPT !.want_close = TRUE] ELSE i
                 PROVE  /\ g.want_close <=> owned'[g.fd] = "none"
                        /\ g.have_fp <=> (g.want_close /\ stream[g.fd])
      BY <1>1, <2>1 DEF MarksAgree, MarkClose
    <3> QED
      BY <1>1, <1>2, <1>3 DEF MarksAgree, TypeOK, Entry
  <2> QED
    BY <1>4, <2>3, <2>4, <2>5 DEF ListInvariant
<1>6. CASE EntriesOf(fd) = {}
  <2>1. maps' = maps /\ table' = [table EXCEPT ![fd] = NoFile]
    BY <1>6 DEF Close, RealClose
  <2>2. \A i \in maps : i.fd # fd /\ i.fd \in Fds
    BY <1>2, <1>6 DEF EntriesOf, TypeOK, Entry
  <2>3. TypeOK' /\ OwnedStaysOpen'
    BY <1>1, <1>2, <1>3, <2>1 DEF TypeOK, OwnedStaysOpen
  <2>4. EntriesBacked' /\ SyncTracked' /\ MarksAgree'
    BY <1>1, <1>2, <2>1, <2>2 DEF EntriesBacked, SyncTracked, MarksAgree, TypeOK
  <2> QED
    BY <1>4, <2>3, <2>4 DEF ListInvariant
<1> QED
  BY <1>5, <1>6

\* The same for a stream, whose entries also learn that it is a stream.
LEMMA FcloseStep ==
  ASSUME ListInvariant, NEW fd \in Fds, Fclose(fd)
  PROVE  ListInvariant'
<1> USE NoFileAssumption, NoRegionAssumption
<1>1. /\ ~aborted /\ aborted' = aborted /\ owned[fd] = "fp"
      /\ owned' = [owned EXCEPT ![fd] = "none"]
      /\ UNCHANGED <<mapped, disk, lost>>
  BY DEF Fclose
<1>2. TypeOK /\ EntriesBacked /\ SyncTracked /\ MarksAgree /\ StreamsAgree /\ OwnedStaysOpen
  BY <1>1 DEF ListInvariant
<1>3. stream[fd]
  BY <1>1, <1>2 DEF StreamsAgree
<1>5. CASE EntriesOf(fd) # {}
  <2>1. maps' = MarkFclose(fd) /\ UNCHANGED <<table, stream>>
    BY <1>5 DEF Fclose
  <2>2. /\ maps' \subseteq Entry
        /\ \A g \in maps' : \E i \in maps : g.ptr = i.ptr /\ g.fd = i.fd
        /\ \A i \in maps : \E g \in maps' : g.ptr = i.ptr
        /\ \A g, h \in maps' : g.ptr = h.ptr => g = h
    BY <1>2, <2>1, MarkingKeepsEntries
  <2>3. unsaved' \in [Fds -> BOOLEAN]
    BY <1>2, <1>5 DEF Fclose, TypeOK
  <2>4. TypeOK' /\ OwnedStaysOpen'
    BY <1>1, <1>2, <2>1, <2>2, <2>3 DEF TypeOK, OwnedStaysOpen
  <2>5. EntriesBacked' /\ SyncTracked'
    BY <1>1, <1>2, <2>1, <2>2 DEF EntriesBacked, SyncTracked
  <2>6. MarksAgree'
    <3> SUFFICES ASSUME NEW i \in maps,
                        NEW g, g = IF i.fd = fd
                                   THEN [i EXCEPT !.want_close = TRUE, !.have_fp = TRUE]
                                   ELSE i
                 PROVE  /\ g.want_close <=> owned'[g.fd] = "none"
                        /\ g.have_fp <=> (g.want_close /\ stream[g.fd])
      BY <1>1, <2>1 DEF MarksAgree, MarkFclose
    <3> QED
      BY <1>1, <1>2, <1>3 DEF MarksAgree, TypeOK, Entry
  <2>7. StreamsAgree'
    BY <1>1, <1>2, <2>1 DEF StreamsAgree, TypeOK
  <2> QED
    BY <2>4, <2>5, <2>6, <2>7 DEF ListInvariant
<1>6. CASE EntriesOf(fd) = {}
  <2>1. /\ maps' = maps /\ table' = [table EXCEPT ![fd] = NoFile]
        /\ stream' = [stream EXCEPT ![fd] = FALSE]
        /\ unsaved' = [unsaved EXCEPT ![fd] = FALSE]
    BY <1>6 DEF Fclose, RealFclose
  <2>2. \A i \in maps : i.fd # fd /\ i.fd \in Fds
    BY <1>2, <1>6 DEF EntriesOf, TypeOK, Entry
  <2>3. TypeOK' /\ OwnedStaysOpen'
    BY <1>1, <1>2, <2>1 DEF TypeOK, OwnedStaysOpen
  <2>4. EntriesBacked' /\ SyncTracked' /\ MarksAgree' /\ StreamsAgree'
    BY <1>1, <1>2, <2>1, <2>2 DEF EntriesBacked, SyncTracked, MarksAgree, StreamsAgree, TypeOK
  <2> QED
    BY <2>3, <2>4 DEF ListInvariant
<1> QED
  BY <1>5, <1>6

\* Unmapping drops the one entry of the address.  A real close happens only for
\* a marked entry that was the last of its descriptor: the client has given the
\* descriptor up, and no entry is left that needs it.
LEMMA MunmapStep ==
  ASSUME ListInvariant, NEW p \in Ptrs, Munmap(p)
  PROVE  ListInvariant'
<1> USE NoFileAssumption, NoRegionAssumption
<1>1. /\ ~aborted /\ mapped[p] # NoRegion
      /\ mapped' = [mapped EXCEPT ![p] = NoRegion] /\ lost' = lost \ {p}
      /\ UNCHANGED owned
  BY DEF Munmap
<1>2. TypeOK /\ EntriesBacked /\ SyncTracked /\ MarksAgree /\ StreamsAgree /\ OwnedStaysOpen
  BY <1>1 DEF ListInvariant
<1>3. disk' \in [Files -> Vals]
  BY <1>1, <1>2 DEF Munmap, SyncedDisk, TypeOK, Mapping
<1>4. maps' = {g \in maps : g.ptr # p}
  <2>1. ASSUME NEW e \in maps, e.ptr = p, maps' = maps \ {e}
        PROVE  maps' = {g \in maps : g.ptr # p}
    BY <1>2, <2>1 DEF EntriesBacked
  <2>2. CASE (\A e \in maps : e.ptr # p) /\ maps' = maps
    BY <2>2
  <2>3. \/ \E e \in maps : e.ptr = p /\ maps' = maps \ {e}
        \/ (\A e \in maps : e.ptr # p) /\ maps' = maps
    BY DEF Munmap
  <2> QED
    BY <2>1, <2>2, <2>3
<1>5. /\ mapped' \in [Ptrs -> Mapping \cup {NoRegion}]
      /\ mapped'[p] = NoRegion
      /\ \A q \in Ptrs : q # p => mapped'[q] = mapped[q]
  BY <1>1, <1>2 DEF TypeOK
<1>6. /\ maps' \subseteq maps /\ maps' \subseteq Entry
      /\ \A g \in maps' : g.ptr # p /\ g.ptr \in Ptrs /\ g.fd \in Fds
  BY <1>2, <1>4 DEF TypeOK, Entry
<1>7. SyncTracked'
  BY <1>1, <1>2, <1>4, <1>5 DEF SyncTracked
<1>8. CASE UNCHANGED <<table, stream, unsaved>> /\ aborted' \in BOOLEAN
  <2>1. TypeOK' /\ OwnedStaysOpen'
    BY <1>1, <1>2, <1>3, <1>5, <1>6, <1>8 DEF TypeOK, OwnedStaysOpen
  <2>2. EntriesBacked' /\ MarksAgree' /\ StreamsAgree'
    BY <1>1, <1>2, <1>5, <1>6, <1>8 DEF EntriesBacked, MarksAgree, StreamsAgree
  <2> QED
    BY <1>7, <2>1, <2>2 DEF ListInvariant
<1>9. ASSUME NEW e \in maps, e.ptr = p, e.want_close,
             {i \in maps \ {e} : i.fd = e.fd} = {},
             aborted' \in BOOLEAN,
             \/ e.have_fp /\ RealFclose(e.fd)
             \/ ~e.have_fp /\ RealClose(e.fd)
      PROVE  ListInvariant'
  <2>1. /\ e.fd \in Fds /\ owned[e.fd] = "none"
        /\ table' = [table EXCEPT ![e.fd] = NoFile]
        /\ ~stream'[e.fd]
        /\ stream' \in [Fds -> BOOLEAN] /\ unsaved' \in [Fds -> BOOLEAN]
        /\ \A fd \in Fds : fd # e.fd => stream'[fd] = stream[fd]
    BY <1>2, <1>9 DEF TypeOK, Entry, MarksAgree, RealClose, RealFclose
  <2>2. \A g \in maps' : g.fd # e.fd
    BY <1>4, <1>9
  <2>3. TypeOK' /\ OwnedStaysOpen'
    BY <1>1, <1>2, <1>3, <1>5, <1>6, <1>9, <2>1 DEF TypeOK, OwnedStaysOpen
  <2>4. EntriesBacked'
    BY <1>1, <1>2, <1>5, <1>6, <2>1, <2>2 DEF EntriesBacked, TypeOK
  <2>5. MarksAgree' /\ StreamsAgree'
    BY <1>1, <1>2, <1>6, <2>1, <2>2 DEF MarksAgree, StreamsAgree
  <2> QED
    BY <1>7, <2>3, <2>4, <2>5 DEF ListInvariant
<1>10. aborted' \in BOOLEAN
  BY <1>2, BuildAssumption DEF Munmap, PostMunmapHook, TypeOK, Entry
<1> QED
  BY <1>8, <1>9, <1>10 DEF Munmap, PostMunmapHook

-----------------------------------------------------------------------------
(* The invariant, and what follows from it. *)

\* ListInvariant holds initially: the list and the table are empty.
LEMMA ListInvariantInit == Init => ListInvariant
<1> SUFFICES ASSUME Init PROVE ListInvariant
  OBVIOUS
<1> QED
  BY NoFileAssumption, NoRegionAssumption
  DEF Init, ListInvariant, TypeOK, OwnedStaysOpen, EntriesBacked, SyncTracked,
      MarksAgree, StreamsAgree

\* Every step keeps ListInvariant.
LEMMA ListInvariantStep == ListInvariant /\ [Next]_vars => ListInvariant'
<1> SUFFICES ASSUME ListInvariant, [Next]_vars PROVE ListInvariant'
  OBVIOUS
<1>1. CASE Next
  BY <1>1, OpenStep, StreamUseStep, StoreStep, MmapStep, CloseStep, FcloseStep, MunmapStep
  DEF Next
<1>2. CASE UNCHANGED vars
  BY <1>2 DEF vars, ListInvariant, TypeOK, OwnedStaysOpen, EntriesBacked, SyncTracked,
              MarksAgree, StreamsAgree
<1> QED
  BY <1>1, <1>2

\* The list of tracked mappings, the descriptor table, the streams and what the
\* client owns agree in every reachable state, in either build, with malloc() failing
\* or not.
THEOREM ListInvariantHolds == Spec => []ListInvariant
<1>1. ListInvariant /\ [Next]_vars => ListInvariant'
  BY ListInvariantStep
<1> QED
  BY <1>1, ListInvariantInit, PTL DEF Spec

\* No write-back is lost or goes to another file: mmap_hack.c keeps its promise
\* that the descriptor of a shared writable mapping stays open until munmap().
THEOREM WriteBackReadyHolds == SoundList => (Spec => []WriteBackReady)
<1> SUFFICES ASSUME SoundList PROVE Spec => []WriteBackReady
  OBVIOUS
<1>1. ListInvariant => WriteBackReady
  <2> SUFFICES ASSUME ListInvariant, ~aborted, NEW p \in Ptrs,
                      mapped[p] # NoRegion, mapped[p].sync
               PROVE  table[mapped[p].fd] = mapped[p].file
    BY DEF WriteBackReady
  <2> QED
    BY DEF ListInvariant, SyncTracked, EntriesBacked, SoundList
<1> QED
  BY <1>1, ListInvariantHolds, PTL

\* With no promise about malloc(): only the mappings there are when a failed one empties
\* the list of a Release build can lose their write-back.
THEOREM LossContainedHolds == Spec => []LossContained
<1>1. ListInvariant => LossContained
  <2> SUFFICES ASSUME ListInvariant, ~aborted, NEW p \in Ptrs \ lost,
                      mapped[p] # NoRegion, mapped[p].sync
               PROVE  table[mapped[p].fd] = mapped[p].file
    BY DEF LossContained
  <2> QED
    BY DEF ListInvariant, SyncTracked, EntriesBacked
<1> QED
  BY <1>1, ListInvariantHolds, PTL

\* With asserts compiled in, a descriptor loses its last holder only when it is
\* closed: by the client when no entry names it, by munmap() otherwise.
LEMMA NoLeakStep ==
  ASSUME ~NDEBUG, ListInvariant, NoDescriptorLeak, Next
  PROVE  NoDescriptorLeak'
<1> USE NoFileAssumption, NoRegionAssumption
<1> SUFFICES ASSUME ~aborted', NEW x \in Fds, table'[x] # NoFile, owned'[x] = "none"
             PROVE  \E i \in maps' : i.fd = x
  BY DEF NoDescriptorLeak, EntriesOf
<1>0. ~aborted
  BY DEF Next, Open, Fdopen, Fwrite, Store, Mmap, Close, Fclose, Munmap
<1>1. TypeOK /\ EntriesBacked /\ MarksAgree
  BY <1>0 DEF ListInvariant
<1>2. table[x] # NoFile => owned[x] # "none" \/ \E i \in maps : i.fd = x
  BY <1>0 DEF NoDescriptorLeak, EntriesOf
<1>3. ASSUME NEW fd \in Fds, NEW f \in Files, NEW how \in {"fd", "fp"}, Open(fd, f, how)
      PROVE  \E i \in maps' : i.fd = x
  BY <1>1, <1>2, <1>3 DEF Open, TypeOK
<1>4. ASSUME NEW fd \in Fds, Fdopen(fd) \/ Fwrite(fd)
      PROVE  \E i \in maps' : i.fd = x
  BY <1>1, <1>2, <1>4 DEF Fdopen, Fwrite, TypeOK
<1>5. ASSUME NEW p \in Ptrs, NEW v \in Vals, Store(p, v)
      PROVE  \E i \in maps' : i.fd = x
  BY <1>2, <1>5 DEF Store
<1>6. ASSUME NEW fd \in Fds, NEW p \in Ptrs, NEW w \in BOOLEAN, NEW s \in BOOLEAN,
             Mmap(p, fd, w, s)
      PROVE  \E i \in maps' : i.fd = x
  BY <1>2, <1>6 DEF Mmap
<1>7. ASSUME NEW fd \in Fds, Close(fd) PROVE \E i \in maps' : i.fd = x
  <2>1. CASE EntriesOf(fd) # {}
    <3>1. maps' = MarkClose(fd) /\ UNCHANGED table
      BY <1>7, <2>1 DEF Close
    <3>2. \E i \in maps : i.fd = x
      BY <1>1, <1>2, <1>7, <2>1, <3>1 DEF Close, EntriesOf, TypeOK
    <3> QED
      <4>1. /\ maps' \subseteq Entry
            /\ \A g \in maps' : \E i \in maps : g.ptr = i.ptr /\ g.fd = i.fd
            /\ \A i \in maps : \E g \in maps' : g.ptr = i.ptr /\ g.fd = i.fd
            /\ \A g, e \in maps' : g.ptr = e.ptr => g = e
        BY <1>1, <3>1, MarkingKeepsEntries
      <4> QED
        BY <3>2, <4>1
  <2>2. CASE EntriesOf(fd) = {}
    BY <1>1, <1>2, <1>7, <2>2 DEF Close, RealClose, TypeOK
  <2> QED
    BY <2>1, <2>2
<1>8. ASSUME NEW fd \in Fds, Fclose(fd) PROVE \E i \in maps' : i.fd = x
  <2>1. CASE EntriesOf(fd) # {}
    <3>1. maps' = MarkFclose(fd) /\ UNCHANGED table
      BY <1>8, <2>1 DEF Fclose
    <3>2. \E i \in maps : i.fd = x
      BY <1>1, <1>2, <1>8, <2>1, <3>1 DEF Fclose, EntriesOf, TypeOK
    <3> QED
      <4>1. /\ maps' \subseteq Entry
            /\ \A g \in maps' : \E i \in maps : g.ptr = i.ptr /\ g.fd = i.fd
            /\ \A i \in maps : \E g \in maps' : g.ptr = i.ptr /\ g.fd = i.fd
            /\ \A g, e \in maps' : g.ptr = e.ptr => g = e
        BY <1>1, <3>1, MarkingKeepsEntries
      <4> QED
        BY <3>2, <4>1
  <2>2. CASE EntriesOf(fd) = {}
    BY <1>1, <1>2, <1>8, <2>2 DEF Fclose, RealFclose, TypeOK
  <2> QED
    BY <2>1, <2>2
<1>9. ASSUME NEW p \in Ptrs, Munmap(p) PROVE \E i \in maps' : i.fd = x
  <2>1. UNCHANGED owned
    BY <1>9 DEF Munmap
  <2>2. CASE (\A e \in maps : e.ptr # p) /\ UNCHANGED <<maps, table>>
    BY <1>2, <2>1, <2>2
  <2>3. ASSUME NEW e \in maps, e.ptr = p, maps' = maps \ {e},
               \/ e.want_close /\ PostMunmapHook(e, maps \ {e})
               \/ ~e.want_close /\ UNCHANGED table
        PROVE  \E i \in maps' : i.fd = x
    <3>1. CASE ~e.want_close /\ UNCHANGED table
      BY <1>1, <1>2, <2>1, <2>3, <3>1 DEF MarksAgree
    <3>2. CASE PostMunmapHook(e, maps \ {e}) /\ {i \in maps \ {e} : i.fd = e.fd} # {}
      BY <1>2, <2>1, <2>3, <3>2 DEF PostMunmapHook
    <3>3. CASE PostMunmapHook(e, maps \ {e}) /\ {i \in maps \ {e} : i.fd = e.fd} = {}
      <4>1. table' = [table EXCEPT ![e.fd] = NoFile]
        BY <3>3 DEF PostMunmapHook, RealClose, RealFclose
      <4> QED
        BY <1>1, <1>2, <2>1, <2>3, <4>1 DEF TypeOK, Entry
    <3> QED
      BY <2>3, <3>1, <3>2, <3>3
  <2> QED
    BY <1>9, <2>2, <2>3 DEF Munmap
<1> QED
  BY <1>3, <1>4, <1>5, <1>6, <1>7, <1>8, <1>9 DEF Next

\* In a debug build no descriptor stays open that nobody holds: every delayed
\* close has been carried out by the time the last mapping is gone.
THEOREM NoDescriptorLeakHolds == ~NDEBUG => (Spec => []NoDescriptorLeak)
<1> SUFFICES ASSUME ~NDEBUG PROVE Spec => []NoDescriptorLeak
  OBVIOUS
<1>1. Init => NoDescriptorLeak
  BY DEF Init, NoDescriptorLeak
<1>2. ListInvariant /\ NoDescriptorLeak /\ [Next]_vars => NoDescriptorLeak'
  <2>1. ListInvariant /\ NoDescriptorLeak /\ Next => NoDescriptorLeak'
    BY NoLeakStep
  <2>2. NoDescriptorLeak /\ UNCHANGED vars => NoDescriptorLeak'
    BY DEF vars, NoDescriptorLeak, EntriesOf
  <2> QED
    BY <2>1, <2>2
<1>3. Spec => []ListInvariant
  BY ListInvariantHolds
<1> QED
  BY <1>1, <1>2, <1>3, PTL DEF Spec

\* A delayed close (mmap_hack.c:85-181) has happened as soon as no mapping is left that
\* needs the descriptor: munmap() of the last one has not returned before.
THEOREM ClosedOnceUnmappedHolds == ~NDEBUG => (Spec => []ClosedOnceUnmapped)
<1> SUFFICES ASSUME ~NDEBUG PROVE Spec => []ClosedOnceUnmapped
  OBVIOUS
<1>1. ListInvariant /\ NoDescriptorLeak => ClosedOnceUnmapped
  <2> SUFFICES ASSUME ListInvariant, NoDescriptorLeak, ~aborted,
                      NEW fd \in Fds, owned[fd] = "none", table[fd] # NoFile
               PROVE  \E p \in Ptrs : mapped[p] # NoRegion /\ mapped[p].sync /\ mapped[p].fd = fd
    BY DEF ClosedOnceUnmapped
  <2>1. PICK e \in maps : e.fd = fd
    BY DEF NoDescriptorLeak, EntriesOf
  <2>2. e.ptr \in Ptrs
    BY DEF ListInvariant, TypeOK, Entry
  <2>3. mapped[e.ptr] # NoRegion /\ mapped[e.ptr].sync /\ mapped[e.ptr].fd = e.fd
    BY DEF ListInvariant, EntriesBacked
  <2> QED
    BY <2>1, <2>2, <2>3
<1>2. Spec => []ListInvariant
  BY ListInvariantHolds
<1>3. Spec => []NoDescriptorLeak
  BY NoDescriptorLeakHolds
<1> QED
  BY <1>1, <1>2, <1>3, PTL

\* Nothing the client owns is closed under it: no delayed close, and no reuse of a
\* descriptor number, hits an open descriptor, even after the list was lost.
THEOREM OwnedStaysOpenHolds == Spec => []OwnedStaysOpen
<1>1. ListInvariant => OwnedStaysOpen
  BY DEF ListInvariant
<1> QED
  BY <1>1, ListInvariantHolds, PTL

-----------------------------------------------------------------------------
(* What holds when malloc() and fflush() do not fail. *)

\* munmap() fails no assert() and leaves no flushed stream unflushed: the marks of
\* the other entries agree with this one's, and a marked stream was flushed.
LEMMA QuietMunmap ==
  ASSUME ListInvariant, AssertsHold, ClosedStreamsFlushed, NEW p \in Ptrs, Munmap(p)
  PROVE  AssertsHold' /\ ClosedStreamsFlushed'
<1>1. ~aborted /\ TypeOK /\ MarksAgree /\ UNCHANGED owned
  BY DEF ListInvariant, AssertsHold, Munmap
<1>2. CASE UNCHANGED <<stream, unsaved, aborted>>
  BY <1>1, <1>2 DEF AssertsHold, ClosedStreamsFlushed
<1>3. ASSUME NEW e \in maps, e.want_close, PostMunmapHook(e, maps \ {e})
      PROVE  AssertsHold' /\ ClosedStreamsFlushed'
  <2>1. e.fd \in Fds /\ owned[e.fd] = "none"
    BY <1>1, <1>3 DEF TypeOK, Entry, MarksAgree
  <2>2. ASSUME NEW i \in maps, i.fd = e.fd, aborted' = (~NDEBUG /\ ~i.want_close),
               UNCHANGED <<stream, unsaved>>
        PROVE  AssertsHold' /\ ClosedStreamsFlushed'
    <3>1. i.want_close
      BY <1>1, <2>1, <2>2 DEF MarksAgree
    <3> QED
      BY <1>1, <2>2, <3>1 DEF AssertsHold, ClosedStreamsFlushed
  <2>3. CASE e.have_fp /\ RealFclose(e.fd) /\ aborted' = unsaved[e.fd]
    <3>1. ~unsaved[e.fd]
      BY <1>1, <1>3, <2>1, <2>3 DEF MarksAgree, ClosedStreamsFlushed
    <3> QED
      BY <1>1, <2>1, <2>3, <3>1 DEF RealFclose, TypeOK, AssertsHold, ClosedStreamsFlushed
  <2>4. CASE ~e.have_fp /\ RealClose(e.fd) /\ UNCHANGED aborted
    BY <1>1, <2>4 DEF RealClose, AssertsHold, ClosedStreamsFlushed
  <2>5. CASE UNCHANGED <<stream, unsaved, aborted>>
    BY <1>1, <2>5 DEF AssertsHold, ClosedStreamsFlushed
  <2> QED
    BY <1>3, <2>2, <2>3, <2>4, <2>5 DEF PostMunmapHook
<1> QED
  BY <1>2, <1>3 DEF Munmap

\* The other calls abort only when malloc() fails, and mark a stream only after its
\* flush.
LEMMA QuietStep ==
  ASSUME ~EnvFaults, ListInvariant, AssertsHold, ClosedStreamsFlushed, [Next]_vars
  PROVE  AssertsHold' /\ ClosedStreamsFlushed'
<1>1. ~aborted /\ TypeOK /\ StreamsAgree
  BY DEF ListInvariant, AssertsHold
<1>2. ASSUME NEW fd \in Fds, NEW f \in Files, NEW how \in {"fd", "fp"}, Open(fd, f, how)
      PROVE  AssertsHold' /\ ClosedStreamsFlushed'
  BY <1>1, <1>2 DEF Open, TypeOK, AssertsHold, ClosedStreamsFlushed
<1>3. ASSUME NEW fd \in Fds, Fdopen(fd) \/ Fwrite(fd)
      PROVE  AssertsHold' /\ ClosedStreamsFlushed'
  BY <1>1, <1>3 DEF Fdopen, Fwrite, TypeOK, AssertsHold, ClosedStreamsFlushed
<1>4. ASSUME NEW p \in Ptrs, NEW v \in Vals, Store(p, v)
      PROVE  AssertsHold' /\ ClosedStreamsFlushed'
  BY <1>4 DEF Store, AssertsHold, ClosedStreamsFlushed
<1>5. ASSUME NEW fd \in Fds, NEW p \in Ptrs, NEW w \in BOOLEAN, NEW s \in BOOLEAN,
             Mmap(p, fd, w, s)
      PROVE  AssertsHold' /\ ClosedStreamsFlushed'
  BY <1>5 DEF Mmap, AssertsHold, ClosedStreamsFlushed
<1>6. ASSUME NEW fd \in Fds, Close(fd)
      PROVE  AssertsHold' /\ ClosedStreamsFlushed'
  <2>1. ~stream[fd] /\ UNCHANGED <<stream, unsaved, aborted>>
    BY <1>1, <1>6 DEF Close, RealClose, StreamsAgree
  <2> QED
    BY <1>1, <1>6, <2>1 DEF Close, TypeOK, AssertsHold, ClosedStreamsFlushed
<1>7. ASSUME NEW fd \in Fds, Fclose(fd)
      PROVE  AssertsHold' /\ ClosedStreamsFlushed'
  <2>1. unsaved' = [unsaved EXCEPT ![fd] = FALSE] /\ UNCHANGED aborted
    BY <1>7 DEF Fclose, RealFclose
  <2>2. \A x \in Fds \ {fd} : stream'[x] = stream[x] /\ owned'[x] = owned[x]
    BY <1>1, <1>7 DEF Fclose, RealFclose, TypeOK
  <2> QED
    BY <1>1, <2>1, <2>2 DEF TypeOK, AssertsHold, ClosedStreamsFlushed
<1>8. CASE UNCHANGED vars
  BY <1>8 DEF vars, AssertsHold, ClosedStreamsFlushed
<1> QED
  BY <1>2, <1>3, <1>4, <1>5, <1>6, <1>7, <1>8, QuietMunmap DEF Next

\* The two together, which their theorems share: an assert() holds because closed
\* streams are flushed.
LEMMA QuietHolds == ~EnvFaults => (Spec => [](AssertsHold /\ ClosedStreamsFlushed))
<1> SUFFICES ASSUME ~EnvFaults PROVE Spec => [](AssertsHold /\ ClosedStreamsFlushed)
  OBVIOUS
<1>1. Init => AssertsHold /\ ClosedStreamsFlushed
  BY DEF Init, AssertsHold, ClosedStreamsFlushed
<1>2. ListInvariant /\ (AssertsHold /\ ClosedStreamsFlushed) /\ [Next]_vars
        => (AssertsHold /\ ClosedStreamsFlushed)'
  BY QuietStep
<1>3. Spec => []ListInvariant
  BY ListInvariantHolds
<1> QED
  BY <1>1, <1>2, <1>3, PTL DEF Spec

\* No assert() of mmap_hack.c fails while malloc() and fflush() succeed, in whatever
\* order the client maps, closes and unmaps.
THEOREM NoAssertFails == ~EnvFaults => (Spec => []AssertsHold)
<1> SUFFICES ASSUME ~EnvFaults PROVE Spec => []AssertsHold
  OBVIOUS
<1> QED
  BY QuietHolds, PTL

\* A stream whose fclose() is delayed holds no unwritten output, so the delayed
\* fclose() in munmap() has nothing left to fail on.
THEOREM ClosedStreamsFlushedHolds == ~EnvFaults => (Spec => []ClosedStreamsFlushed)
<1> SUFFICES ASSUME ~EnvFaults PROVE Spec => []ClosedStreamsFlushed
  OBVIOUS
<1> QED
  BY QuietHolds, PTL

-----------------------------------------------------------------------------
(* Refinement: the client sees WriteBack. *)

\* Every step of the wrapped API is a step of WriteBack, or none it can see.
LEMMA RefinementStep ==
  ASSUME SoundList, ListInvariant, [Next]_vars
  PROVE  [WB!ANext]_(WB!avars)
<1> USE NoFileAssumption, NoRegionAssumption
<1> DEFINE h == [fd \in Fds |-> IF owned[fd] = "none" THEN NoFile ELSE table[fd]]
           r == [p \in Ptrs |-> IF mapped[p] = NoRegion THEN NoRegion
                                ELSE [file |-> mapped[p].file, sync |-> mapped[p].sync,
                                      val |-> mapped[p].val]]
<1>0. TypeOK /\ OwnedStaysOpen
  BY DEF ListInvariant
<1>1. CASE UNCHANGED vars
  BY <1>1 DEF vars, WB!avars
<1>2. ASSUME NEW fd \in Fds, NEW f \in Files, NEW how \in {"fd", "fp"}, Open(fd, f, how)
      PROVE  WB!AOpen(fd, f)
  <2>1. owned[fd] = "none"
    BY <1>0, <1>2 DEF Open, OwnedStaysOpen, TypeOK
  <2>2. h[fd] = NoFile /\ h' = [h EXCEPT ![fd] = f]
    BY <1>0, <1>2, <2>1 DEF Open, TypeOK
  <2> QED
    BY <1>2, <2>2 DEF WB!AOpen, Open
<1>3. ASSUME NEW fd \in Fds, Fdopen(fd) \/ Fwrite(fd)
      PROVE  UNCHANGED WB!avars
  <2>1. h' = h
    BY <1>0, <1>3 DEF Fdopen, Fwrite, TypeOK
  <2> QED
    BY <1>3, <2>1 DEF WB!avars, Fdopen, Fwrite
<1>4. ASSUME NEW p \in Ptrs, NEW v \in Vals, Store(p, v)
      PROVE  WB!AStore(p, v)
  <2>1. mapped[p] \in Mapping /\ [mapped[p] EXCEPT !.val = v] \in Mapping
    BY <1>0, <1>4 DEF Store, TypeOK, Mapping
  <2>2. r[p] # NoRegion
    BY <1>4, <2>1 DEF Store, Mapping
  <2>3. r' = [r EXCEPT ![p].val = v]
    BY <1>0, <1>4, <2>1 DEF Store, TypeOK, Mapping
  <2>4. UNCHANGED <<h, disk>>
    BY <1>4 DEF Store
  <2> QED
    BY <2>2, <2>3, <2>4 DEF WB!AStore
<1>5. ASSUME NEW fd \in Fds, NEW p \in Ptrs, NEW w \in BOOLEAN, NEW s \in BOOLEAN,
             Mmap(p, fd, w, s)
      PROVE  WB!AMap(p, fd, w /\ s)
  <2> DEFINE m == [fd |-> fd, sync |-> w /\ s, val |-> disk[table[fd]], file |-> table[fd]]
  <2>1. table[fd] \in Files /\ h[fd] = table[fd]
    BY <1>0, <1>5 DEF Mmap, TypeOK, OwnedStaysOpen
  <2>2. m \in Mapping /\ m # NoRegion
    BY <1>0, <2>1 DEF TypeOK, Mapping
  <2>3. mapped' = [mapped EXCEPT ![p] = m] /\ mapped[p] = NoRegion
    BY <1>5 DEF Mmap
  <2>4. r' = [r EXCEPT ![p] = [file |-> table[fd], sync |-> w /\ s,
                               val |-> disk[table[fd]]]]
    BY <1>0, <2>2, <2>3 DEF TypeOK
  <2>5. r[p] = NoRegion
    BY <2>3
  <2>6. UNCHANGED <<h, disk>>
    BY <1>5 DEF Mmap
  <2> QED
    BY <2>1, <2>4, <2>5, <2>6 DEF WB!AMap
<1>6. ASSUME NEW fd \in Fds, Close(fd) \/ Fclose(fd)
      PROVE  WB!AClose(fd)
  <2>1. h[fd] # NoFile
    BY <1>0, <1>6 DEF Close, Fclose, OwnedStaysOpen, TypeOK
  <2>2. \A x \in Fds : x # fd => table'[x] = table[x] /\ owned'[x] = owned[x]
    BY <1>0, <1>6 DEF Close, Fclose, RealClose, RealFclose, TypeOK
  <2>3. owned'[fd] = "none"
    BY <1>0, <1>6 DEF Close, Fclose, TypeOK
  <2>4. h' = [h EXCEPT ![fd] = NoFile]
    BY <2>2, <2>3
  <2>5. UNCHANGED <<r, disk>>
    BY <1>6 DEF Close, Fclose
  <2> QED
    BY <2>1, <2>4, <2>5 DEF WB!AClose
<1>7. ASSUME NEW p \in Ptrs, Munmap(p)
      PROVE  WB!AUnmap(p)
  <2>1. /\ mapped[p] \in Mapping /\ mapped[p] # NoRegion
        /\ mapped' = [mapped EXCEPT ![p] = NoRegion]
    BY <1>0, <1>7 DEF Munmap, TypeOK
  <2>2. r' = [r EXCEPT ![p] = NoRegion]
    BY <1>0, <2>1 DEF TypeOK
  <2>3. r[p] # NoRegion /\ r[p].sync = mapped[p].sync /\ r[p].val = mapped[p].val
          /\ r[p].file = mapped[p].file
    BY <2>1 DEF Mapping
  <2>4. mapped[p].sync => table[mapped[p].fd] = mapped[p].file
    BY <1>7, <2>1 DEF ListInvariant, SyncTracked, EntriesBacked, Munmap, SoundList
  <2>5. disk' = IF r[p].sync THEN [disk EXCEPT ![r[p].file] = r[p].val] ELSE disk
    <3>1. mapped[p].file # NoFile
      BY <2>1 DEF Mapping
    <3> QED
      BY <1>7, <2>3, <2>4, <3>1 DEF Munmap, SyncedDisk
  <2>6. h' = h
    <3>1. \A x \in Fds : owned[x] # "none" => table'[x] = table[x]
      <4>1. MarksAgree
        BY <1>7 DEF ListInvariant, Munmap
      <4>2. ASSUME NEW e \in maps, e.want_close, PostMunmapHook(e, maps \ {e})
            PROVE  \A x \in Fds : owned[x] # "none" => table'[x] = table[x]
        BY <1>0, <4>1, <4>2 DEF PostMunmapHook, RealClose, RealFclose, MarksAgree, TypeOK, Entry
      <4> QED
        BY <1>7, <4>2 DEF Munmap
    <3> QED
      BY <1>7, <3>1 DEF Munmap
  <2> QED
    BY <2>2, <2>3, <2>5, <2>6 DEF WB!AUnmap
<1>8. CASE Next
  <2>1. (\E p \in Ptrs : (\E v \in Vals : Store(p, v)) \/ Munmap(p)) => WB!ANext
    BY <1>4, <1>7 DEF WB!ANext
  <2>2. ASSUME NEW fd \in Fds, NEW p \in Ptrs, NEW w \in BOOLEAN, NEW s \in BOOLEAN,
               Mmap(p, fd, w, s)
        PROVE  WB!ANext
    <3>1. (w /\ s) \in BOOLEAN
      OBVIOUS
    <3> QED
      BY <1>5, <2>2, <3>1 DEF WB!ANext
  <2>3. ASSUME NEW fd \in Fds, NEW f \in Files, NEW how \in {"fd", "fp"}, Open(fd, f, how)
        PROVE  WB!ANext
    BY <1>2, <2>3 DEF WB!ANext
  <2>4. ASSUME NEW fd \in Fds, Close(fd) \/ Fclose(fd)
        PROVE  WB!ANext
    BY <1>6, <2>4 DEF WB!ANext
  <2> QED
    BY <1>3, <1>8, <2>1, <2>2, <2>3, <2>4 DEF Next
<1> QED
  BY <1>1, <1>8

\* The wrapped mmap(), munmap(), close() and fclose() implement WriteBack:
\* unmapping writes the file that was mapped, in every build.
THEOREM RefinesWriteBack == SoundList => (Spec => ImplementsWriteBack)
<1> SUFFICES ASSUME SoundList PROVE Spec => ImplementsWriteBack
  OBVIOUS
<1>1. Init => WB!AInit
  BY DEF Init, WB!AInit
<1>2. ListInvariant /\ [Next]_vars => [WB!ANext]_(WB!avars)
  BY RefinementStep
<1> QED
  BY <1>1, <1>2, ListInvariantHolds, PTL DEF Spec, ImplementsWriteBack, WB!ASpec
=============================================================================
