---------------------------- MODULE DirentProofs ----------------------------
(***************************************************************************)
(* Ownership of descriptors in winsup/dirent.c, for any number of          *)
(* directories, descriptors and streams and whatever other processes do.   *)
(* The proofs go by DirentInvariant, which says who owns a descriptor in   *)
(* the middle of an opendir() or a fdopendir() too.                        *)
(***************************************************************************)
EXTENDS Dirent, TLAPS

\* What the steps leave to a stream: all but the names it has left.
SameStreams ==
    \A s \in Streams :
        /\ Live(s)' <=> Live(s)
        /\ Live(s) => dirp'[s].fd = dirp[s].fd /\ dirp'[s].dir = dirp[s].dir
                        /\ dirp'[s].stray = dirp[s].stray

\* A stream is a record, so writing the names it has left keeps it a live stream
\* of the same descriptor and directory.
LEMMA LeftOnly ==
  ASSUME DirentTypes, NEW s \in Streams, Live(s), NEW rest \in SUBSET Names,
         dirp' = [dirp EXCEPT ![s].left = rest]
  PROVE  SameStreams /\ dirp' \in [Streams -> StreamType \cup {NoStream}]
<1>1. dirp[s] \in StreamType
  BY DEF DirentTypes, Live
<1>2. [dirp[s] EXCEPT !.left = rest] \in StreamType
  BY <1>1 DEF StreamType
<1>3. NoStream \notin StreamType
  BY DirentAssumption DEF StreamType
<1>4. dirp'[s] = [dirp[s] EXCEPT !.left = rest]
  BY DEF DirentTypes
<1>5. \A t \in Streams : t # s => dirp'[t] = dirp[t]
  BY DEF DirentTypes
<1>6. dirp' \in [Streams -> StreamType \cup {NoStream}]
  BY <1>2 DEF DirentTypes
<1>7. /\ dirp'[s].fd = dirp[s].fd /\ dirp'[s].dir = dirp[s].dir
      /\ dirp'[s].stray = dirp[s].stray /\ dirp'[s] # NoStream
  BY <1>1, <1>2, <1>3, <1>4 DEF StreamType
<1> QED
  BY <1>5, <1>6, <1>7 DEF SameStreams, Live

\* A step that keeps descriptors and streams and is in no call keeps the invariant.
LEMMA QuietStep ==
  ASSUME DirentInvariant, SameStreams, UNCHANGED <<where, table, client>>,
         dirp' \in [Streams -> StreamType \cup {NoStream}],
         pc # "opening", pc' \in {"idle", "reading", "fstatat", "lseek"}
  PROVE  DirentInvariant'
<1>1. DirentTypes'
  BY DEF DirentInvariant, DirentTypes
<1>2. PlacesApart' /\ ClientKeeps'
  BY DEF DirentInvariant, PlacesApart, ClientKeeps
<1>3. StreamsOwn' /\ StreamsApart'
  BY DEF DirentInvariant, StreamsOwn, StreamsApart, SameStreams
<1>4. EveryOwned' /\ OpeningSound'
  BY DEF DirentInvariant, EveryOwned, OpeningSound, SameStreams
<1>5. SameDirectory'
  BY DEF DirentInvariant, SameDirectory, SameStreams
<1> QED
  BY <1>1, <1>2, <1>3, <1>4, <1>5 DEF DirentInvariant

\* Opening the descriptor, or taking the client's: the call becomes an owner.
LEMMA OpenStarts ==
  ASSUME DirentInvariant, NEW s \in Streams, NEW fd \in Fds,
         Fdopendir(s, fd) \/ \E d \in Dirs : Opendir(s, fd, d)
  PROVE  DirentInvariant'
<1> USE DEF DirentInvariant, Live, Idle
<1>1. CASE Fdopendir(s, fd)
  <2>1. table[fd] = client[fd] /\ table[fd] \in Dirs
    BY <1>1 DEF ClientKeeps, DirentTypes, Fdopendir
  <2> PICK p \in FdGetPath(fd) :
        cur' = [op |-> "fdopendir", s |-> s, fd |-> fd, path |-> p, stray |-> Unwritten(fd)]
    BY <1>1 DEF Fdopendir
  <2>2. cur' \in OpenCall
    <3>1. p \in Places /\ Unwritten(fd) \in BOOLEAN
      BY <2>1 DEF FdGetPath, Unwritten, DirentTypes
    <3> QED
      BY <3>1 DEF OpenCall
  <2>3. DirentTypes'
    BY <1>1, <2>2 DEF Fdopendir, DirentTypes
  <2>4. PlacesApart' /\ ClientKeeps' /\ SameDirectory' /\ StreamsOwn' /\ StreamsApart'
    BY <1>1 DEF Fdopendir, PlacesApart, ClientKeeps, SameDirectory, StreamsOwn, StreamsApart
  <2>5. EveryOwned'
    BY <1>1 DEF Fdopendir, EveryOwned
  <2>6. OpeningSound'
    <3>1. /\ cur'.s = s /\ cur'.fd = fd /\ cur'.op = "fdopendir"
          /\ ~cur'.stray => cur'.path = where[table[fd]]
      BY DEF FdGetPath
    <3>2. \A t \in Streams : Live(t) => dirp[t].fd # fd
      BY <1>1 DEF Fdopendir, StreamsOwn
    <3> QED
      BY <1>1, <2>1, <3>1, <3>2, DirentAssumption DEF Fdopendir, OpeningSound
  <2> QED
    BY <2>3, <2>4, <2>5, <2>6
<1>2. ASSUME NEW d \in Dirs, Opendir(s, fd, d) PROVE DirentInvariant'
  <2>1. /\ pc = "idle" /\ pc' = "opening" /\ dirp[s] = NoStream /\ table[fd] = NoDir
        /\ UNCHANGED <<where, client, dirp>>
    BY <1>2 DEF Opendir
  <2>2. table'[fd] = d /\ \A f \in Fds : f # fd => table'[f] = table[f]
    BY <1>2 DEF Opendir, DirentTypes
  <2>3. cur' = [op |-> "opendir", s |-> s, fd |-> fd, path |-> where[d], stray |-> FALSE]
    BY <1>2 DEF Opendir
  <2>4. cur' \in OpenCall
    BY <2>3 DEF DirentTypes, OpenCall
  <2>5. DirentTypes'
    BY <1>2, <2>1, <2>4 DEF Opendir, DirentTypes
  <2>6. client[fd] = NoDir
    BY <2>1, DirentAssumption DEF ClientKeeps
  <2>7. \A t \in Streams : Live(t) => dirp[t].fd # fd /\ dirp[t].fd \in Fds
    BY <2>1 DEF StreamsOwn, DirentTypes, StreamType
  <2>8. PlacesApart' /\ ClientKeeps' /\ StreamsApart'
    BY <2>1, <2>2, <2>6 DEF PlacesApart, ClientKeeps, StreamsApart
  <2>9. StreamsOwn' /\ SameDirectory'
    BY <2>1, <2>2, <2>7 DEF StreamsOwn, SameDirectory
  <2>10. EveryOwned'
    <3>1. cur'.fd = fd
      BY <2>3
    <3> QED
      BY <2>1, <2>2, <3>1 DEF EveryOwned
  <2>11. OpeningSound'
    <3>1. /\ cur'.s = s /\ cur'.fd = fd /\ cur'.op = "opendir"
          /\ cur'.path = where[d]
      BY <2>3
    <3> QED
      BY <2>1, <2>2, <2>6, <2>7, <3>1, DirentAssumption DEF OpeningSound
  <2> QED
    BY <2>5, <2>8, <2>9, <2>10, <2>11
<1> QED
  BY <1>1, <1>2

\* The DIR is opened: the stream becomes the owner, and reads the directory of
\* its descriptor unless the path may lead elsewhere.
LEMMA OpenSucceeds ==
  ASSUME DirentInvariant, OpenReal
  PROVE  DirentInvariant'
<1> USE DEF DirentInvariant, Live
<1> PICK d \in Dirs :
      /\ where[d] = cur.path
      /\ dirp' = [dirp EXCEPT ![cur.s] =
                    [fd |-> cur.fd, dir |-> d, left |-> Listed(d), stray |-> cur.stray]]
  BY DEF OpenReal
<1> DEFINE new == [fd |-> cur.fd, dir |-> d, left |-> Listed(d), stray |-> cur.stray]
<1>1. /\ pc = "opening" /\ pc' = "idle" /\ UNCHANGED <<where, table>>
      /\ client' = [client EXCEPT ![cur.fd] = NoDir]
  BY DEF OpenReal, Return
<1>2. cur \in OpenCall /\ cur.s \in Streams /\ cur.fd \in Fds /\ cur.stray \in BOOLEAN
  BY <1>1 DEF DirentTypes, OpenCall
<1>3. new \in StreamType /\ new # NoStream
  BY <1>2, DirentAssumption DEF StreamType, Listed
<1>4. dirp'[cur.s] = new /\ \A t \in Streams : t # cur.s => dirp'[t] = dirp[t]
  BY <1>2 DEF DirentTypes
<1>5. DirentTypes'
  BY <1>1, <1>2, <1>3 DEF DirentTypes
<1>6. new.fd = cur.fd /\ new.dir = d /\ new.stray = cur.stray
  OBVIOUS
<1>7. client'[cur.fd] = NoDir /\ \A f \in Fds : f # cur.fd => client'[f] = client[f]
  BY <1>1, <1>2 DEF DirentTypes
<1>8. \A t \in Streams : dirp[t] # NoStream => dirp[t].fd \in Fds
  BY DEF DirentTypes, StreamType
<1> HIDE DEF new
<1>9. PlacesApart' /\ ClientKeeps'
  BY <1>1, <1>7 DEF PlacesApart, ClientKeeps
<1>10. StreamsOwn'
  BY <1>1, <1>2, <1>4, <1>6, <1>7, <1>8 DEF StreamsOwn, OpeningSound
<1>11. StreamsApart'
  BY <1>1, <1>2, <1>4, <1>6 DEF StreamsApart, OpeningSound
<1>12. EveryOwned'
  <2> SUFFICES ASSUME NEW f \in Fds, table[f] # NoDir
               PROVE  client'[f] # NoDir \/ \E s \in Streams : dirp'[s] # NoStream /\ dirp'[s].fd = f
    BY <1>1 DEF EveryOwned
  <2>1. CASE f = cur.fd
    BY <1>2, <1>3, <1>4, <1>6, <2>1
  <2>2. CASE f # cur.fd
    <3>1. client[f] # NoDir \/ \E s \in Streams : dirp[s] # NoStream /\ dirp[s].fd = f
      BY <1>1, <2>2 DEF EveryOwned
    <3>2. dirp[cur.s] = NoStream
      BY <1>1 DEF OpeningSound
    <3> QED
      BY <1>4, <1>7, <2>2, <3>1, <3>2
  <2> QED
    BY <2>1, <2>2
<1>13. OpeningSound'
  BY <1>1 DEF OpeningSound
<1>14. SameDirectory'
  <2>1. ~cur.stray => d = table[cur.fd]
    BY <1>1, <1>2 DEF OpeningSound, PlacesApart, DirentTypes
  <2> QED
    BY <1>1, <1>2, <1>4, <1>6, <2>1 DEF SameDirectory
<1> QED
  BY <1>5, <1>9, <1>10, <1>11, <1>12, <1>13, <1>14

\* The DIR is not opened: a descriptor of opendir() is closed, one of the client
\* is the client's again.
LEMMA OpenGivesUp ==
  ASSUME DirentInvariant, pc = "opening", CloseOnError, Return,
         UNCHANGED <<where, client, dirp>>
  PROVE  DirentInvariant'
<1> USE DEF DirentInvariant, Live
<1>1. cur \in OpenCall /\ cur.fd \in Fds /\ pc' = "idle"
  BY DEF DirentTypes, OpenCall, Return
<1>2. table' \in [Fds -> Dirs \cup {NoDir}]
  BY <1>1 DEF CloseOnError, DirentTypes
<1>3. /\ table'[cur.fd] = IF client[cur.fd] = NoDir THEN NoDir ELSE table[cur.fd]
      /\ \A f \in Fds : f # cur.fd => table'[f] = table[f]
  BY <1>1 DEF CloseOnError, DirentTypes, OpeningSound
<1>4. \A t \in Streams : dirp[t] # NoStream => dirp[t].fd \in Fds /\ dirp[t].fd # cur.fd
  BY DEF DirentTypes, StreamType, OpeningSound
<1>5. DirentTypes' /\ PlacesApart' /\ StreamsApart' /\ OpeningSound'
  BY <1>1, <1>2 DEF DirentTypes, PlacesApart, StreamsApart, OpeningSound
<1>6. StreamsOwn' /\ SameDirectory' /\ ClientKeeps'
  BY <1>1, <1>3, <1>4 DEF StreamsOwn, SameDirectory, ClientKeeps
<1>7. EveryOwned'
  BY <1>1, <1>3 DEF EveryOwned
<1> QED
  BY <1>5, <1>6, <1>7

\* closedir() ends the ownership of one stream and touches no other descriptor.
LEMMA ClosedirStep ==
  ASSUME DirentInvariant, NEW s \in Streams, Closedir(s)
  PROVE  DirentInvariant'
<1> USE DEF DirentInvariant, Live, Idle
<1> DEFINE fd == dirp[s].fd
<1>1. /\ pc = "idle" /\ dirp[s] # NoStream /\ UNCHANGED <<where, client, pc>>
      /\ table' = [table EXCEPT ![fd] = NoDir]
      /\ dirp' = [dirp EXCEPT ![s] = NoStream]
  BY DEF Closedir
<1>2. \A t \in Streams : dirp[t] # NoStream => dirp[t].fd \in Fds
  BY DEF DirentTypes, StreamType
<1>3. table'[fd] = NoDir /\ \A f \in Fds : f # fd => table'[f] = table[f]
  BY <1>1, <1>2 DEF DirentTypes
<1>4. dirp'[s] = NoStream /\ \A t \in Streams : t # s => dirp'[t] = dirp[t]
  BY <1>1 DEF DirentTypes
<1>5. \A t \in Streams : t # s /\ dirp[t] # NoStream => dirp[t].fd # fd
  BY <1>1 DEF StreamsApart
<1>6. DirentTypes'
  BY <1>1 DEF DirentTypes
<1>7. client[fd] = NoDir
  BY <1>1 DEF StreamsOwn
<1> HIDE DEF fd
<1>8. PlacesApart' /\ ClientKeeps' /\ OpeningSound' /\ StreamsApart'
  BY <1>1, <1>3, <1>4, <1>7 DEF PlacesApart, ClientKeeps, OpeningSound, StreamsApart
<1>9. StreamsOwn' /\ SameDirectory'
  BY <1>1, <1>2, <1>3, <1>4, <1>5 DEF StreamsOwn, SameDirectory
<1>10. EveryOwned'
  <2> SUFFICES ASSUME NEW f \in Fds, table'[f] # NoDir
               PROVE  client[f] # NoDir \/ \E t \in Streams : dirp'[t] # NoStream /\ dirp'[t].fd = f
    BY <1>1 DEF EveryOwned
  <2>1. f # fd /\ table[f] # NoDir
    BY <1>3
  <2>2. client[f] # NoDir \/ \E t \in Streams : dirp[t] # NoStream /\ dirp[t].fd = f
    BY <1>1, <2>1 DEF EveryOwned
  <2> QED
    BY <1>4, <2>1, <2>2 DEF fd
<1> QED
  BY <1>6, <1>8, <1>9, <1>10

\* Reading, rewinding and seeking write the names a stream has left, no more.
LEMMA ReadingStep ==
  ASSUME DirentInvariant, NEW s \in Streams,
         \/ Rewinddir(s)
         \/ \E n \in Names : Readdir(s, n)
         \/ \E rest \in SUBSET Names : Seekdir(s, rest)
  PROVE  DirentInvariant'
<1>1. /\ pc = "idle" /\ Live(s) /\ UNCHANGED <<where, table, client>>
      /\ pc' \in {"idle", "reading", "lseek"}
  BY DEF Rewinddir, Readdir, Seekdir, Idle
<1>2. dirp[s] \in StreamType
  BY <1>1 DEF DirentInvariant, DirentTypes, Live
<1>3. dirp[s].left \in SUBSET Names
  BY <1>2 DEF StreamType
<1>4. \E rest \in SUBSET Names : dirp' = [dirp EXCEPT ![s].left = rest]
  <2>1. CASE Rewinddir(s)
    BY <2>1 DEF Rewinddir, Listed
  <2>2. ASSUME NEW n \in Names, Readdir(s, n)
        PROVE  dirp' = [dirp EXCEPT ![s].left = dirp[s].left \ {n}]
    BY <2>2 DEF Readdir
  <2>3. CASE \E rest \in SUBSET Names : Seekdir(s, rest)
    BY <2>3 DEF Seekdir
  <2> QED
    BY <1>3, <2>1, <2>2, <2>3
<1>5. SameStreams /\ dirp' \in [Streams -> StreamType \cup {NoStream}]
  BY <1>1, <1>4, LeftOnly DEF DirentInvariant
<1> QED
  BY <1>1, <1>5, QuietStep

\* The client opens and closes descriptors of its own.
LEMMA ClientStep ==
  ASSUME DirentInvariant, NEW fd \in Fds, Close(fd) \/ \E d \in Dirs : Open(fd, d)
  PROVE  DirentInvariant'
<1> USE DEF DirentInvariant, Live, Idle
<1>1. PICK d \in Dirs \cup {NoDir} :
        /\ table' = [table EXCEPT ![fd] = d] /\ client' = [client EXCEPT ![fd] = d]
  BY DEF Open, Close
<1>2. /\ pc = "idle" /\ UNCHANGED <<where, dirp, pc>>
      /\ table[fd] = NoDir \/ client[fd] # NoDir
  BY DEF Open, Close
<1>3. table'[fd] = d /\ \A f \in Fds : f # fd => table'[f] = table[f]
  BY <1>1 DEF DirentTypes
<1>4. client'[fd] = d /\ \A f \in Fds : f # fd => client'[f] = client[f]
  BY <1>1 DEF DirentTypes
<1>5. \A t \in Streams : dirp[t] # NoStream => dirp[t].fd \in Fds /\ dirp[t].fd # fd
  BY <1>2 DEF DirentTypes, StreamType, StreamsOwn
<1>6. DirentTypes' /\ PlacesApart' /\ StreamsApart' /\ OpeningSound' /\ ClientKeeps'
  BY <1>1, <1>2, <1>3, <1>4
  DEF DirentTypes, PlacesApart, StreamsApart, OpeningSound, ClientKeeps
<1>7. StreamsOwn' /\ SameDirectory' /\ EveryOwned'
  BY <1>2, <1>3, <1>4, <1>5 DEF StreamsOwn, SameDirectory, EveryOwned
<1> QED
  BY <1>6, <1>7

\* Another process moves a directory: a call that is opening one is marked stray.
LEMMA MoveStep ==
  ASSUME DirentInvariant, NEW d \in Dirs, NEW p \in Places, Move(d, p)
  PROVE  DirentInvariant'
<1> USE DEF DirentInvariant, Live
<1>1. /\ UNCHANGED <<table, client, dirp, pc>> /\ \A e \in Dirs : where[e] # p
      /\ where' = [where EXCEPT ![d] = p]
  BY DEF Move
<1>2. where'[d] = p /\ \A e \in Dirs : e # d => where'[e] = where[e]
  BY <1>1 DEF DirentTypes
<1>3. PlacesApart' /\ StreamsOwn' /\ StreamsApart' /\ ClientKeeps' /\ SameDirectory'
  BY <1>1, <1>2 DEF PlacesApart, StreamsOwn, StreamsApart, ClientKeeps, SameDirectory
<1>4. pc = "opening" => /\ cur' \in OpenCall /\ cur'.stray
                        /\ cur'.s = cur.s /\ cur'.fd = cur.fd /\ cur'.op = cur.op
  BY DEF Move, DirentTypes, OpenCall
<1>5. DirentTypes'
  BY <1>1, <1>4 DEF DirentTypes
<1>6. EveryOwned' /\ OpeningSound'
  BY <1>1, <1>4 DEF EveryOwned, OpeningSound
<1> QED
  BY <1>3, <1>5, <1>6

\* Every step keeps DirentInvariant.
LEMMA DirentInvariantStep == DirentInvariant /\ [Next]_vars => DirentInvariant'
<1> SUFFICES ASSUME DirentInvariant, [Next]_vars PROVE DirentInvariant'
  OBVIOUS
<1>1. CASE \E s \in Streams, fd \in Fds : Fdopendir(s, fd) \/ \E d \in Dirs : Opendir(s, fd, d)
  BY <1>1, OpenStarts
<1>2. CASE OpenReal
  BY <1>2, OpenSucceeds
<1>3. CASE OpenFails \/ OpenFindsNothing
  BY <1>3, OpenGivesUp DEF OpenFails, OpenFindsNothing
<1>4. CASE \E s \in Streams : Closedir(s)
  BY <1>4, ClosedirStep
<1>5. CASE \E s \in Streams :
             \/ Rewinddir(s)
             \/ \E n \in Names : Readdir(s, n)
             \/ \E rest \in SUBSET Names : Seekdir(s, rest)
  BY <1>5, ReadingStep
<1>6. CASE FinishReadDebug \/ \E type \in Kinds : FinishReadRelease(type)
  <2>1. /\ pc # "opening" /\ pc' \in {"idle", "fstatat", "lseek"}
        /\ UNCHANGED <<where, table, client, dirp>>
    BY <1>6 DEF FinishReadDebug, FinishReadRelease, Return
  <2>2. SameStreams /\ dirp' \in [Streams -> StreamType \cup {NoStream}]
    BY <2>1 DEF DirentInvariant, DirentTypes, SameStreams, Live
  <2> QED
    BY <2>1, <2>2, QuietStep
<1>7. CASE \E fd \in Fds : Close(fd) \/ \E d \in Dirs : Open(fd, d)
  BY <1>7, ClientStep
<1>8. CASE \E d \in Dirs, p \in Places : Move(d, p)
  BY <1>8, MoveStep
<1>9. CASE UNCHANGED <<where, table, client, dirp, pc, cur>>
  BY <1>9 DEF DirentInvariant, DirentTypes, PlacesApart, StreamsOwn, StreamsApart,
              EveryOwned, OpeningSound, ClientKeeps, SameDirectory, Live
<1>10. CASE \E d \in Dirs, n \in Names, kind \in Kinds : Change(d, n, kind)
  BY <1>9, <1>10 DEF Change
<1>11. CASE UNCHANGED vars
  BY <1>9, <1>11 DEF vars
<1> QED
  BY <1>1, <1>2, <1>3, <1>4, <1>5, <1>6, <1>7, <1>8, <1>10, <1>11 DEF Next

\* The inductive invariant holds in every run of the directory functions.
THEOREM DirentInvariantHolds == Spec => []DirentInvariant
<1>1. Init => DirentInvariant
  BY DirentAssumption DEF Init, DirentInvariant, DirentTypes, PlacesApart, StreamsOwn, StreamsApart,
         EveryOwned, OpeningSound, ClientKeeps, SameDirectory, Live
<1> QED
  BY <1>1, DirentInvariantStep, PTL DEF Spec

\* Between calls of opendir(), fdopendir() and closedir() every open descriptor has
\* exactly one owner, whatever failed half-way.
THEOREM OneOwnerHolds == Spec => []OneOwner
<1>1. DirentInvariant => OneOwner
  <2> SUFFICES ASSUME DirentInvariant, pc = "idle", NEW fd \in Fds,
                      NEW over, over = {s \in Streams : Live(s) /\ dirp[s].fd = fd}
               PROVE  /\ table[fd] = NoDir => client[fd] = NoDir /\ over = {}
                      /\ table[fd] # NoDir =>
                           \/ client[fd] # NoDir /\ over = {}
                           \/ client[fd] = NoDir /\ \E s \in over : over = {s}
    BY DEF OneOwner, Idle
  <2>1. CASE table[fd] = NoDir
    BY <2>1 DEF DirentInvariant, ClientKeeps, StreamsOwn
  <2>2. CASE table[fd] # NoDir /\ client[fd] # NoDir
    BY <2>2 DEF DirentInvariant, StreamsOwn
  <2>3. CASE table[fd] # NoDir /\ client[fd] = NoDir
    <3>1. PICK s \in over : TRUE
      BY <2>3 DEF DirentInvariant, EveryOwned
    <3>2. over = {s}
      BY <3>1 DEF DirentInvariant, StreamsApart
    <3> QED
      BY <2>3, <3>1, <3>2
  <2> QED
    BY <2>1, <2>2, <2>3
<1> QED
  BY <1>1, DirentInvariantHolds, PTL

\* A failed fdopendir() leaves the client's descriptor open on its directory.
THEOREM ClientKeepsHolds == Spec => []ClientKeeps
<1>1. DirentInvariant => ClientKeeps
  BY DEF DirentInvariant
<1> QED
  BY <1>1, DirentInvariantHolds, PTL

\* The DIR and the descriptor of a stream are of one directory, unless a directory
\* moved between the two opens or fdopendir() got a path longer than PATH_MAX.
THEOREM SameDirectoryHolds == Spec => []SameDirectory
<1>1. DirentInvariant => SameDirectory
  BY DEF DirentInvariant
<1> QED
  BY <1>1, DirentInvariantHolds, PTL
=============================================================================
