SPECIFICATION Spec
CONSTANTS
  a = a  b = b  p1 = p1  p2 = p2  p3 = p3
  fd1 = fd1  fd2 = fd2  s1 = s1  s2 = s2
  NoDir = NoDir  NoStream = NoStream
  Dirs = {a, b}  Places = {p1, p2, p3}  LongPlaces = {p3}
  Fds = {fd1, fd2}  Streams = {s1, s2}
  Names = {1}
  Kinds <- MCKinds
  Builds = {TRUE, FALSE}
  OthersActive = TRUE
  MaxUpsets = 2
INVARIANTS OneOwner ClientKeeps SameDirectory
SYMMETRY Symmetry
CHECK_DEADLOCK FALSE
