SPECIFICATION Spec
CONSTANTS
  img = img  dir = dir  lnk = lnk  con = con  s1 = s1
  Minors = 4
  Files = {img, dir, lnk, con}  Kind <- MCKind  Stdin = con
  Names <- MCNames  Start <- MCStart
  Targets = {0, 1, 3, Junction}  Junction = Junction
  PATH_MAX = 5
  Fds = {0, 1}
  Streams = {s1}
  Modes <- MCModes
  Perms <- MCPerms
  Lengths = {0, 4}
  WinErrs = {2}
  Builds = {TRUE, FALSE}
  MaxUpsets = 1
INVARIANTS FilesInvariant StreamFitsDescriptor ModeRemembered StatTrue
PROPERTY FopenFailsClean
CHECK_DEADLOCK FALSE
