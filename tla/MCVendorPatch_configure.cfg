SPECIFICATION FairSpec
CONSTANTS
  build = build
  Builds = {build}
  Default = build
  NDirs = 2
  NPatches = 2
  PatchesExist = TRUE
  WindowsHost = TRUE
  GitMayFail = TRUE
  MaxUpsets = 4
INVARIANTS FlaggedIsPatched FlaggedHasLinks
PROPERTIES DirtyDiscarded Recovers
CHECK_DEADLOCK FALSE
