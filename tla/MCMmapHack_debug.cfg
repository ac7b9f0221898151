SPECIFICATION FairSpec
CONSTANTS
  fd1 = fd1  fd2 = fd2
  f1 = f1  f2 = f2
  p1 = p1  p2 = p2
  v0 = v0  v1 = v1
  Fds <- MCFds
  Files <- MCFiles
  NoFile = NoFile
  Ptrs <- MCPtrs
  NoRegion = NoRegion
  Vals <- MCVals
  NDEBUG = FALSE
  EnvFaults = FALSE
INVARIANTS ListInvariant WriteBackReady NoDescriptorLeak
INVARIANTS OwnedStaysOpen AssertsHold ClosedStreamsFlushed
PROPERTIES ImplementsWriteBack DelayedCloseHappens
