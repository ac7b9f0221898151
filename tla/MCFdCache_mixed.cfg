SPECIFICATION Spec
CONSTANTS
  h1 = h1  h2 = h2  h3 = h3
  Handles <- MCHandles
  Invalid = Invalid
  OPEN_MAX = 4
  CRT_MAX = 3
  Rust = TRUE
  Symlinks = TRUE
SYMMETRY Symmetry
INVARIANT CacheReachable
INVARIANT SingleOwner
INVARIANT OpenedStaysCached
PROPERTY AnswerRight
CHECK_DEADLOCK FALSE
