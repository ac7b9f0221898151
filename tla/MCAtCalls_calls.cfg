SPECIFICATION FairSpec
CONSTANTS
  cwd = cwd  a = a  b = b
  home = home  p1 = p1  p2 = p2  p3 = p3  f = f
  Dirs = {cwd, a, b}  Cwd = cwd
  Places = {home, p1, p2, p3}  Home = home
  LongPlaces = {p2}
  Start <- MCStart
  Names = {f}
  Ops <- AllOps
  WinErrs <- MCWinErrs
  Builds = {TRUE, FALSE}
  MaxMoves = 1
  MaxFaults = 1
INVARIANTS OthersActWhereAsked NoPathLeak ErrnoSet
PROPERTIES FailureLeavesNoTrace Returns
CHECK_DEADLOCK FALSE
