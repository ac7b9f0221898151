SPECIFICATION Spec
CONSTANTS
  cwd = cwd  a = a  b = b
  home = home  p1 = p1  p2 = p2  p3 = p3  f = f
  Dirs = {cwd, a, b}  Cwd = cwd
  Places = {home, p1, p2, p3}  Home = home
  LongPlaces = {}
  Start <- MCStart
  Names = {f}
  Ops = {"openat"}
  WinErrs <- MCWinErrs
  Builds = {FALSE}
  MaxMoves = 0
  MaxFaults = 0
INVARIANT ActsWhereAsked
CHECK_DEADLOCK FALSE
