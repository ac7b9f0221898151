SPECIFICATION FairSpec
CONSTANTS
  OFF_MAX = 7
  sf_buf_size = 3
  Lengths <- MCLengths
  Counts <- MCCounts
  Faults = {"fail_read", "fail_write", "short_write"}
  MaxFaults = 3
INVARIANTS CopiesExactly BlocksInOrder
PROPERTY Terminates
CHECK_DEADLOCK FALSE
