SPECIFICATION Spec
CONSTANTS
  OFF_MAX = 7
  sf_buf_size = 3
  Lengths <- MCLengths
  Counts <- MCCounts
  Faults = {"fail_write"}
  MaxFaults = 1
INVARIANT OutputIsPrefix
CHECK_DEADLOCK FALSE
