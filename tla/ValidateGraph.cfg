CONSTANTS
  GraphNodes = {n1, n2, n3}
  MaxCopies = 2
SPECIFICATION VGSpec
CHECK_DEADLOCK FALSE
INVARIANTS AcceptsExactlyDags
