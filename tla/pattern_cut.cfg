\* A second -p, cut to the length of the first.
SPECIFICATION Spec
CONSTANTS
  IntMax = 5
  MaxData = 4
  DataLen = 2
  MaxWait = 2
  MaxOctet = 3
  MaxPattern = 3
  Numbers <- Limits
  Patterns <- SomePatterns
  MaxOptions = 2
INVARIANT PatternGiven
CHECK_DEADLOCK FALSE
