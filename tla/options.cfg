\* Any four options.
SPECIFICATION Spec
CONSTANTS
  IntMax = 5
  MaxData = 4
  DataLen = 2
  MaxWait = 2
  MaxOctet = 3
  MaxPattern = 3
  Numbers <- Limits
  Patterns <- SomePatterns
  MaxOptions = 4
INVARIANTS
  TypeOK
  Privileges
  InRange
  PayloadIsPrefix
CHECK_DEADLOCK FALSE
