\* Two intervals, every moment of a clock set forward and back.
SPECIFICATION Spec
CONSTANTS
  MaxTime = 15
  HZ = 3
  Intervals <- TwoIntervals
  Timeouts <- SomeTimeouts
  Latency = 1
  Walls = {2, 4}
  MaxJumps = 2
  Jumps <- BackAndForth
  Horizon = 16
  MaxNow = 12
INVARIANTS
  TypeOK
  Spacing
  TimeoutLag
  Arithmetic
CHECK_DEADLOCK FALSE
