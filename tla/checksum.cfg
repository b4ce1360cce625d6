\* Every message of up to eight bytes of three values, on both kinds of machine.
SPECIFICATION Spec
CONSTANTS
  Base = 3
  MaxLen = 8
  Messages <- AllMessages
INVARIANTS
  TypeOK
  SumFits
  OnesComplement
  PeerAccepts
  DamageCaught
CHECK_DEADLOCK FALSE
