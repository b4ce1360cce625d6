\* A failed call and the exit status.
SPECIFICATION Spec
CONSTANTS
  Hosts = 1
  NBits = 2
  SeqMod = 4
  Preload = 0
  Count = 0
  TimeoutSet = FALSE
  Faults <- AllFaults
  Forged <- Nobody
  CrossTalk = FALSE
  Lifetime = 2
  MaxXmit = 3
  MaxResp = 3
PROPERTY ErrorReported
