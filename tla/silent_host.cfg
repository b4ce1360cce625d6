\* A silent host and the exit status.
SPECIFICATION Spec
CONSTANTS
  Hosts = 2
  NBits = 2
  SeqMod = 4
  Preload = 0
  Count = 0
  TimeoutSet = FALSE
  Faults <- NoFaults
  Forged <- Nobody
  CrossTalk = TRUE
  Lifetime = 2
  MaxXmit = 3
  MaxResp = 3
PROPERTY UnreachableReported
