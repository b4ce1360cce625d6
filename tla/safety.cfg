\* Everything that can go wrong, two hosts.
SPECIFICATION Spec
CONSTANTS
  Hosts = 2
  NBits = 2
  SeqMod = 4
  Preload = 1
  Count = 0
  TimeoutSet = TRUE
  Faults <- AllFaults
  Forged <- Forger
  CrossTalk = TRUE
  Lifetime = 5
  MaxXmit = 5
  MaxResp = 4
INVARIANTS
  TypeOK
  RecvBounded
  AnswerCounts
  OneAfterStop
  StopIsThisRuns
  TableWhenSending
  FreshRun
