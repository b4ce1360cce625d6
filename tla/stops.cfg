\* Interruption and -w end what they should, whatever the network does.
SPECIFICATION FairSpec
CONSTANTS
  Hosts = 2
  NBits = 2
  SeqMod = 4
  Preload = 0
  Count = 0
  TimeoutSet = TRUE
  Faults <- AllFaults
  Forged <- Nobody
  CrossTalk = TRUE
  Lifetime = 3
  MaxXmit = 3
  MaxResp = 2
PROPERTIES
  CaughtEndsRun
  TimeoutEndsAll
  NearsEnd
