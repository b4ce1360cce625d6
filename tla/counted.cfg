\* The counters of a counted run (the library interface ping_set_count) while
\* the table and the sequence numbers wrap, and its end.
SPECIFICATION QuietSpec
CONSTANTS
  Hosts = 2
  NBits = 2
  SeqMod = 4
  Preload = 1
  Count = 6
  TimeoutSet = FALSE
  Faults <- AllFaults
  Forged <- Nobody
  CrossTalk = FALSE
  Lifetime = 2
  MaxXmit = 6
  MaxResp = 6
PROPERTIES
  CountsRequests
  CountedRunEnds
  CountsDown
