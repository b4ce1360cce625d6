\* Everything acquired and released, any step failing.
SPECIFICATION Spec
CONSTANT Hosts = 3
INVARIANTS
  TypeOK
  OwnedOnce
  AllReleased
  HeldByHost
  ExitTells
