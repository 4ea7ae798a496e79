SPECIFICATION Spec
CONSTANTS
  m1 = m1
  b1 = b1
  Requests = {m1, b1}
  NoRequest = NoRequest
  Kind <- MCKind
  Cooldowns <- MCCooldowns
  Chunks = 3
INVARIANTS
  ScratchGuarded
  HonestReply
PROPERTIES
  OwnCooldown
  GateReturned
