SPECIFICATION PersistentSpec
CONSTANTS
  Requests = {r1, r2, r3}
  NoRequest = NoRequest
  Cooldowns <- MCCooldowns
  Second = 2
INVARIANTS
  TokenInv
PROPERTIES
  CooldownRespected
  RetryHintSuffices
  GateRecovers
  CapturesHappen
  PromiseKept
