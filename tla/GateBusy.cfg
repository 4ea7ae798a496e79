SPECIFICATION Spec
CONSTANTS
  Requests = {r1, r2}
  NoRequest = NoRequest
  Cooldowns <- MCCooldowns
  Second = 2
PROPERTY
  CooldownIsTold
