SPECIFICATION Spec
CONSTANTS
  AddressLimit = 256
  SignedLimit = 128
  VerifiedTable <- MCVerifiedTable
  Worlds <- MCWorlds
  Hosts <- MCHosts
  MaxLabels = 2
  MaxStringLen = 2
  Encodings <- MCEncodings
  MaxMissing = 2
CHECK_DEADLOCK FALSE
INVARIANTS
  DecodedIsWritten
  NobodySilentlyUnlabelled
  TrueOffsetIsACandidate
