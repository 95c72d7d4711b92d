CONSTANTS
  Names <- MCNames
  Bits <- MCBits
  Sigs <- MCSigs
  Hashes <- MCHashes
  NoSig = NoSig
  Retain = 2
  IdleFrames = 2
  Ring = 2
  HasMemoryless = TRUE
  Sessions <- MCSessions
SPECIFICATION Spec
INVARIANTS
  StaleBakesRun
