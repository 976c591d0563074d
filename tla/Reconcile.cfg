SPECIFICATION RoundsSpec
CONSTANTS
  Hashes = {h1, h2}
  RegistryMax = 1
INVARIANTS
  TypeOK
  RejectedNeverSent
  ShownIsReal
  IndInv
PROPERTIES
  KeepsContract
  Answered
  MonitorTells
