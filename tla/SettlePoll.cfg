SPECIFICATION FairSpec
CONSTANTS
  Mints = {m1, z1}
  Zaps = {z1}
  Fees = {f1}
  Names = {n1}
  NoName = NoName
  Shares = {s1}
  NoShare = NoShare
  Backends = {"lnd", "cln", "spark"}
  Limit = 1
  MaxVerifying = 1
INVARIANTS
  TypeOK
  MintedOnce
  ReceiptsHonest
  IndInv
PROPERTIES
  PollReaches
  ReceiptsArrive
