SPECIFICATION FairSpec
CONSTANTS
  Mints = {m1, m2}
  Zaps = {}
  Fees = {}
  Names = {n1, n2}
  NoName = NoName
  Shares = {s1, s2}
  NoShare = NoShare
  Backends = {"cln"}
  Limit = 2
  MaxVerifying = 1
PROPERTY SettlesEveryRecent
