SPECIFICATION Spec
CONSTANTS
  Names = {n1}
  Shares = {s1, s2}
  NoName = NoName
  NoShare = NoShare
  Fees = {f1, f2}
  Mints = {}
  LastIndex = 0
PROPERTY PaidFeeBurnsNothing
