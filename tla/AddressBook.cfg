SPECIFICATION Spec
CONSTANTS
  Names = {n1, n2}
  Shares = {s1, s2}
  NoName = NoName
  NoShare = NoShare
  Fees = {f1, f2}
  Mints = {m1, m2}
  LastIndex = 1
SYMMETRY Symmetry
INVARIANTS
  TypeOK
  OneClaim
  ProofAppliesOnce
  KeptOnlyIfLapsed
  NoGap
  IndInv
