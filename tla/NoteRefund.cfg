SPECIFICATION Spec
CONSTANTS
  Ids = {i1, i2, i3}
  Payments = {p1, p2}
  Hashes = {h1}
  NoId = NoId
  NoHash = NoHash
  Calls = {c1}
  Amounts = {1000, 5000}
  BaseFees = {0, 1000}
  FeePpm = 0
  MinMint = 1
SYMMETRY Symmetry
INVARIANT RefundWasCollected
