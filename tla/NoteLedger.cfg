SPECIFICATION Spec
CONSTANTS
  Ids = {i1, i2, i3, i4}
  Payments = {p1, p2}
  Hashes = {h1, h2}
  NoId = NoId
  NoHash = NoHash
  Calls = {c1}
  Amounts = {1000, 3000}
  BaseFees = {1000}
  FeePpm = 0
  MinMint = 0
SYMMETRY Symmetry
INVARIANTS
  TypeOK
  MintNeverBricked
  BurnedOnce
  NotesWorth
  Covered
  Solvent
  IndInv
PROPERTIES
  BearersKeep
CONSTRAINT Room
ACTION_CONSTRAINT Worthwhile
