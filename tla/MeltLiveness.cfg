SPECIFICATION FairSpec
CONSTANTS
  Notes = {n1, n2}
  Hashes = {h1, h2}
  NoNote = NoNote
  NoHash = NoHash
  ConfirmAttempts = 1
PROPERTY PendingResolves
