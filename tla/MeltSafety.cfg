SPECIFICATION Spec
CONSTANTS
  Notes = {n1, n2}
  Hashes = {h1, h2, h3}
  NoNote = NoNote
  NoHash = NoHash
  ConfirmAttempts = 2
SYMMETRY Symmetry
INVARIANTS
  TypeOK
  RegistryMatchesTasks
  InvoicePaidOnce
  BurnedOnlyIfPaid
  PaidNoteKept
  IndInv
  PromiseInv
PROPERTY KeepsPromise
