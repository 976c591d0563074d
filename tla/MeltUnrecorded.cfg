SPECIFICATION Spec
CONSTANTS
  Notes = {n1, n2}
  Hashes = {h1}
  NoNote = NoNote
  NoHash = NoHash
  ConfirmAttempts = 1
SYMMETRY Symmetry
INVARIANT OneNotePerPayment
