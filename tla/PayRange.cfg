SPECIFICATION Spec
CONSTANTS
  BaseFees = {0, 1, 1000, 2500, 10000}
  Ppms = {0, 1, 5000, 33333, 100000}
  MintFloors = {1, 8000, 10000, 10500}
  Floors = {1, 1000, 8000, 10000}
  Ceilings = {12000, 20010}
  Amounts = {8000, 9000, 9999, 10000, 10001, 11000, 11500, 12000, 13500, 20000}
  WalkBound = 8
INVARIANTS
  RangeHonoured
  MinimumIsLeast
  WalkTerminates
  CeilingWithinASat
CHECK_DEADLOCK FALSE
