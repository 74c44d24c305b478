CONSTANTS
  Target = {t1, t2, t3}
  DefaultCap = 2
  Faults = {"read", "write", "truncate"}
  MaxLines = 5
  MaxCap = 8
SYMMETRY TargetSymmetry
SPECIFICATION Spec
INVARIANTS TypeOK AckedIsBanned OnlyAskedIsBanned
