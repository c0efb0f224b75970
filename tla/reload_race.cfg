SPECIFICATION Spec
CONSTANTS
  Proc = {p1, p2, p3}
  MaxEdits = 2
  Faults = {"io"}
SYMMETRY Interchangeable
INVARIANTS
  ReloadInv
  NextQueryServesCurrent
  NextQueryReportsError
