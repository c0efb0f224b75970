SPECIFICATION Spec
CONSTANTS
  Proc = {p1, p2}
  MaxEdits = 2
  Faults = {}
INVARIANTS
  ServesCurrent
