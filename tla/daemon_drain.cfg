SPECIFICATION Spec
CONSTANTS
  Inst = {i1}
  Conn = {c1}
  MaxReq = 1
  Faults = {}
  NoInst = none
CHECK_DEADLOCK FALSE
PROPERTIES
  DrainsBeforeExit
