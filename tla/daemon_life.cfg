SPECIFICATION FairSpec
CONSTANTS
  Inst = {i1, i2}
  Conn = {c1, c2}
  MaxReq = 2
  Faults = {"setup", "kill"}
  NoInst = none
CHECK_DEADLOCK FALSE
INVARIANTS
  DaemonInv
  RestartsCleanly
PROPERTIES
  SignalStops
  QueuedIsTaken
  RequestsAnswered
