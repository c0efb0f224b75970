SPECIFICATION Spec
CONSTANTS
  Proc = {"a", "b"}
  Rules <- SmallRules
  Sessions <- SmallSessions
  Path <- SmallPath
  Dir <- SmallDir
  Order <- SmallOrder
  FirstTree <- SmallTree
  Manifests <- SmallManifests
  MaxChange = 4
  MaxEdits = 1
CHECK_DEADLOCK FALSE
INVARIANTS
  TypeOK
  AnswersSound
  AnswersComplete
  StrayNeverWritten
  CommitCovers
PROPERTIES
  ChangesPermitted
  RequestsServed
