SPECIFICATION Spec
CONSTANTS
  Lines <- SmallFiles
  MaxLines = 5
  Since = {0, 2, 3}
  Today = 3
  StaleDays = 2
  DormantDays = 2
  GlacierDays = 2
  ClusterDays = 1
  MinClusterSize = 2
  SpanDays = 3
  Word = {"x", "y"}
CHECK_DEADLOCK FALSE
INVARIANTS
  TypeOK
  SkipMatchesReference
  CountsAgree
  StaleAreOpen
  RecentIsVisibleOfFile
  ClustersCountEntries
  DormantMeansQuiet
  AuditMatchesBlocks
