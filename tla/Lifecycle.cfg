SPECIFICATION FairSpec
CHECK_DEADLOCK FALSE
CONSTANTS
  PublicConn = {"p1", "p2"}
  AdminConn = {"a1"}
  Arg = {"--config", "good", "bad", "storeless", "https", "relative", "timeless", "bodiless", "one_addr"}
  CommandLine <- MCCommandLine
  EnvPath = {NoPath, "good", "https", "relative", "timeless", "bodiless", "one_addr"}
  NoPath = NoPath
  Bad = Bad
  File <- MCFile
INVARIANTS
  TypeOK
  FailedStartServesNobody
  NoRequestCut
PROPERTIES
  ShutdownCompletes
  
