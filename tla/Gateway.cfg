SPECIFICATION GatewayFairSpec
CONSTANTS
  Release = {"r1", "r3", "r4"}
  Absent = Absent
  ViewFile = {1, 2}
  Target = {"a", "b"}
  Rejected = Rejected
  NoFile = NoFile
  MaxLifetime = 4
  Dir <- MCDir
  Handler = {"h1", "h2"}
  Boot = "boot"
  NoStore = NoStore
  Time = {0, 1}
  MayOverlap = TRUE
  Increasing = TRUE
  Reader = {"c1"}
  NoAnswer = NoAnswer
INVARIANTS
  GatewayTypeOK
  ContentNotOlder
  PublicationRead
  TornIsOutdated
  AcknowledgedIsServed
PROPERTIES
  NewestStays
  LatestServed
  ImplementsBulletin
