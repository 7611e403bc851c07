SPECIFICATION Spec
CONSTANTS
  Release = {"r1", "r2b"}
  Absent = Absent
  ViewFile = {1, 2}
  Target = {"a", "b"}
  Rejected = Rejected
  NoFile = NoFile
  MaxLifetime = 4
  Dir <- MCDir
  Handler = {"h1"}
  Boot = "boot"
  NoStore = NoStore
  Time = {0, 1, 2}
  MayOverlap = TRUE
  Increasing = TRUE
INVARIANTS
  ServedWhole
