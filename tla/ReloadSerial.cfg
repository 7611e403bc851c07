SPECIFICATION Spec
SYMMETRY Interchangeable
CONSTANTS
  Release = {"r1", "r2", "r2b", "r3", "dup", "noindex", "badview", "toolong"}
  Absent = Absent
  ViewFile = {1, 2}
  Target = {"a", "b"}
  Rejected = Rejected
  NoFile = NoFile
  MaxLifetime = 4
  Dir <- MCDir
  Handler = {h1, h2}
  Boot = "boot"
  NoStore = NoStore
  Time = {0, 1, 2}
  MayOverlap = FALSE
  Increasing = FALSE
INVARIANTS
  TypeOK
  ServedWhole
PROPERTIES
  ImplementsStoreCell
