SPECIFICATION Spec
SYMMETRY Interchangeable
CONSTANTS
  Release = {"r1", "r2b", "badview"}
  Absent = Absent
  ViewFile = {1, 2}
  Target = {"a", "b"}
  Rejected = Rejected
  NoFile = NoFile
  MaxLifetime = 4
  Dir <- MCDir
  Handler = {h1, h2}
  Boot = "boot"
  NoStore = NoStore
  Time = {0, 2}
  MayOverlap = TRUE
  Increasing = FALSE
INVARIANTS
  ServedValidated
PROPERTIES
  SequenceNeverDrops
