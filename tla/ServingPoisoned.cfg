SPECIFICATION Spec
CHECK_DEADLOCK FALSE
CONSTANTS
  Request = {"r1", "r2"}
  Handler = {"h1", "h2"}
  Kind = {"manifest"}
  PreparedStore = {"s1", "s2"}
  NoStore = NoStore
  Sequence <- MCSequence
  ExpiresAt <- MCExpiresAt
  ViewTag <- MCViewTag
  LastTime = 1
  StderrMayFail = TRUE
INVARIANTS
  KeepsServing
