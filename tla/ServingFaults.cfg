SPECIFICATION Spec
SYMMETRY Interchangeable
CHECK_DEADLOCK FALSE
CONSTANTS
  Request = {r1, r2}
  Handler = {h1, h2}
  Kind = {"manifest", "index", "json", "browser"}
  PreparedStore = {"s1", "s2"}
  NoStore = NoStore
  Sequence <- MCSequence
  ExpiresAt <- MCExpiresAt
  ViewTag <- MCViewTag
  LastTime = 2
  StderrMayFail = TRUE
INVARIANTS
  TypeOK
  MonotonicReads
  FailClosed
  ExpiryLoggedOnce
  LockAccountedFor
  OnlyAPanicRefuses
  OutcomesCounted
