\* Two processes syncing a document whose provider content moves on.
SPECIFICATION Spec
CONSTANTS
  w1 = w1
  w2 = w2
  d1 = d1
  Worker = {w1, w2}
  Document = {d1}
  MaxRevision = 2
  Config = {"extract-v2"}
  Configured <- MCConfigured
  Mode = {"personal"}
  DataMode <- MCDataMode
  Skew <- NoSkew
  Run <- MCRun
  AttemptId <- MCAttemptId
  Digest <- MCAttemptId
  FailureCode = {"model_error"}
  Time <- MCTime
  LeaseDuration = 2
  AttemptTimeout = 1
  MaxClock = 2
  MaxFaults = 0
  MaxFaultClock = 2
  MaxClaims = 1
  Null = Null
PROPERTIES
  ReobservedBecomesCurrent
CHECK_DEADLOCK FALSE
