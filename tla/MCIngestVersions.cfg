\* One document edited once: three versions, among them one whose listed
\* metadata is older than its body.  The system stops at the claim bound.
SPECIFICATION Spec
CONSTANTS
  w1 = w1
  w2 = w2
  d1 = d1
  Worker = {w1, w2}
  Document = {d1}
  MaxRevision = 2
  Config = {"extract-v2"}
  Configured <- MCConfigured
  Mode = {"personal"}
  DataMode <- MCDataMode
  Skew <- NoSkew
  Run <- MCRun
  AttemptId <- MCAttemptId
  Digest <- MCAttemptId
  FailureCode = {"model_error"}
  Time <- MCTime
  LeaseDuration = 2
  AttemptTimeout = 1
  MaxClock = 2
  MaxFaults = 1
  MaxFaultClock = 2
  MaxClaims = 2
  Null = Null
INVARIANTS
  TypeOK
  CurrentIsExtracted
PROPERTIES
  PublishesOnce
SYMMETRY Symmetry
CHECK_DEADLOCK FALSE
