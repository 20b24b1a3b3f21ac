\* Two processes contend for one derivation; the clock of w2 is ahead by the
\* whole cleanup margin; claims never run out.
SPECIFICATION FairSpec
CONSTANTS
  w1 = w1
  w2 = w2
  d1 = d1
  Worker = {w1, w2}
  Document = {d1}
  MaxRevision = 1
  Config = {"extract-v2"}
  Configured <- MCConfigured
  Mode = {"personal"}
  DataMode <- MCDataMode
  Skew <- MarginSkew
  Run <- MCRun
  AttemptId <- MCAttemptId
  Digest <- MCAttemptId
  FailureCode = {"model_error"}
  Time <- MCTime
  LeaseDuration = 3
  AttemptTimeout = 2
  MaxClock = 7
  MaxFaults = 1
  MaxFaultClock = 2
  MaxClaims = 6
  Null = Null
INVARIANTS
  NoDuplicateModelWork
  OutcomeIsDurable
PROPERTIES
  EventuallyExtracted
