\* One process and a document edited once; claims never run out.
SPECIFICATION FairSpec
CONSTANTS
  w1 = w1
  w2 = w2
  d1 = d1
  Worker <- MCWorkerOne
  Document = {d1}
  MaxRevision = 2
  Config = {"extract-v2"}
  Configured <- MCConfigured
  Mode = {"personal"}
  DataMode <- MCDataMode
  Skew <- NoSkew
  Run <- MCRun
  AttemptId <- MCAttemptId
  Digest <- MCAttemptId
  FailureCode = {"model_error"}
  Time <- MCTime
  LeaseDuration = 2
  AttemptTimeout = 1
  MaxClock = 4
  MaxFaults = 2
  MaxFaultClock = 2
  MaxClaims = 9
  Null = Null
PROPERTIES
  EventuallyCurrent
