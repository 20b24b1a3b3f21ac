\* Two derivations, three attempt identities in all, two data modes, two
\* digests and arbitrary caller clocks in 0..3 with a lease of two units.
SPECIFICATION LeaseSpec
CONSTANTS
  r1 = r1
  r2 = r2
  a1 = a1
  a2 = a2
  a3 = a3
  Run = {r1, r2}
  AttemptId = {a1, a2, a3}
  Mode = {"personal", "synthetic"}
  FailureCode = {"model_error"}
  Digest = {"d1", "d2"}
  Time <- MCTime
  LeaseDuration = 2
  Null = Null
SYMMETRY Symmetry
INVARIANTS
  LeaseTypeOK
  RunAgreesWithLatest
  LeasesDisjoint
  TerminalInsideLease
PROPERTIES
  HistoryIsImmutable
  LostAnswersAreRepeatable
CHECK_DEADLOCK FALSE
