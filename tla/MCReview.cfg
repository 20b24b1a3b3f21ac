\* Two workers and a reviewer, two proposals with one address, two directory
\* accounts.
SPECIFICATION Spec
CONSTANTS
  Null = Null
  p1 = p1
  p2 = p2
  m1 = m1
  s1 = s1
  s2 = s2
  e1 = e1
  e2 = e2
  n1 = n1
  v1 = v1
  v2 = v2
  Worker = {w1, w2}
  Reviewer = {r1}
  Email = {m1}
  Subject = {s1, s2}
  Entity = {e1, e2}
  Version = {v1}
  Target = {p1, p2}
  DecisionId = {1, 2}
  Body <- MCBody
  VersionOf <- MCOneVersion
  EmailOf <- MCSameEmail
  EntityOf <- MCEntityOf
  LockKey <- MCLockKey
INVARIANTS
  TypeOK
  UncorrectedSubjectHasOneOwner
  AutomaticEmailHasOneOwner
PROPERTIES
  OwnedStaysOwned

\* Nobody acts any more once all decision IDs are used.
CHECK_DEADLOCK FALSE
