\* A worker and a reviewer that lock an address and an account while the document
\* gets another version.
SPECIFICATION FairSpec
CONSTANTS
  Null = Null
  p1 = p1
  p2 = p2
  m1 = m1
  s1 = s1
  s2 = s2
  e1 = e1
  e2 = e2
  n1 = n1
  v1 = v1
  v2 = v2
  Worker = {w1}
  Reviewer = {r1}
  Email = {m1}
  Subject = {s1}
  Entity = {e1, n1}
  Version = {v1, v2}
  Target = {p1, p2}
  DecisionId = {1, 2}
  Body <- MCBody
  VersionOf <- MCTwoVersions
  EmailOf <- MCSameEmail
  EntityOf <- MCEntityOf
  LockKey <- MCLockKey
PROPERTIES
  ReviewsAreOfCurrentVersion
  EventuallyIdle

\* Nobody acts any more once all decision IDs are used.
CHECK_DEADLOCK FALSE
