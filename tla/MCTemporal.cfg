\* Reading: one extraction, two writers with clocks one apart, the second a
\* curator who admits identity decisions, and one query at a time.
\* Evaluating: up to four observations and every intent.
SPECIFICATION MCSpec
CONSTANTS
  Scenes = {"read", "evaluate"}
  Current = Current
  NoTerm = NoTerm
  Nobody = Nobody
  None = None
  e1 = e1
  e2 = e2
  e3 = e3
  text = text
  m1 = m1
  m2 = m2
  o1 = o1
  s1 = s1
  s2 = s2
  p1 = p1
  w1 = w1
  w2 = w2
  r1 = r1
  Entities = {e1, e2}
  Mentions = {m1}
  Founders = {e1}
  Spans = {s1}
  Predicates = {p1}
  Observations = {o1}
  Subject <- MCSubject
  Object <- MCObject
  PredicateOf <- MCPredicateOf
  SpansOf <- MCSpansOf
  Runs <- MCRuns
  Writers = {w1, w2}
  Curators = {w2}
  Readers = {r1}
  Queries <- MCQueries
  MaxTime = 2
  MaxSkew = 1
  MaxDepth = 2
  MaxDecisions = 5
  MaxLate = 1
  People = {e1, e2, e3}
  Registered = {e1, e2}
  Observed <- MCObserved
  Requests <- MCRequests
  MaxPeople = 2
  MaxPredicates = 1
  MaxChronology = 3
  MaxRecorded = 4
INVARIANTS
  TypeOK
  AnswersAreCoherent
  AnswersAreValidated
  RetainedIsListed
  KnowledgeOnlyContests
  ConflictsAreAtOneInstant
  TrajectoryIsPointwise
  NothingIsLost
  ResultsAreValid
PROPERTIES
  SettledAnswersAreFinal
CHECK_DEADLOCK FALSE
