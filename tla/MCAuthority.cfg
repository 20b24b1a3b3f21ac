\* Three callers over two targets: competing initial decisions, competing
\* corrections, a shared ID and repeated commands.
SPECIFICATION FairTxSpec
CONSTANTS
  Null = Null
  d1 = d1
  d2 = d2
  d3 = d3
  t1 = t1
  t2 = t2
  c1 = c1
  c2 = c2
  c3 = c3
  b1 = b1
  DecisionId = {d1, d2, d3}
  Target = {t1, t2}
  Body = {b1}
  Client = {c1, c2, c3}
  Command <- MCCommand
INVARIANTS
  TxTypeOK
  SingleHistory
  AnswersAreDurable
PROPERTIES
  AuthoritySpec
  ReviewerIsFinal
  RetriesAreRecognised
  EventuallyAnswered
