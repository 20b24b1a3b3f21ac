\* Two processes and three commands over four builds; a table made by hand.
SPECIFICATION Spec
CONSTANTS
  Null = Null
  p1 = p1
  p2 = p2
  v1 = v1
  v2 = v2
  v3 = v3
  Volumes = {v1, v2, v3}
  Proc = {p1, p2}
  Build = {"base", "release", "branch", "edited"}
  Embedded <- MCEmbedded
  ByHand <- MCByHand
  MaxCommands = 3
SYMMETRY MCSymmetry
INVARIANTS
  TypeOK
  CompleteIsGranted
PROPERTIES
  MigratesOneLog
  AnswersAreTrue
\* Nobody acts any more once the commands are used up.
CHECK_DEADLOCK FALSE
