CONSTANTS
  closed = closed
  diagnosed = diagnosed
  program = program
  refused = refused
  Grammars <- MCGrammars
  Taken <- MCTaken
  Lowered <- MCLowered
  Undiagnosed <- MCUndiagnosed
  Absent = Absent
  Torn = Torn
  MaxRuns = 2
SPECIFICATION Spec
INVARIANTS
  TypeOK
  BundleFollowsReport
  SuccessIsWhole
  StalePassIsFlagged
  GeneratedIsClean
  FirstErrorIsFirst
PROPERTY
  EvidenceIsReached
