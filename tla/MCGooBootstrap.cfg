CONSTANTS
  Malformed = Malformed
  Fatal = Fatal
  Oversize = Oversize
  NotANumber = NotANumber
  NotABool = NotABool
  Absent = Absent
  NoTree = NoTree
  NoIR = NoIR
  NoTerminal = NoTerminal
  Numeral <- MCNumeral
  Truth <- MCTruth
  Rank <- MCRank
  Sources <- MCSources
SPECIFICATION Spec
INVARIANTS
  ClosedIsSound
  ViolationsAreRefuted
  GrammarAloneDecides
  OrderLeavesNoTrace
  LayoutLeavesNoTrace
PROPERTY
  ReducesEvidence
