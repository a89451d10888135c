CONSTANTS
  Malformed = Malformed
  Fatal = Fatal
  Oversize = Oversize
  NotANumber = NotANumber
  NotABool = NotABool
  Absent = Absent
  NoTree = NoTree
  NoIR = NoIR
  NoTerminal = NoTerminal
  Numeral <- MCNumeral
  Truth <- MCTruth
  Rank <- MCRank
  Sources <- LookalikeSources
SPECIFICATION Spec
INVARIANT
  AmbiguityIsWitnessed
