CONSTANTS
  NoTree = NoTree
  NoIR = NoIR
  NoTerminal = NoTerminal
  Sources <- SomeSources
  Outcomes <- ReplacedOutcomes
  Lowered <- MCLowered
  TreeDigest <- MCTreeDigest
  IRDigest <- MCIRDigest
  TerminalDigest <- MCTerminalDigest
SPECIFICATION Spec
INVARIANT
  WorstEvidenceDecides
