CONSTANTS
  Malformed = Malformed
  Fatal = Fatal
  Oversize = Oversize
  Idle = Idle
  Crashed = Crashed
  Sources <- MCSources
SPECIFICATION Spec
INVARIANT
  CommittedIsGenerated
