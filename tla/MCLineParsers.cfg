CONSTANTS
  Malformed = Malformed
  Fatal = Fatal
  Oversize = Oversize
  Idle = Idle
  Crashed = Crashed
  Sources <- MCSources
SPECIFICATION FairSpec
INVARIANTS
  TypeOK
  LoopInvariant
  SeedAcceptanceCarries
  CommittedWithinFresh
PROPERTIES
  RefinesContract
  AllReturn
