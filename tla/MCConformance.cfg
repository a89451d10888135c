CONSTANTS
  Slots <- MCSlots
  Template <- MCTemplate
  FixedCaseIDs <- MCIds
  Suites <- MCSuites
  Bootstrapped <- MCBootstrapped
  Unreadable = Unreadable
  Missing = Missing
  NoDigest = NoDigest
SPECIFICATION Spec
INVARIANTS
  OrderIsHidden
  ReplayReproduces
  AllPassIsWhole
PROPERTY
  Reports
