CONSTANTS
  source = source
  report = report
  genuine = genuine
  other = other
  Assets <- MCAssets
  Digests <- MCDigests
  Absent = Absent
SPECIFICATION Spec
INVARIANT EveryAssetIsCompared
CHECK_DEADLOCK FALSE
