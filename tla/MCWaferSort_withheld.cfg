CONSTANTS
  Sites = {1, 2, 3}
  Excluded = {3}
  OffLayout = {9}
  Tests <- MCTests
  Groups <- MCGroups
  HardBinOf <- MCHardBinOf
  PassHardBins = {1}
  MaxResults = 2
  Cohorts = {1, 2, 3}
SPECIFICATION OutcomeSpec
CHECK_DEADLOCK FALSE
INVARIANT WithheldSizesHidden
