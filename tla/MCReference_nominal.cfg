CONSTANTS
  Radix = 4
  WireInputs <- MCWireInputs
  LengthMod = 512
  None = None
  RecordInputs <- MCRecordInputs
  BodyInputs <- MCBodyInputs
  PlacementInputs <- MCPlacementInputs
SPECIFICATION Spec
INVARIANT ReportMeansOnSite
