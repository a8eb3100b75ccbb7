\* LengthMod stands for 2^16 and Radix for 2^8, so that lengths wrap and grow.
CONSTANTS
  Radix = 4
  WireInputs <- MCWireInputs
  LengthMod = 512
  None = None
  RecordInputs <- MCRecordInputs
  BodyInputs <- MCBodyInputs
  PlacementInputs <- MCPlacementInputs
SPECIFICATION Spec
INVARIANTS
  RecordsRoundTrip
  ItemsDecodeExactly
  FramesSurvive
  RewritesOnlyTrim
  ReportMeansAssembled
