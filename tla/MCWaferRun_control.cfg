CONSTANTS
  Host = host
  Equip = equip
  Handshake <- MCFullHandshake
  Payload <- MCPayload
  SystemBytesMod = 16
  MaxDraws = 6
  External = {"SelectReq", "LinktestReq", "LinktestRsp", "RejectReq", "Malformed", "SeparateReq"}
  MaxExternal = 2
  MaxPanics = 2
  Coords <- MCTwoDies
  AlwaysFail = {1}
  CoordMod = 4
SPECIFICATION Spec
CHECK_DEADLOCK FALSE
INVARIANTS
  TypeOK
  DoneMeansCollected
PROPERTIES
  ThreadsEnd
  RunCompletes
  ImplementsReportStream
