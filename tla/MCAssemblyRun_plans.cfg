CONSTANTS
  Host = host
  Equip = equip
  Handshake <- MCHandshake
  Payload <- MCPayload
  SystemBytesMod = 16
  MaxDraws = 9
  External = {"SelectReq", "LinktestReq", "LinktestRsp", "RejectReq", "Malformed", "SeparateReq"}
  MaxExternal = 2
  MaxPanics = 2
  HostPlan <- MCPlan
  EquipPlans <- MCPlans
  HostRcmds = {"PLACE_WB", "PLACE_FC"}
  EquipRcmd = "PLACE_WB"
SPECIFICATION Spec
CHECK_DEADLOCK FALSE
INVARIANTS
  TypeOK
  RecordsArePlacements
  NothingUncommanded
  WrongTechniquePlacesNothing
  NeverCrosses
PROPERTIES
  ThreadsEnd
  PlacementsComplete
  ImplementsReportStream
  UsesSession
