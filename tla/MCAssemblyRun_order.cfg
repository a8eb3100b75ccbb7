CONSTANTS
  Host = host
  Equip = equip
  Handshake <- MCHandshake
  Payload <- MCPayload
  SystemBytesMod = 16
  MaxDraws = 9
  External = {}
  MaxExternal = 0
  MaxPanics = 0
  HostPlan <- MCTwoSites
  EquipPlans <- MCOtherOrder
  HostRcmds = {"PLACE_WB"}
  EquipRcmd = "PLACE_WB"
SPECIFICATION Spec
CHECK_DEADLOCK FALSE
PROPERTY ThreadsEnd
