CONSTANTS
  Host = host
  Equip = equip
  Handshake <- MCFullHandshake
  Payload <- MCPayload
  SystemBytesMod = 16
  MaxDraws = 6
  External = {}
  MaxExternal = 0
  MaxPanics = 0
  Coords <- MCLeftOfOrigin
  AlwaysFail = {}
  CoordMod = 4
SPECIFICATION Spec
CHECK_DEADLOCK FALSE
INVARIANT LocationsUnmodified
