CONSTANTS
  Host = host
  Equip = equip
  Functions = {127}
  Bodies = {item}
  NoBody = none
  SystemBytesMod = 2
  MaxDraws = 4
  External = {"SelectReq", "LinktestReq", "LinktestRsp", "RejectReq", "Malformed", "SeparateReq"}
  MaxExternal = 1
SPECIFICATION Spec
CHECK_DEADLOCK FALSE
INVARIANTS
  TypeOK
  ReplyAnswersPrimary
  SelectionAgrees
  NoDataBeforeSelection
  OneTokenPerTransaction
