CONSTANTS
  Reports = {"older", "newer", "infinite", "private"}
  Consent <- MCConsent
  Version <- MCVersion
  Supported <- MCSupported
  Finite = {"older", "newer", "private"}
  Paths = {"p"}
  Writers = {"w1", "w2"}
  Readers = {"k1", "k2"}
  Pieces = 2
  MaxWrites = 2
  MaxReads = 2
  MaxInspections = 1
SPECIFICATION Spec
CHECK_DEADLOCK FALSE
INVARIANTS
  TypeOK
PROPERTIES
  UndisturbedReadIsFaithful
  ReadsFinish
  ImplementsLedger
