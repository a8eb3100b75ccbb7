CONSTANTS
  Names <- MCNames
  BodyLengthOf <- MCBodyLengthOf
  ReadsAs <- MCReadsAs
  LenMod = 3
  MaxWrites = 3
  MaxFaults = 1
SPECIFICATION Spec
CHECK_DEADLOCK FALSE
INVARIANTS
  TypeOK
  ReadIsPrefix
  CutIsNoticed
  RefusalsHaveReasons
