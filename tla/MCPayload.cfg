SPECIFICATION MCSpec
CONSTANTS
  Nibble = 4
  MinSize = 20
  Variables <- MCVariables
  Times = {5, 200}
  MaxVars = 3
  MaxWire = 1
  SingleMin = 50
  BatchMin = 70
  CountWrap = 2
  SeqWrap = 4
  NameSizes = {0, 1, 5}
  DataSizes = {0, 1}
  NameWrap = 4
  MaxBatch = 2
  Timeout = 2
  Numbers = 5
  SmallNibble = 2
  MaxInput = 7
  MaxClean = 12
INVARIANTS MCTypeOK ReceiverRecovers NoneLostOrRepeated CodersRestore 
PROPERTY LossesShow
CHECK_DEADLOCK FALSE
