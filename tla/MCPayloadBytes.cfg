SPECIFICATION MCSpec
CONSTANTS
  Nibble = 4
  MinSize = 20
  Variables <- MCVariables
  Times = {5, 200}
  MaxVars = 2
  MaxWire = 1
  SingleMin = 50
  BatchMin = 70
  CountWrap = 2
  SeqWrap = 3
  NameSizes = {0}
  DataSizes = {0}
  NameWrap = 4
  MaxBatch = 1
  Timeout = 1
  Numbers = 2
  SmallNibble = 2
  MaxInput = 0
  MaxClean = 0
INVARIANT BytesComeBack
CHECK_DEADLOCK FALSE
