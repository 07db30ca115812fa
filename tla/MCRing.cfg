SPECIFICATION FairSpec
CONSTANTS
  BufferSize = 9
  LenSize = 2
  Messages = {"short", "long", "huge"}
  Size <- MCSize
  ReadCaps = {2, 5}
  Creators = {"writer"}
INVARIANTS TypeOK RecordsIntact NoTornRead
PROPERTIES DeliversInOrder KeepsMoving
