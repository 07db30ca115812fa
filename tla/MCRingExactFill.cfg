SPECIFICATION Spec
CONSTANTS
  BufferSize = 8
  LenSize = 2
  Messages = {"short"}
  Size <- MCSize
  ReadCaps = {2}
  Creators = {"writer"}
INVARIANT EqualCursorsMeanEmpty
