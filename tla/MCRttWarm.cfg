SPECIFICATION Spec
CONSTANTS
  a = a
  b = b
  Size = 4
  Byte <- MCByte
  Messages <- MCMessages
  JunkOffset <- MCJunkOffset
  HostWaits = FALSE
  None = None
INVARIANTS
  NoHalfBuiltBlock
