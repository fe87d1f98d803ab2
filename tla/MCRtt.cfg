SPECIFICATION FairSpec
CONSTANTS
  a = a
  b = b
  Size = 4
  Byte <- MCByte
  Messages <- MCMessages
  JunkOffset <- MCJunkOffset
  HostWaits = TRUE
  None = None
INVARIANTS
  DescriptorBehindMagic
PROPERTIES
  DropOnlyWhenFull
  ImplementsChannel
  LogFlows
