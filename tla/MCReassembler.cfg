\* Any packet may be lost; every last packet is a header long at least.
CONSTANTS
  HeaderSize = 12
  PacketSize = 64
  Alignment = 4
  IntMod = 512
  Messages <- LongTails
  SizeOf <- MCSizeOf
  DevDepMsgOut <- MCDevDepMsgOut
  Declares <- MCDeclares
  NoMessage = NoMessage
  MayBeLost = TRUE
SPECIFICATION Spec
INVARIANTS
  TypeOK
  CleanInv
PROPERTIES
  MessagesArriveWhole
  RecoversFromLoss
