\* Any packet may be lost, and some last packets are shorter than a header.
CONSTANTS
  HeaderSize = 12
  PacketSize = 64
  Alignment = 4
  IntMod = 512
  Messages <- AnyTails
  SizeOf <- MCSizeOf
  DevDepMsgOut <- MCDevDepMsgOut
  Declares <- MCDeclares
  NoMessage = NoMessage
  MayBeLost = TRUE
SPECIFICATION Spec
PROPERTY RecoversFromLoss
