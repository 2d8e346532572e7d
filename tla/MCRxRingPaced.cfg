\* Ring of 4, uint32 scaled to two laps of it, a copy of three words.
CONSTANTS
  RingSize = 4
  CounterMod = 8
  Words = 3
  p1 = p1
  p2 = p2
  Packets <- MCPackets
  NoPacket = NoPacket
  MaxBacklog = 4
  MaxOverflows = 0
SPECIFICATION PacedSpec
INVARIANTS
  TypeOK
  PacedInv
PROPERTIES
  RingIsAQueue
