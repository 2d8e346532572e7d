\* A host that runs up to 4 packets ahead of a ring of 2.
CONSTANTS
  RingSize = 2
  CounterMod = 6
  Words = 2
  p1 = p1
  p2 = p2
  p3 = p3
  Packets <- MCPackets
  NoPacket = NoPacket
  MaxBacklog = 4
  MaxOverflows = 2
SPECIFICATION HistorySpec
INVARIANTS
  HistoryTypeOK
  ExactUnlessLapped
PROPERTIES
  OverwritesAreCounted
  DrainsWhenHostPauses
