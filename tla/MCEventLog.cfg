\* A ring of 2 that is overrun by 2, and main interrupted anywhere.
CONSTANTS
  RingSize = 2
  CounterMod = 6
  evRx = evRx
  evReady = evReady
  IsrEvents <- MCIsrEvents
  MainEvents <- MCMainEvents
  NoEvent = NoEvent
  MaxSends = 2
  MaxLogged = 4
SPECIFICATION Spec
INVARIANTS
  TypeOK
  ExactUnlessHit
  NeverBehind
  CountsNothingElse
  DropsAreCounted
