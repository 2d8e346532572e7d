\* Any declared sizes, and instrument calls that fail.
CONSTANTS
  HeaderSize = 12
  IntMod = 64
  MaxResponsePayload = 3
  Sizes <- WideSizes
  Lens <- MCLens
  Answers <- MCAnswers
  MaxProgram = 5
  None = None
CHECK_DEADLOCK FALSE
SPECIFICATION Spec
INVARIANTS
  TypeOK
  NothingLost
  PanicsOnlyOnWrap
