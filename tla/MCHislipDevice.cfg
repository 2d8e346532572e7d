\* Two instruments with any capabilities, and driver calls that may fail.
CONSTANTS
  i1 = i1
  i2 = i2
  Instruments <- MCInstruments
  NoInstrument = NoInstrument
SPECIFICATION DeviceSpec
INVARIANTS
  DeviceTypeOK
  ModeTakesEffect
  FailureStaysWithinMode
