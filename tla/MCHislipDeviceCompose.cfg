\* An instrument with more than one optional capability.
CONSTANTS
  i1 = i1
  i2 = i2
  Instruments <- MCInstruments
  NoInstrument = NoInstrument
SPECIFICATION DeviceSpec
INVARIANT CapabilitiesCompose
