SPECIFICATION Spec
CONSTANTS
  Device = {adc, flash}
  NoDevice = NoDevice
  Config <- MCConfig
  NoConfig = NoConfig
  Length <- MCLength
  FirstLength <- MCFirstLength
  RT_EIO = 8
  MaxChunk = 3
  AddressModulus = 65536
INVARIANT EokMeansExchanged
