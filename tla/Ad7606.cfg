SPECIFICATION AppSpec
CONSTANTS
  Device = {adc, flash}
  NoDevice = NoDevice
  Config <- MCConfig
  NoConfig = NoConfig
  Length <- MCLength
  FirstLength <- MCFirstLength
  RT_EIO = 5
  MaxChunk = 3
  AddressModulus = 65536
  Adc = adc
  AdcConfig <- MCAdcConfig
  AdcLength = 2
INVARIANTS
  TypeOK
  OwnConfig
  FullLengthMeansSuccess
  ExchangesCoverBuffer
  SelectedHoldsLock
  PublishedIsWhole
  SampleIsFresh
