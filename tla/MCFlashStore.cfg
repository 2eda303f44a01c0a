SPECIFICATION FairSpec
CONSTANTS
  NWords = 5
  HardwareWord = 3
  ModeIdWord = 4
  VolumeWord = 5
  Zero = Zero
  Erased = Erased
  FieldMode = FieldMode
  NoConfig = NoConfig
  d1 = d1
  d2 = d2
  MaxPowerLoss = 2
  Data <- MCData
  FactoryData <- MCFactoryData
INVARIANTS
  TypeOK
  CommittedIsWhole
  NoHardwareLockout
PROPERTIES
  BootRestoresSave
  TornTailRepaired
  ImplementsConfigStore
