SPECIFICATION FairSpec
CONSTANTS
  Lamp = {"srx", "gw"}
  Sensor <- MCSensor
  Gid = {11, 12}
  SetTimeout = 2
  NewSets <- MCNewSets
  Factory <- MCFactory
  NoSettings = NoSettings
  MaxSent = 3
  MaxCuts = 1
INVARIANTS
  TypeOK
  WaitsOnSetup
  SavedIsSet
  RoleFitsSensor
PROPERTIES
  FullWait
  WaitEnds
  BackOnChannel
