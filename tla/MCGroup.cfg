SPECIFICATION Spec
CONSTANTS
  Group = {10, 11, 12}
  Private = {0, 1, 2, 3, 4, 5, 6}
  Level = {0, 1}
  Node = {"gw", "tx"}
  Server = Server
  NoParent = NoParent
  NoFrame = NoFrame
  Parent <- MCParent
  Installation <- Groups
  FactoryCtr <- MCFactoryCtr
  OwnRole <- MCOwnRole
  ServerFrame <- GroupRequests
  MaxServerFrames = 2
  MaxSensorEvents = 0
  MaxPowerCycles = 1
  Lossy = TRUE
PROPERTY ForcedByRequest ConflictIsReal
