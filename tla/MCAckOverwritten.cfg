SPECIFICATION Spec
CONSTANTS
  Group = {10, 11, 12}
  Private = {0, 1, 2, 3, 4, 5, 6}
  Level = {0, 1, 2}
  Node = {"gw", "tx", "srx"}
  Server = Server
  NoParent = NoParent
  NoFrame = NoFrame
  Parent <- MCParent
  Installation <- AsNamed
  FactoryCtr <- MCFactoryCtr
  OwnRole <- MCOwnRole
  ServerFrame <- OneRequest
  MaxServerFrames = 1
  MaxSensorEvents = 0
  MaxPowerCycles = 0
  Lossy = FALSE
INVARIANT NoFalseConflict
