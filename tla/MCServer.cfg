SPECIFICATION Spec
CONSTANTS
  Group = {10, 11, 12}
  Private = {0, 1, 2, 3, 4, 5, 6}
  Level = {0, 1, 2}
  Node = {"gw", "srx"}
  Server = Server
  NoParent = NoParent
  NoFrame = NoFrame
  Parent <- MCParent
  Installation <- Lamps
  FactoryCtr <- MCFactoryCtr
  OwnRole <- MCOwnRole
  ServerFrame <- LampRequests
  MaxServerFrames = 3
  MaxSensorEvents = 0
  MaxPowerCycles = 1
  Lossy = TRUE
INVARIANT TypeOK AckForRequested
PROPERTY BroadcastNeverReassigns
