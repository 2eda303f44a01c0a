SPECIFICATION RepeatSpec
CONSTANTS
  Group = {10, 11, 12}
  Private = {0, 1, 2, 3, 4, 5, 6}
  Level = {0, 1}
  Node = {"tx", "other"}
  Server = Server
  NoParent = NoParent
  NoFrame = NoFrame
  Parent <- NoBus
  Installation <- Pairs
  FactoryCtr <- MCFactoryCtr
  OwnRole <- MCOwnRole
  ServerFrame <- NoRequest
  MaxServerFrames = 0
  MaxSensorEvents = 1
  MaxPowerCycles = 1
  Lossy = TRUE

PROPERTY FollowsTransmitter DuplicateIsReported
