SPECIFICATION FairSpec
CONSTANTS
  MaxLevel = 13
  High = 13
  Low = 4
  Delay = 3
  PirUp = 2
  PirDown = 1
  VolumeStep = 3
  DayStep = 1
  PhotoStep = 2
  ForcedPeriod = 3
  HoldOff = 2
  BootLamp = 9
  BootNow = 7
  OwnSensor = {"ePir", "eVolume", "eDayLight", "eTestMode", "eNoSensor"}
  RemoteLevel = {0, 7, 13}
  Request = {"move", "turn", "rfSensor", "rfLevel", "rfRepeat",
             "control", "newSet", "monitor", "search"}

INVARIANT TypeOK
PROPERTY LampTracksTarget RestsLow StaysHigh FollowsDaylight
