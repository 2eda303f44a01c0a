SPECIFICATION FairSpec
CONSTANTS
  Group = {2, 142}
  Boot = 2
  MaxFrames = 4
  MaxChanges = 2
INVARIANTS
  TypeOK
  NeverDeaf
PROPERTIES
  SendIsWhole
  WaitingIsTaken
  ChannelTakesEffect
  ImplementsLossyLine
