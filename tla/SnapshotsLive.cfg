CONSTANTS
  Recent = {}
  Event = {e1}
  Track = {}
  MaxSize = 2
  MaxNum = 2
  MaxFaults = 0
  MaxReruns = 1
  Takers = {"loop"}
  NoFile = NoFile
SPECIFICATION FairSpec
PROPERTIES OnlyRebuildMovesBack LockReleased
