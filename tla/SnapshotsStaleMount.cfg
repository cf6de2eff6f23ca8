CONSTANTS
  Recent = {}
  Event = {e1}
  Track = {}
  MaxSize = 1
  MaxNum = 2
  MaxFaults = 1
  MaxReruns = 0
  Takers = {"loop"}
  NoFile = NoFile
SPECIFICATION Spec
INVARIANTS TocHonest
