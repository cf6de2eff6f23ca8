CONSTANTS
  Recent = {}
  Event = {}
  Track = {k1}
  MaxSize = 2
  MaxNum = 2
  MaxFaults = 1
  MaxReruns = 0
  Takers = {"loop"}
  NoFile = NoFile
SPECIFICATION Spec
INVARIANTS TypeOK
PROPERTIES ImagesImmutable OldestFirst KeepsNewest
