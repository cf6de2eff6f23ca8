CONSTANTS
  Recent = {r1}
  Event = {e1}
  Track = {}
  MaxSize = 1
  MaxNum = 2
  MaxFaults = 0
  MaxReruns = 0
  Takers = {"loop","samba"}
  NoFile = NoFile
SPECIFICATION Spec
INVARIANTS LockExclusion LinkedNewest LinksResolve TocHonest
PROPERTIES DiscardKeepsLinks
