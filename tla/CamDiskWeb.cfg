CONSTANTS
  Web = {w1, w2}
  Chimes = {a}
  MaxChanges = 1
  MaxToggles = 1
  MaxFaults = 0
  None = None
SPECIFICATION FairSpec
INVARIANTS OneAtATime GadgetBack
PROPERTIES GadgetReturns ChimeArrives
