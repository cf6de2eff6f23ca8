CONSTANTS
  Web = {}
  Chimes = {a}
  MaxChanges = 0
  MaxToggles = 0
  MaxFaults = 2
  None = None
SPECIFICATION Spec
INVARIANTS TypeOK SharedIfStuck
