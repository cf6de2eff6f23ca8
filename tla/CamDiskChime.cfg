CONSTANTS
  Web = {w1}
  Chimes = {a}
  MaxChanges = 1
  MaxToggles = 0
  MaxFaults = 0
  None = None
SPECIFICATION Spec
INVARIANTS ChimeSettled
