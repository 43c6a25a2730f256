SPECIFICATION Spec
CONSTANTS
  Tasks = {t1, t2}
  Costs = {1}
  MaxClock = 5
  MaxCost = 1
SYMMETRY Symmetry
INVARIANTS  EndedAgreesWithState
PROPERTIES QueuePlaceKept
