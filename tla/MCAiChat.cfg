CONSTANTS
  Tool = {i1, i2}
  Builtin = {i1}
  Stream = {s1, s2}
  None = none
  MaxUses = 2
  MaxTurns = 1
  MaxSends = 3
SPECIFICATION FairSpec
 
PROPERTIES  CancelStops 
CHECK_DEADLOCK FALSE
