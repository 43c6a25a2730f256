CONSTANTS
  LispThread = {main}
  Main = main
  Posted = {p1, p2}
  Timer = {}
  Fd = {}
  None = none
  MaxDepth = 3
  Closure = {c1}
SPECIFICATION ClosureSpec
PROPERTIES  RootsDropped PostedInOrder
INVARIANTS NoStaleCall
