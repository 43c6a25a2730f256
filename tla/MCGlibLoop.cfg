CONSTANTS
  LispThread = {main, other}
  Main = main
  Posted = {p1}
  Timer = {t1}
  Fd = {f1}
  None = none
  MaxDepth = 3
SPECIFICATION Spec
INVARIANTS NoNestedCheck FlagsMatchFrames RootedWhileLive
