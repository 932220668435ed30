CONSTANTS
  a = a
  b = b
  c = c
  d = d
  Pins = {a, b, c, d}
  Name <- MCName
  Nets = {"power", "ground", "signal"}
  Wild = {"power", "ground"}
  Frozen = {c}
  None = None
  MaxCalls = 2
SPECIFICATION Spec
CHECK_DEADLOCK FALSE
INVARIANTS
  ConnectsExactly
PROPERTY SecondCallIdle
