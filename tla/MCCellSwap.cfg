SPECIFICATION Spec
CONSTANTS
  g = g  d = d  u = u  f = f
  g00 = g00  g01 = g01  g10 = g10  g11 = g11  g20 = g20  d0 = d0  d1 = d1  u0 = u0  f0 = f0
  Cells = {g, d, u, f}
  LibCells = {g00, g01, g10, g11, g20, d0, d1, u0, f0}
  NoLib = NoLib
  NumVt = 2
  Rows <- MCRows
  Table <- MCTable
  Start <- MCStart
  Unmapped = {u}
  Unclocked = {f}
  DontTouch = {d, u}
  Masters <- MCMasters
  MaxStep = 2
  MaxChg = 2
  Rounds = 2
  Configs <- MCConfigs
  NoTrial = NoTrial
INVARIANTS SyncInv CoherentInv DontTouchKept ExportAgrees
PROPERTY RestoreExact
CHECK_DEADLOCK FALSE
