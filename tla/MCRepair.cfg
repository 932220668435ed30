CONSTANTS
  N = 4
  MaxWires = 4
  MaxParallel = 1
  Word = 16
  MaxRow = 3
  CapOf <- MCCapOf
  TranTab <- MCDriveTab
  DelayTab <- MCDelayTab
  SetupTab <- MCSetupTab
  WireTab <- MCWireTab
  Inverting <- MCInverting
  Period = 31
  Far = 1000
  Bias <- MCBias
  SlackBias <- MCSlackBias
  Band = 0
  Margin = 0
  MaxVisit = 30
  MaxSteps = 0
  TimedWires = 4
  TimedFlops = 1
  Designs <- MCDesigns
  Frozen = {4}
  Holes <- MCHoles
  MaxTran <- MCMaxTran
  MaxCap <- MCMaxCap
  Leak <- MCLeak
  MultiStep = 2
  NewRatio = 50
  Ratio = 50
SPECIFICATION RepairSpec
CHECK_DEADLOCK FALSE
INVARIANTS
  TrialsTell
  ScoreCurrent
PROPERTY RepairsEnd
