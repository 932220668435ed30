CONSTANTS
  N = 3
  MaxWires = 4
  MaxParallel = 2
  Word = 8
  MaxRow = 1
  CapOf <- MCCapOf
  TranTab <- MCTranTab
  DelayTab <- MCDelayTab
  SetupTab <- MCSetupTab
  WireTab <- MCWireTab
  Inverting <- MCInverting
  Period = 40
  Far = 1000
  Bias <- MCBias
  SlackBias <- MCSlackBias
  Band = 1
  Margin = 0
  MaxVisit = 30
  MaxSteps = 2
  TimedWires = 3
  TimedFlops = 1
SPECIFICATION TimerSpec
CHECK_DEADLOCK FALSE
INVARIANTS
  EachOnce
  FanOrder
  PathsCounted
  FullExact
  MovedExact
  UndoneExact
  Correlated
