SPECIFICATION Spec
CONSTANTS
  plain = plain  port = port  mixed = mixed
  Nets = {plain, port, mixed}
  PadOnly = {port}
  PadMixed = {mixed}
  MaxSyncs = 2
  MaxChain = 2
  Configs <- MCHoldConfigs
INVARIANTS HoldDefaultsToRouted
CHECK_DEADLOCK FALSE
