SPECIFICATION Spec
CONSTANTS
  plain = plain  port = port  mixed = mixed
  Nets = {plain, port, mixed}
  PadOnly = {port}
  PadMixed = {mixed}
  MaxSyncs = 2
  MaxChain = 2
  Configs <- MCConfigs
INVARIANTS RepairSeesRc ReportFitsExport ExportLegal ExportPowered
INVARIANTS ExportChainFree IncrementalSeeded
CHECK_DEADLOCK FALSE
