CONSTANTS
  Cells <- MCCells
  Flops = {"f"}
  Frozen = {"d"}
  ClockCells = {}
  Topo <- MCTopo
  RTopo <- MCRTopo
  Outs <- MCOuts
  Loads <- MCLoads
  Owner <- MCOwner
  ClockNets <- MCClockNets
  Slots <- MCSlots
  LastRow <- MCLastRow
  PinCap <- MCPinCap
  MaxCap <- MCMaxCap
  NetCap <- MCNetCap
  VtOnly = {FALSE, TRUE}
SPECIFICATION FairSpec
CHECK_DEADLOCK FALSE
INVARIANTS
  FwdSeesLoads
  BwdSettles
PROPERTY RepairEnds
