CONSTANTS
  Cases <- MCCases
  Lists <- MCLists
  ViewFiles <- MCViewFiles
  CellDb <- MCCellDb
  LibFiles <- MCLibFiles
  Insts <- MCInsts
  DbNets <- MCDbNets
  Hole = Hole
  Unknown = Unknown
  None = None
SPECIFICATION Spec
CHECK_DEADLOCK FALSE
INVARIANTS
  ReadAsMeant
  ThreadsSplit
  ViewsFit
  RowsOrdered
  MovableSound
  Linked
