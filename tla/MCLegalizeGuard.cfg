CONSTANTS
  Cells = {1, 2, 3}
  Sites = 6
  SiteW = 2
  SiteH = 4
  WidthOf <- MCWidth
  Inputs <- MCInputs
  Scale = 6
SPECIFICATION LegalizeSpec
CHECK_DEADLOCK FALSE
INVARIANT FallsBack
