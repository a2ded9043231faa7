CONSTANTS
  Ver <- Vers
  Use <- Uses
  Width = 4
  MaxRel = 3
SPECIFICATION VerSpec
INVARIANT LatestBuilt
