SPECIFICATION UnitsSpec
CONSTANTS
  Precision = 13
  LastUnit = 2
  Quantities <- BeyondDouble
INVARIANT
  SIWidth
