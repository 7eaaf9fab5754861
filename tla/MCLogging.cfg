SPECIFICATION Spec
CONSTANTS
  kSmallBuffer = 16
  kMaxNumericSize = 4
  NoZone = UTC
  stdout = stdout
  HeaderLen = 2
  BaseLen = 1
  Threads = {t1, t2}
  Zones = {UTC, CST}
  Sinks = {stdout, file}
  LogLevels <- Severe
  TextLen <- Operands
  NumberLen <- One
  MaxPieces = 1
  MaxStatements = 2
  MaxTime = 2
  MaxSets = 2
INVARIANTS
  CursorInside
  ShortLinesWhole
  TimeTextIsItsOwn
  FatalLineFlushed
SYMMETRY Alike
