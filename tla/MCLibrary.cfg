SPECIFICATION LibrarySpec
CONSTANTS
  SecondsPerMinute = 2
  MinutesPerHour = 2
  HoursPerDay = 2
  FirstYear = 1900
  LastYear = 2500
  ZoneFiles <- Files
  Offsets <- East
  Minute = 1
  Hour = 4
  Day = 24
  Times <- Times24
  Signed <- SignedInts
  Unsigned <- UnsignedInts
  Precision = 24
  LastUnit = 3
  Quantities <- Edges
  kNanoSecondsPerSecond = 4
  NanosPerMicro = 2
  Intervals <- Waits
  LastInstant = 10
  MaxClockSets = 1
  Vectors <- Pair
  MaxObjects = 4
  kBufferSize = 2
  MaxSizes <- Sizes
  LargestFile = 5
  MaxReads = 2
  MemoryBytes <- Chars
  MemorySize = 4
INVARIANTS
  DateOfEveryDay
  UtcRoundTrip
  ZoneInForce
  LocalRoundTrip
  ConvertExact
  UnitsFit
  WaitsItsInterval
  OneOwner
  ReadWhole
  OneOrder
