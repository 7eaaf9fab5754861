SPECIFICATION ZoneSpec
CONSTANTS
  ZoneFiles <- Files
  Offsets <- East
  Minute = 1
  Hour = 4
  Day = 24
  Times <- Times24
INVARIANT
  FailedReadIsInvalid
