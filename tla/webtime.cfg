SPECIFICATION DeviceFairSpec
CONSTANTS
  TIMEAPI_RETRY = 3
  GmtTimes <- Times
  DateAt = 15
  AnswerLength = 48
INVARIANTS TypeOK TimestampIsLocal
PROPERTIES GivesUp AnswerReleases
