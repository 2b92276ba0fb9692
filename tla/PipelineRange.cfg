\* A backfill is given less than the range the daily run reports on.
SPECIFICATION Spec
CONSTANTS
  v1 = v1
  Versions = {v1}
  LastPeriod = 3
  MomLag = 1
  YoyLag = 12
  RollingSpan = 2
  Covers <- FromTheStart
  DailyRange <- WholeRange
  BackfillRanges <- WholeOrFirst
  AtOnce = 1
  MaxChanges = 2
  MaxFailures = 1
  Absent = Absent
  Hollow = Hollow
INVARIANTS
  OwedUntilRebuilt
