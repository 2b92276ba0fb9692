\* A dimension version lands, and the daily run judges what it touched.
SPECIFICATION Spec
CONSTANTS
  v1 = v1
  Versions = {v1}
  LastPeriod = 3
  MomLag = 1
  YoyLag = 12
  RollingSpan = 2
  Covers <- FromTheStart
  DailyRange <- WholeRange
  BackfillRanges <- OnlyWhole
  AtOnce = 1
  MaxChanges = 2
  MaxFailures = 0
  Absent = Absent
  Hollow = Hollow
INVARIANTS
  FlagsOfPublished
