\* One run at a time over one reporting range, with failures, retries and abandoned runs.
SPECIFICATION FairSpec
CONSTANTS
  v1 = v1
  Versions = {v1}
  LastPeriod = 3
  MomLag = 1
  YoyLag = 12
  RollingSpan = 2
  Covers <- FromTheStart
  DailyRange <- WholeRange
  BackfillRanges <- OnlyWhole
  AtOnce = 1
  MaxChanges = 2
  MaxFailures = 2
  Absent = Absent
  Hollow = Hollow
INVARIANTS
  TypeOK
  OwedUntilPublished
  FlagsSeePostings
PROPERTIES
  EventuallyPublished
