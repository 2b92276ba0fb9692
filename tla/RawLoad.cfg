\* Two keys, two periods, a crash, and a source that moves rows between periods.
SPECIFICATION FairSpec
CONSTANTS
  Keys = {k1, k2}
  Values = {v1}
  MaxPeriod = 2
  MaxDate = 3
  Overlap = 1
  Late = 1
  MaxRun = 2
  MaxChanges = 3
  MaxCrashes = 1
  Absent = Absent
INVARIANTS
  TypeOK
  BatchLanded
  NothingBehindTheWindow
  FirstRunKept
  OwedUnlessUnmarked
PROPERTIES
  RawNeverForgets
  EventuallyConverges
