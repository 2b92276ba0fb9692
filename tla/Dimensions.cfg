\* Four dates in two periods: versions arrive in any order, are lost, restated, collapsed.
SPECIFICATION Spec
CONSTANTS
  LastDay = 4
  DaysPerPeriod = 2
  a = a
  b = b
  Values = {a, b}
  MaxCrashes = 1
  Absent = Absent
SYMMETRY Renamed
INVARIANTS
  TypeOK
  AttributedOrOwed
  OneIntervalEach
PROPERTIES
  HistoryKept
