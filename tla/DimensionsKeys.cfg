\* Every date is a period: a version lands between two that were one, and one before both.
SPECIFICATION Spec
CONSTANTS
  LastDay = 4
  DaysPerPeriod = 1
  a = a
  b = b
  Values = {a, b}
  MaxCrashes = 0
  Absent = Absent
INVARIANTS
  KeysResolve
