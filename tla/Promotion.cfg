\* Two runs in the dbt-build step at once, with failures, blocked locks and kills.
SPECIFICATION Spec
CONSTANTS
  Runs = {daily, backfill}
  Absent = Absent
  AtOnce = 2
  MaxBuilds = 4
  MaxCrashes = 2
SYMMETRY Symmetry
INVARIANTS
  TypeOK
  HistoryUnlessOvertaken
  EvidenceKept
PROPERTIES
  ReaderPromise
CHECK_DEADLOCK FALSE
