\* Any two of a DAG run, a pipeline command and a load by hand share one record.
SPECIFICATION FairSpec
CONSTANTS
  Dags = {nightly}
  Commands = {command}
  Loads = {byhand}
  NSteps = 2
  Retries = 1
  Chosen = {1}
  AtOnce = 2
  MaxRun = 3
  MaxLosses = 1
INVARIANTS
  TypeOK
  ReadableUnlessReopened
  OneOutcome
  OutcomeFollowsAttempts
PROPERTIES
  EveryRunCloses
VIEW ByRun
