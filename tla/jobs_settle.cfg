\* Every queued job settles while requests are answered.
SPECIFICATION FairSpec
CONSTANTS
  Jobs = {j1, j2}
  Students = {s1}
  Processes = {app}
  None = None
  Kinds = {"homework"}
  MaxQuestions = 1
  MaxFaults = 1
  Verdicts = {}
PROPERTIES QueuedJobsSettle
\* A finished history with no ids left has nothing more to do.
CHECK_DEADLOCK FALSE
