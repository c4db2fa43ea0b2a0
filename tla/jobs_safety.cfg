\* Two jobs of any kind, one student, a lost request or a crash, and a verdict.
SPECIFICATION Spec
SYMMETRY Symmetry
CONSTANTS
  Jobs = {j1, j2}
  Students = {s1}
  Processes = {app}
  None = None
  Kinds = {"homework", "plan", "paper_extract"}
  MaxQuestions = 1
  MaxFaults = 1
  Verdicts = {"failed"}
INVARIANTS OutputIsWhole UnsettledHasATask FailureFilesNothing RetryKeepsTheStudent
PROPERTIES KeepsTheContract
\* A finished history with no ids left has nothing more to do.
CHECK_DEADLOCK FALSE
