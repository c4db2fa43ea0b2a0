\* Two operations at a time on a student with up to two logins and two uploads.
SPECIFICATION Spec
SYMMETRY Symmetry
CONSTANTS
  Users = {u1, u2}
  Files = {f1, f2}
  Ops = {o1, o2}
  Caller = tutor
  None = None
INVARIANTS OperationsDoWhatTheySay UploadsAreKept
PROPERTIES LoginsStayFindable
\* A deleted student has nothing more done to them.
CHECK_DEADLOCK FALSE
