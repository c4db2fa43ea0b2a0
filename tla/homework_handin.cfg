\* A tab of the student, a tutor's page and an agent that marks, on two photos and one
\* answer.
SPECIFICATION Spec
SYMMETRY Symmetry
CONSTANTS
  good = good
  other = other
  bad = bad
  Sources = {good}
  Compiles <- MCCompiles
  Typst = TRUE
  Cut = TRUE
  Written = {w1}
  Photos = {f1, f2}
  Marks = {m0, m1}
  Unmarked = m0
  None = None
  Tabs = {t1}
  Pages = {p1}
  Compilers = {}
  Readers = {}
  Given = {m1}
INVARIANTS MarkedHasMarks ReadIsOfThePhoto
PROPERTIES TypedMarksGoOnlyForNewOnes AnswersAreFrozen
\* A deleted homework has nothing more to do.
CHECK_DEADLOCK FALSE
