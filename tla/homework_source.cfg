\* Two tutor's pages, on a source that compiles and one that does not; the student
\* is left out.
SPECIFICATION SourceSpec
SYMMETRY Symmetry
CONSTANTS
  good = good
  other = other
  bad = bad
  Sources = {good, bad}
  Compiles <- MCCompiles
  Typst = TRUE
  Cut = FALSE
  Written = {}
  Photos = {}
  Marks = {m0}
  Unmarked = m0
  None = None
  Tabs = {}
  Pages = {p1, p2}
  Compilers = {}
  Readers = {}
  Given = {}
INVARIANTS CompiledIsTheSource
PROPERTIES UnsavedSourceIsKept
\* A deleted homework has nothing more to do.
CHECK_DEADLOCK FALSE
