\* The extraction, two requests and a deletion, with no page open; or one request, an open
\* page and a deletion: two questions, two structures, two schemes.
SPECIFICATION MCSpec
SYMMETRY Symmetry
CONSTANTS
  q1 = q1
  q2 = q2
  sGood = sGood
  sBad = sBad
  sShort = sShort
  mGood = mGood
  mBad = mBad
  mShort = mShort
  Numbers = {q1, q2}
  Structures = {sGood, sBad}
  Schemes = {mGood, mBad}
  Compiles <- MCCompiles
  Asks <- MCAsks
  Answers <- MCAnswers
  None = None
  Extraction = extraction
  Requests = {r1, r2}
  Editors = {page}
INVARIANTS PdfsShowWhatIsStored FreshPagesShowTheRow ReadBringsQuestionsUp ExtractionIsWhole
PROPERTIES RenderRepairsWordingOnly
\* A deleted paper, or one nobody opens, has nothing more to do.
CHECK_DEADLOCK FALSE
