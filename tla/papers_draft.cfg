\* Any patch of the row reloads a draft a tutor is editing.
SPECIFICATION MCSpec
CONSTANTS
  q1 = q1
  q2 = q2
  sGood = sGood
  sBad = sBad
  sShort = sShort
  mGood = mGood
  mBad = mBad
  mShort = mShort
  Numbers = {q1}
  Structures = {sGood, sBad}
  Schemes = {mGood}
  Compiles <- MCCompiles
  Asks <- MCAsks
  Answers <- MCAnswers
  None = None
  Extraction = extraction
  Requests = {r1}
  Editors = {page}
PROPERTIES DraftIsKept
\* A deleted paper, or one nobody opens, has nothing more to do.
CHECK_DEADLOCK FALSE
