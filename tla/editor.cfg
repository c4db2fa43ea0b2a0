SPECIFICATION MCSpec
CONSTANTS
  n1 = n1
  n2 = n2
  b1 = b1
  b2 = b2
  g1 = g1
  g2 = g2
  Name = {n1, n2}
  NoName = NoName
  Most = 2
  Widest = 3
  MaxItems = 3
  MaxEdits = 5
  Stored <- MCStored
  Body = {b1, b2}
  NoBody = NoBody
  Figure = {g1, g2}
  FigureOf <- MCFigureOf
INVARIANTS WhatBuildsIsSet TablesStayRectangular PreviewsStandAlone FiguresAreAwaited
PROPERTIES QuestionsAreKept PreviewCatchesUp
CHECK_DEADLOCK FALSE
