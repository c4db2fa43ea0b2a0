SPECIFICATION MCSpec
CONSTANTS
  i1 = i1
  t1 = t1
  f1 = f1
  Topic = {t1, t2}
  Text = {a0, a1}
  Blank = a0
  Item = {i1, i2}
  LinkId = {1, 2}
  Editor = {e1, e2}
  Saver = {d1, v1}
  None = None
  File = {f1, f2, f3}
  MaxPages = 2
  Task = {k1, k2}
  Adder = {d1}
  Reader = {v1}
  Old = {i1}
  FileOf <- MCFileOf
  MaxLost = 1
  Viewer = {w1}
  MaxAsked = 2
  Blob = {f1, f2, f3}
  NoFile = None
INVARIANTS TagsAreTheChoice ReadyScansAreWhole BlobsAreOfTheFileAsked
PROPERTIES TypedDescriptionIsKept WhatWasReadIsKept PagesSeeTheEnd
CHECK_DEADLOCK FALSE
