SPECIFICATION Spec
CONSTANTS
  Docs = {1, 2}
  l1 = l1
  l2 = l2
  l3 = l3
  Labels = {l1, l2, l3}
  Canon <- MCCanon
  Similar <- MCSimilar
  TooLong = {l3}
  Scans = {s1, s2}
  MaxChanges = 4
  NoLabel = NoLabel
SYMMETRY Symmetry
INVARIANTS FlagsStand ScanIsComplete
PROPERTIES NeverFlaggedAgain
