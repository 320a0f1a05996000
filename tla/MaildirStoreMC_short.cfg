\* The file system takes a part of a write.
SPECIFICATION Spec
CONSTANTS
  s1 = s1
  s2 = s2
  Stores = {s1, s2}
  MayUse <- PlainAndPacked
  Wanted <- SharedFolders
  Times = {1}
  Inodes = {1, 2, 3}
  HeaderLen = 3
  Faults = {"shortWrite"}
INVARIANT
  FoldersHoldWhole
