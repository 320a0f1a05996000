\* Two stores, one folder in common, every failure but a short write.
SPECIFICATION FairSpec
CONSTANTS
  s1 = s1
  s2 = s2
  Stores = {s1, s2}
  MayUse <- PlainAndPacked
  Wanted <- SharedFolders
  Times = {1}
  Inodes = {1, 2, 3}
  HeaderLen = 3
  Faults = {"mkdir", "link", "write", "child", "exit"}
INVARIANTS
  TypeOK
  KeptEverywhere
  FoldersHoldWhole
  ErrorMeansAbsent
  CleanEnd
PROPERTY StoreEnds
