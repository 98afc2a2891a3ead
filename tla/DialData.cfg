SPECIFICATION Spec
CONSTANTS
  Keys <- MCKeys
  Values = {"v", "long"}
  Cut <- MCCut
  Empty = ""
  MaxPairs = 2
  MaxPosts = 2
CHECK_DEADLOCK FALSE
INVARIANTS
  TypeOK
  FileIsOldOrPart
  PlainPairsSurvive
