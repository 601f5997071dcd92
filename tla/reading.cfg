CONSTANTS
  Sizes = {0, 1, 3, 4}
  Lengths = {0, 1, 2, 3, 5, 7}
  Offsets <- MCOffsets
  PeekLengths = {2}
  NetLen = 3
  IntMax = 7
  MaxPage = 3
  MaxCached = 6
  MaxChanges = 2
  Unknown = Unknown
SPECIFICATION Spec
CHECK_DEADLOCK FALSE
INVARIANTS TypeOK CacheIsDocument PositionInFile DefinedUnlessSpoiled
PROPERTY ImplementsFileService
