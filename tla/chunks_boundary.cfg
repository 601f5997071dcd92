CONSTANTS
  ChunkLen = 4
  MaxSize = 17
  AnyLength = TRUE
SPECIFICATION Spec
INVARIANT ReadsBackWhatWasStored
