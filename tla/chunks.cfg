CONSTANTS
  ChunkLen = 4
  MaxSize = 22
  AnyLength = FALSE
SPECIFICATION Spec
INVARIANTS TypeOK ChunksFollowCursor ReadsBackWhatWasStored
