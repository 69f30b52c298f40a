SPECIFICATION Spec
CONSTANTS
  Heads <- MCHeads
  ChunkTexts <- MCChunkTexts
  MaxSize = 255
CHECK_DEADLOCK FALSE
INVARIANT HeadersRead
INVARIANT StatusLineRead
INVARIANT ChunkSizeRead
