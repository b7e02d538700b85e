SPECIFICATION Spec
CONSTANTS
  h1 = h1
  h2 = h2
  Chunk <- MCChunk
  ChunkSize <- MCChunkSize
  Name <- MCName
  DataThread = {t1, t2}
  MaxContainerSize = 4
  BodySize = 8
  LastContainer = 1
  CacheSize = 2
  Zero = Zero
  NoEntry = NoEntry
  NoFile = NoFile
  NoConfig = NoConfig
  NoReply = NoReply
  NoSlot = NoSlot
INVARIANTS
  IndexedChunksReadable
