SPECIFICATION Spec
CONSTANTS
  h1 = h1
  h2 = h2
  Chunk <- MCChunk
  ChunkSize <- MCChunkSize
  Name <- MCName
  DataThread = {t1}
  MaxContainerSize = 4
  BodySize = 4
  LastContainer = 3
  CacheSize = 2
  Zero = Zero
  NoEntry = NoEntry
  NoFile = NoFile
  NoConfig = NoConfig
  NoReply = NoReply
  NoSlot = NoSlot
INVARIANTS
  TypeOK
  IndexedChunksReadable
  CacheCoherent
PROPERTIES
  ContainerFilesOnlyGrow
  ImplementsChunkStore
