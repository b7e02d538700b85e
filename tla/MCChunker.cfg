SPECIFICATION Spec
CONSTANTS
  Byte = {0, 1, 2}
  Inputs <- MCInputs
  MaxFile = 9
  MinChunk = 4
  AvgChunk = 5
  MaxChunk = 6
  Window = 2
  ReadSize = 10
  PolyBase = 3
  PolyMod = 16
  FpMod = 8
  AnchorMod = 4
  NoHead = NoHead
  SubWindow = 3
  SubBase = 3
  SubMod = 16
  LowMod = 4
  mSet <- MCmSet
  aSet <- MCaSet
  Stacks <- MCStacks
CHECK_DEADLOCK FALSE
INVARIANTS
  TypeOK
  ChunkBounds
  ChunksAreFile
  ContentDefined
  SeedOfContent
  SimulatorFeatures
