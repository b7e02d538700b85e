SPECIFICATION Spec
CONSTANTS
  a = a
  b = b
  lost = lost
  file = file
  c1 = c1
  FileName = {file}
  Chunk = {a, b, lost}
  Recipes <- MCRecipes
  Indexed = {a, b}
  Client = {c1}
  FileOf <- MCFileOf
  BatchNumber = 2
  QueueCapacity = 2
  WireCapacity = 2
  MaxUploads = 3
  UintMod = 16
  Zeros = Zeros
  Garbage = Garbage
CHECK_DEADLOCK FALSE
INVARIANTS
  TypeOK
  RestoreExact
  WindowInsideList
PROPERTIES
  Termination
