SPECIFICATION Spec
CONSTANTS
  FileLength = 4
  Content <- MCContent
  ContentOf <- MCContentOf
  FpThread = {f1, f2}
  QueueCapacity = 2
  KeyBatch = 2
  PowBatch = 3
  SendBatch = 3
  Indexed = {1}
  NoRecipe = NoRecipe
CHECK_DEADLOCK FALSE
INVARIANTS
  TypeOK
  DoneIsFinal
  OnePlaceEach
  RecipeComplete
  OnlyOverlookedMissing
  NoDeadlock
PROPERTIES
  Termination
