SPECIFICATION Spec
CONSTANTS
  FileLength = 2
  Content <- MCContent
  ContentOf <- MCContentOf
  FpThread = {f1}
  QueueCapacity = 2
  KeyBatch = 2
  PowBatch = 2
  SendBatch = 2
  Indexed = {1}
  NoRecipe = NoRecipe
CHECK_DEADLOCK FALSE
INVARIANTS
  RecipeRestorable
