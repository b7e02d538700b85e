SPECIFICATION Spec
CONSTANTS
  a1 = a1
  a2 = a2
  b = b
  c = c
  Chunk = {a1, a2, b, c}
  Prefix = {"p", "q", "r"}
  Indicator <- MCIndicator
  Describe <- MCDescribe
  Window = 5
  Threshold = 2
  PowBatch = 2
  MaxTrace = 8
CHECK_DEADLOCK FALSE
INVARIANTS
  TypeOK
  SimilarBounded
  DetectExact
  SimulatorAgrees
