SPECIFICATION Spec
CONSTANTS
  Client = {c1, c2}
  Nonce = {n1, n2}
  Batch = {3}
  MaskCap = 20
  MaxSession = 3
  MaxCounter = 24
  MaxFault = 1
  Nothing = Nothing
SYMMETRY Symmetry
CHECK_DEADLOCK FALSE
INVARIANTS
  TypeOK
  
  
