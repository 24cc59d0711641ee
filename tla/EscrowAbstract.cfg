SPECIFICATION Spec
CONSTANTS
  Capacity = 15
INVARIANTS
  Backed
