SPECIFICATION Spec
CONSTANT
  Runs = {r1, r2, r3, r4}
INVARIANT
  AtMostOnce
