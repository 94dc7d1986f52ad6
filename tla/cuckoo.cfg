SPECIFICATION Spec
CONSTANTS
  Bucket = 2
  Missing = Missing
  Keys = {0, 1, 2, 4, 8, 12, 16}
  MaxMask = 15
INVARIANTS Consistent
PROPERTIES ImplementsSet
