\* Five nodes: the shortest list with an index reached from the trail in a step.
SPECIFICATION Spec
CONSTANTS
  Elems = {1, 2, 3}
  Key <- KeyOf
  Nodes = {n1, n2, n3, n4, n5}
  Null = Null
  Wild = Wild
  MaxIndex = 4
  MaxArray = 2
SYMMETRY NodeSymmetry
INVARIANTS
  TypeOK
  WellLinked
PROPERTIES
  ImplementsSequence
