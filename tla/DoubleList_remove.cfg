SPECIFICATION Spec
CONSTANTS
  Elems = {1, 2, 3}
  Key <- KeyOf
  Nodes = {n1, n2, n3}
  Null = Null
  Wild = Wild
  MaxIndex = 4
  MaxArray = 2
PROPERTY RemovesTheValue
