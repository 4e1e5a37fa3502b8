\* Eleven stored elements: enough for a table that lags to grow twice in one add.
SPECIFICATION Spec
CONSTANTS
  Elems = {1, 2, 3}
  Key <- KeyOf
  Hash <- HashOf
  HTCSTARTSIZE = 3
  Nothing = Nothing
  MaxStored = 11
INVARIANTS
  TypeOK
  Findable
  CountLags
PROPERTIES
  ImplementsBag
