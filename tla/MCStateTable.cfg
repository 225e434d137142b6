SPECIFICATION Spec
CONSTANTS
  Row <- MCRow
  MaxId = 4
  Tables <- MCTables
  FirstTable <- MCFirstTable
INVARIANTS
  LookupAgrees
  RoundTrip
  KeysKept
PROPERTIES
  ImplementsEntityMap
