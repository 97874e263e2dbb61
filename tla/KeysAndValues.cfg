\* One editor with keys and values; a stopped program is a dead end.
SPECIFICATION SpecBoth
CONSTANTS
  k1 = k1
  k2 = k2
  k3 = k3
  k4 = k4
  v1 = v1
  v2 = v2
  Name <- FourNames
  DeletedKey = DeletedKey
  NoNode = NoNode
  Gone = Gone
  Data <- TwoData
  NoValue = NoValue
  InitialKeys <- Siblings
  InitialData <- TwoValues
  MaxDepth = 2
  MaxCommands = 3
  MaxChanges = 0
CHECK_DEADLOCK FALSE
INVARIANTS
  TypesOK
  UndoReachesStart
  RedoReachesEnd
PROPERTY EntryGoesToShownKey
