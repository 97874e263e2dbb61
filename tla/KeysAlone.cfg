\* One editor alone, editing keys in place; a stopped program is a dead end.
SPECIFICATION SpecInPlace
CONSTANTS
  k1 = k1
  k2 = k2
  k3 = k3
  Name <- ThreeNames
  DeletedKey = DeletedKey
  NoNode = NoNode
  Gone = Gone
  InitialKeys <- Siblings
  MaxDepth = 2
  MaxCommands = 3
  MaxChanges = 0
CHECK_DEADLOCK FALSE
INVARIANTS
  NodesAreKeys
  TreeIsComplete
  ListShowsKids
  ItemsNest
  HistoryExplainsRegistry
  NextUndoRedoApply
  FullPathsAreTrue
  StopsAlone
PROPERTY NewKeyGoesUnderSelection
