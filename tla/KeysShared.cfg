\* Other processes change the registry too; a stopped program is a dead end.
SPECIFICATION Spec
CONSTANTS
  k1 = k1
  k2 = k2
  k3 = k3
  Name <- TwoNames
  DeletedKey = DeletedKey
  NoNode = NoNode
  Gone = Gone
  InitialKeys <- SmallHive
  MaxDepth = 2
  MaxCommands = 2
  MaxChanges = 2
CHECK_DEADLOCK FALSE
INVARIANTS
  TypeOK
  SelectionIsLive
  RowsAreNodes
PROPERTIES
  RefreshSyncs
  UsesCommandManager
  RefreshReturns
  RefreshSparesShown
