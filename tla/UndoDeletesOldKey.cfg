\* README.md:5 against New Key under the stale path of a renamed branch.
SPECIFICATION SpecAlone
CONSTANTS
  k1 = k1
  k2 = k2
  k3 = k3
  Name <- ThreeNames
  DeletedKey = DeletedKey
  NoNode = NoNode
  Gone = Gone
  InitialKeys <- TwoBranches
  MaxDepth = 3
  MaxCommands = 3
  MaxChanges = 0
CHECK_DEADLOCK FALSE
INVARIANT UndoKeepsOldKeys
