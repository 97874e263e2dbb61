\* README.md:5 against New Key and Undo under an unexpanded key.
SPECIFICATION SpecNoRename
CONSTANTS
  k1 = k1
  k2 = k2
  k3 = k3
  Name <- TwoNames
  DeletedKey = DeletedKey
  NoNode = NoNode
  Gone = Gone
  InitialKeys <- DeepHive
  MaxDepth = 3
  MaxCommands = 2
  MaxChanges = 0
CHECK_DEADLOCK FALSE
INVARIANT UndoKeepsTree
