\* Single commands and lists, at most four of them on the stacks; an overrun is a dead end.
SPECIFICATION ListSpec
CONSTANTS
  e1 = e1
  e2 = e2
  Edit <- TwoEdits
  Command <- SomeCommands
  MaxCommands = 4
  MaxApplied = 6
CHECK_DEADLOCK FALSE
INVARIANTS
  TypeOK
  RecordedIsInEffect
PROPERTIES
  IsLinearHistory
  ListsBlockUndo
