\* A careful user alone on the key: three commands.
SPECIFICATION SpecCareful
CONSTANTS
  Bits = 5
  DwordBits = 4
  Default = Default
  None = None
  Beyond <- SomeMemory
  x = x
  y = y
  z = z
  Name <- WithZ
  KeyName = {}
  InitialValues <- ManyTypes
  Entered <- Typed
  MaxCommands = 3
  MaxChanges = 0
INVARIANTS
  UndoGivesValuesBack
  NextUndoRedoApply
  RowsShowValues
PROPERTIES
  RenameKeepsValue
  UntouchedOkKeepsValues
