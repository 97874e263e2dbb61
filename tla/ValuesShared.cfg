\* Another process changes a value once: two commands.
SPECIFICATION Spec
CONSTANTS
  Bits = 5
  DwordBits = 4
  Default = Default
  None = None
  Beyond <- SomeMemory
  x = x
  y = y
  z = z
  Name <- XOrNone
  KeyName = {}
  InitialValues <- OneValue
  Entered <- OneNumber
  MaxCommands = 2
  MaxChanges = 1
INVARIANT TypeOK
PROPERTY UsesCommandManager
