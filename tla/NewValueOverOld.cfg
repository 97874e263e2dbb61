\* View.cpp:601 against New DWORD Value.
SPECIFICATION SpecAlone
CONSTANTS
  Bits = 5
  DwordBits = 4
  Default = Default
  None = None
  Beyond <- SomeMemory
  x = x
  y = y
  z = z
  Name <- Names
  KeyName = {y}
  InitialValues <- TwoValues
  Entered <- Numbers
  MaxCommands = 1
  MaxChanges = 0
PROPERTY NewValueIsNew
