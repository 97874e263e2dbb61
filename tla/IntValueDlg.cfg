\* Dialogs on six values, eight typed texts.
SPECIFICATION Spec
CONSTANTS
  Bits = 6
  DwordBits = 3
  MaxText = 3
  NoResult = NoResult
  Given <- SomeInts
  Typed <- SomeTexts
INVARIANTS
  TypeOK
  RadixKeepsValue
PROPERTY UntouchedOkDelivers
