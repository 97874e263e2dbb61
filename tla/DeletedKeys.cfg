\* Two editors delete the same keys by both paths; another process writes twice.
SPECIFICATION Spec
CONSTANTS
  user = user
  config = config
  upper = upper
  lower = lower
  HKCU = HKCU
  HKCC = HKCC
  HKEY_CURRENT_USER = HKEY_CURRENT_USER
  HKEY_CURRENT_CONFIG = HKEY_CURRENT_CONFIG
  HKEY_CURENT_CONFIG = HKEY_CURENT_CONFIG
  d1 = d1
  d2 = d2
  e1 = e1
  e2 = e2
  Name <- Names
  Empty = Empty
  REGISTRY = REGISTRY
  Standard = Standard
  Hive <- Hives
  HiveText <- Texts
  HiveName <- Table
  RegistryRoot = RegistryRoot
  KeyOf <- Keys
  NoNode = NoNode
  NoKey = NoKey
  Editor <- Editors
  Data <- AllData
  InitialKeys <- FirstKeys
  Deletable <- SomeTexts
  NoText = NoText
  MaxBackups = 3
  MaxWrites = 2
SYMMETRY EditorSymmetry
INVARIANTS
  TypeOK
  NothingIsLost
PROPERTIES
  BackupsSurvive
  DeletesWhatItCopied
