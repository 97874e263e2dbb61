--------------------------- MODULE RegistryPaths ----------------------------
(***************************************************************************)
(* How the editor finds a key from the full path of its node: GetRoot,     *)
(* GetHiveAndPath, GetHiveNode and FindNode of RegistryManager, and        *)
(* RegHelper::OpenKey.                                                     *)
(*                                                                         *)
(* A text is the sequence of what its backslashes separate: a text with n  *)
(* backslashes has n + 1 components, the text "" one, which is Empty.  Of  *)
(* the texts the program makes only the last component can be Empty, when  *)
(* they end in a backslash.  A key is the sequence of names below          *)
(* \REGISTRY.                                                              *)
(***************************************************************************)
EXTENDS Naturals, Sequences, SequencesExt

CONSTANTS Name,         \* key names
          Empty,        \* the empty component
          REGISTRY,     \* the text of _registryRoot
          Standard,     \* the text of _stdRegistryRoot
          Hive,         \* the nodes _HKLM, _HKCU, _HKCR, _HKUsers and _HKCC
          HiveText,     \* their texts in the tree
          HiveName,     \* their names in the table of GetHiveNode
          RegistryRoot, \* the node _registryRoot
          KeyOf,        \* the key that each of these nodes has open
          NoNode,       \* a null RegKeyTreeNode*
          NoKey         \* what a path that has no root names

Key  == Seq(Name)
Part == Name \union {Empty, REGISTRY, Standard} \union Range(HiveText) \union Range(HiveName)
Text == Seq(Part) \ {<<>>}
Root == Hive \union {RegistryRoot}

ASSUME TextsAssumption ==
  /\ Empty \notin Name /\ Empty \notin Range(HiveName)
  /\ REGISTRY # Standard /\ Empty \notin {REGISTRY, Standard}
ASSUME HivesAssumption ==
  /\ HiveText \in [Hive -> Range(HiveText)]
  /\ HiveName \in [Hive -> Range(HiveName)]
  /\ \A h, k \in Hive : HiveName[h] = HiveName[k] => h = k
ASSUME RootsAssumption ==
  /\ NoNode \notin Root
  /\ KeyOf \in [Root -> Key] /\ KeyOf[RegistryRoot] = <<>>
  /\ NoKey \notin Key

(* GetFullPath of the node for the key p below a hive, and of the node for *)
(* the key p below \REGISTRY.                                              *)
StandardText(h, p) == <<Standard, HiveText[h]>> \o p
RegistryText(p)    == <<REGISTRY>> \o p

(* The full path of a hive, or of a key below one or below \REGISTRY.      *)
IsNodeText(t) ==
  /\ t \in Text /\ Len(t) > 1
  /\ \/ t[1] = REGISTRY /\ Tail(t) \in Key
     \/ t[1] = Standard /\ SubSeq(t, 3, Len(t)) \in Key

-----------------------------------------------------------------------------
(* Without a second backslash Find gives -1: the hive is then empty, and   *)
(* the path is the whole text.                                             *)
GetHiveAndPath(t) ==
  IF Len(t) < 3 THEN [hive |-> Empty, path |-> t]
  ELSE [hive |-> t[2], path |-> SubSeq(t, 3, Len(t))]

GetHiveNode(name) ==
  IF \E h \in Hive : HiveName[h] = name THEN CHOOSE h \in Hive : HiveName[h] = name
  ELSE NoNode

GetRoot(t) ==
  IF t[1] = REGISTRY
    THEN [root |-> RegistryRoot, path |-> IF Len(t) = 1 THEN <<Empty>> ELSE Tail(t)]
    ELSE [root |-> GetHiveNode(GetHiveAndPath(t).hive), path |-> GetHiveAndPath(t).path]

(* Tokenize of FindNode, and the registry's own reading of a path: a       *)
(* backslash at the end is nothing.                                        *)
Tokens(t) == IF Last(t) = Empty THEN Front(t) ELSE t

(* The key that GetRoot and CRegKey::Open lead to.                         *)
Opened(t) ==
  LET r == GetRoot(t) IN IF r.root = NoNode THEN NoKey ELSE KeyOf[r.root] \o Tokens(r.path)

(* RegHelper::OpenKey goes to GetHiveNode for every path that does not     *)
(* begin with a backslash, and dereferences the node it gets: NoKey is a   *)
(* null pointer.                                                           *)
OpenKey(t) ==
  LET hive == GetHiveNode(GetHiveAndPath(t).hive)
  IN  IF t[1] = Empty /\ Len(t) > 1 /\ t[2] = REGISTRY THEN Tokens(Tail(Tail(t)))
      ELSE IF hive = NoNode THEN NoKey ELSE KeyOf[hive] \o Tokens(GetHiveAndPath(t).path)

(* DeleteKeyCommand::Execute splits a path at its last backslash.  It      *)
(* stays with the parent: without it a parent that is a hive had no root.  *)
ParentAndName(t) == [parent |-> Append(Front(t), Empty), name |-> Last(t)]
=============================================================================
