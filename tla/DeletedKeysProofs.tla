------------------------- MODULE DeletedKeysProofs --------------------------
(***************************************************************************)
(* Theorems about RegistryPaths.tla and DeletedKeys.tla: which key the     *)
(* full path of a node leads to, by GetRoot and by RegHelper::OpenKey, and *)
(* that the parent and the name that DeleteKeyCommand makes of it lead to  *)
(* the same key; then, for every set of editors, of keys and of paths, and *)
(* every bound, what becomes of keys and their backups.                    *)
(***************************************************************************)
EXTENDS DeletedKeys, SequenceTheorems, TLAPS

(* A sequence that is not empty: its front and its last element.           *)
LEMMA FrontLast ==
  ASSUME NEW S, NEW s \in Seq(S), s # <<>>
  PROVE  /\ Front(s) \in Seq(S) /\ Last(s) \in S
         /\ Len(s) \in Nat \ {0} /\ Len(Front(s)) = Len(s) - 1
         /\ \A i \in 1 .. Len(s) - 1 : Front(s)[i] = s[i]
         /\ Append(Front(s), Last(s)) = s
<1>1. PICK u \in Seq(S), x \in S : s = Append(u, x)
  BY SequenceEmptyOrAppend
<1>2. /\ Len(s) = Len(u) + 1 /\ Len(u) \in Nat /\ s[Len(s)] = x
      /\ Front(s) = u /\ \A i \in 1 .. Len(u) : s[i] = u[i]
  BY <1>1, AppendProperties, LenProperties DEF Front
<1> QED
  BY <1>1, <1>2 DEF Last

-----------------------------------------------------------------------------
(* The operators.                                                          *)

LEMMA GetHiveNodeType ==
  ASSUME NEW x
  PROVE  /\ GetHiveNode(x) \in Hive \union {NoNode}
         /\ GetHiveNode(x) # NoNode => HiveName[GetHiveNode(x)] = x
         /\ GetHiveNode(Empty) = NoNode
<1>1. \A h \in Hive : HiveName[h] # Empty
  BY TextsAssumption, HivesAssumption
<1> QED
  BY <1>1 DEF GetHiveNode

(* The nodes of the table are found by their names.                        *)
LEMMA GetHiveNodeFinds ==
  ASSUME NEW h \in Hive
  PROVE  GetHiveNode(HiveName[h]) = h
<1>1. \A k \in Hive : HiveName[k] = HiveName[h] => k = h
  BY HivesAssumption
<1> QED
  BY <1>1 DEF GetHiveNode

(* A path without a backslash at its end, and with one.                    *)
LEMMA TokensOfKey ==
  ASSUME NEW p \in Key
  PROVE  /\ p # <<>> => Tokens(p) = p
         /\ Tokens(Append(p, Empty)) = p
<1>1. p # <<>> => Last(p) \in Name
  BY FrontLast DEF Key
<1>2. Name \subseteq Part /\ Empty \in Part
  BY DEF Part
<1>4. p \in Seq(Part)
  BY <1>2, SeqMonotonic DEF Key
<1>3. Last(Append(p, Empty)) = Empty /\ Front(Append(p, Empty)) = p
  BY <1>2, <1>4, AppendProperties DEF Last, Front
<1> QED
  BY <1>1, <1>3, TextsAssumption DEF Tokens

-----------------------------------------------------------------------------
(* A key text, taken apart.                                                *)

(* The parent that DeleteKeyCommand makes of a text: all but the last      *)
(* component as they are, the last one empty.                              *)
LEMMA ParentOfText ==
  ASSUME NEW t \in Text, Len(t) > 1
  PROVE  LET u == Append(Front(t), Empty)
         IN  u \in Text /\ Len(u) = Len(t) /\ \A i \in 1 .. Len(t) - 1 : u[i] = t[i]
<1>1. Empty \in Part /\ t \in Seq(Part) /\ t # <<>>
  BY DEF Text, Part
<1>2. /\ Front(t) \in Seq(Part) /\ Len(t) \in Nat /\ Len(Front(t)) = Len(t) - 1
      /\ \A i \in 1 .. Len(t) - 1 : Front(t)[i] = t[i]
  BY <1>1, FrontLast
<1> QED
  BY <1>1, <1>2, AppendProperties DEF Text

(* The same of what begins at the n-th component.                          *)
LEMMA RestOfParent ==
  ASSUME NEW t \in Text, NEW n \in 2 .. 3, Len(t) >= n, SubSeq(t, n, Len(t)) \in Key
  PROVE  LET u == Append(Front(t), Empty)
             s == SubSeq(t, n, Len(t))
         IN  /\ s # <<>> /\ Last(s) = Last(t)
             /\ SubSeq(u, n, Len(u)) = Append(Front(s), Empty)
<1> DEFINE u == Append(Front(t), Empty)
           s == SubSeq(t, n, Len(t))
           l == SubSeq(u, n, Len(u))
           r == Append(Front(s), Empty)
           m == n - 1
<1>1. Empty \in Part /\ t \in Seq(Part) /\ Len(t) \in Nat /\ u \in Seq(Part)
  BY ParentOfText, LenProperties DEF Text, Part
<1>2. Len(u) = Len(t) /\ (\A i \in 1 .. Len(t) - 1 : u[i] = t[i]) /\ u[Len(t)] = Empty
  <2>1. Len(t) > 1 /\ t # <<>>
    BY <1>1
  <2>2. Len(Front(t)) = Len(t) - 1 /\ Front(t) \in Seq(Part)
    BY <1>1, <2>1, FrontLast
  <2>3. u[Len(Front(t)) + 1] = Empty
    BY <1>1, <2>2, AppendProperties
  <2> QED
    BY <1>1, <2>1, <2>2, <2>3, ParentOfText
<1>3. /\ s \in Seq(Part) /\ Len(s) = Len(t) - m
      /\ \A i \in 1 .. Len(t) - m : s[i] = t[m + i]
  <2>1. \A i \in n .. Len(t) : t[i] \in Part
    BY <1>1, ElementOfSeq
  <2>2. n \in Int /\ Len(t) \in Int /\ n <= Len(t)
    BY <1>1
  <2>3. /\ s \in Seq(Part) /\ Len(s) = Len(t) - n + 1
        /\ \A i \in 1 .. Len(t) - n + 1 : s[i] = t[n + i - 1]
    BY <2>1, <2>2, SubSeqProperties
  <2> QED
    BY <1>1, <2>3
<1>4. /\ l \in Seq(Part) /\ Len(l) = Len(t) - m
      /\ \A i \in 1 .. Len(t) - m : l[i] = u[m + i]
  <2>1. \A i \in n .. Len(u) : u[i] \in Part
    BY <1>1, ElementOfSeq
  <2>2. n \in Int /\ Len(u) \in Int /\ n <= Len(u)
    BY <1>1, <1>2
  <2>3. /\ l \in Seq(Part) /\ Len(l) = Len(u) - n + 1
        /\ \A i \in 1 .. Len(u) - n + 1 : l[i] = u[n + i - 1]
    BY <2>1, <2>2, SubSeqProperties
  <2> QED
    BY <1>1, <1>2, <2>3
<1> HIDE DEF u, s, l
<1>5. /\ s # <<>> /\ Front(s) \in Seq(Part) /\ Len(Front(s)) = Len(s) - 1
      /\ \A i \in 1 .. Len(s) - 1 : Front(s)[i] = s[i]
  <2>1. s # <<>>
    BY <1>1, <1>3, EmptySeq
  <2> QED
    BY <1>3, <2>1, FrontLast
<1>6. /\ r \in Seq(Part) /\ Len(r) = Len(t) - m /\ r[Len(t) - m] = Empty
      /\ \A i \in 1 .. Len(t) - m - 1 : r[i] = s[i]
  BY <1>1, <1>3, <1>5, AppendProperties
<1> HIDE DEF r
<1>7. ASSUME NEW i \in 1 .. Len(t) - m PROVE l[i] = r[i]
  <2>1. CASE i = Len(t) - m
    BY <1>1, <1>2, <1>4, <1>6, <2>1
  <2>2. CASE i < Len(t) - m
    <3>1. m + i \in 1 .. Len(t) - 1 /\ i \in 1 .. Len(t) - m - 1 /\ Len(t) - m \in Nat
      BY <1>1, <2>2
    <3> QED
      BY <1>2, <1>3, <1>4, <1>6, <3>1
  <2> QED
    BY <1>1, <2>1, <2>2
<1>8. l = r
  BY <1>4, <1>6, <1>7, SeqEqual
<1>9. Last(s) = Last(t)
  <2>1. Len(s) \in 1 .. Len(t) - m /\ m + Len(s) = Len(t)
    BY <1>1, <1>3
  <2>2. s[Len(s)] = t[Len(t)]
    BY <1>3, <2>1
  <2> QED
    BY <2>2 DEF Last
<1> QED
  BY <1>5, <1>8, <1>9 DEF u, s, l, r

-----------------------------------------------------------------------------
(* Which key a path leads to.                                              *)

(* GetRoot, and what Open finds, for the path of a key below a hive and    *)
(* for the path of one below \REGISTRY.                                    *)
LEMMA OpenedBelowHive ==
  ASSUME NEW t \in Text, t[1] # REGISTRY, Len(t) > 2
  PROVE  LET g == GetHiveNode(t[2])
         IN  /\ g = NoNode => Opened(t) = NoKey
             /\ g # NoNode => /\ KeyOf[g] \in Key
                              /\ Opened(t) = KeyOf[g] \o Tokens(SubSeq(t, 3, Len(t)))
<1>1. GetHiveAndPath(t) = [hive |-> t[2], path |-> SubSeq(t, 3, Len(t))]
  BY LenProperties DEF GetHiveAndPath, Text
<1>2. /\ GetRoot(t).root = GetHiveNode(t[2])
      /\ GetRoot(t).path = SubSeq(t, 3, Len(t))
  BY <1>1 DEF GetRoot
<1>3. GetHiveNode(t[2]) # NoNode => KeyOf[GetHiveNode(t[2])] \in Key
  BY GetHiveNodeType, RootsAssumption DEF Root
<1> QED
  BY <1>2, <1>3 DEF Opened

LEMMA OpenedBelowRegistry ==
  ASSUME NEW t \in Text, t[1] = REGISTRY, Len(t) > 1
  PROVE  Opened(t) = <<>> \o Tokens(Tail(t)) /\ RegistryRoot # NoNode
<1>1. GetRoot(t).root = RegistryRoot /\ GetRoot(t).path = Tail(t)
  <2>1. Len(t) # 1
    <3>1. \A n \in Nat : n > 1 => n # 1
      OBVIOUS
    <3>2. Len(t) \in Nat
      BY LenProperties DEF Text
    <3> QED
      BY <3>1, <3>2, Zenon
  <2> QED
    BY <2>1 DEF GetRoot
<1>2. KeyOf[RegistryRoot] = <<>> /\ RegistryRoot # NoNode
  BY RootsAssumption DEF Root
<1> QED
  BY <1>1, <1>2 DEF Opened

(* Without a second backslash there is no hive and no root.                *)
LEMMA OpenedHive ==
  ASSUME NEW t \in Text, t[1] # REGISTRY, Len(t) < 3
  PROVE  Opened(t) = NoKey
<1>1. GetHiveAndPath(t).hive = Empty
  BY DEF GetHiveAndPath
<1>2. GetRoot(t).root = NoNode
  BY <1>1, GetHiveNodeType DEF GetRoot
<1> QED
  BY <1>2 DEF Opened

(* The path of a node is that of a hive, or leads to a key or nowhere.     *)
LEMMA OpenedType ==
  ASSUME NEW t, IsNodeText(t)
  PROVE  Opened(t) \in Key \union {NoKey}
<1>1. t \in Text /\ Len(t) > 1 /\ Len(t) \in Nat /\ t \in Seq(Part)
  BY LenProperties DEF IsNodeText, Text
<1>2. CASE t[1] = REGISTRY /\ Tail(t) \in Key
  <2>1. Tail(t) # <<>>
    <3>1. Tail(t) = SubSeq(t, 2, Len(t)) /\ Len(t) >= 2
      BY <1>1, TailIsSubSeq, EmptySeq
    <3>2. SubSeq(t, 2, Len(t)) \in Key
      BY <1>2, <3>1, Zenon
    <3>3. 2 \in 2 .. 3
      OBVIOUS
    <3> QED
      BY <1>1, <3>1, <3>2, <3>3, RestOfParent
  <2>2. Tokens(Tail(t)) = Tail(t)
    BY <1>2, <2>1, TokensOfKey
  <2>3. <<>> \o Tail(t) = Tail(t)
    BY <1>2, ConcatEmptySeq DEF Key
  <2> QED
    BY <1>1, <1>2, <2>2, <2>3, OpenedBelowRegistry
<1>3. CASE t[1] = Standard /\ SubSeq(t, 3, Len(t)) \in Key
  <2>1. CASE Len(t) < 3
    BY <1>1, <1>3, <2>1, OpenedHive, TextsAssumption
  <2>2. CASE Len(t) > 2
    <3> DEFINE s == SubSeq(t, 3, Len(t))
               g == GetHiveNode(t[2])
    <3>1. s # <<>>
      BY <1>1, <1>3, <2>2, RestOfParent
    <3>2. Tokens(s) = s
      BY <1>3, <3>1, TokensOfKey
    <3>3. /\ g = NoNode => Opened(t) = NoKey
          /\ g # NoNode => KeyOf[g] \in Key /\ Opened(t) = KeyOf[g] \o s
      BY <1>1, <1>3, <2>2, <3>2, OpenedBelowHive, TextsAssumption
    <3> HIDE DEF s, g
    <3>4. s \in Seq(Name)
      BY <1>3 DEF s, Key
    <3> QED
      BY <3>3, <3>4, ConcatProperties DEF Key
  <2> QED
    BY <1>1, <2>1, <2>2
<1> QED
  BY <1>2, <1>3 DEF IsNodeText

(* DeleteKeyCommand::Execute copies the key that GetRoot finds by the path *)
(* and lets DeleteKey look for it again by its parent and its name: if the *)
(* path leads to a key, parent and name lead to the same one, be it        *)
(* directly below a hive or deeper, and if it does not, the command has    *)
(* returned.                                                               *)
THEOREM ParentAndNameFindTheKey ==
  ASSUME NEW t, IsNodeText(t), Opened(t) # NoKey
  PROVE  LET split == ParentAndName(t)
         IN  /\ Opened(split.parent) \in Key
             /\ split.name \in Name
             /\ Append(Opened(split.parent), split.name) = Opened(t)
<1> DEFINE u == Append(Front(t), Empty)
<1>1. t \in Text /\ Len(t) > 1 /\ Len(t) \in Nat /\ t \in Seq(Part) /\ t # <<>>
  BY LenProperties DEF IsNodeText, Text
<1>2. u \in Text /\ u \in Seq(Part) /\ Len(u) = Len(t) /\ u[1] = t[1]
      /\ (Len(t) > 2 => u[2] = t[2])
  BY <1>1, ParentOfText DEF Text
<1>3. ParentAndName(t).parent = u /\ ParentAndName(t).name = Last(t)
  BY DEF ParentAndName
<1> HIDE DEF u
<1>4. CASE t[1] = REGISTRY /\ Tail(t) \in Key
  <2> DEFINE s == Tail(t)
  <2>1. s = SubSeq(t, 2, Len(t)) /\ Tail(u) = SubSeq(u, 2, Len(u))
    BY <1>1, <1>2, TailIsSubSeq, EmptySeq
  <2>2. s # <<>> /\ Last(s) = Last(t) /\ Tail(u) = Append(Front(s), Empty)
    <3>1. Len(t) >= 2
      BY <1>1
    <3>2. SubSeq(t, 2, Len(t)) \in Key
      BY <1>4, <2>1
    <3>3. 2 \in 2 .. 3
      OBVIOUS
    <3> HIDE DEF s
    <3> QED
      BY <1>1, <2>1, <3>1, <3>2, <3>3, RestOfParent DEF u
  <2> HIDE DEF s
  <2>3. Front(s) \in Key /\ Last(s) \in Name /\ Append(Front(s), Last(s)) = s /\ s \in Key
    BY <1>4, <2>2, FrontLast DEF Key, s
  <2>4. Tokens(s) = s /\ Tokens(Tail(u)) = Front(s)
    BY <2>2, <2>3, TokensOfKey
  <2>5. <<>> \o s = s /\ <<>> \o Front(s) = Front(s)
    BY <2>3, ConcatEmptySeq DEF Key
  <2>6. Opened(t) = s /\ Opened(u) = Front(s)
    BY <1>1, <1>2, <1>4, <2>4, <2>5, OpenedBelowRegistry DEF s
  <2> QED
    BY <1>3, <2>2, <2>3, <2>6
<1>5. CASE t[1] = Standard /\ SubSeq(t, 3, Len(t)) \in Key
  <2> DEFINE s == SubSeq(t, 3, Len(t))
             g == GetHiveNode(t[2])
  <2>1. Len(t) > 2 /\ t[1] # REGISTRY
    BY <1>1, <1>5, OpenedHive, TextsAssumption
  <2>2. s # <<>> /\ Last(s) = Last(t) /\ SubSeq(u, 3, Len(u)) = Append(Front(s), Empty)
    BY <1>1, <1>5, <2>1, RestOfParent DEF u
  <2> HIDE DEF s
  <2>3. Front(s) \in Key /\ Last(s) \in Name /\ Append(Front(s), Last(s)) = s /\ s \in Key
    BY <1>5, <2>2, FrontLast DEF Key, s
  <2>4. Tokens(s) = s /\ Tokens(SubSeq(u, 3, Len(u))) = Front(s)
    BY <2>2, <2>3, TokensOfKey
  <2>5. g # NoNode /\ KeyOf[g] \in Key /\ Opened(t) = KeyOf[g] \o s
    BY <1>1, <2>1, <2>4, OpenedBelowHive DEF s
  <2>6. Opened(u) = KeyOf[g] \o Front(s)
    BY <1>1, <1>2, <2>1, <2>4, <2>5, OpenedBelowHive
  <2> HIDE DEF g
  <2>7. /\ KeyOf[g] \o Front(s) \in Key
        /\ Append(KeyOf[g] \o Front(s), Last(s)) = KeyOf[g] \o s
    <3>1. KeyOf[g] \in Seq(Name) /\ Front(s) \in Seq(Name) /\ Last(s) \in Name
      BY <2>3, <2>5 DEF Key
    <3>2. KeyOf[g] \o Front(s) \in Seq(Name) /\ <<Last(s)>> \in Seq(Name)
      BY <3>1, ConcatProperties
    <3>3. /\ Append(KeyOf[g] \o Front(s), Last(s)) = (KeyOf[g] \o Front(s)) \o <<Last(s)>>
          /\ s = Front(s) \o <<Last(s)>>
      BY <2>3, <3>1, <3>2, AppendIsConcat
    <3>4. (KeyOf[g] \o Front(s)) \o <<Last(s)>> = KeyOf[g] \o (Front(s) \o <<Last(s)>>)
      <4> DEFINE k == KeyOf[g]
                 f == Front(s)
                 o == <<Last(s)>>
      <4>1. k \in Seq(Name) /\ f \in Seq(Name) /\ o \in Seq(Name)
        BY <3>1, <3>2
      <4> HIDE DEF k, f, o
      <4>2. (k \o f) \o o = k \o (f \o o)
        BY <4>1, ConcatAssociative
      <4> QED
        BY <4>2 DEF k, f, o
    <3> QED
      BY <3>2, <3>3, <3>4 DEF Key
  <2> QED
    BY <1>3, <2>2, <2>3, <2>5, <2>6, <2>7
<1> QED
  BY <1>4, <1>5 DEF IsNodeText

(* The full path of a node below a hive leads to the key the node is for,  *)
(* if the text of the hive is its name in the table of GetHiveNode.        *)
THEOREM StandardPathsFindTheirKey ==
  ASSUME NEW h \in Hive, HiveText[h] = HiveName[h],
         NEW t, IsNodeText(t), t[1] = Standard, t[2] = HiveText[h], Len(t) > 2
  PROVE  Opened(t) = KeyOf[h] \o SubSeq(t, 3, Len(t))
<1> DEFINE s == SubSeq(t, 3, Len(t))
<1>1. t \in Text /\ t[1] # REGISTRY
  BY TextsAssumption DEF IsNodeText
<1>2. s \in Key
  BY <1>1 DEF IsNodeText
<1>3. Len(t) >= 3 /\ 3 \in 2 .. 3
  BY <1>1, LenProperties DEF Text
<1>4. s # <<>>
  BY <1>1, <1>2, <1>3, RestOfParent
<1> HIDE DEF s
<1>5. Tokens(s) = s
  BY <1>2, <1>4, TokensOfKey
<1>6. GetHiveNode(t[2]) = h /\ h # NoNode
  BY GetHiveNodeFinds, RootsAssumption DEF Root
<1> QED
  BY <1>1, <1>5, <1>6, OpenedBelowHive DEF s

(* RegHelper::OpenKey, which the commands that change a value use, agrees  *)
(* with GetRoot below the hives; but the path of a key below \REGISTRY     *)
(* leads it to a null pointer, unless the key is called like a hive.       *)
THEOREM OpenKeyKnowsHivesOnly ==
  ASSUME NEW t, IsNodeText(t)
  PROVE  /\ t[1] = Standard => OpenKey(t) = Opened(t)
         /\ t[1] = REGISTRY /\ (\A h \in Hive : HiveName[h] # t[2]) => OpenKey(t) = NoKey
<1>1. t \in Text /\ t[1] # Empty
  BY TextsAssumption DEF IsNodeText
<1>2. OpenKey(t) = LET hive == GetHiveNode(GetHiveAndPath(t).hive)
                   IN  IF hive = NoNode THEN NoKey
                       ELSE KeyOf[hive] \o Tokens(GetHiveAndPath(t).path)
  BY <1>1 DEF OpenKey
<1>3. ASSUME t[1] = Standard PROVE OpenKey(t) = Opened(t)
  <2>1. GetRoot(t).root = GetHiveNode(GetHiveAndPath(t).hive)
    BY <1>3, TextsAssumption DEF GetRoot
  <2>2. GetRoot(t).path = GetHiveAndPath(t).path
    BY <1>3, TextsAssumption DEF GetRoot
  <2> QED
    BY <1>2, <2>1, <2>2 DEF Opened
<1>4. ASSUME t[1] = REGISTRY, \A h \in Hive : HiveName[h] # t[2] PROVE OpenKey(t) = NoKey
  <2>1. GetHiveAndPath(t).hive \in {Empty, t[2]}
    BY DEF GetHiveAndPath
  <2>2. GetHiveNode(GetHiveAndPath(t).hive) = NoNode
    BY <1>4, <2>1, GetHiveNodeType DEF GetHiveNode
  <2> QED
    BY <1>2, <2>2
<1> QED
  BY <1>3, <1>4

-----------------------------------------------------------------------------
(* Keys and backups.                                                       *)

Copies    == UNION {[D -> Data] : D \in SUBSET Key}
AnyBackup == [from : Key, copy : Copies]

Types ==
  /\ IsKeys(reg) /\ IsKeys(last)
  /\ bin \in BOOLEAN /\ raced \subseteq Key /\ writes \in Nat
  /\ editors \in [Editor -> EditorState]
  /\ backups \in Seq(AnyBackup) /\ Len(backups) <= MaxBackups
  /\ backups # <<>> => bin
  /\ \A e \in Editor : editors[e].handle => bin

Busy(e)   == editors[e].pc \in {"copying", "copied"}
Mine(e)   == backups[editors[e].backup]
Target(e) == Opened(editors[e].path)

(* A command in progress has a backup key for the key it was given, and    *)
(* once that key is copied the copy is as the key is, unless another       *)
(* process has written to it since.                                        *)
InProgress(e) ==
  /\ editors[e].backup \in DOMAIN backups
  /\ editors[e].path \in Deletable /\ Target(e) \in Key
  /\ Mine(e).from = Target(e)
  /\ editors[e].pc = "copied" => <<>> \in DOMAIN Mine(e).copy
  /\ <<>> \in DOMAIN Mine(e).copy /\ Target(e) \in DOMAIN reg \ raced =>
       Mine(e).copy[<<>>] = reg[Target(e)]

Commands == \A e \in Editor : Busy(e) => InProgress(e)

(* last is what the registry holds, as far as the keys are still there.    *)
Current == \A k \in DOMAIN reg : k \in DOMAIN last /\ reg[k] = last[k]

IInv == Types /\ Commands /\ Current /\ NothingIsLost

(* Every copy stays, and so does what it holds.                            *)
Grows ==
  \A i \in DOMAIN backups : i \in DOMAIN backups' /\ backups'[i].from = backups[i].from
    /\ \A p \in DOMAIN backups[i].copy :
         p \in DOMAIN backups'[i].copy /\ backups'[i].copy[p] = backups[i].copy[p]

-----------------------------------------------------------------------------
(* Paths below a key.                                                      *)

LEMMA SubPathFacts ==
  ASSUME NEW p \in Key, NEW q \in Key
  PROVE  /\ SubPath(p, q) \in Key
         /\ SubPath(p, p) = <<>>
         /\ IsPrefix(p, p)
         /\ IsPrefix(p, q) /\ SubPath(p, q) = <<>> => p = q
<1>1. Len(p) \in Nat /\ Len(q) \in Nat /\ p \in Seq(Name) /\ q \in Seq(Name)
  BY LenProperties DEF Key
<1>2. SubPath(p, q) \in Key
  <2>1. \A i \in Len(p) + 1 .. Len(q) : q[i] \in Name
    BY <1>1, ElementOfSeq
  <2>2. Len(p) + 1 \in Int /\ Len(q) \in Int
    BY <1>1
  <2> QED
    BY <2>1, <2>2, SubSeqProperties DEF SubPath, Key
<1>3. SubPath(p, p) = <<>>
  <2>1. Len(p) + 1 \in Int /\ Len(p) \in Int /\ Len(p) < Len(p) + 1
    BY <1>1
  <2> QED
    BY <2>1, SubSeqEmpty DEF SubPath
<1>4. SubSeq(p, 1, Len(p)) = p /\ SubSeq(q, 1, Len(q)) = q
  BY <1>1, SubSeqFull
<1>5. IsPrefix(p, p)
  BY <1>1, <1>4 DEF IsPrefix
<1>6. ASSUME IsPrefix(p, q), SubPath(p, q) = <<>> PROVE p = q
  <2>1. Len(p) <= Len(q) /\ SubSeq(p, 1, Len(p)) = SubSeq(q, 1, Len(p))
    BY <1>6 DEF IsPrefix
  <2>2. ASSUME Len(p) < Len(q) PROVE FALSE
    <3>1. \A i \in Len(p) + 1 .. Len(q) : q[i] \in Name
      BY <1>1, ElementOfSeq
    <3>2. Len(p) + 1 \in Int /\ Len(q) \in Int /\ Len(p) + 1 <= Len(q)
      BY <1>1, <2>2
    <3>3. Len(SubPath(p, q)) = Len(q) - (Len(p) + 1) + 1
      BY <3>1, <3>2, SubSeqProperties DEF SubPath
    <3>4. Len(SubPath(p, q)) = 0
      BY <1>6, EmptySeq
    <3> QED
      BY <1>1, <2>2, <3>3, <3>4
  <2>3. Len(p) = Len(q)
    BY <1>1, <2>1, <2>2
  <2> QED
    BY <1>4, <2>1, <2>3
<1> QED
  BY <1>2, <1>3, <1>5, <1>6

(* Keys and copies.                                                        *)
LEMMA WithFacts ==
  ASSUME NEW f, IsKeys(f), NEW k \in Key, NEW d \in Data
  PROVE  IsKeys(With(f, k, d))
  BY DEF IsKeys, With

LEMMA EmptyCopy == <<>> \in Copies /\ DOMAIN <<>> = {}
<1>1. <<>> \in [1 .. 0 -> Data] /\ DOMAIN <<>> = 1 .. 0
  BY EmptySeq, LenProperties
<1>2. 1 .. 0 = {}
  OBVIOUS
<1> QED
  BY <1>1, <1>2 DEF Copies

LEMMA BackupFacts ==
  ASSUME Types, NEW i \in DOMAIN backups
  PROVE  /\ backups[i] \in AnyBackup /\ i \in 1 .. Len(backups) /\ i \in Nat /\ i > 0
         /\ IsKeys(backups[i].copy)
<1>1. DOMAIN backups = 1 .. Len(backups) /\ Len(backups) \in Nat
  BY LenProperties DEF Types
<1>2. backups[i] \in AnyBackup
  BY <1>1, ElementOfSeq DEF Types
<1>3. IsKeys(backups[i].copy)
  BY <1>2 DEF AnyBackup, Copies, IsKeys
<1> QED
  BY <1>1, <1>2, <1>3

(* The strengthened types say what TypeOK says.                            *)
LEMMA TypesSuffice == IInv => TypeOK
<1> SUFFICES ASSUME IInv PROVE TypeOK
  OBVIOUS
<1>1. backups \in Seq(Range(backups))
  <2>1. \A i \in 1 .. Len(backups) : backups[i] \in Range(backups)
    BY LenProperties DEF IInv, Types, Range
  <2>2. DOMAIN backups = 1 .. Len(backups) /\ Len(backups) \in Nat
        /\ backups \in [1 .. Len(backups) -> AnyBackup]
    BY LenProperties DEF IInv, Types
  <2>3. backups \in [1 .. Len(backups) -> Range(backups)]
    BY <2>1, <2>2
  <2> QED
    BY <2>2, <2>3, SeqDef
<1>2. \A i \in DOMAIN backups : IsBackup(backups[i])
  BY BackupFacts DEF IInv, IsBackup, AnyBackup
<1>3. \A e \in Editor : editors[e].pc \in {"copying", "copied"} => editors[e].backup \in DOMAIN backups
  BY DEF IInv, Commands, InProgress, Busy
<1> QED
  BY <1>1, <1>2, <1>3 DEF IInv, Types, TypeOK

-----------------------------------------------------------------------------
(* What keeps the data.                                                    *)

LEMMA StillKept ==
  ASSUME Grows, NEW k, NEW d, Kept(k, d),
         k \in DOMAIN reg /\ reg[k] = d => k \in DOMAIN reg' /\ reg'[k] = d
  PROVE  Kept(k, d)'
  BY DEF Grows, Kept

(* A step that leaves the keys and the copies alone and starts no command. *)
LEMMA QuietStep ==
  ASSUME IInv, UNCHANGED <<reg, backups, last, raced>>,
         \A e \in Editor : Busy(e)' => Busy(e) /\ editors'[e] = editors[e]
  PROVE  Grows /\ Commands' /\ Current' /\ NothingIsLost'
<1>1. Grows
  BY DEF Grows
<1>2. Commands'
  BY DEF IInv, Commands, InProgress, Busy, Mine, Target
<1>3. Current' /\ NothingIsLost'
  BY <1>1, StillKept DEF IInv, Current, NothingIsLost
<1> QED
  BY <1>1, <1>2, <1>3

-----------------------------------------------------------------------------
(* The actions.                                                            *)

LEMMA InitInv == Init => IInv
<1> SUFFICES ASSUME Init PROVE IInv
  OBVIOUS
<1>1. Types
  <2>1. backups \in Seq(AnyBackup) /\ Len(backups) = 0
    BY EmptySeq DEF Init
  <2>2. Off \in EditorState /\ ~Off.handle
    BY BoundsAssumption DEF Off, EditorState
  <2>3. Len(backups) <= MaxBackups /\ (backups # <<>> => bin)
    BY <2>1, BoundsAssumption DEF Init
  <2>4. editors \in [Editor -> EditorState] /\ \A e \in Editor : editors[e].handle => bin
    BY <2>2 DEF Init
  <2>5. IsKeys(reg) /\ IsKeys(last) /\ bin \in BOOLEAN /\ raced \subseteq Key /\ writes \in Nat
    BY InitialKeysAssumption DEF Init, IsKeys
  <2> QED
    BY <2>1, <2>3, <2>4, <2>5 DEF Types
<1>2. Commands
  BY DEF Init, Commands, Busy, Off
<1>3. Current /\ NothingIsLost
  BY DEF Init, Current, NothingIsLost, Kept
<1> QED
  BY <1>1, <1>2, <1>3 DEF IInv

LEMMA EditorFields ==
  /\ Off \in EditorState /\ ~Off.handle /\ Off.pc = "off"
  /\ \A ok \in BOOLEAN : Idle(ok) \in EditorState /\ Idle(ok).handle = ok /\ Idle(ok).pc = "idle"
  BY BoundsAssumption DEF Off, Idle, EditorState

(* Starting, exiting, crashing and giving up change no key and no copy.    *)
LEMMA QuietInv ==
  ASSUME IInv, NEW e \in Editor, Start(e) \/ Destroy(e) \/ Crash(e) \/ Fail(e)
  PROVE  IInv' /\ Grows
<1>1. UNCHANGED <<reg, backups, last, raced, writes>>
  BY DEF Start, Destroy, Crash, Fail
<1>2. editors \in [Editor -> EditorState] /\ editors[e] \in EditorState
      /\ editors[e].handle \in BOOLEAN
  BY DEF IInv, Types, EditorState
<1>3. ASSUME NEW h \in BOOLEAN, h => bin', bin' \in BOOLEAN, bin => bin',
             editors' = [editors EXCEPT ![e] = Idle(h)] \/ editors' = [editors EXCEPT ![e] = Off]
      PROVE  /\ editors' \in [Editor -> EditorState]
             /\ \A x \in Editor : editors'[x].handle => bin'
             /\ \A x \in Editor : Busy(x)' => editors'[x] = editors[x]
  BY <1>2, <1>3, EditorFields DEF IInv, Types, Busy
<1>4. /\ bin' \in BOOLEAN /\ (backups # <<>> => bin')
      /\ editors' \in [Editor -> EditorState]
      /\ \A x \in Editor : editors'[x].handle => bin'
      /\ \A x \in Editor : Busy(x)' => editors'[x] = editors[x]
  <2>1. CASE Start(e)
    <3>1. PICK ok \in BOOLEAN : bin' = (bin \/ ok) /\ editors' = [editors EXCEPT ![e] = Idle(ok)]
      BY <2>1 DEF Start
    <3>2. (ok => bin') /\ bin' \in BOOLEAN /\ (bin => bin')
      BY <3>1
    <3> QED
      BY <1>3, <3>1, <3>2 DEF IInv, Types
  <2>2. CASE UNCHANGED bin /\ editors' = [editors EXCEPT ![e] = Off]
    <3>1. (FALSE => bin') /\ bin' \in BOOLEAN /\ (bin => bin')
      BY <2>2 DEF IInv, Types
    <3> QED
      BY <1>3, <2>2, <3>1 DEF IInv, Types
  <2>3. CASE /\ backups = <<>> /\ bin' = FALSE
             /\ editors' = [x \in Editor |-> IF x = e THEN Off
                                            ELSE [editors[x] EXCEPT !.handle = FALSE]]
    <3>1. \A x \in Editor : editors'[x] \in EditorState /\ ~editors'[x].handle
      <4> TAKE x \in Editor
      <4>1. CASE x = e
        BY <2>3, <4>1, EditorFields
      <4>2. CASE x # e
        <5>1. editors[x] \in EditorState /\ editors'[x] = [editors[x] EXCEPT !.handle = FALSE]
          BY <1>2, <2>3, <4>2
        <5> QED
          BY <5>1 DEF EditorState
      <4> QED
        BY <4>1, <4>2
    <3>2. \A x \in Editor : ~Busy(x)'
      <4> TAKE x \in Editor
      <4>1. ~Busy(x)
        <5>1. DOMAIN backups = {}
          BY <2>3, EmptyCopy
        <5> QED
          BY <5>1 DEF IInv, Commands, InProgress
      <4>2. x # e => editors'[x].pc = editors[x].pc
        BY <1>2, <2>3 DEF EditorState
      <4>3. x = e => editors'[x].pc = "off"
        BY <2>3, EditorFields
      <4> QED
        BY <4>1, <4>2, <4>3 DEF Busy
    <3> QED
      BY <2>3, <3>1, <3>2
  <2>4. CASE UNCHANGED bin /\ editors' = [editors EXCEPT ![e] = Idle(editors[e].handle)]
    <3>1. (editors[e].handle => bin') /\ bin' \in BOOLEAN /\ (bin => bin')
      BY <2>4 DEF IInv, Types
    <3> QED
      BY <1>2, <1>3, <2>4, <3>1 DEF IInv, Types
  <2> QED
    BY <2>1, <2>2, <2>3, <2>4 DEF Destroy, Crash, Fail, Done
<1>5. Types'
  BY <1>1, <1>4 DEF IInv, Types, IsKeys
<1>6. \A x \in Editor : Busy(x)' => Busy(x) /\ editors'[x] = editors[x]
  BY <1>4 DEF Busy
<1> QED
  BY <1>1, <1>5, <1>6, QuietStep DEF IInv

(* A new backup key is empty.                                              *)
LEMMA CreateBackupInv ==
  ASSUME IInv, NEW e \in Editor, NEW t \in Deletable, CreateBackup(e, t)
  PROVE  IInv' /\ Grows
<1> DEFINE b == [from |-> Opened(t), copy |-> <<>>]
<1>1. /\ UNCHANGED <<reg, bin, writes, last, raced>> /\ backups' = Append(backups, b)
      /\ editors' = [editors EXCEPT ![e].pc = "copying", ![e].path = t, ![e].backup = Len(backups')]
      /\ Opened(t) # NoKey /\ editors[e].handle /\ Len(backups) < MaxBackups
  BY DEF CreateBackup
<1>2. Opened(t) \in Key /\ t \in Text
  BY <1>1, OpenedType, DeletableAssumption DEF IsNodeText
<1>3. b \in AnyBackup /\ b.from = Opened(t) /\ DOMAIN b.copy = {}
  BY <1>2, EmptyCopy DEF AnyBackup
<1> HIDE DEF b
<1>4. /\ backups' \in Seq(AnyBackup) /\ Len(backups') = Len(backups) + 1 /\ Len(backups) \in Nat
      /\ DOMAIN backups = 1 .. Len(backups) /\ DOMAIN backups' = 1 .. Len(backups')
      /\ \A i \in 1 .. Len(backups) : backups'[i] = backups[i]
      /\ backups'[Len(backups')] = b
  <2>1. backups \in Seq(AnyBackup)
    BY DEF IInv, Types
  <2> QED
    BY <1>1, <1>3, <2>1, AppendProperties, LenProperties
<1>5. Len(backups') \in 1 .. MaxBackups
  BY <1>1, <1>4, BoundsAssumption
<1>6. Grows
  BY <1>4 DEF Grows
<1>7. /\ editors' \in [Editor -> EditorState]
      /\ \A x \in Editor \ {e} : editors'[x] = editors[x]
      /\ editors'[e].pc = "copying" /\ editors'[e].path = t /\ editors'[e].backup = Len(backups')
      /\ editors'[e].handle = editors[e].handle
  <2>1. editors \in [Editor -> EditorState] /\ Len(backups') \in 0 .. MaxBackups
    BY <1>5 DEF IInv, Types
  <2> QED
    BY <1>1, <1>2, <2>1 DEF EditorState
<1>8. Types'
  <2>1. bin
    BY <1>1 DEF IInv, Types
  <2>2. \A x \in Editor : editors'[x].handle => bin'
    BY <1>1, <1>7, <2>1
  <2>3. Len(backups') <= MaxBackups /\ backups' \in Seq(AnyBackup)
    BY <1>4, <1>5, BoundsAssumption
  <2>4. (IsKeys(reg) /\ IsKeys(last) /\ bin \in BOOLEAN /\ raced \subseteq Key /\ writes \in Nat)'
    BY <1>1 DEF IInv, Types, IsKeys
  <2> QED
    BY <1>1, <1>7, <2>1, <2>2, <2>3, <2>4 DEF Types
<1>9. ASSUME NEW x \in Editor, Busy(x)' PROVE InProgress(x)'
  <2>1. CASE x = e
    <3>1. Mine(x)' = b /\ Target(x)' = Opened(t) /\ (editors'[x].backup \in DOMAIN backups')
      BY <1>4, <1>5, <1>7, <2>1 DEF Mine, Target
    <3> QED
      BY <1>2, <1>3, <1>7, <2>1, <3>1 DEF InProgress
  <2>2. CASE x # e
    <3>1. InProgress(x) /\ editors'[x] = editors[x]
      BY <1>7, <1>9, <2>2 DEF IInv, Commands, Busy
    <3>2. Mine(x)' = Mine(x) /\ Target(x)' = Target(x) /\ editors'[x].backup \in DOMAIN backups'
      BY <1>4, <3>1 DEF InProgress, Mine, Target
    <3> QED
      BY <1>1, <3>1, <3>2 DEF InProgress
  <2> QED
    BY <2>1, <2>2
<1>10. Current' /\ NothingIsLost'
  BY <1>1, <1>6, StillKept DEF IInv, Current, NothingIsLost
<1> QED
  BY <1>6, <1>8, <1>9, <1>10 DEF IInv, Commands

(* RegCopyTree only adds to the copy of its own backup key.                *)
LEMMA CopyKeyInv ==
  ASSUME IInv, NEW e \in Editor, NEW q \in DOMAIN reg, CopyKey(e, q)
  PROVE  IInv' /\ Grows
<1> DEFINE i   == editors[e].backup
           b   == backups[i]
           sub == SubPath(Target(e), q)
           c   == With(b.copy, sub, reg[q])
<1>1. /\ UNCHANGED <<reg, bin, editors, writes, last, raced>>
      /\ editors[e].pc = "copying" /\ IsPrefix(Target(e), q) /\ sub \notin DOMAIN b.copy
      /\ backups' = [backups EXCEPT ![i].copy = c]
  BY DEF CopyKey, Target
<1>2. InProgress(e)
  BY <1>1 DEF IInv, Commands, Busy
<1>3. /\ i \in DOMAIN backups /\ Target(e) \in Key /\ b.from = Target(e)
      /\ b \in AnyBackup /\ b.copy \in Copies
  BY <1>2, BackupFacts DEF IInv, InProgress, Mine, AnyBackup
<1>4. q \in Key /\ reg[q] \in Data
  BY DEF IInv, Types, IsKeys
<1>5. /\ sub \in Key /\ (sub = <<>> => q = Target(e))
  BY <1>1, <1>3, <1>4, SubPathFacts
<1> HIDE DEF sub
<1>6. /\ c \in Copies /\ DOMAIN c = DOMAIN b.copy \union {sub} /\ c[sub] = reg[q]
      /\ \A p \in DOMAIN b.copy : c[p] = b.copy[p]
  <2>1. /\ DOMAIN c = DOMAIN b.copy \union {sub} /\ c[sub] = reg[q]
        /\ \A p \in DOMAIN b.copy \ {sub} : c[p] = b.copy[p]
    BY DEF With
  <2>2. c \in Copies
    <3> DEFINE old == b.copy
               new == reg[q]
    <3>1. IsKeys(old) /\ sub \in Key /\ new \in Data
      BY <1>3, <1>4, <1>5, BackupFacts DEF IInv
    <3> HIDE DEF old, new
    <3>2. IsKeys(With(old, sub, new))
      BY <3>1, WithFacts
    <3> QED
      BY <3>2 DEF IsKeys, Copies, old, new
  <2> QED
    BY <1>1, <2>1, <2>2
<1> HIDE DEF c
<1>7. /\ backups' \in Seq(AnyBackup) /\ Len(backups') = Len(backups)
      /\ DOMAIN backups' = DOMAIN backups
      /\ backups'[i] = [b EXCEPT !.copy = c]
      /\ \A j \in DOMAIN backups \ {i} : backups'[j] = backups[j]
  <2>1. backups \in Seq(AnyBackup) /\ DOMAIN backups = 1 .. Len(backups)
    BY LenProperties DEF IInv, Types
  <2>2. [b EXCEPT !.copy = c] \in AnyBackup
    BY <1>3, <1>6 DEF AnyBackup
  <2>3. backups' = [backups EXCEPT ![i] = [b EXCEPT !.copy = c]]
    BY <1>1
  <2>4. /\ backups' \in Seq(AnyBackup) /\ Len(backups') = Len(backups)
        /\ \A j \in 1 .. Len(backups) :
             backups'[j] = IF j = i THEN [b EXCEPT !.copy = c] ELSE backups[j]
    BY <1>3, <2>1, <2>2, <2>3, ExceptSeq
  <2>5. DOMAIN backups' = 1 .. Len(backups')
    BY <2>4, LenProperties
  <2> QED
    BY <1>3, <2>1, <2>4, <2>5
<1>8. backups'[i].from = b.from /\ backups'[i].copy = c
  BY <1>3, <1>7 DEF AnyBackup
<1>9. Grows
  <2>1. ASSUME NEW j \in DOMAIN backups
        PROVE  j \in DOMAIN backups' /\ backups'[j].from = backups[j].from
                 /\ \A p \in DOMAIN backups[j].copy :
                      p \in DOMAIN backups'[j].copy /\ backups'[j].copy[p] = backups[j].copy[p]
    BY <1>6, <1>7, <1>8
  <2> QED
    BY <2>1 DEF Grows
<1>10. Types'
  <2>1. (backups' # <<>> => bin') /\ Len(backups') <= MaxBackups
    <3>1. backups # <<>>
      BY <1>3, EmptyCopy
    <3> QED
      BY <1>1, <1>7, <3>1 DEF IInv, Types
  <2> QED
    BY <1>1, <1>7, <2>1 DEF IInv, Types, IsKeys
<1>11. ASSUME NEW x \in Editor, Busy(x)' PROVE InProgress(x)'
  <2>1. InProgress(x) /\ Target(x)' = Target(x) /\ editors'[x] = editors[x]
    BY <1>1, <1>11 DEF IInv, Commands, Busy, Target
  <2>2. CASE editors[x].backup # i
    <3>1. Mine(x)' = Mine(x) /\ editors'[x].backup \in DOMAIN backups'
      BY <1>7, <2>1, <2>2 DEF InProgress, Mine
    <3> QED
      BY <1>1, <2>1, <3>1 DEF InProgress
  <2>3. CASE editors[x].backup = i
    <3>1. /\ Mine(x) = b /\ Mine(x)'.from = b.from /\ Mine(x)'.copy = c
          /\ editors'[x].backup \in DOMAIN backups'
      BY <1>3, <1>7, <1>8, <2>1, <2>3 DEF Mine
    <3>2. Target(x) = Target(e)
      BY <1>3, <2>1, <3>1 DEF InProgress
    <3>3. sub = <<>> => c[<<>>] = reg[Target(x)]
      BY <1>5, <1>6, <3>2
    <3>4. sub # <<>> => (<<>> \in DOMAIN c => <<>> \in DOMAIN b.copy /\ c[<<>>] = b.copy[<<>>])
      BY <1>6
    <3> QED
      BY <1>1, <1>6, <2>1, <3>1, <3>3, <3>4 DEF InProgress
  <2> QED
    BY <2>2, <2>3
<1>12. Current' /\ NothingIsLost'
  BY <1>1, <1>9, StillKept DEF IInv, Current, NothingIsLost
<1> QED
  BY <1>9, <1>10, <1>11, <1>12 DEF IInv, Commands

(* When RegCopyTree has ended well the key itself has been copied.         *)
LEMMA CopyDoneInv ==
  ASSUME IInv, NEW e \in Editor, CopyDone(e)
  PROVE  IInv' /\ Grows
<1>1. /\ UNCHANGED <<reg, bin, backups, writes, last, raced>>
      /\ editors[e].pc = "copying" /\ editors' = [editors EXCEPT ![e].pc = "copied"]
      /\ Target(e) \in DOMAIN reg
      /\ {SubPath(Target(e), q) : q \in Below(Target(e))} \subseteq DOMAIN Mine(e).copy
  BY DEF CopyDone, Target, Mine
<1>2. InProgress(e)
  BY <1>1 DEF IInv, Commands, Busy
<1>3. <<>> \in DOMAIN Mine(e).copy
  <2>1. SubPath(Target(e), Target(e)) = <<>> /\ IsPrefix(Target(e), Target(e))
    BY <1>2, SubPathFacts DEF InProgress
  <2> QED
    BY <1>1, <2>1 DEF Below
<1>4. editors \in [Editor -> EditorState]
  BY DEF IInv, Types
<1>5. /\ editors' \in [Editor -> EditorState]
      /\ \A x \in Editor \ {e} : editors'[x] = editors[x]
      /\ editors'[e].path = editors[e].path /\ editors'[e].backup = editors[e].backup
      /\ editors'[e].handle = editors[e].handle
  BY <1>1, <1>4 DEF EditorState
<1>6. Types'
  <2>1. \A x \in Editor : editors'[x].handle => bin'
    BY <1>1, <1>5 DEF IInv, Types
  <2> QED
    BY <1>1, <1>5, <2>1 DEF IInv, Types, IsKeys
<1>7. ASSUME NEW x \in Editor, Busy(x)' PROVE InProgress(x)'
  <2>1. CASE x = e
    <3>1. Mine(x)' = Mine(x) /\ Target(x)' = Target(x)
      BY <1>1, <1>5, <2>1 DEF Mine, Target
    <3> QED
      BY <1>1, <1>2, <1>3, <1>5, <2>1, <3>1 DEF InProgress
  <2>2. CASE x # e
    BY <1>1, <1>5, <1>7, <2>2 DEF IInv, Commands, Busy, InProgress, Mine, Target
  <2> QED
    BY <2>1, <2>2
<1>8. Grows
  BY <1>1 DEF Grows
<1>9. Current' /\ NothingIsLost'
  BY <1>1, <1>8, StillKept DEF IInv, Current, NothingIsLost
<1> QED
  BY <1>6, <1>7, <1>8, <1>9 DEF IInv, Commands

(* What is deleted is the key that was copied.                             *)
LEMMA DeletedKey ==
  ASSUME IInv, NEW e \in Editor, DeleteKey(e)
  PROVE  /\ InProgress(e) /\ editors[e].pc = "copied" /\ Target(e) \in DOMAIN reg
         /\ reg' = [q \in DOMAIN reg \ {Target(e)} |-> reg[q]]
<1>1. InProgress(e) /\ editors[e].pc = "copied"
  BY DEF DeleteKey, IInv, Commands, Busy
<1>2. IsNodeText(editors[e].path) /\ Opened(editors[e].path) # NoKey
  BY <1>1, DeletableAssumption, RootsAssumption DEF InProgress, Target
<1> DEFINE split == ParentAndName(editors[e].path)
           key   == Append(Opened(split.parent), split.name)
<1>3. key = Target(e)
  BY <1>2, ParentAndNameFindTheKey DEF Target
<1>4. key \in DOMAIN reg /\ reg' = [q \in DOMAIN reg \ {key} |-> reg[q]]
  BY DEF DeleteKey
<1> HIDE DEF key
<1> QED
  BY <1>1, <1>3, <1>4

LEMMA DeleteKeyInv ==
  ASSUME IInv, NEW e \in Editor, DeleteKey(e)
  PROVE  IInv' /\ Grows
<1>1. /\ InProgress(e) /\ editors[e].pc = "copied" /\ Target(e) \in DOMAIN reg
      /\ reg' = [q \in DOMAIN reg \ {Target(e)} |-> reg[q]]
  BY DeletedKey
<1>2. /\ UNCHANGED <<bin, backups, writes, last, raced>>
      /\ editors' = [editors EXCEPT ![e] = Idle(editors[e].handle)]
  BY DEF DeleteKey, Done
<1>3. /\ editors \in [Editor -> EditorState] /\ editors[e].handle \in BOOLEAN
  BY DEF IInv, Types, EditorState
<1>4. /\ editors' \in [Editor -> EditorState]
      /\ \A x \in Editor \ {e} : editors'[x] = editors[x]
      /\ editors'[e].handle = editors[e].handle /\ editors'[e].pc = "idle"
  BY <1>2, <1>3, EditorFields
<1>5. Types'
  <2>1. \A x \in Editor : editors'[x].handle => bin'
    BY <1>2, <1>4 DEF IInv, Types
  <2>2. IsKeys(reg')
    BY <1>1 DEF IInv, Types, IsKeys
  <2> QED
    BY <1>2, <1>4, <2>1, <2>2 DEF IInv, Types, IsKeys
<1>6. Grows
  BY <1>2 DEF Grows
<1>7. ASSUME NEW x \in Editor, Busy(x)' PROVE InProgress(x)'
  <2>1. x # e /\ editors'[x] = editors[x] /\ InProgress(x)
    BY <1>4, <1>7 DEF IInv, Commands, Busy
  <2>2. Mine(x)' = Mine(x) /\ Target(x)' = Target(x)
    BY <1>2, <2>1 DEF Mine, Target
  <2> QED
    BY <1>1, <1>2, <2>1, <2>2 DEF InProgress
<1>8. Current'
  BY <1>1, <1>2 DEF IInv, Current
<1>9. ASSUME NEW k \in DOMAIN last' PROVE k \in raced' \/ Kept(k, last[k])'
  <2>1. CASE k # Target(e)
    BY <1>1, <1>2, <1>6, <2>1, StillKept DEF IInv, NothingIsLost
  <2>2. CASE k = Target(e) /\ k \notin raced
    <3>1. /\ editors[e].backup \in DOMAIN backups /\ Mine(e).from = k
          /\ <<>> \in DOMAIN Mine(e).copy /\ Mine(e).copy[<<>>] = reg[k]
      BY <1>1, <2>2 DEF InProgress
    <3>2. reg[k] = last[k]
      BY <1>1, <2>2 DEF IInv, Current
    <3>3. k \o <<>> = k
      <4>1. k \in Seq(Name)
        BY <1>1, <2>2 DEF InProgress, Key
      <4> QED
        BY <4>1, ConcatEmptySeq
    <3>4. Mine(e).from \o <<>> = k
      BY <3>1, <3>3
    <3> QED
      BY <1>2, <3>1, <3>2, <3>4 DEF Kept, Mine
  <2> QED
    BY <1>2, <2>1, <2>2
<1>10. NothingIsLost'
  BY <1>2, <1>9 DEF NothingIsLost
<1> QED
  BY <1>5, <1>6, <1>7, <1>8, <1>10 DEF IInv, Commands

(* Another process writes: the commands at that key are noted.             *)
LEMMA WriteInv ==
  ASSUME IInv, NEW k \in DOMAIN InitialKeys \ {<<>>}, NEW d \in Data, Write(k, d)
  PROVE  IInv' /\ Grows
<1>1. /\ UNCHANGED <<bin, backups, editors>> /\ writes' = writes + 1
      /\ reg' = With(reg, k, d) /\ last' = With(last, k, d)
      /\ raced' = IF Deleting(k) = {} THEN raced ELSE raced \union {k}
  BY DEF Write
<1>2. k \in Key
  BY InitialKeysAssumption
<1>3. /\ DOMAIN reg' = DOMAIN reg \union {k} /\ reg'[k] = d
      /\ \A x \in DOMAIN reg \ {k} : reg'[x] = reg[x]
  BY <1>1 DEF With
<1>4. /\ DOMAIN last' = DOMAIN last \union {k} /\ last'[k] = d
      /\ \A x \in DOMAIN last \ {k} : last'[x] = last[x]
  BY <1>1 DEF With
<1>5. Grows
  BY <1>1 DEF Grows
<1>6. Types'
  <2>1. IsKeys(reg') /\ IsKeys(last')
    BY <1>1, <1>2 DEF IInv, Types, IsKeys, With
  <2>2. raced' \subseteq Key /\ writes' \in Nat
    BY <1>1, <1>2 DEF IInv, Types
  <2> QED
    BY <1>1, <2>1, <2>2 DEF IInv, Types
<1>7. ASSUME NEW x \in Editor, Busy(x)' PROVE InProgress(x)'
  <2>1. InProgress(x) /\ Mine(x)' = Mine(x) /\ Target(x)' = Target(x) /\ Busy(x)
    BY <1>1, <1>7 DEF IInv, Commands, Busy, Mine, Target
  <2>2. Target(x) = k => k \in raced'
    <3>1. Target(x) = k => x \in Deleting(k)
      BY <2>1 DEF Deleting, Busy, Target
    <3> QED
      BY <1>1, <3>1
  <2>3. Target(x) # k => /\ Target(x) \in DOMAIN reg' => Target(x) \in DOMAIN reg
                         /\ Target(x) \in DOMAIN reg => reg'[Target(x)] = reg[Target(x)]
    BY <1>3
  <2>4. raced \subseteq raced'
    BY <1>1
  <2> QED
    BY <1>1, <2>1, <2>2, <2>3, <2>4 DEF InProgress
<1>8. ASSUME NEW x \in DOMAIN reg' PROVE x \in DOMAIN last' /\ reg'[x] = last'[x]
  <2>1. CASE x = k
    BY <1>3, <1>4, <2>1
  <2>2. CASE x # k
    <3>1. x \in DOMAIN reg /\ x \in DOMAIN last /\ reg[x] = last[x]
      BY <1>3, <1>4, <2>2 DEF IInv, Current
    <3> QED
      BY <1>3, <1>4, <2>2, <3>1
  <2> QED
    BY <2>1, <2>2
<1>9. ASSUME NEW x \in DOMAIN last' PROVE x \in raced' \/ Kept(x, last[x])'
  <2>1. CASE x = k
    <3>1. x \in DOMAIN reg' /\ reg'[x] = last'[x]
      BY <1>3, <1>4, <2>1
    <3> QED
      BY <3>1 DEF Kept
  <2>2. CASE x # k
    <3>1. x \in DOMAIN last /\ last'[x] = last[x]
      BY <1>3, <1>4, <2>2
    <3>2. x \in DOMAIN reg => x \in DOMAIN reg' /\ reg'[x] = reg[x]
      BY <1>3, <1>4, <2>2
    <3>3. x \in raced \/ Kept(x, last[x])
      BY <3>1 DEF IInv, NothingIsLost
    <3>4. Kept(x, last[x]) => Kept(x, last[x])'
      <4> SUFFICES ASSUME Kept(x, last[x]) PROVE Kept(x, last[x])'
        OBVIOUS
      <4> DEFINE was == last[x]
      <4>1. last'[x] = was /\ Kept(x, was)
        BY <3>1
      <4> HIDE DEF was
      <4>2. Kept(x, last[x])' <=> \/ x \in DOMAIN reg' /\ reg'[x] = was
                                 \/ \E i \in DOMAIN backups :
                                      \E p \in DOMAIN backups[i].copy :
                                        backups[i].from \o p = x /\ backups[i].copy[p] = was
        BY <1>1, <4>1 DEF Kept
      <4> QED
        BY <3>2, <4>1, <4>2 DEF Kept
    <3> QED
      BY <1>1, <3>3, <3>4
  <2> QED
    BY <2>1, <2>2
<1> QED
  BY <1>5, <1>6, <1>7, <1>8, <1>9 DEF IInv, Commands, Current, NothingIsLost

LEMMA NextInv == IInv /\ [Next]_vars => IInv' /\ Grows
<1> SUFFICES ASSUME IInv, [Next]_vars PROVE IInv' /\ Grows
  OBVIOUS
<1>1. CASE \E e \in Editor : Start(e) \/ Destroy(e) \/ Crash(e) \/ Fail(e)
  BY <1>1, QuietInv
<1>2. CASE \E e \in Editor, t \in Deletable : CreateBackup(e, t)
  BY <1>2, CreateBackupInv
<1>3. CASE \E e \in Editor, q \in DOMAIN reg : CopyKey(e, q)
  BY <1>3, CopyKeyInv
<1>4. CASE \E e \in Editor : CopyDone(e)
  BY <1>4, CopyDoneInv
<1>5. CASE \E e \in Editor : DeleteKey(e)
  BY <1>5, DeleteKeyInv
<1>6. CASE \E k \in DOMAIN InitialKeys \ {<<>>}, d \in Data : Write(k, d)
  BY <1>6, WriteInv
<1>7. CASE UNCHANGED vars
  <2>1. UNCHANGED <<reg, bin, backups, editors, writes, last, raced>>
    BY <1>7 DEF vars
  <2>2. Grows /\ Commands' /\ Current' /\ NothingIsLost'
    BY <2>1, QuietStep DEF Busy
  <2> QED
    BY <2>1, <2>2 DEF IInv, Types, IsKeys
<1> QED
  BY <1>1, <1>2, <1>3, <1>4, <1>5, <1>6, <1>7 DEF Next

-----------------------------------------------------------------------------
(* The theorems.                                                           *)

LEMMA Invariance == Spec => []IInv
<1>1. IInv /\ [Next]_vars => IInv'
  BY NextInv
<1> QED
  BY <1>1, InitInv, PTL DEF Spec

(* DeleteKeyCommand::Execute never works with a handle to a __deleted__    *)
(* that is gone, nor with a backup key that is: Destroy of any editor      *)
(* leaves __deleted__ alone while something is below it.                   *)
THEOREM KeysAndBackupsKeepTheirTypes == Spec => []TypeOK
  BY Invariance, TypesSuffice, PTL

(* However many editors delete whatever keys by whatever paths, and        *)
(* wherever they fail or crash: the data last written to a key is in the   *)
(* registry or in a backup (DeleteKeyCommand::Execute), unless another     *)
(* process wrote to that very key between its copying and its deletion.    *)
THEOREM DataIsNeverLost == Spec => []NothingIsLost
<1>1. IInv => NothingIsLost
  BY DEF IInv
<1> QED
  BY <1>1, Invariance, PTL

(* No step takes or changes what was copied (RegistryManager::Destroy).    *)
THEOREM BackupsAlwaysSurvive == Spec => BackupsSurvive
<1>1. IInv /\ [Next]_vars =>
        [\A i \in DOMAIN backups : i \in DOMAIN backups' /\ backups'[i].from = backups[i].from
           /\ \A p \in DOMAIN backups[i].copy :
                p \in DOMAIN backups'[i].copy /\ backups'[i].copy[p] = backups[i].copy[p]]_vars
  BY NextInv DEF Grows
<1> QED
  BY <1>1, Invariance, PTL DEF Spec, BackupsSurvive

LEMMA OnlyDeleteKeyTakesKeys ==
  ASSUME IInv, [Next]_vars, NEW k \in DOMAIN reg \ DOMAIN reg'
  PROVE  \E e \in Editor : DeleteKey(e)
<1>1. CASE \E e \in Editor : \/ Start(e) \/ Destroy(e) \/ Crash(e) \/ Fail(e) \/ CopyDone(e)
                             \/ \E t \in Deletable : CreateBackup(e, t)
                             \/ \E q \in DOMAIN reg : CopyKey(e, q)
  BY <1>1 DEF Start, Destroy, Crash, Fail, CopyDone, CreateBackup, CopyKey
<1>2. CASE \E x \in DOMAIN InitialKeys \ {<<>>}, d \in Data : Write(x, d)
  BY <1>2 DEF Write, With
<1>3. CASE UNCHANGED vars
  BY <1>3 DEF vars
<1> QED
  BY <1>1, <1>2, <1>3 DEF Next

(* What DeleteKey finds again from the parent's path and the name is the   *)
(* key that was copied, and the copy holds what is deleted, unless another *)
(* process wrote to that key since: whichever way the path is written, and *)
(* whoever else deletes or creates the key meanwhile                       *)
(* (DeleteKeyCommand::Execute, RegistryManager::DeleteKey).                *)
THEOREM OnlyCopiedKeysGo == Spec => DeletesWhatItCopied
<1>1. ASSUME IInv, [Next]_vars, NEW k \in DOMAIN reg \ DOMAIN reg'
      PROVE  \E e \in Editor :
               LET b == backups[editors[e].backup]
               IN  /\ editors[e].pc = "copied" /\ Opened(editors[e].path) = k
                   /\ b.from = k /\ <<>> \in DOMAIN b.copy
                   /\ k \in raced \/ b.copy[<<>>] = reg[k]
  <2>1. PICK e \in Editor : DeleteKey(e)
    BY <1>1, OnlyDeleteKeyTakesKeys
  <2>2. /\ InProgress(e) /\ editors[e].pc = "copied" /\ Target(e) \in DOMAIN reg
        /\ reg' = [q \in DOMAIN reg \ {Target(e)} |-> reg[q]]
    BY <1>1, <2>1, DeletedKey
  <2>3. k = Target(e)
    BY <1>1, <2>2
  <2> QED
    BY <2>2, <2>3 DEF InProgress, Target, Mine
<1>2. IInv /\ [Next]_vars =>
        [\A k \in DOMAIN reg \ DOMAIN reg' :
           \E e \in Editor :
             LET b == backups[editors[e].backup]
             IN  /\ editors[e].pc = "copied" /\ Opened(editors[e].path) = k
                 /\ b.from = k /\ <<>> \in DOMAIN b.copy
                 /\ k \in raced \/ b.copy[<<>>] = reg[k]]_vars
  BY <1>1
<1> QED
  BY <1>2, Invariance, PTL DEF Spec, DeletesWhatItCopied
=============================================================================
