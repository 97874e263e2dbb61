---------------------------- MODULE KeyTreeProofs ----------------------------
(***************************************************************************)
(* Proofs about KeyTree.tla, for every hive, every set of names and every  *)
(* bound: the types, that the selection and the rows of the view never     *)
(* point to a node that is not there, and the view only in one case, what  *)
(* Refresh achieves and what it spares, that the handlers use the command  *)
(* stacks as they should, and that with no other process on the registry   *)
(* (SpecAlone) nodes stay where their keys are.                            *)
(***************************************************************************)
EXTENDS KeyTreeProps, KeyNodesProofs, FiniteSetTheorems

(* What every step needs of the state before it: a Refresh in progress     *)
(* only has nodes of the tree left to do, and the rows may be stale while  *)
(* it runs.                                                                *)
IInv ==
  /\ TypeOK
  /\ Sound(ui)
  /\ ~refreshing => RowsLive(ui)
  /\ Running /\ refreshing => todo \subseteq DOMAIN ui.tree

-----------------------------------------------------------------------------
(* The start.                                                              *)

LEMMA InitialTreeSound ==
  IsTree(InitialTree) /\ Closed(InitialTree) /\ <<>> \in DOMAIN InitialTree
<1> DEFINE t == [p \in {<<>>} |-> AddItem(InitialKeys, BareNode(<<>>, <<>>))]
<1>1. <<>> \in Path
  BY EmptySeq DEF Path
<1>2. IsTree(t) /\ DOMAIN t = {<<>>}
  BY <1>1, BareNodeType, AddItemType DEF IsTree
<1>3. ASSUME NEW q \in Path, IsPrefix(q, <<>>) PROVE q = <<>>
  <2>1. Len(q) <= Len(<<>>)
    BY <1>1, <1>3, PrefixByElement
  <2> QED
    BY <2>1, EmptySeq DEF Path
<1> HIDE DEF t
<1>4. Closed(t)
  BY <1>2, <1>3 DEF Closed
<1>5. InitialTree = Expand(InitialKeys, t, <<>>)
  BY DEF InitialTree, t
<1> QED
  BY <1>2, <1>4, <1>5, ExpandTree

LEMMA InitInv == Init => IInv
<1> SUFFICES ASSUME Init PROVE IInv
  OBVIOUS
<1>1. <<>> \in Path /\ "running" \in Status
  BY EmptySeq DEF Path, Status
<1>2. KidPaths(InitialTree, <<>>) \subseteq Path
  BY <1>1, InitialTreeSound, KidFacts
<1>3. /\ IsUI(ui) /\ ui.tree = InitialTree /\ ui.sel = <<>> /\ ui.cur = <<>>
      /\ ui.rows = KidPaths(InitialTree, <<>>) /\ ui.status = "running"
  BY <1>1, <1>2, InitialTreeSound DEF Init, IsUI
<1>4. Sound(ui) /\ RowsLive(ui)
  BY <1>3, InitialTreeSound DEF Sound, RowsLive
<1>5. reg \subseteq Path /\ undoList \in Seq(Command) /\ redoList \in Seq(Command)
  BY KeysAssumption, EmptySeq DEF Init
<1> QED
  BY <1>3, <1>4, <1>5 DEF IInv, TypeOK, Init

-----------------------------------------------------------------------------
(* Steps outside Refresh leave a sound UI record with live rows.           *)

(* What a step that is not one of Refresh's needs of registry and view.    *)
Rest == reg \in SUBSET Path /\ Sound(ui) /\ RowsLive(ui)

LEMMA RestFacts ==
  ASSUME Rest, AtRest
  PROVE  /\ IsUI(ui) /\ IsTree(ui.tree) /\ Sound(ui) /\ RowsLive(ui) /\ Closed(ui.tree)
         /\ ui.status = "running" /\ ui.cur \in DOMAIN ui.tree /\ ui.sel \in {NoNode, ui.cur}
         /\ reg \in SUBSET Path /\ ui.cur \in Path /\ ui.cur # NoNode
  BY UIFields, DistinctAssumption DEF Rest, AtRest, Running, Sound

LEMMA RestInv ==
  ASSUME IInv, AtRest
  PROVE  Rest
  BY DEF Rest, IInv, TypeOK, AtRest

LEMMA AtRestInv ==
  ASSUME IInv, AtRest
  PROVE  /\ IsUI(ui) /\ IsTree(ui.tree) /\ Sound(ui) /\ RowsLive(ui) /\ Closed(ui.tree)
         /\ ui.status = "running" /\ ui.cur \in DOMAIN ui.tree /\ ui.sel \in {NoNode, ui.cur}
         /\ reg \in SUBSET Path /\ ui.cur \in Path /\ ui.cur # NoNode
  BY RestInv, RestFacts

(* A step between two Refreshes whose new UI record is good.               *)
LEMMA StepAtRest ==
  ASSUME IInv, AtRest, UNCHANGED refresh,
         NEW u, Sound(u), RowsLive(u), ui' = UpdateUI(allowModify', u),
         reg' \subseteq Path, undoList' \in Seq(Command), redoList' \in Seq(Command),
         allowModify' \in BOOLEAN, changes' \in Nat
  PROVE  IInv'
<1>1. Sound(ui') /\ RowsLive(ui') /\ IsUI(ui')
  BY UpdateUISound DEF Sound
<1>2. refreshing' = FALSE /\ todo' \subseteq Path
  BY DEF AtRest, refresh, IInv, TypeOK
<1> QED
  BY <1>1, <1>2 DEF IInv, TypeOK

(* Looking around.                                                         *)
LEMMA BrowseRest ==
  ASSUME Rest, NEW u, Browse(u), AtRest => Sound(u) /\ RowsLive(u)
  PROVE  Rest'
<1>1. Sound(ui') /\ RowsLive(ui')
  BY UpdateUISound DEF Browse
<1> QED
  BY <1>1 DEF Rest, Browse

LEMMA LookRest ==
  ASSUME Rest, Look
  PROVE  Rest'
<1>1. ASSUME NEW p \in DOMAIN ui.tree, OnTreeSelectionChanged(p) PROVE Rest'
  <2>1. Browse(Select(reg, ui, p))
    BY <1>1 DEF OnTreeSelectionChanged
  <2>2. AtRest => Sound(Select(reg, ui, p)) /\ RowsLive(Select(reg, ui, p))
    BY RestFacts, SelectSound, NodeFields
  <2> QED
    BY <2>1, <2>2, BrowseRest
<1>2. ASSUME NEW p \in DOMAIN ui.tree, SelectPlaceholder(p) PROVE Rest'
  <2>1. Browse(SelectMark(reg, ui, p))
    BY <1>2 DEF SelectPlaceholder
  <2>2. AtRest => Sound(SelectMark(reg, ui, p)) /\ RowsLive(SelectMark(reg, ui, p))
    BY RestFacts, SelectMarkSound, NodeFields
  <2> QED
    BY <2>1, <2>2, BrowseRest
<1>3. ASSUME NEW p \in DOMAIN ui.tree, OnTreeItemExpanding(p) PROVE Rest'
  <2>1. Browse(OpenItem(reg, ui, p))
    BY <1>3 DEF OnTreeItemExpanding
  <2>2. AtRest => Sound(OpenItem(reg, ui, p)) /\ RowsLive(OpenItem(reg, ui, p))
    BY RestFacts, OpenItemSound
  <2> QED
    BY <2>1, <2>2, BrowseRest
<1>4. ASSUME NEW q \in ui.rows, OnDoubleClick(q) PROVE Rest'
  <2>1. Browse(SelectNode(reg, ui, q))
    BY <1>4 DEF OnDoubleClick
  <2>2. ASSUME AtRest PROVE Sound(SelectNode(reg, ui, q)) /\ RowsLive(SelectNode(reg, ui, q))
    <3>1. q \in KidPaths(ui.tree, ui.cur)
      BY <1>4, <2>2, RestFacts DEF RowsLive
    <3>2. q \in DOMAIN ui.tree /\ Front(q) \in DOMAIN ui.tree
      BY <2>2, <3>1, RestFacts, KidFacts
    <3> QED
      BY <2>2, <3>2, RestFacts, SelectNodeSound
  <2> QED
    BY <2>1, <2>2, BrowseRest
<1>5. CASE UpDir
  <2> DEFINE u == Select(reg, ui, Front(ui.cur))
  <2>1. Browse(u) /\ ui.cur # <<>>
    BY <1>5 DEF UpDir
  <2>2. ASSUME AtRest PROVE Sound(u) /\ RowsLive(u)
    <3>1. Front(ui.cur) \in DOMAIN ui.tree /\ Front(ui.cur) \in Path
      BY <2>1, <2>2, RestFacts, ParentInTree, FrontPath
    <3> QED
      BY <2>2, <3>1, RestFacts, SelectSound
  <2> HIDE DEF u
  <2> QED
    BY <2>1, <2>2, BrowseRest
<1>6. CASE OnEditModify
  BY <1>6, UpdateUISound DEF OnEditModify, Rest
<1> QED
  BY <1>1, <1>2, <1>3, <1>4, <1>5, <1>6 DEF Look

LEMMA LookAtRest ==
  ASSUME Look
  PROVE  AtRest /\ UNCHANGED <<reg, undoList, redoList, refreshing, todo, changes>>
  BY DEF Look, OnTreeSelectionChanged, SelectPlaceholder, OnTreeItemExpanding, OnDoubleClick,
         UpDir, OnEditModify, Browse, lists, refresh

LEMMA LookInv ==
  ASSUME IInv, Look
  PROVE  IInv'
<1>1. AtRest /\ UNCHANGED <<reg, undoList, redoList, refreshing, todo, changes>>
  BY LookAtRest
<1>2. allowModify' \in BOOLEAN
  BY DEF Look, OnTreeSelectionChanged, SelectPlaceholder, OnTreeItemExpanding, OnDoubleClick,
         UpDir, OnEditModify, Browse, IInv, TypeOK
<1>3. Rest'
  BY <1>1, LookRest, RestInv
<1> QED
  BY <1>1, <1>2, <1>3 DEF IInv, Rest, TypeOK, Sound, AtRest

-----------------------------------------------------------------------------
(* Creating, renaming, undoing and redoing.                                *)

LEMMA AddCommandInv ==
  ASSUME IInv, AtRest, NEW c \in Command, AddCommand(c)
  PROVE  IInv'
<1>1. PICK o \in Execute(reg, ui, c) :
        /\ reg' = o.reg
        /\ ui' = UpdateUI(allowModify, o.ui)
        /\ IF o.ok THEN undoList' = Append(undoList, Done(c)) /\ redoList' = <<>>
                   ELSE UNCHANGED lists
  BY DEF AddCommand
<1>2. UNCHANGED <<allowModify, refresh, changes>>
  BY DEF AddCommand
<1>3. GoodOutcome(ui, c.path, o)
  BY AtRestInv, CommandGood
<1>4. /\ o.reg \subseteq Path /\ Sound(o.ui) /\ RowsLive(o.ui)
      /\ o.ok => Done(c) \in Command
  BY <1>3, AtRestInv, DoneType DEF GoodOutcome
<1>5. undoList \in Seq(Command) /\ redoList \in Seq(Command)
  BY DEF IInv, TypeOK
<1>6. undoList' \in Seq(Command) /\ redoList' \in Seq(Command)
  <2>1. CASE o.ok
    <3>1. /\ undoList' = Append(undoList, Done(c)) /\ redoList' = <<>>
          /\ Done(c) \in Command
      BY <1>1, <1>4, <2>1
    <3> QED
      BY <1>5, <3>1, AppendProperties, EmptySeq
  <2>2. CASE ~o.ok
    BY <1>1, <1>5, <2>2 DEF lists
  <2> QED
    BY <2>1, <2>2
<1>7. allowModify' \in BOOLEAN /\ changes' \in Nat
  BY <1>2 DEF IInv, TypeOK
<1>8. ui' = UpdateUI(allowModify', o.ui) /\ reg' \subseteq Path
  BY <1>1, <1>2, <1>4
<1> QED
  BY <1>2, <1>4, <1>6, <1>7, <1>8, StepAtRest

(* Undo and redo: the view is updated once more, for the selection.        *)
LEMMA RerunInv ==
  ASSUME IInv, AtRest, NEW c \in Command, NEW outcomes,
         outcomes \in {Execute(reg, ui, c), UndoCommand(reg, ui, c)},
         NEW undoLater, NEW redoLater,
         Done(c) \in Command => undoLater \in Seq(Command) /\ redoLater \in Seq(Command),
         Rerun(outcomes, undoLater, redoLater)
  PROVE  IInv'
<1>1. PICK o \in outcomes :
        /\ reg' = o.reg
        /\ ui' = UpdateUI(allowModify, UpdateIfSame(o.reg, o.ui, o.ui.sel))
        /\ IF o.ok THEN undoList' = undoLater /\ redoList' = redoLater
                   ELSE UNCHANGED lists
  BY DEF Rerun
<1>2. UNCHANGED <<allowModify, refresh, changes>>
  BY DEF Rerun
<1>3. GoodOutcome(ui, c.path, o)
  BY AtRestInv, CommandGood
<1> DEFINE u == UpdateIfSame(o.reg, o.ui, o.ui.sel)
<1>4. /\ o.reg \subseteq Path /\ Sound(u) /\ RowsLive(u)
      /\ o.ok => Done(c) \in Command
  BY <1>3, AtRestInv, DoneType, UpdateIfSameSound DEF GoodOutcome
<1>5. undoList \in Seq(Command) /\ redoList \in Seq(Command)
  BY DEF IInv, TypeOK
<1>6. undoList' \in Seq(Command) /\ redoList' \in Seq(Command)
  BY <1>1, <1>4, <1>5 DEF lists
<1>7. allowModify' \in BOOLEAN /\ changes' \in Nat
  BY <1>2 DEF IInv, TypeOK
<1>8. ui' = UpdateUI(allowModify', u) /\ reg' \subseteq Path
  BY <1>1, <1>2, <1>4
<1> HIDE DEF u
<1> QED
  BY <1>2, <1>4, <1>6, <1>7, <1>8, StepAtRest

(* The last element of a non-empty list of commands, and the rest.         *)
LEMMA FrontLastType ==
  ASSUME NEW S, NEW s \in Seq(S), s # <<>>
  PROVE  Last(s) \in S /\ Front(s) \in Seq(S)
<1>1. PICK f \in Seq(S), e \in S : s = Append(f, e)
  BY SequenceEmptyOrAppend
<1>2. Last(s) = e /\ Front(s) = f
  BY <1>1, AppendProperties DEF Last, Front
<1> QED
  BY <1>2

LEMMA EditInv ==
  ASSUME IInv, EditKeys \/ \E x \in Name : OnEndRename(x)
  PROVE  IInv'
<1> USE DEF Command
<1>1. ASSUME NEW x \in Name, OnNewKey(x) PROVE IInv'
  <2> DEFINE c == [op |-> "create", path |-> ui.tree[ui.sel].full, name |-> x]
  <2>1. AtRest /\ ui.sel # NoNode /\ AddCommand(c)
    BY <1>1 DEF OnNewKey
  <2>2. c \in Command
    BY <2>1, AtRestInv, NodeFields
  <2> HIDE DEF c
  <2> QED
    BY <2>1, <2>2, AddCommandInv
<1>2. ASSUME NEW x \in Name, OnEndRename(x) PROVE IInv'
  <2> DEFINE c == [op |-> "rename", path |-> ui.tree[ui.sel].full, name |-> x]
  <2>1. AtRest /\ ui.sel # NoNode /\ AddCommand(c)
    BY <1>2 DEF OnEndRename
  <2>2. c \in Command
    BY <2>1, AtRestInv, NodeFields
  <2> HIDE DEF c
  <2> QED
    BY <2>1, <2>2, AddCommandInv
<1> HIDE DEF Command
<1>3. undoList \in Seq(Command) /\ redoList \in Seq(Command)
  BY DEF IInv, TypeOK
<1>4. CASE OnEditUndo
  <2> DEFINE c == Last(undoList)
  <2>1. /\ AtRest /\ undoList # <<>>
        /\ Rerun(UndoCommand(reg, ui, c), Front(undoList), Append(redoList, Done(c)))
    BY <1>4 DEF OnEditUndo
  <2>2. c \in Command /\ Front(undoList) \in Seq(Command)
    BY <1>3, <2>1, FrontLastType
  <2> HIDE DEF c
  <2>3. Done(c) \in Command => Append(redoList, Done(c)) \in Seq(Command)
    BY <1>3, AppendProperties
  <2> QED
    BY <2>1, <2>2, <2>3, RerunInv
<1>5. CASE OnEditRedo
  <2> DEFINE c == Last(redoList)
  <2>1. /\ AtRest /\ redoList # <<>>
        /\ Rerun(Execute(reg, ui, c), Append(undoList, Done(c)), Front(redoList))
    BY <1>5 DEF OnEditRedo
  <2>2. c \in Command /\ Front(redoList) \in Seq(Command)
    BY <1>3, <2>1, FrontLastType
  <2> HIDE DEF c
  <2>3. Done(c) \in Command => Append(undoList, Done(c)) \in Seq(Command)
    BY <1>3, AppendProperties
  <2> QED
    BY <2>1, <2>2, <2>3, RerunInv
<1> QED
  BY <1>1, <1>2, <1>4, <1>5 DEF EditKeys

-----------------------------------------------------------------------------
(* Refresh.                                                                *)

LEMMA AddNewKeysSound ==
  ASSUME NEW r, NEW u, Sound(u), u.status = "running", NEW p \in DOMAIN u.tree
  PROVE  /\ Sound(AddNewKeys(r, u, p))
         /\ DOMAIN u.tree \subseteq DOMAIN AddNewKeys(r, u, p).tree
<1> DEFINE t     == u.tree
           found == IF t[p].at = Gone THEN {} ELSE SubKeys(r, t[p].at)
           fresh == IF Cardinality(found) = Cardinality(Kids(t, p)) THEN {} ELSE found \ Kids(t, p)
           full  == AddChildren(t, p, fresh)
           listed == [q \in DOMAIN full |->
                        IF q \in {Append(p, x) : x \in fresh} THEN AddItem(r, full[q]) ELSE full[q]]
           w == [u EXCEPT !.tree = listed]
<1>1. fresh \in SUBSET Name /\ (fresh = {} \/ t[p].at # Gone)
  BY DEF SubKeys
<1>2. IsTree(t) /\ Closed(t) /\ IsUI(u)
  BY UIFields DEF Sound
<1>3. AddNewKeys(r, u, p) = w
  BY DEF AddNewKeys
<1> HIDE DEF fresh
<1>4. IsTree(full) /\ Closed(full) /\ DOMAIN t \subseteq DOMAIN full
  BY <1>1, <1>2, AddChildrenTree
<1> HIDE DEF full
<1>5. IsTree(listed) /\ DOMAIN listed = DOMAIN full
  <2>1. ASSUME NEW q \in DOMAIN full PROVE full[q] \in Node /\ AddItem(r, full[q]) \in Node
    BY <1>4, NodeFields, AddItemType
  <2> QED
    BY <1>4, <2>1 DEF IsTree
<1> HIDE DEF listed
<1>6. Closed(listed)
  BY <1>4, <1>5 DEF Closed
<1>7. Sound(w) /\ w.tree = listed
  BY <1>2, <1>4, <1>5, <1>6, GrowSound, NewTree
<1> QED
  BY <1>3, <1>4, <1>5, <1>7

LEMMA RefreshInv ==
  ASSUME IInv, OnRefresh \/ RefreshStep
  PROVE  IInv'
<1>1. CASE OnRefresh
  <2>1. todo' \subseteq DOMAIN ui.tree /\ ui' = ui /\ refreshing' = TRUE
    BY <1>1 DEF OnRefresh, Reached
  <2>2. todo' \subseteq Path
    BY <2>1, UIFields DEF IInv, Sound, IsTree
  <2> QED
    BY <1>1, <2>1, <2>2 DEF OnRefresh, IInv, TypeOK, lists, Running
<1>2. ASSUME NEW p \in todo, RefreshRemove(p) PROVE IInv'
  <2>1. PICK q \in Missing(reg, ui.tree, p) : ui' \in DeleteItem(reg, ui, q)
    BY <1>2 DEF RefreshRemove
  <2>2. /\ Running /\ refreshing /\ p \in DOMAIN ui.tree /\ todo \subseteq DOMAIN ui.tree
        /\ Sound(ui) /\ IsTree(ui.tree) /\ p \in Path /\ DOMAIN ui.tree \subseteq Path
    BY <1>2, UIFields DEF RefreshRemove, IInv, Sound, IsTree
  <2>3. q \in KidPaths(ui.tree, p)
    BY <2>1 DEF Missing
  <2>4. q \in DOMAIN ui.tree /\ q # <<>> /\ \E x \in Name : q = Append(p, x)
    BY <2>2, <2>3, KidFacts
  <2>5. /\ Sound(ui')
        /\ ui'.status = "running" =>
             \A x \in DOMAIN ui.tree : ~IsPrefix(q, x) => x \in DOMAIN ui'.tree
    BY <2>1, <2>2, <2>4, DeleteItemSound DEF Running
  <2>6. \A x \in todo : ~IsPrefix(q, x)
    <3> SUFFICES ASSUME NEW x \in todo, IsPrefix(q, x) PROVE FALSE
      OBVIOUS
    <3>1. IsPrefix(p, q) /\ ~IsPrefix(q, p) /\ q \in Path
      BY <2>2, <2>4, PrefixOfChild, PrefixReflexive
    <3>2. IsPrefix(p, x) /\ p # x
      BY <2>2, <3>1, PrefixTransitive
    <3> QED
      BY <1>2, <3>2 DEF RefreshRemove, Deepest, IsStrictPrefix
  <2>7. UNCHANGED <<reg, undoList, redoList, allowModify, refreshing, todo, changes>>
    BY <1>2 DEF RefreshRemove, lists, refresh
  <2>8. IsUI(ui')
    BY <2>5 DEF Sound
  <2> QED
    BY <2>2, <2>5, <2>6, <2>7, <2>8 DEF IInv, TypeOK, Running
<1>3. ASSUME NEW p \in todo, RefreshAdd(p) PROVE IInv'
  <2>1. /\ Running /\ refreshing /\ p \in DOMAIN ui.tree /\ Sound(ui)
        /\ ui' = AddNewKeys(reg, ui, p) /\ todo' = todo \ {p}
        /\ UNCHANGED <<reg, undoList, redoList, allowModify, refreshing, changes>>
    BY <1>3 DEF RefreshAdd, IInv, lists
  <2>2. Sound(ui') /\ IsUI(ui') /\ DOMAIN ui.tree \subseteq DOMAIN ui'.tree
    BY <2>1, AddNewKeysSound DEF Running, Sound
  <2> QED
    BY <2>1, <2>2 DEF IInv, TypeOK
<1>4. CASE RefreshEnd
  <2> DEFINE u == UpdateIfSame(reg, ui, ui.sel)
  <2>1. /\ refreshing' = FALSE /\ ui' = UpdateUI(allowModify, u) /\ Running /\ Sound(ui)
        /\ UNCHANGED <<reg, undoList, redoList, allowModify, todo, changes>>
    BY <1>4 DEF RefreshEnd, IInv, lists
  <2>2. Sound(u) /\ RowsLive(u)
    <3>1. ui.sel \in {NoNode, ui.cur}
      BY <2>1 DEF Sound, Running
    <3> QED
      BY <2>1, <3>1, UpdateIfSameSound
  <2> HIDE DEF u
  <2>3. Sound(ui') /\ RowsLive(ui') /\ IsUI(ui')
    BY <2>1, <2>2, UpdateUISound DEF Sound
  <2> QED
    BY <2>1, <2>3 DEF IInv, TypeOK
<1> QED
  BY <1>1, <1>2, <1>3, <1>4 DEF RefreshStep

-----------------------------------------------------------------------------
(* Other processes.                                                        *)

LEMMA OthersInv ==
  ASSUME IInv, Others
  PROVE  IInv'
<1>1. ASSUME NEW p \in reg, NEW x \in Name, ExternalCreate(p, x) PROVE IInv'
  <2>1. /\ reg' = reg \union {Append(p, x)} /\ changes' = changes + 1
        /\ UNCHANGED <<ui, undoList, redoList, allowModify, refreshing, todo>>
    BY <1>1 DEF ExternalCreate, lists, refresh
  <2>2. Append(p, x) \in Path
    BY ChildPath DEF IInv, TypeOK
  <2>3. reg' \subseteq Path /\ changes' \in Nat
    <3>1. reg \subseteq Path /\ changes \in Nat
      BY DEF IInv, TypeOK
    <3>2. changes' = changes + 1
      BY <2>1
    <3>3. reg' = reg \union {Append(p, x)}
      BY <2>1
    <3>4. reg' \subseteq Path
      BY <2>2, <3>1, <3>3
    <3> QED
      BY <3>1, <3>2, <3>4
  <2>4. ui' = ui
    BY <2>1
  <2>5. Sound(ui') /\ IsUI(ui') /\ (~refreshing => RowsLive(ui'))
    BY <2>4 DEF IInv, Sound
  <2> QED
    BY <2>1, <2>3, <2>5 DEF IInv, TypeOK, Running
<1>2. ASSUME NEW p \in reg, ExternalDelete(p) PROVE IInv'
  <2>1. /\ AtRest /\ reg' = reg \ {p} /\ changes' = changes + 1
        /\ ui' = [ui EXCEPT !.tree = KillHandles(ui.tree, p)]
        /\ UNCHANGED <<undoList, redoList, allowModify, refreshing, todo>>
    BY <1>2 DEF ExternalDelete, lists, refresh
  <2>2. Sound(ui') /\ RowsLive(ui') /\ IsUI(ui')
    BY <2>1, AtRestInv, KillHandlesSound DEF Sound
  <2> QED
    BY <2>1, <2>2 DEF IInv, TypeOK, AtRest
<1> QED
  BY <1>1, <1>2 DEF Others

-----------------------------------------------------------------------------
(* The theorems.                                                           *)

LEMMA NextInv == IInv /\ [Next]_vars => IInv'
<1> SUFFICES ASSUME IInv, [Next]_vars PROVE IInv'
  OBVIOUS
<1>1. CASE UNCHANGED vars
  BY <1>1 DEF vars, lists, refresh, IInv, TypeOK, Running
<1>2. CASE Next
  BY <1>2, LookInv, RefreshInv, EditInv, OthersInv DEF Next, NextAlone, NextNoRename
<1> QED
  BY <1>1, <1>2

LEMMA SpecInv == Spec => []IInv
  BY InitInv, NextInv, PTL DEF Spec

(* The registry, the tree with its handles and items, the command stacks   *)
(* and the refresh bookkeeping keep their types through every handler,     *)
(* whatever fails and whatever other processes do.                         *)
THEOREM KeysKeepTheirTypes == Spec => []TypeOK
<1>1. IInv => TypeOK
  BY DEF IInv
<1> QED
  BY <1>1, SpecInv, PTL

(* m_SelectedNode never outlives its node, nor does m_CurrentNode unless a  *)
(* "***" placeholder is selected, for any hive and any number of handlers  *)
(* and changes by other processes.                                         *)
THEOREM SelectionStaysLive == Spec => []SelectionIsLive
<1>1. IInv => SelectionIsLive
  BY DEF IInv, Sound, SelectionIsLive, Running
<1> QED
  BY <1>1, SpecInv, PTL

(* Between two messages no row of the list view points to a freed node.    *)
THEOREM RowsStayLive == Spec => []RowsAreNodes
<1>1. IInv => RowsAreNodes
  BY DEF IInv, RowsLive, RowsAreNodes, AtRest, Running
<1> QED
  BY <1>1, SpecInv, PTL

-----------------------------------------------------------------------------
(* What Refresh achieves.                                                  *)

(* Node p lists what its key has; every node from the hive down to p has   *)
(* been expanded.                                                          *)
Synced(r, t, p) == t[p].at # Gone => Kids(t, p) = SubKeys(r, t[p].at)
OnWay(t, p) == \A q \in DOMAIN t : IsPrefix(q, p) => t[q].expanded

(* From tree t to tree v: what Refresh reaches in v is in order or was     *)
(* reached in t and has the children it had, unless it is in S.            *)
Leaves(r, t, v, S) ==
  \A p \in DOMAIN v : OnWay(v, p) =>
    \/ Synced(r, v, p)
    \/ /\ p \in DOMAIN t /\ OnWay(t, p) /\ v[p].at = t[p].at
       /\ p \in S \/ Kids(v, p) = Kids(t, p)

LEMMA LeavesReflexive ==
  ASSUME NEW r, NEW t
  PROVE  Leaves(r, t, t, {})
  BY DEF Leaves

LEMMA LeavesMore ==
  ASSUME NEW r, NEW t, NEW v, NEW w, NEW S, Leaves(r, t, v, S), Leaves(r, v, w, {})
  PROVE  Leaves(r, t, w, S)
<1> SUFFICES ASSUME NEW p \in DOMAIN w, OnWay(w, p), ~Synced(r, w, p)
             PROVE  /\ p \in DOMAIN t /\ OnWay(t, p) /\ w[p].at = t[p].at
                    /\ p \in S \/ Kids(w, p) = Kids(t, p)
  BY DEF Leaves
<1>1. p \in DOMAIN v /\ OnWay(v, p) /\ w[p].at = v[p].at /\ Kids(w, p) = Kids(v, p)
  BY DEF Leaves
<1>2. ~Synced(r, v, p)
  BY <1>1 DEF Synced
<1> QED
  BY <1>1, <1>2 DEF Leaves

(* A path strictly below p is at or below a child of p.                    *)
LEMMA StrictPrefixChild ==
  ASSUME NEW p \in Path, NEW y \in Path, IsPrefix(p, y), p # y
  PROVE  \E x \in Name : IsPrefix(Append(p, x), y)
<1>1. /\ Len(p) \in Nat /\ Len(y) \in Nat /\ Len(p) <= Len(y)
      /\ \A i \in 1 .. Len(p) : p[i] = y[i]
  BY PrefixByElement, LenProperties DEF Path
<1>2. Len(p) # Len(y)
  BY <1>1, SeqEqual DEF Path
<1>3. PICK x \in Name : x = y[Len(p) + 1]
  BY <1>1, <1>2, ElementOfSeq DEF Path
<1>4. PICK c \in Path : c = Append(p, x)
  BY ChildPath
<1>5. Len(c) = Len(p) + 1 /\ c[Len(p) + 1] = x /\ \A i \in 1 .. Len(p) : c[i] = p[i]
  BY <1>4, AppendProperties DEF Path
<1>6. Len(c) <= Len(y) /\ \A i \in 1 .. Len(c) : c[i] = y[i]
  BY <1>1, <1>2, <1>3, <1>5
<1> QED
  BY <1>4, <1>6, PrefixByElement

(* v is t with new children of p, which have not been expanded.            *)
AddsKids(r, t, p, names, v) ==
  /\ DOMAIN v = DOMAIN t \union {Append(p, x) : x \in names}
  /\ \A q \in DOMAIN t : v[q].at = t[q].at
  /\ \A q \in DOMAIN t : q # p => (v[q].expanded <=> t[q].expanded)
  /\ \A q \in DOMAIN v \ DOMAIN t : ~v[q].expanded
  /\ Kids(t, p) # {} => (v[p].expanded => t[p].expanded)
  /\ t[p].at # Gone => SubKeys(r, t[p].at) = Kids(t, p) \union names

LEMMA AddsLeave ==
  ASSUME NEW r, NEW t, IsTree(t), Closed(t), NEW p \in DOMAIN t, NEW names \in SUBSET Name,
         NEW v, AddsKids(r, t, p, names, v)
  PROVE  Leaves(r, t, v, {})
<1> USE DEF AddsKids
<1> SUFFICES ASSUME NEW y \in DOMAIN v, OnWay(v, y)
             PROVE  \/ Synced(r, v, y)
                    \/ /\ y \in DOMAIN t /\ OnWay(t, y) /\ v[y].at = t[y].at
                       /\ Kids(v, y) = Kids(t, y)
  BY DEF Leaves
<1>1. DOMAIN t \in SUBSET Path /\ DOMAIN v \in SUBSET Path /\ p \in Path
  BY ChildPath DEF IsTree
<1>2. y \in DOMAIN t
  BY <1>1, PrefixReflexive DEF OnWay
<1>3. CASE y = p
  <2>1. Kids(v, p) = Kids(t, p) \union names
    <3>1. ASSUME NEW x \in Name, NEW z \in names, Append(p, x) = Append(p, z) PROVE x = z
      BY <1>1, <3>1, ChildPath
    <3>2. \A x \in Name : Append(p, x) \in DOMAIN v <=> Append(p, x) \in DOMAIN t \/ x \in names
      BY <3>1
    <3> QED
      BY <3>2 DEF Kids
  <2> QED
    BY <1>3, <2>1 DEF Synced
<1>4. CASE y # p
  <2>1. Kids(v, y) = Kids(t, y)
    <3>1. ASSUME NEW x \in Name, NEW z \in names PROVE Append(y, x) # Append(p, z)
      <4>1. Front(Append(y, x)) = y /\ Front(Append(p, z)) = p
        BY <1>1, <1>2, ChildPath
      <4> QED
        BY <1>4, <4>1
    <3> QED
      BY <3>1 DEF Kids
  <2>2. ASSUME NEW q \in DOMAIN t, IsPrefix(q, y) PROVE t[q].expanded
    <3>1. v[q].expanded
      BY <2>2 DEF OnWay
    <3>2. CASE q # p
      BY <3>1, <3>2
    <3>3. CASE q = p
      <4>1. Kids(t, p) # {}
        <5>1. PICK x \in Name : IsPrefix(Append(p, x), y)
          BY <1>1, <1>2, <1>4, <2>2, <3>3, StrictPrefixChild
        <5> QED
          BY <1>1, <1>2, <5>1, ChildPath DEF Closed, Kids
      <4> QED
        BY <3>1, <3>3, <4>1
    <3> QED
      BY <3>2, <3>3
  <2> QED
    BY <1>2, <2>1, <2>2 DEF OnWay
<1> QED
  BY <1>3, <1>4

LEMMA ExpandLeaves ==
  ASSUME DeletedKey \notin Name,
         NEW r, NEW t, IsTree(t), Closed(t), NEW p \in DOMAIN t
  PROVE  Leaves(r, t, Expand(r, t, p), {})
<1> DEFINE listed == IF t[p].at = Gone THEN {} ELSE SubKeys(r, t[p].at) \ {DeletedKey}
           v == AddChildren(t, p, listed)
           w == [v EXCEPT ![p].expanded = TRUE]
<1>1. CASE Kids(t, p) # {}
  BY <1>1, LeavesReflexive DEF Expand
<1>2. CASE Kids(t, p) = {}
  <2>1. Expand(r, t, p) = w
    BY <1>2 DEF Expand
  <2>2. /\ listed \in SUBSET Name /\ (listed = {} \/ t[p].at # Gone)
        /\ t[p].at # Gone => SubKeys(r, t[p].at) = listed
    BY DEF SubKeys
  <2> HIDE DEF listed
  <2>3. /\ DOMAIN v = DOMAIN t \union {Append(p, x) : x \in listed}
        /\ \A q \in DOMAIN t : v[q] = t[q]
        /\ \A q \in DOMAIN v \ DOMAIN t : v[q].expanded = FALSE
    BY DEF AddChildren, BareNode
  <2>4. IsTree(v)
    BY <2>2, AddChildrenTree
  <2> HIDE DEF v
  <2>5. /\ DOMAIN w = DOMAIN v /\ \A q \in DOMAIN v : w[q].at = v[q].at
        /\ \A q \in DOMAIN v : q # p => w[q].expanded = v[q].expanded
    BY <2>4 DEF Node, IsTree
  <2> HIDE DEF w
  <2>6. \A q \in DOMAIN w \ DOMAIN t : ~w[q].expanded
    BY <2>3, <2>5
  <2>7. AddsKids(r, t, p, listed, w)
    BY <1>2, <2>2, <2>3, <2>5, <2>6 DEF AddsKids
  <2>8. Leaves(r, t, w, {})
    BY <2>2, <2>7, AddsLeave
  <2> QED
    BY <2>1, <2>8
<1> QED
  BY <1>1, <1>2

LEMMA UpdateLeaves ==
  ASSUME DeletedKey \notin Name, NEW r, NEW u, IsUI(u), NEW p,
         u.status = "running" => Closed(u.tree) /\ p \in DOMAIN u.tree
  PROVE  Leaves(r, u.tree, Update(r, u, p).tree, {})
<1> DEFINE t == Expand(r, u.tree, p)
           w == [u EXCEPT !.tree = t, !.cur = p, !.rows = KidPaths(t, p)]
<1>1. w.tree = t /\ Stop(u, "hung").tree = u.tree
  BY StopFields DEF IsUI
<1>2. u.status = "running" => Leaves(r, u.tree, t, {})
  BY UIFields, ExpandLeaves
<1> HIDE DEF t
<1> QED
  BY <1>1, <1>2, LeavesReflexive DEF Update, t

LEMMA SelectLeaves ==
  ASSUME DeletedKey \notin Name, NEW r, NEW u, IsUI(u), Closed(u.tree), NEW p \in DOMAIN u.tree
  PROVE  Leaves(r, u.tree, Select(r, u, p).tree, {})
<1>1. PICK w : w = [u EXCEPT !.sel = p, !.under = <<>>]
  OBVIOUS
<1>2. IsUI(w) /\ w.tree = u.tree
  BY <1>1, EmptySeq DEF IsUI, IsTree, Path
<1>3. Leaves(r, u.tree, Update(r, w, p).tree, {})
  BY <1>2, UpdateLeaves
<1> QED
  BY <1>1, <1>3, LeavesReflexive DEF Select

LEMMA SelectMarkLeaves ==
  ASSUME DeletedKey \notin Name, NEW r, NEW u, IsUI(u), Closed(u.tree), u.cur \in DOMAIN u.tree,
         NEW p \in Path
  PROVE  Leaves(r, u.tree, SelectMark(r, u, p).tree, {})
<1>1. PICK w : w = [u EXCEPT !.sel = NoNode, !.under = p]
  OBVIOUS
<1>2. IsUI(w) /\ w.tree = u.tree
  BY <1>1 DEF IsUI
<1>3. Leaves(r, u.tree, Update(r, w, u.cur).tree, {})
  BY <1>2, UpdateLeaves
<1> QED
  BY <1>1, <1>3, LeavesReflexive DEF SelectMark

(* A node that went took no other node's children with it.                 *)
LEMMA PrunedLeaves ==
  ASSUME NEW r, NEW t, IsTree(t), Closed(t), NEW q \in DOMAIN t, q # <<>>
  PROVE  Leaves(r, t, Pruned(t, q), {Front(q)})
<1> DEFINE v == Pruned(t, q)
<1>1. /\ DOMAIN v = {x \in DOMAIN t : ~IsPrefix(q, x)} /\ \A x \in DOMAIN v : v[x] = t[x]
      /\ DOMAIN t \in SUBSET Path
  BY DEF Pruned, IsTree
<1> HIDE DEF v
<1> SUFFICES ASSUME NEW p \in DOMAIN v, OnWay(v, p)
             PROVE  OnWay(t, p) /\ (p = Front(q) \/ Kids(v, p) = Kids(t, p))
  BY <1>1 DEF Leaves, v
<1>2. ASSUME NEW x \in DOMAIN t, IsPrefix(x, p) PROVE t[x].expanded
  <2>1. ~IsPrefix(q, x)
    BY <1>1, <1>2, PrefixTransitive
  <2> QED
    BY <1>1, <1>2, <2>1 DEF OnWay
<1>3. ASSUME p # Front(q), NEW x \in Name, Append(p, x) \in DOMAIN t PROVE Append(p, x) \in DOMAIN v
  <2>1. IsPrefix(q, Append(p, x)) <=> IsPrefix(q, p) \/ q = Append(p, x)
    BY <1>1, PrefixOfChild
  <2>2. q # Append(p, x)
    BY <1>1, <1>3, ChildPath
  <2> QED
    BY <1>1, <1>3, <2>1, <2>2
<1>4. p # Front(q) => Kids(v, p) = Kids(t, p)
  BY <1>1, <1>3 DEF Kids
<1> QED
  BY <1>2, <1>4 DEF OnWay

LEMMA AddNewKeysLeaves ==
  ASSUME IsFiniteSet(Name),
         NEW r, NEW u, Sound(u), u.status = "running", NEW p \in DOMAIN u.tree,
         Missing(r, u.tree, p) = {}
  PROVE  /\ Leaves(r, u.tree, AddNewKeys(r, u, p).tree, {})
         /\ Synced(r, AddNewKeys(r, u, p).tree, p)
<1> DEFINE t     == u.tree
           found == IF t[p].at = Gone THEN {} ELSE SubKeys(r, t[p].at)
           fresh == IF Cardinality(found) = Cardinality(Kids(t, p)) THEN {} ELSE found \ Kids(t, p)
           full  == AddChildren(t, p, fresh)
           listed == [q \in DOMAIN full |->
                        IF q \in {Append(p, x) : x \in fresh} THEN AddItem(r, full[q]) ELSE full[q]]
           w == [u EXCEPT !.tree = listed]
<1>1. fresh \in SUBSET Name /\ (fresh = {} \/ t[p].at # Gone)
  BY DEF SubKeys
<1>2. IsTree(t) /\ Closed(t) /\ IsUI(u) /\ p \in Path
  BY UIFields DEF Sound, IsTree
<1>3. AddNewKeys(r, u, p) = w /\ w.tree = listed
  BY <1>2 DEF AddNewKeys, IsUI
<1>4. ASSUME t[p].at # Gone PROVE SubKeys(r, t[p].at) = Kids(t, p) \union fresh
  <2>1. found = SubKeys(r, t[p].at)
    BY <1>4
  <2>2. Kids(t, p) \in SUBSET found
    <3> SUFFICES ASSUME NEW x \in Kids(t, p) PROVE x \in SubKeys(r, t[p].at)
      BY <2>1
    <3>1. x \in Name /\ Append(p, x) \in KidPaths(t, p) /\ Last(Append(p, x)) = x
      BY <1>2, ChildPath DEF KidPaths, Kids
    <3>2. Append(t[p].at, Last(Append(p, x))) \in r
      BY <1>4, <3>1 DEF Missing
    <3> QED
      BY <3>1, <3>2 DEF SubKeys
  <2>3. IsFiniteSet(found)
    <3>1. found \in SUBSET Name
      BY <2>1 DEF SubKeys
    <3> HIDE DEF found
    <3> QED
      BY <3>1, FS_Subset
  <2> HIDE DEF found
  <2>4. Cardinality(found) = Cardinality(Kids(t, p)) => found = Kids(t, p)
    BY <2>2, <2>3, FS_Subset
  <2> QED
    BY <2>1, <2>2, <2>4
<1> HIDE DEF fresh
<1>5. /\ DOMAIN full = DOMAIN t \union {Append(p, x) : x \in fresh}
      /\ \A q \in DOMAIN t : full[q] = t[q]
      /\ \A q \in DOMAIN full \ DOMAIN t : full[q].expanded = FALSE
  BY DEF AddChildren, BareNode
<1>6. IsTree(full)
  BY <1>1, <1>2, AddChildrenTree
<1> HIDE DEF full
<1>7. \A q \in DOMAIN full :
        AddItem(r, full[q]).at = full[q].at /\ AddItem(r, full[q]).expanded = full[q].expanded
  BY <1>6 DEF AddItem, IsTree, Node
<1>8. /\ DOMAIN listed = DOMAIN full
      /\ \A q \in DOMAIN full : listed[q].at = full[q].at /\ listed[q].expanded = full[q].expanded
  BY <1>7
<1> HIDE DEF listed
<1>9. \A q \in DOMAIN listed \ DOMAIN t : ~listed[q].expanded
  BY <1>5, <1>8
<1>10. Leaves(r, t, listed, {})
  <2>1. AddsKids(r, t, p, fresh, listed)
    BY <1>4, <1>5, <1>8, <1>9 DEF AddsKids
  <2> QED
    BY <1>1, <1>2, <2>1, AddsLeave
<1>11. Synced(r, listed, p)
  <2>1. \A x \in Name : Append(p, x) \in DOMAIN listed <=> Append(p, x) \in DOMAIN t \/ x \in fresh
    <3> SUFFICES ASSUME NEW x \in Name, NEW z \in fresh, Append(p, x) = Append(p, z) PROVE x = z
      BY <1>1, <1>5, <1>8
    <3> QED
      BY <1>1, <1>2, ChildPath
  <2>2. Kids(listed, p) = Kids(t, p) \union fresh
    BY <1>1, <2>1 DEF Kids
  <2> QED
    BY <1>4, <1>5, <1>8, <2>2 DEF Synced
<1> QED
  BY <1>3, <1>10, <1>11

LEMMA DeleteItemLeaves ==
  ASSUME DeletedKey \notin Name,
         NEW r, NEW u, Sound(u), u.status = "running", NEW p \in DOMAIN u.tree, p # <<>>,
         NEW v \in DeleteItem(r, u, p)
  PROVE  Leaves(r, u.tree, v.tree, {Front(p)})
<1> DEFINE k == Pruned(u.tree, p)
<1>1. PICK left : left = [u EXCEPT !.tree = k]
  OBVIOUS
<1>2. /\ IsUI(u) /\ IsTree(u.tree) /\ Closed(u.tree) /\ u.cur \in DOMAIN u.tree
      /\ DOMAIN u.tree \in SUBSET Path
  BY UIFields DEF Sound, IsTree
<1>3. /\ IsTree(k) /\ Closed(k) /\ Leaves(r, u.tree, k, {Front(p)})
      /\ DOMAIN k = {x \in DOMAIN u.tree : ~IsPrefix(p, x)} /\ Front(p) \in DOMAIN k
  BY <1>2, PrunedTree, PrunedLeaves DEF Pruned
<1>4. IsUI(left) /\ left.tree = k /\ left.cur = u.cur
  BY <1>1, <1>2, <1>3, NewTree
<1>5. ItemDeleted(r, u, p, left, v)
  BY <1>1, DeleteItemCases
<1> HIDE DEF k
<1>6. CASE v = Stop(u, "wiped")
  <2>1. v.tree = u.tree
    BY <1>2, <1>6, StopFields
  <2> QED
    BY <2>1 DEF Leaves
<1>7. ASSUME NEW w, IsUI(w), w.tree = left.tree, v = Stop(w, "dangling")
      PROVE  Leaves(r, u.tree, v.tree, {Front(p)})
  <2>1. v.tree = k
    BY <1>4, <1>7, StopFields
  <2> QED
    BY <1>3, <2>1
<1>8. CASE v = left
  BY <1>3, <1>4, <1>8
<1>9. CASE v = SelectMark(r, left, Front(p)) /\ ~IsPrefix(p, u.cur)
  <2>1. Front(p) \in Path /\ left.cur \in DOMAIN left.tree
    BY <1>2, <1>3, <1>4, <1>9
  <2>2. Leaves(r, k, v.tree, {})
    BY <1>3, <1>4, <1>9, <2>1, SelectMarkLeaves
  <2> QED
    BY <1>3, <2>2, LeavesMore
<1>10. ASSUME NEW q \in DOMAIN left.tree, v = Select(r, left, q)
       PROVE  Leaves(r, u.tree, v.tree, {Front(p)})
  <2>1. Leaves(r, k, v.tree, {})
    BY <1>3, <1>4, <1>10, SelectLeaves
  <2> QED
    BY <1>3, <2>1, LeavesMore
<1>11. CASE \E w : IsUI(w) /\ w.tree = left.tree /\ v = Stop(w, "dangling")
  BY <1>7, <1>11
<1>12. CASE \E q \in DOMAIN left.tree : v = Select(r, left, q)
  BY <1>10, <1>12
<1>13. \/ v = Stop(u, "wiped")
       \/ \E w : IsUI(w) /\ w.tree = left.tree /\ v = Stop(w, "dangling")
       \/ v = left
       \/ v = SelectMark(r, left, Front(p)) /\ ~IsPrefix(p, u.cur)
       \/ \E q \in DOMAIN left.tree : v = Select(r, left, q)
  BY <1>5, Zenon DEF ItemDeleted
<1> QED
  BY <1>6, <1>8, <1>9, <1>11, <1>12, <1>13

(* While Refresh runs, what it has left behind it is in order.             *)
RInv ==
  /\ IInv
  /\ Running /\ refreshing =>
       \A p \in DOMAIN ui.tree : OnWay(ui.tree, p) => p \in todo \/ Synced(reg, ui.tree, p)

LEMMA LeavesInOrder ==
  ASSUME RInv, Running, refreshing, UNCHANGED <<reg, refreshing>>, NEW S \in SUBSET todo',
         Leaves(reg, ui.tree, ui'.tree, S),
         \A p \in todo : p \in todo' \/ Synced(reg, ui'.tree, p), IInv'
  PROVE  RInv'
<1> SUFFICES ASSUME NEW p \in DOMAIN ui'.tree, OnWay(ui'.tree, p), p \notin todo',
                    ~Synced(reg, ui'.tree, p)
             PROVE  FALSE
  BY DEF RInv
<1>1. /\ p \in DOMAIN ui.tree /\ OnWay(ui.tree, p) /\ ui'.tree[p].at = ui.tree[p].at
      /\ Kids(ui'.tree, p) = Kids(ui.tree, p)
  BY DEF Leaves
<1>2. ~Synced(reg, ui.tree, p)
  BY <1>1 DEF Synced
<1> QED
  BY <1>1, <1>2 DEF RInv

LEMMA RefreshStays ==
  ASSUME IsFiniteSet(Name), DeletedKey \notin Name, RInv, [Next]_vars
  PROVE  RInv'
<1>1. IInv /\ IInv'
  BY NextInv DEF RInv
<1>2. CASE refreshing' = FALSE
  BY <1>1, <1>2 DEF RInv
<1>3. CASE UNCHANGED vars
  BY <1>1, <1>3 DEF RInv, vars, refresh, Running
<1>4. CASE OnRefresh
  <2>1. ui' = ui /\ todo' = Reached(ui.tree)
    BY <1>4 DEF OnRefresh
  <2> QED
    BY <1>1, <2>1 DEF RInv, Reached, OnWay
<1>5. ASSUME NEW p \in todo, RefreshRemove(p) PROVE RInv'
  <2>1. PICK q \in Missing(reg, ui.tree, p) : ui' \in DeleteItem(reg, ui, q)
    BY <1>5 DEF RefreshRemove
  <2>2. /\ Running /\ refreshing /\ UNCHANGED <<reg, refreshing, todo>>
        /\ p \in DOMAIN ui.tree /\ Sound(ui) /\ IsTree(ui.tree) /\ p \in Path
    BY <1>1, <1>5, UIFields DEF RefreshRemove, IInv, Sound, IsTree, refresh
  <2>3. q \in DOMAIN ui.tree /\ q # <<>> /\ Front(q) = p
    BY <2>1, <2>2, KidFacts DEF Missing
  <2>4. Leaves(reg, ui.tree, ui'.tree, {p})
    BY <2>1, <2>2, <2>3, DeleteItemLeaves DEF Running
  <2> QED
    BY <1>1, <2>2, <2>4, LeavesInOrder
<1>6. ASSUME NEW p \in todo, RefreshAdd(p) PROVE RInv'
  <2>1. /\ Running /\ refreshing /\ UNCHANGED <<reg, refreshing>> /\ todo' = todo \ {p}
        /\ p \in DOMAIN ui.tree /\ Sound(ui) /\ Missing(reg, ui.tree, p) = {}
        /\ ui' = AddNewKeys(reg, ui, p)
    BY <1>1, <1>6 DEF RefreshAdd, IInv
  <2>2. Leaves(reg, ui.tree, ui'.tree, {}) /\ Synced(reg, ui'.tree, p)
    BY <2>1, AddNewKeysLeaves DEF Running
  <2> QED
    BY <1>1, <2>1, <2>2, LeavesInOrder
<1>7. RefreshEnd \/ Look \/ EditKeys \/ (\E x \in Name : OnEndRename(x)) \/ Others
        => refreshing' = FALSE
  BY <1>1 DEF RefreshEnd, Look, EditKeys, Others, AtRest, refresh, IInv, TypeOK,
     OnTreeSelectionChanged, SelectPlaceholder, OnTreeItemExpanding, OnDoubleClick, UpDir, Browse,
     OnEditModify, OnNewKey, OnEndRename, AddCommand, OnEditUndo, OnEditRedo, Rerun,
     ExternalCreate, ExternalDelete
<1> QED
  BY <1>2, <1>3, <1>4, <1>5, <1>6, <1>7 DEF Next, NextAlone, NextNoRename, RefreshStep

(* A Refresh that came to its end leaves every node that it reached, and   *)
(* whose key exists, with exactly the subkeys of that key, however many    *)
(* keys came and went, and although CView::Update expands nodes while it   *)
(* is on its way: RegistryManager::Refresh.  Names are finitely many, and  *)
(* the hive is not the one of the backup key, which Expand leaves out and  *)
(* Refresh does not.                                                       *)
THEOREM RefreshBringsUpToDate ==
  ASSUME IsFiniteSet(Name), DeletedKey \notin Name
  PROVE  Spec => RefreshSyncs
<1> DEFINE Ends == LET t == ui'.tree IN
                     \A p \in DOMAIN t :
                       /\ t[p].at # Gone
                       /\ \A q \in DOMAIN t : IsPrefix(q, p) => t[q].expanded
                       => Kids(t, p) = SubKeys(reg', t[p].at)
<1>1. Init => RInv
  BY InitInv DEF RInv, Init
<1>2. ASSUME RInv, RefreshEnd PROVE Ends
  <2> DEFINE u == UpdateIfSame(reg, ui, ui.sel)
  <2>1. /\ Running /\ refreshing /\ todo = {} /\ reg' = reg /\ Sound(ui)
        /\ ui' = UpdateUI(allowModify, u)
    BY <1>2 DEF RefreshEnd, RInv, IInv
  <2>2. IsUI(u) /\ Leaves(reg, ui.tree, u.tree, {})
    <3>1. Leaves(reg, ui.tree, Update(reg, ui, ui.cur).tree, {})
      BY <2>1, UpdateLeaves DEF Sound
    <3>2. IsUI(u)
      BY <2>1, UpdateIfSameSound DEF Sound
    <3> QED
      BY <3>1, <3>2, LeavesReflexive DEF UpdateIfSame
  <2> HIDE DEF u
  <2>3. ui'.tree = u.tree
    BY <2>1, <2>2, StopFields DEF UpdateUI
  <2>4. \A p \in DOMAIN ui.tree : OnWay(ui.tree, p) => Synced(reg, ui.tree, p)
    BY <1>2, <2>1 DEF RInv
  <2>5. ASSUME NEW p \in DOMAIN u.tree, OnWay(u.tree, p) PROVE Synced(reg, u.tree, p)
    BY <2>2, <2>4, <2>5 DEF Leaves, Synced
  <2> QED
    BY <2>1, <2>3, <2>5 DEF OnWay, Synced
<1>3. RInv /\ [Next]_vars => RInv' /\ [RefreshEnd => Ends]_vars
  BY <1>2, RefreshStays
<1> QED
  BY <1>1, <1>3, PTL DEF Spec, RefreshSyncs

(* Refresh and the shown key.                                              *)

(* The nodes from the hive down to the shown one keep their handles.       *)
LEMMA ShownStaysOn ==
  ASSUME Sound(ui), Running, ShownStays, UNCHANGED reg, ui'.sel = ui.sel, ui'.cur = ui.cur,
         IsTree(ui'.tree),
         \A x \in DOMAIN ui.tree : IsPrefix(x, ui.cur) => ui'.tree[x].at = ui.tree[x].at
  PROVE  ShownStays'
<1>1. /\ Closed(ui.tree) /\ ui.cur \in DOMAIN ui.tree /\ IsTree(ui.tree)
      /\ DOMAIN ui.tree \subseteq Path /\ DOMAIN ui'.tree \subseteq Path
  BY UIFields DEF Sound, Running, IsTree
<1> SUFFICES ASSUME NEW q \in DOMAIN ui'.tree, IsPrefix(q, ui.cur)
             PROVE  /\ ui'.tree[q].at # Gone
                    /\ q # <<>> => q \notin Missing(reg, ui'.tree, Front(q))
  BY DEF ShownStays
<1>2. q \in DOMAIN ui.tree
  BY <1>1 DEF Closed
<1>3. ui'.tree[q].at = ui.tree[q].at /\ ui.tree[q].at # Gone
  BY <1>2 DEF ShownStays
<1>4. ASSUME q # <<>>, q \in Missing(reg, ui'.tree, Front(q)) PROVE FALSE
  <2>1. /\ Front(q) \in DOMAIN ui.tree /\ Front(q) \in Path /\ Last(q) \in Name
        /\ q = Append(Front(q), Last(q))
    BY <1>1, <1>2, <1>4, ParentInTree, ParentPath
  <2>2. IsPrefix(Front(q), ui.cur)
    <3>1. IsPrefix(Front(q), Append(Front(q), Last(q)))
      <4>1. PICK f \in Path, x \in Name : f = Front(q) /\ x = Last(q)
        BY <2>1
      <4>2. IsPrefix(f, Append(f, x))
        BY PrefixOfChild, PrefixReflexive
      <4> QED
        BY <4>1, <4>2
    <3> QED
      BY <1>1, <1>2, <2>1, <3>1, PrefixTransitive
  <2>3. ui'.tree[Front(q)].at = ui.tree[Front(q)].at
    BY <2>1, <2>2
  <2>4. q \in KidPaths(ui.tree, Front(q))
    BY <1>2, <2>1 DEF KidPaths, Kids
  <2>5. q \in Missing(reg, ui.tree, Front(q))
    BY <1>4, <2>3, <2>4 DEF Missing
  <2> QED
    BY <1>2, <1>4, <2>5 DEF ShownStays
<1> QED
  BY <1>3, <1>4

(* A node that is neither shown nor above the shown one takes nothing      *)
(* along, and the selection stays.                                         *)
LEMMA DeleteItemElsewhere ==
  ASSUME NEW r, NEW u, NEW p, u.sel # NoNode, u.sel = u.cur, ~IsPrefix(p, u.cur),
         NEW v \in DeleteItem(r, u, p)
  PROVE  v = Stop(u, "wiped") \/ v = [u EXCEPT !.tree = Pruned(u.tree, p)]
BY DEF DeleteItem, Pruned

(* New nodes change no node there is, nor the selection.                   *)
LEMMA AddNewKeysPlaces ==
  ASSUME NEW r, NEW u, Sound(u), u.status = "running", NEW p \in DOMAIN u.tree
  PROVE  LET v == AddNewKeys(r, u, p)
         IN  /\ v.sel = u.sel /\ v.cur = u.cur /\ v.status = u.status
             /\ \A x \in DOMAIN u.tree : v.tree[x].at = u.tree[x].at
<1> DEFINE t     == u.tree
           found == IF t[p].at = Gone THEN {} ELSE SubKeys(r, t[p].at)
           fresh == IF Cardinality(found) = Cardinality(Kids(t, p)) THEN {} ELSE found \ Kids(t, p)
           full  == AddChildren(t, p, fresh)
           listed == [q \in DOMAIN full |->
                        IF q \in {Append(p, x) : x \in fresh} THEN AddItem(r, full[q]) ELSE full[q]]
           w == [u EXCEPT !.tree = listed]
<1>1. fresh \in SUBSET Name /\ (fresh = {} \/ t[p].at # Gone)
  BY DEF SubKeys
<1>2. IsTree(t) /\ Closed(t) /\ IsUI(u)
  BY UIFields DEF Sound
<1>3. AddNewKeys(r, u, p) = w
  BY DEF AddNewKeys
<1>4. w.sel = u.sel /\ w.cur = u.cur /\ w.status = u.status /\ w.tree = listed
  BY <1>2 DEF IsUI
<1> HIDE DEF fresh, w
<1>5. DOMAIN t \subseteq DOMAIN full /\ \A q \in DOMAIN t : full[q] = t[q]
  BY DEF AddChildren
<1>6. IsTree(full)
  BY <1>1, <1>2, AddChildrenTree
<1> HIDE DEF full
<1>7. \A q \in DOMAIN full : AddItem(r, full[q]).at = full[q].at
  BY <1>6 DEF AddItem, IsTree, Node
<1>8. \A q \in DOMAIN t : listed[q].at = t[q].at
  BY <1>5, <1>7
<1> QED
  BY <1>3, <1>4, <1>8

(* The view is updated with a key that is there.                           *)
LEMMA UpdateShown ==
  ASSUME NEW r, NEW u, Sound(u), u.status = "running", u.sel = u.cur, u.tree[u.cur].at # Gone,
         u.sel # NoNode, NEW allow
  PROVE  UpdateUI(allow, UpdateIfSame(r, u, u.sel)).status = "running"
<1> DEFINE t == Expand(r, u.tree, u.cur)
<1>1. IsUI(u) /\ IsTree(u.tree) /\ Closed(u.tree) /\ u.cur \in DOMAIN u.tree
  BY UIFields DEF Sound
<1>2. t[u.cur].at = u.tree[u.cur].at
  <2> DEFINE listed == IF u.tree[u.cur].at = Gone THEN {} ELSE SubKeys(r, u.tree[u.cur].at) \ {DeletedKey}
             v == AddChildren(u.tree, u.cur, listed)
  <2>1. t = IF Kids(u.tree, u.cur) # {} THEN u.tree ELSE [v EXCEPT ![u.cur].expanded = TRUE]
    BY DEF Expand
  <2>2. u.cur \in DOMAIN v /\ v[u.cur] = u.tree[u.cur] /\ u.tree[u.cur] \in Node
    BY <1>1 DEF AddChildren, IsTree
  <2> HIDE DEF v
  <2>3. [v[u.cur] EXCEPT !.expanded = TRUE].at = u.tree[u.cur].at
    BY <2>2 DEF Node
  <2>4. [v EXCEPT ![u.cur].expanded = TRUE][u.cur].at = u.tree[u.cur].at
    BY <2>2, <2>3
  <2> QED
    BY <2>1, <2>4
<1> HIDE DEF t
<1>3. UpdateIfSame(r, u, u.sel) = [u EXCEPT !.tree = t, !.cur = u.cur, !.rows = KidPaths(t, u.cur)]
  BY <1>2 DEF UpdateIfSame, Update, t
<1>4. PICK w : w = UpdateIfSame(r, u, u.sel)
  OBVIOUS
<1>5. w.status = "running" /\ w.sel # NoNode
  BY <1>1, <1>3, <1>4 DEF IsUI
<1> QED
  BY <1>4, <1>5 DEF UpdateUI

(* Keys that other processes deleted elsewhere never make a Refresh hang   *)
(* in CView::Update, leave the view with a freed node or lose the          *)
(* selection, for any hive and any number of changes: while the shown key  *)
(* stays, Refresh goes on, and ends with the program running or with the   *)
(* tree wiped by the removal of a node that has no item.                   *)
THEOREM RefreshSparesTheShownKey == Spec => RefreshSparesShown
<1> DEFINE Spares == Running /\ refreshing /\ ShownStays =>
                       \/ ui'.status = "wiped"
                       \/ Running' /\ (refreshing' => ShownStays')
<1>1. ASSUME IInv, [Next]_vars, Running, refreshing, ShownStays
      PROVE  ui'.status = "wiped" \/ (Running' /\ (refreshing' => ShownStays'))
  <2>1. /\ Sound(ui) /\ IsUI(ui) /\ ui.status = "running" /\ ui.sel = ui.cur /\ ui.sel # NoNode
        /\ ui.cur \in DOMAIN ui.tree /\ ui.cur \in Path /\ IsTree(ui.tree) /\ Closed(ui.tree)
        /\ todo \subseteq DOMAIN ui.tree /\ DOMAIN ui.tree \subseteq Path
    BY <1>1, UIFields DEF IInv, Sound, Running, ShownStays, IsTree
  <2>2. CASE UNCHANGED vars
    BY <1>1, <2>2 DEF vars, refresh, Running, ShownStays
  <2>3. ASSUME NEW p \in todo, RefreshRemove(p)
        PROVE  ui'.status = "wiped" \/ (Running' /\ ShownStays')
    <3>1. PICK q \in Missing(reg, ui.tree, p) : ui' \in DeleteItem(reg, ui, q)
      BY <2>3 DEF RefreshRemove
    <3>2. q \in DOMAIN ui.tree /\ q # <<>> /\ Front(q) = p /\ p \in Path
      BY <2>1, <3>1, KidFacts DEF Missing
    <3>3. ~IsPrefix(q, ui.cur)
      BY <1>1, <3>1, <3>2 DEF ShownStays
    <3>4. ui' = Stop(ui, "wiped") \/ ui' = [ui EXCEPT !.tree = Pruned(ui.tree, q)]
      BY <2>1, <3>1, <3>3, DeleteItemElsewhere
    <3>5. CASE ui' = Stop(ui, "wiped")
      BY <2>1, <3>5, StopFields
    <3>6. CASE ui' = [ui EXCEPT !.tree = Pruned(ui.tree, q)]
      <4>1. IsTree(Pruned(ui.tree, q))
        BY <2>1, <3>2, PrunedTree DEF Pruned
      <4>2. /\ ui'.tree = Pruned(ui.tree, q) /\ ui'.sel = ui.sel /\ ui'.cur = ui.cur
            /\ ui'.status = "running"
        BY <2>1, <3>6, <4>1, NewTree
      <4>3. ASSUME NEW x \in DOMAIN ui.tree, IsPrefix(x, ui.cur)
            PROVE  ui'.tree[x].at = ui.tree[x].at
        <5>1. ~IsPrefix(q, x)
          BY <2>1, <3>2, <3>3, <4>3, PrefixTransitive
        <5> QED
          BY <4>2, <5>1 DEF Pruned
      <4>4. UNCHANGED reg
        BY <2>3 DEF RefreshRemove
      <4> QED
        BY <1>1, <2>1, <4>1, <4>2, <4>3, <4>4, ShownStaysOn DEF Running
    <3> QED
      BY <3>4, <3>5, <3>6
  <2>4. ASSUME NEW p \in todo, RefreshAdd(p) PROVE Running' /\ ShownStays'
    <3>1. ui' = AddNewKeys(reg, ui, p) /\ UNCHANGED reg /\ p \in DOMAIN ui.tree
      BY <2>1, <2>4 DEF RefreshAdd
    <3>2. IsTree(ui'.tree)
      BY <2>1, <3>1, AddNewKeysSound, UIFields DEF Sound
    <3>3. /\ ui'.sel = ui.sel /\ ui'.cur = ui.cur /\ ui'.status = ui.status
          /\ \A x \in DOMAIN ui.tree : ui'.tree[x].at = ui.tree[x].at
      BY <2>1, <3>1, AddNewKeysPlaces
    <3> QED
      BY <1>1, <2>1, <3>1, <3>2, <3>3, ShownStaysOn DEF Running
  <2>5. CASE RefreshEnd
    <3>1. ui' = UpdateUI(allowModify, UpdateIfSame(reg, ui, ui.sel)) /\ refreshing' = FALSE
      BY <2>5 DEF RefreshEnd
    <3>2. ui.tree[ui.cur].at # Gone
      BY <1>1, <2>1, PrefixReflexive DEF ShownStays
    <3> QED
      BY <2>1, <3>1, <3>2, UpdateShown DEF Running
  <2>6. CASE OnRefresh \/ Look \/ EditKeys \/ (\E x \in Name : OnEndRename(x)) \/ Others
    BY <1>1, <2>6 DEF OnRefresh, Look, EditKeys, Others, AtRest,
       OnTreeSelectionChanged, SelectPlaceholder, OnTreeItemExpanding, OnDoubleClick, UpDir, Browse,
       OnEditModify, OnNewKey, OnEndRename, OnEditUndo, OnEditRedo, ExternalCreate, ExternalDelete
  <2> QED
    BY <1>1, <2>2, <2>3, <2>4, <2>5, <2>6 DEF Next, NextAlone, NextNoRename, RefreshStep
<1>2. IInv /\ [Next]_vars => [Spares]_vars
  BY <1>1
<1> QED
  BY <1>2, SpecInv, PTL DEF Spec, RefreshSparesShown

-----------------------------------------------------------------------------
(* The handlers use the stacks as CommandManager.tla says.                 *)

Ids == {Identity(c) : c \in Command}

LEMMA IdsType ==
  ASSUME NEW s \in Seq(Command)
  PROVE  /\ IdentityOf(s) \in Seq(Ids) /\ Len(IdentityOf(s)) = Len(s)
         /\ \A i \in 1 .. Len(s) : IdentityOf(s)[i] = Identity(s[i])
<1>1. Len(s) \in Nat /\ DOMAIN s = 1 .. Len(s) /\ \A i \in 1 .. Len(s) : s[i] \in Command
  BY LenProperties, ElementOfSeq
<1>2. PICK t : t = [i \in 1 .. Len(s) |-> Identity(s[i])]
  OBVIOUS
<1>3. \A i \in 1 .. Len(s) : Identity(s[i]) \in Ids
  BY <1>1 DEF Ids
<1>4. t \in Seq(Ids) /\ Len(t) = Len(s) /\ \A i \in 1 .. Len(s) : t[i] = Identity(s[i])
  BY <1>1, <1>2, <1>3
<1>5. IdentityOf(s) = t
  BY <1>1, <1>2 DEF IdentityOf
<1> QED
  BY <1>4, <1>5

(* A command that is added to a stack, or taken from it, is so in the      *)
(* stack of identities too.                                                *)
LEMMA IdsAppend ==
  ASSUME NEW s \in Seq(Command), NEW c \in Command
  PROVE  IdentityOf(Append(s, c)) = Append(IdentityOf(s), Identity(c))
<1>1. PICK t : t = Append(s, c)
  OBVIOUS
<1>2. /\ t \in Seq(Command) /\ Len(t) = Len(s) + 1 /\ t[Len(s) + 1] = c
      /\ \A i \in 1 .. Len(s) : t[i] = s[i]
  BY <1>1, AppendProperties
<1>3. /\ IdentityOf(t) \in Seq(Ids) /\ Len(IdentityOf(t)) = Len(s) + 1
      /\ \A i \in 1 .. Len(s) + 1 : IdentityOf(t)[i] = Identity(t[i])
  BY <1>2, IdsType
<1>4. PICK x \in Ids : x = Identity(c)
  BY DEF Ids
<1>5. PICK u : u = Append(IdentityOf(s), x)
  OBVIOUS
<1>6. /\ IdentityOf(s) \in Seq(Ids) /\ Len(IdentityOf(s)) = Len(s) /\ Len(s) \in Nat
      /\ \A i \in 1 .. Len(s) : IdentityOf(s)[i] = Identity(s[i])
  BY IdsType, LenProperties
<1>7. /\ u \in Seq(Ids) /\ Len(u) = Len(s) + 1 /\ u[Len(s) + 1] = x
      /\ \A i \in 1 .. Len(s) : u[i] = IdentityOf(s)[i]
  BY <1>5, <1>6, AppendProperties
<1>8. ASSUME NEW i \in 1 .. Len(s) + 1 PROVE IdentityOf(t)[i] = u[i]
  <2>1. CASE i = Len(s) + 1
    BY <1>2, <1>3, <1>4, <1>7, <2>1
  <2>2. CASE i # Len(s) + 1
    <3>1. i \in 1 .. Len(s)
      BY <1>6, <2>2
    <3> QED
      BY <1>2, <1>3, <1>6, <1>7, <3>1
  <2> QED
    BY <2>1, <2>2
<1>9. IdentityOf(t) = u
  BY <1>3, <1>7, <1>8, SeqEqual
<1> QED
  BY <1>1, <1>4, <1>5, <1>9

LEMMA IdsLast ==
  ASSUME NEW s \in Seq(Command), s # <<>>
  PROVE  /\ IdentityOf(s) # <<>>
         /\ Last(IdentityOf(s)) = Identity(Last(s))
         /\ Front(IdentityOf(s)) = IdentityOf(Front(s))
<1>1. PICK f \in Seq(Command), c \in Command : s = Append(f, c)
  BY SequenceEmptyOrAppend
<1>2. Last(s) = c /\ Front(s) = f
  BY <1>1, AppendProperties DEF Last, Front
<1>3. IdentityOf(s) = Append(IdentityOf(f), Identity(c))
  BY <1>1, IdsAppend
<1>4. PICK x \in Ids, t \in Seq(Ids) : x = Identity(c) /\ t = IdentityOf(f)
  BY IdsType DEF Ids
<1>5. Append(t, x) # <<>> /\ Last(Append(t, x)) = x /\ Front(Append(t, x)) = t
  BY AppendProperties DEF Last, Front
<1> QED
  BY <1>2, <1>3, <1>4, <1>5

(* No key lies deeper than the bound, and no command on a stack makes one. *)
Shallow(r) == \A p \in r : Len(p) <= MaxDepth

Modest(c) == /\ c.path # <<>>
             /\ c.op = "create" => Len(c.path) < MaxDepth

DInv == /\ IInv
        /\ Shallow(reg)
        /\ \A i \in 1 .. Len(undoList) : Modest(undoList[i])
        /\ \A i \in 1 .. Len(redoList) : Modest(redoList[i])

(* The command that a rename is afterwards is the same command.            *)
LEMMA DoneSame ==
  ASSUME NEW c \in Command, c.path # <<>>
  PROVE  /\ Done(c) \in Command
         /\ Identity(Done(c)) = Identity(c)
         /\ Modest(c) => Modest(Done(c))
<1>1. c.path \in Path /\ c.name \in Name /\ c.op \in {"create", "rename"}
  BY DEF Command
<1>2. PICK n : n = Last(c.path)
  OBVIOUS
<1>3. PICK f : f = Front(c.path)
  OBVIOUS
<1>4. n \in Name /\ f \in Path /\ c.path = Append(f, n)
  BY <1>1, <1>2, <1>3, ParentPath
<1>5. PICK q : q = Append(f, c.name)
  OBVIOUS
<1>6. q \in Path /\ q # <<>> /\ Front(q) = f /\ Last(q) = c.name
  BY <1>1, <1>4, <1>5, ChildPath
<1>7. CASE c.op = "create"
  BY <1>7 DEF Done
<1>8. CASE c.op = "rename"
  <2>1. PICK d : d = [c EXCEPT !.path = q, !.name = n]
    OBVIOUS
  <2>2. d \in Command /\ d.op = "rename" /\ d.path = q /\ d.name = n
    BY <1>4, <1>6, <1>8, <2>1 DEF Command
  <2>3. Done(c) = d
    BY <1>2, <1>3, <1>5, <1>8, <2>1 DEF Done
  <2>4. Identity(c) = [op |-> "rename", paths |-> {c.path, q}]
    BY <1>3, <1>5, <1>8 DEF Identity
  <2>5. Identity(d) = [op |-> "rename", paths |-> {q, c.path}]
    BY <1>4, <1>6, <2>2 DEF Identity
  <2>6. {c.path, q} = {q, c.path}
    OBVIOUS
  <2>7. Modest(d)
    BY <1>6, <2>2 DEF Modest
  <2> QED
    BY <2>2, <2>3, <2>4, <2>5, <2>6, <2>7
<1> QED
  BY <1>1, <1>7, <1>8

(* A command of a path that is not too deep is one that CommandManager may *)
(* be given.                                                               *)
LEMMA IdentityAllowed ==
  ASSUME NEW c \in Command, c.path # <<>>, Len(c.path) <= MaxDepth
  PROVE  Identity(c) \in Identities
<1>1. c.path \in Seq(Name) /\ c.name \in Name /\ c.op \in {"create", "rename"}
  BY DEF Command, Path
<1>2. Len(c.path) \in 0 .. MaxDepth /\ c.path \in [1 .. Len(c.path) -> Name]
  BY <1>1, LenProperties, BoundsAssumption
<1>3. c.path \in BoundedSeq(Name, MaxDepth) \ {<<>>}
  BY <1>2 DEF BoundedSeq, SeqOf
<1>4. c \in [op : {"create", "rename"}, path : BoundedSeq(Name, MaxDepth) \ {<<>>}, name : Name]
  BY <1>1, <1>3 DEF Command
<1> QED
  BY <1>4 DEF Identities

-----------------------------------------------------------------------------
(* The depth of keys.                                                      *)

LEMMA CreateShallow ==
  ASSUME NEW r, Shallow(r), NEW u, NEW path \in Path, NEW name \in Name, Len(path) < MaxDepth,
         NEW o \in CreateKey(r, u, path, name)
  PROVE  Shallow(o.reg) /\ (o.ok => path # <<>>)
<1>1. PICK q : q = Append(path, name)
  OBVIOUS
<1>2. PICK made : made = r \union {SubSeq(q, 1, n) : n \in 0 .. Len(q)}
  OBVIOUS
<1>3. q \in Seq(Name) /\ Len(q) = Len(path) + 1 /\ Len(path) \in Nat
  BY <1>1, AppendProperties, LenProperties DEF Path
<1>4. ASSUME NEW n \in 0 .. Len(q) PROVE Len(SubSeq(q, 1, n)) <= MaxDepth
  <2>1. \A i \in 1 .. n : q[i] \in Name
    BY <1>3, ElementOfSeq
  <2>2. Len(SubSeq(q, 1, n)) = n
    BY <1>3, <2>1, SubSeqProperties
  <2> QED
    BY <1>3, <2>2, BoundsAssumption
<1>5. Shallow(made)
  BY <1>2, <1>4 DEF Shallow
<1>6. CASE path = <<>>
  <2>1. o = Outcome(r, Stop(u, "noRoot"), FALSE)
    BY <1>6 DEF CreateKey
  <2> QED
    BY <2>1 DEF Outcome
<1>7. CASE path # <<>>
  <2>1. o.reg \in {r, made}
    BY <1>1, <1>2, <1>7 DEF CreateKey, Outcome
  <2> QED
    BY <1>5, <1>7, <2>1
<1> QED
  BY <1>6, <1>7

LEMMA DeleteShallow ==
  ASSUME NEW r, Shallow(r), NEW u, NEW path, NEW name,
         NEW o \in DeleteKey(r, u, path, name)
  PROVE  Shallow(o.reg) /\ (o.ok => path # <<>>)
<1>1. PICK left : left = r \ {Append(path, name)}
  OBVIOUS
<1>2. Shallow(left)
  BY <1>1 DEF Shallow
<1>3. CASE path = <<>>
  <2>1. o = Outcome(r, Stop(u, "noRoot"), FALSE)
    BY <1>3 DEF DeleteKey
  <2> QED
    BY <2>1 DEF Outcome
<1>4. CASE path # <<>>
  <2>1. o.reg \in {r, left}
    BY <1>1, <1>4 DEF DeleteKey, Outcome
  <2> QED
    BY <1>2, <1>4, <2>1
<1> QED
  BY <1>3, <1>4

LEMMA RebaseLength ==
  ASSUME NEW p \in Path, NEW q \in Path, Len(q) = Len(p), NEW x \in Path
  PROVE  Len(Rebase(p, q, x)) = Len(x)
<1>1. CASE IsPrefix(p, x)
  <2>1. PICK s \in Path : x = Below(p, s)
    BY <1>1, PrefixBelow
  <2>2. Rebase(p, q, x) = Below(q, s)
    BY <2>1, RebaseBelow
  <2>3. Len(x) = Len(p) + Len(s) /\ Len(Below(q, s)) = Len(q) + Len(s)
    BY <2>1, ConcatProperties DEF Below, Path
  <2> QED
    BY <2>2, <2>3
<1> QED
  BY <1>1, RebaseElsewhere

LEMMA RenameShallow ==
  ASSUME NEW r \in SUBSET Path, Shallow(r), NEW u, NEW path \in Path, NEW name \in Name,
         NEW o \in RenameKey(r, u, path, name)
  PROVE  Shallow(o.reg) /\ (o.ok => path # <<>> /\ path \in r)
<1>1. PICK q : q = Append(Front(path), name)
  OBVIOUS
<1>2. PICK moved : moved = {Rebase(path, q, x) : x \in r}
  OBVIOUS
<1>3. ASSUME path # <<>> PROVE Shallow(moved)
  <2>1. /\ Front(path) \in Path /\ path = Append(Front(path), Last(path)) /\ Last(path) \in Name
    BY <1>3, ParentPath
  <2>2. q \in Path /\ Len(q) = Len(path)
    BY <1>1, <2>1, ChildPath, AppendProperties DEF Path
  <2>3. \A x \in r : Len(Rebase(path, q, x)) = Len(x)
    BY <2>2, RebaseLength
  <2> QED
    BY <1>2, <2>3 DEF Shallow
<1>4. CASE path = <<>>
  <2>1. o = Outcome(r, Stop(u, "noRoot"), FALSE)
    BY <1>4 DEF RenameKey
  <2> QED
    BY <2>1 DEF Outcome
<1>5. CASE path # <<>>
  <2>1. o = Outcome(r, u, FALSE) \/ (path \in r /\ o.reg = moved)
    BY <1>1, <1>2, <1>5 DEF RenameKey, Outcome
  <2>2. (o.reg = r /\ ~o.ok) \/ (path \in r /\ o.reg = moved)
    BY <2>1 DEF Outcome
  <2> QED
    BY <1>3, <1>5, <2>2
<1> QED
  BY <1>4, <1>5

LEMMA CommandShallow ==
  ASSUME NEW r \in SUBSET Path, Shallow(r), NEW u, NEW c \in Command,
         c.op = "create" => Len(c.path) < MaxDepth,
         NEW o \in Execute(r, u, c) \union UndoCommand(r, u, c)
  PROVE  /\ Shallow(o.reg)
         /\ o.ok => c.path # <<>> /\ Len(c.path) <= MaxDepth
<1>1. c.path \in Path /\ c.name \in Name /\ c.op \in {"create", "rename"} /\ Len(c.path) \in Nat
  BY LenProperties DEF Command, Path
<1>2. CASE c.op = "create"
  <2>1. o \in CreateKey(r, u, c.path, c.name) \union DeleteKey(r, u, c.path, c.name)
    BY <1>2 DEF Execute, UndoCommand
  <2>2. Shallow(o.reg) /\ (o.ok => c.path # <<>>)
    BY <1>1, <1>2, <2>1, CreateShallow, DeleteShallow
  <2> QED
    BY <1>1, <1>2, <2>2, BoundsAssumption
<1>3. CASE c.op = "rename"
  <2>1. o \in RenameKey(r, u, c.path, c.name)
    BY <1>3 DEF Execute, UndoCommand
  <2>2. Shallow(o.reg) /\ (o.ok => c.path # <<>> /\ c.path \in r)
    BY <1>1, <2>1, RenameShallow
  <2> QED
    BY <2>2 DEF Shallow
<1> QED
  BY <1>1, <1>2, <1>3

-----------------------------------------------------------------------------
(* The steps.                                                              *)

UsesStacks == [Stacks!Next]_(Stacks!vars)

(* What a step does to the depths, given what it does to registry and      *)
(* stacks.                                                                 *)
Stays == Shallow(reg') /\ (\A i \in 1 .. Len(undoList') : Modest(undoList'[i]))
                       /\ (\A i \in 1 .. Len(redoList') : Modest(redoList'[i]))

LEMMA SameLists ==
  ASSUME DInv, UNCHANGED lists, Shallow(reg')
  PROVE  UsesStacks /\ Stays
  BY DEF DInv, lists, UsesStacks, Stacks!vars, Stays

LEMMA AllModest ==
  ASSUME NEW s \in Seq(Command), \A i \in 1 .. Len(s) : Modest(s[i])
  PROVE  /\ \A c \in Command : Modest(c) =>
              \A i \in 1 .. Len(Append(s, c)) : Modest(Append(s, c)[i])
         /\ s # <<>> => /\ Modest(Last(s))
                        /\ \A i \in 1 .. Len(Front(s)) : Modest(Front(s)[i])
<1>1. ASSUME NEW c \in Command, Modest(c), NEW i \in 1 .. Len(Append(s, c))
      PROVE  Modest(Append(s, c)[i])
  <2>1. PICK t : t = Append(s, c)
    OBVIOUS
  <2>2. Len(t) = Len(s) + 1 /\ t[Len(s) + 1] = c /\ \A j \in 1 .. Len(s) : t[j] = s[j]
    BY <2>1, AppendProperties
  <2>3. i \in 1 .. Len(s) \/ i = Len(s) + 1
    BY <1>1, <2>1, <2>2, LenProperties
  <2> QED
    BY <1>1, <2>1, <2>2, <2>3
<1>2. ASSUME s # <<>>
      PROVE  Modest(Last(s)) /\ \A i \in 1 .. Len(Front(s)) : Modest(Front(s)[i])
  <2>1. PICK f \in Seq(Command), e \in Command : s = Append(f, e)
    BY <1>2, SequenceEmptyOrAppend
  <2>2. Last(s) = e /\ Front(s) = f
    BY <2>1, AppendProperties DEF Last, Front
  <2>3. Len(s) = Len(f) + 1 /\ s[Len(f) + 1] = e /\ \A j \in 1 .. Len(f) : s[j] = f[j]
    BY <2>1, AppendProperties
  <2>4. Len(f) \in Nat
    BY LenProperties
  <2> QED
    BY <2>2, <2>3, <2>4
<1> QED
  BY <1>1, <1>2

LEMMA AddUses ==
  ASSUME DInv, AtRest, NEW c \in Command, AddCommand(c),
         c.op = "create" => Len(c.path) < MaxDepth
  PROVE  UsesStacks /\ Stays
<1>1. PICK o \in Execute(reg, ui, c) :
        /\ reg' = o.reg
        /\ IF o.ok THEN undoList' = Append(undoList, Done(c)) /\ redoList' = <<>>
                   ELSE UNCHANGED lists
  BY DEF AddCommand
<1>2. /\ undoList \in Seq(Command) /\ redoList \in Seq(Command) /\ reg \in SUBSET Path
      /\ Shallow(reg) /\ \A i \in 1 .. Len(undoList) : Modest(undoList[i])
  BY DEF DInv, IInv, TypeOK
<1>3. Shallow(reg') /\ (o.ok => c.path # <<>> /\ Len(c.path) <= MaxDepth)
  BY <1>1, <1>2, CommandShallow
<1>4. CASE o.ok
  <2>1. /\ undoList' = Append(undoList, Done(c)) /\ redoList' = <<>>
        /\ Done(c) \in Command /\ Identity(Done(c)) = Identity(c) /\ Modest(Done(c))
        /\ Identity(c) \in Identities
    BY <1>1, <1>3, <1>4, DoneSame, IdentityAllowed DEF Modest
  <2>2. Stays
    BY <1>2, <1>3, <2>1, AllModest DEF Stays
  <2>3. IdentityOf(undoList') = Append(IdentityOf(undoList), Identity(c))
    BY <1>2, <2>1, IdsAppend
  <2>4. IdentityOf(redoList') = <<>>
    BY <2>1 DEF IdentityOf
  <2>5. Len(IdentityOf(undoList)) < MaxCommands
    BY <1>2, IdsType DEF AddCommand
  <2>6. Stacks!AddCommand(Identity(c), TRUE, TRUE)
    BY <2>3, <2>4, <2>5 DEF Stacks!AddCommand
  <2> QED
    BY <2>1, <2>2, <2>6 DEF UsesStacks, Stacks!Next
<1>5. CASE ~o.ok
  BY <1>1, <1>3, <1>5, SameLists
<1> QED
  BY <1>4, <1>5

LEMMA UndoUses ==
  ASSUME DInv, OnEditUndo
  PROVE  UsesStacks /\ Stays
<1>1. /\ undoList \in Seq(Command) /\ redoList \in Seq(Command) /\ reg \in SUBSET Path
      /\ Shallow(reg) /\ \A i \in 1 .. Len(undoList) : Modest(undoList[i])
      /\ \A i \in 1 .. Len(redoList) : Modest(redoList[i])
  BY DEF DInv, IInv, TypeOK
<1>2. PICK c : c = Last(undoList)
  OBVIOUS
<1>3. undoList # <<>> /\ c \in Command /\ Modest(c)
  BY <1>1, <1>2, FrontLastType, AllModest DEF OnEditUndo
<1>4. PICK o \in UndoCommand(reg, ui, c) :
        /\ reg' = o.reg
        /\ IF o.ok THEN undoList' = Front(undoList) /\ redoList' = Append(redoList, Done(c))
                   ELSE UNCHANGED lists
  BY <1>2 DEF OnEditUndo, Rerun
<1>5. Shallow(reg')
  BY <1>1, <1>3, <1>4, CommandShallow DEF Modest
<1>6. CASE o.ok
  <2>1. /\ undoList' = Front(undoList) /\ redoList' = Append(redoList, Done(c))
        /\ Done(c) \in Command /\ Identity(Done(c)) = Identity(c) /\ Modest(Done(c))
    BY <1>3, <1>4, <1>6, DoneSame DEF Modest
  <2>2. Stays
    BY <1>1, <1>3, <1>5, <2>1, AllModest DEF Stays
  <2>3. IdentityOf(redoList') = Append(IdentityOf(redoList), Last(IdentityOf(undoList)))
    BY <1>1, <1>2, <1>3, <2>1, IdsAppend, IdsLast
  <2>4. IdentityOf(undoList) # <<>> /\ IdentityOf(undoList') = Front(IdentityOf(undoList))
    BY <1>1, <1>3, <2>1, IdsLast
  <2>5. Stacks!Undo(TRUE)
    BY <2>3, <2>4 DEF Stacks!Undo, Stacks!Last, Stacks!Front, Last, Front
  <2> QED
    BY <2>2, <2>5 DEF UsesStacks, Stacks!Next
<1>7. CASE ~o.ok
  BY <1>4, <1>5, <1>7, SameLists
<1> QED
  BY <1>6, <1>7

LEMMA RedoUses ==
  ASSUME DInv, OnEditRedo
  PROVE  UsesStacks /\ Stays
<1>1. /\ undoList \in Seq(Command) /\ redoList \in Seq(Command) /\ reg \in SUBSET Path
      /\ Shallow(reg) /\ \A i \in 1 .. Len(undoList) : Modest(undoList[i])
      /\ \A i \in 1 .. Len(redoList) : Modest(redoList[i])
  BY DEF DInv, IInv, TypeOK
<1>2. PICK c : c = Last(redoList)
  OBVIOUS
<1>3. redoList # <<>> /\ c \in Command /\ Modest(c)
  BY <1>1, <1>2, FrontLastType, AllModest DEF OnEditRedo
<1>4. PICK o \in Execute(reg, ui, c) :
        /\ reg' = o.reg
        /\ IF o.ok THEN undoList' = Append(undoList, Done(c)) /\ redoList' = Front(redoList)
                   ELSE UNCHANGED lists
  BY <1>2 DEF OnEditRedo, Rerun
<1>5. Shallow(reg')
  BY <1>1, <1>3, <1>4, CommandShallow DEF Modest
<1>6. CASE o.ok
  <2>1. /\ redoList' = Front(redoList) /\ undoList' = Append(undoList, Done(c))
        /\ Done(c) \in Command /\ Identity(Done(c)) = Identity(c) /\ Modest(Done(c))
    BY <1>3, <1>4, <1>6, DoneSame DEF Modest
  <2>2. Stays
    BY <1>1, <1>3, <1>5, <2>1, AllModest DEF Stays
  <2>3. IdentityOf(undoList') = Append(IdentityOf(undoList), Last(IdentityOf(redoList)))
    BY <1>1, <1>2, <1>3, <2>1, IdsAppend, IdsLast
  <2>4. IdentityOf(redoList) # <<>> /\ IdentityOf(redoList') = Front(IdentityOf(redoList))
    BY <1>1, <1>3, <2>1, IdsLast
  <2>5. Stacks!Redo(TRUE)
    BY <2>3, <2>4 DEF Stacks!Redo, Stacks!Last, Stacks!Front, Last, Front
  <2> QED
    BY <2>2, <2>5 DEF UsesStacks, Stacks!Next
<1>7. CASE ~o.ok
  BY <1>4, <1>5, <1>7, SameLists
<1> QED
  BY <1>6, <1>7

LEMMA NextUses ==
  DInv /\ [Next]_vars => UsesStacks /\ Stays
<1> SUFFICES ASSUME DInv, [Next]_vars PROVE UsesStacks /\ Stays
  OBVIOUS
<1> USE DEF Command
<1>1. ASSUME NEW x \in Name, OnNewKey(x) PROVE UsesStacks /\ Stays
  <2> DEFINE c == [op |-> "create", path |-> ui.tree[ui.sel].full, name |-> x]
  <2>1. AtRest /\ ui.sel # NoNode /\ AddCommand(c) /\ Len(ui.tree[ui.sel].full) < MaxDepth
    BY <1>1 DEF OnNewKey
  <2>2. c \in Command /\ Len(c.path) < MaxDepth
    BY <2>1, AtRestInv, NodeFields DEF DInv
  <2> HIDE DEF c
  <2> QED
    BY <2>1, <2>2, AddUses
<1>2. ASSUME NEW x \in Name, OnEndRename(x) PROVE UsesStacks /\ Stays
  <2> DEFINE c == [op |-> "rename", path |-> ui.tree[ui.sel].full, name |-> x]
  <2>1. AtRest /\ ui.sel # NoNode /\ AddCommand(c)
    BY <1>2 DEF OnEndRename
  <2>2. c \in Command /\ c.op = "rename"
    BY <2>1, AtRestInv, NodeFields DEF DInv
  <2> HIDE DEF c
  <2> QED
    BY <2>1, <2>2, AddUses
<1> HIDE DEF Command
<1>3. CASE Look \/ OnRefresh \/ RefreshStep \/ UNCHANGED vars
  <2>1. reg' = reg /\ UNCHANGED lists
    BY <1>3 DEF Look, OnRefresh, RefreshStep, RefreshRemove, RefreshAdd, RefreshEnd, vars, lists,
       OnTreeSelectionChanged, SelectPlaceholder, OnTreeItemExpanding, OnDoubleClick, UpDir,
       Browse, OnEditModify
  <2>2. Shallow(reg')
    BY <2>1 DEF DInv
  <2> QED
    BY <2>1, <2>2, SameLists
<1>4. ASSUME NEW p \in reg, NEW x \in Name, ExternalCreate(p, x) PROVE UsesStacks /\ Stays
  <2>1. /\ UNCHANGED lists /\ reg' = reg \union {Append(p, x)} /\ Len(p) < MaxDepth
        /\ p \in Seq(Name) /\ Shallow(reg)
    BY <1>4 DEF ExternalCreate, DInv, IInv, TypeOK, Path
  <2>2. Len(Append(p, x)) = Len(p) + 1 /\ Len(p) \in Nat
    BY <2>1, AppendProperties, LenProperties
  <2>3. Shallow(reg')
    BY <2>1, <2>2, BoundsAssumption DEF Shallow
  <2> QED
    BY <2>1, <2>3, SameLists
<1>5. ASSUME NEW p \in reg, ExternalDelete(p) PROVE UsesStacks /\ Stays
  <2>1. UNCHANGED lists /\ reg' = reg \ {p} /\ Shallow(reg)
    BY <1>5 DEF ExternalDelete, DInv
  <2>2. Shallow(reg')
    BY <2>1 DEF Shallow
  <2> QED
    BY <2>1, <2>2, SameLists
<1> QED
  BY <1>1, <1>2, <1>3, <1>4, <1>5, UndoUses, RedoUses DEF Next, NextAlone, NextNoRename, EditKeys, Others

(* Whatever the registry refuses, whatever other processes do and however  *)
(* the tree control ends up, New Key, Rename, Undo and Redo use the two    *)
(* stacks as CommandManager.tla says, a rename that swaps its own texts    *)
(* being one command: CMainFrame's handlers never lose, double or reorder  *)
(* a command.  The keys of the start are no deeper than the bound.         *)
THEOREM KeysUseTheStacks ==
  ASSUME \A p \in InitialKeys : Len(p) <= MaxDepth
  PROVE  Spec => UsesCommandManager
<1>1. Init => DInv
  <2> SUFFICES ASSUME Init PROVE DInv
    OBVIOUS
  <2>1. reg = InitialKeys /\ Len(undoList) = 0 /\ Len(redoList) = 0
    BY EmptySeq DEF Init
  <2> QED
    BY <2>1, InitInv DEF DInv, Shallow
<1>2. DInv /\ [Next]_vars => DInv'
  BY NextInv, NextUses DEF DInv, Stays
<1>3. Init => Stacks!Init
  BY DEF Init, Stacks!Init, IdentityOf
<1>4. DInv /\ [Next]_vars => [Stacks!Next]_(Stacks!vars)
  BY NextUses DEF UsesStacks
<1> QED
  BY <1>1, <1>2, <1>3, <1>4, PTL DEF Spec, Stacks!Spec, UsesCommandManager

-----------------------------------------------------------------------------
(* Worlds: which key stands where.  A key is an object that renames do not *)
(* change: the _full text its node has or would get, and the number of the *)
(* command that made it, 0 for the keys of the start.                      *)

World(M) ==
  /\ DOMAIN M \in SUBSET Path /\ ClosedSet(DOMAIN M) /\ <<>> \in DOMAIN M
  /\ \A y, z \in DOMAIN M : M[y] = M[z] => y = z

(* What SetParent would make of the parent's _full, for the keys that no   *)
(* command has named: K are those that one has.                            *)
Plain(M, K) ==
  \A y \in DOMAIN M : y # <<>> /\ M[y] \notin K => M[y].full = Child(M[Front(y)].full, Last(y))

BornBefore(M, i) == \A y \in DOMAIN M : M[y].born \in 0 .. i

TrueNames(M) == \A y \in DOMAIN M : M[y].full = y

(* The i-th command makes the key q, called x, below p.                    *)
Adds(p, x, q, i, M, L) ==
  /\ p \in DOMAIN M /\ p # <<>> /\ x \in Name /\ q = Child(p, x) /\ q \notin DOMAIN M
  /\ DOMAIN L = DOMAIN M \union {q}
  /\ \A y \in DOMAIN M : L[y] = M[y]
  /\ L[q] = [full |-> Child(M[p].full, x), born |-> i]

(* The key at p becomes the key at q.                                      *)
Moves(p, q, M, L) ==
  /\ Sibling(p, q) /\ p \in DOMAIN M /\ q \notin DOMAIN M
  /\ DOMAIN L = Moved(p, q, DOMAIN M)
  /\ \A y \in DOMAIN M : L[Rebase(p, q, y)] = M[y]

LEMMA ChildFacts ==
  ASSUME NEW p \in Path, NEW x \in Name, NEW q, q = Child(p, x)
  PROVE  q \in Path /\ q # <<>> /\ Front(q) = p /\ Last(q) = x /\ q # p
         /\ \A z \in Path : IsPrefix(z, q) <=> IsPrefix(z, p) \/ z = q
<1>1. q \in Path /\ q # <<>> /\ Front(q) = p /\ Last(q) = x
  BY ChildPath DEF Child
<1>2. \A z \in Path : IsPrefix(z, q) <=> IsPrefix(z, p) \/ z = q
  BY <1>1, PrefixOfNamed
<1>3. q # p
  BY <1>1, PrefixOfNamed, PrefixReflexive
<1> QED
  BY <1>1, <1>2, <1>3

(* Every path but the hive is a child.                                     *)
LEMMA ChildOfFront ==
  ASSUME NEW q \in Path, q # <<>>
  PROVE  Front(q) \in Path /\ Last(q) \in Name /\ q = Child(Front(q), Last(q))
  BY ParentPath DEF Child

LEMMA OnlyRootAboveRoot ==
  ASSUME NEW p \in Path
  PROVE  <<>> \in Path /\ (IsPrefix(p, <<>>) => p = <<>>)
<1>1. <<>> \in Path
  BY EmptySeq DEF Path
<1>2. IsPrefix(p, <<>>) => Len(p) <= Len(<<>>)
  BY <1>1, PrefixByElement
<1> QED
  BY <1>1, <1>2, EmptySeq DEF Path

LEMMA AddsWorld ==
  ASSUME NEW p, NEW x, NEW q, NEW i \in Nat \ {0}, NEW M, NEW L, Adds(p, x, q, i, M, L),
         World(M), BornBefore(M, i - 1)
  PROVE  World(L) /\ BornBefore(L, i)
<1>1. /\ p \in Path /\ q \in Path /\ q = Child(p, x) /\ DOMAIN L = DOMAIN M \union {q}
      /\ q \notin DOMAIN M /\ L[q].born = i /\ \A y \in DOMAIN M : L[y] = M[y]
      /\ \A z \in Path : IsPrefix(z, q) <=> IsPrefix(z, p) \/ z = q
  BY ChildFacts DEF Adds, World
<1>2. DOMAIN L \in SUBSET Path /\ <<>> \in DOMAIN L
  BY <1>1 DEF World
<1>3. ClosedSet(DOMAIN L)
  BY <1>1 DEF World, ClosedSet, Adds
<1>4. BornBefore(L, i)
  BY <1>1 DEF BornBefore
<1>5. ASSUME NEW y \in DOMAIN L, NEW z \in DOMAIN L, L[y] = L[z] PROVE y = z
  <2>1. \A k \in DOMAIN M : M[k].born # i
    BY DEF BornBefore
  <2>2. \A k \in DOMAIN M : L[k] # L[q]
    BY <1>1, <2>1
  <2> QED
    BY <1>1, <1>5, <2>2 DEF World
<1> QED
  BY <1>2, <1>3, <1>4, <1>5 DEF World

LEMMA MovesWorld ==
  ASSUME NEW p, NEW q, NEW M, NEW L, Moves(p, q, M, L), World(M)
  PROVE  World(L) /\ Moves(q, p, L, M) /\ \A i : BornBefore(M, i) => BornBefore(L, i)
<1> DEFINE S == DOMAIN M
<1>1. /\ Sibling(p, q) /\ Sibling(q, p) /\ S \in SUBSET Path /\ ClosedSet(S) /\ p \in S /\ q \notin S
      /\ DOMAIN L = Moved(p, q, S) /\ <<>> \in S
  BY SiblingFacts DEF Moves, World
<1>2. /\ DOMAIN L \in SUBSET Path /\ ClosedSet(DOMAIN L) /\ q \in DOMAIN L /\ p \notin DOMAIN L
      /\ Moved(q, p, DOMAIN L) = S
      /\ \A y \in S : ~IsPrefix(q, y) /\ Rebase(q, p, Rebase(p, q, y)) = y
      /\ \A z \in DOMAIN L :
           Rebase(q, p, z) \in S /\ Rebase(p, q, Rebase(q, p, z)) = z /\ ~IsPrefix(p, z)
  BY <1>1, MovedSet
<1>3. \A y \in S : L[Rebase(p, q, y)] = M[y]
  BY DEF Moves
<1> HIDE DEF S
<1>4. \A z \in DOMAIN L : L[z] = M[Rebase(q, p, z)]
  BY <1>2, <1>3
<1>5. <<>> \in DOMAIN L
  <2>1. IsPrefix(<<>>, q)
    BY <1>1, PrefixReflexive DEF Sibling
  <2> QED
    BY <1>1, <1>2, <2>1 DEF ClosedSet
<1>6. \A y, z \in DOMAIN L : L[y] = L[z] => y = z
  <2> SUFFICES ASSUME NEW y \in DOMAIN L, NEW z \in DOMAIN L, L[y] = L[z] PROVE y = z
    OBVIOUS
  <2>1. Rebase(q, p, y) = Rebase(q, p, z)
    BY <1>2, <1>4 DEF World, S
  <2> QED
    BY <1>2, <2>1
<1>7. Moves(q, p, L, M)
  BY <1>1, <1>2, <1>4 DEF Moves, S
<1>8. \A i : BornBefore(M, i) => BornBefore(L, i)
  BY <1>2, <1>4 DEF BornBefore, S
<1> QED
  BY <1>2, <1>5, <1>6, <1>7, <1>8 DEF World

LEMMA AddsPlain ==
  ASSUME NEW p, NEW x, NEW q, NEW i, NEW M, NEW L, Adds(p, x, q, i, M, L), World(M),
         NEW K, Plain(M, K)
  PROVE  /\ \A J : K \subseteq J => Plain(M, J)
         /\ Plain(L, K)
         /\ TrueNames(M) => TrueNames(L)
<1>1. \A J : K \subseteq J => Plain(M, J)
  BY DEF Plain
<1>2. /\ p \in Path /\ q \in Path /\ q = Child(p, x) /\ DOMAIN L = DOMAIN M \union {q}
      /\ q \notin DOMAIN M /\ \A y \in DOMAIN M : L[y] = M[y] /\ y \in Path
      /\ Front(q) = p /\ Last(q) = x /\ p \in DOMAIN M /\ L[q].full = Child(M[p].full, x)
  BY ChildFacts DEF Adds, World
<1>3. \A y \in DOMAIN M : y # <<>> => Front(y) \in DOMAIN M
  BY <1>2, PrefixOfNamed, PrefixReflexive DEF World, ClosedSet
<1>4. Plain(L, K)
  <2> SUFFICES ASSUME NEW y \in DOMAIN L, y # <<>>, L[y] \notin K
               PROVE  L[y].full = Child(L[Front(y)].full, Last(y))
    BY DEF Plain
  <2>1. CASE y = q
    BY <1>2, <2>1
  <2>2. CASE y \in DOMAIN M
    BY <1>2, <1>3, <2>2 DEF Plain
  <2> QED
    BY <1>2, <2>1, <2>2
<1>5. TrueNames(M) => TrueNames(L)
  BY <1>2 DEF TrueNames
<1> QED
  BY <1>1, <1>4, <1>5

LEMMA MovesPlain ==
  ASSUME NEW p, NEW q, NEW M, NEW L, Moves(p, q, M, L), World(M),
         NEW K, Plain(M, K), M[p] \in K
  PROVE  Plain(L, K)
<1> DEFINE S == DOMAIN M
<1>1. /\ Sibling(p, q) /\ S \in SUBSET Path /\ ClosedSet(S) /\ p \in S /\ q \notin S
      /\ DOMAIN L = Moved(p, q, S) /\ <<>> \in S
  BY DEF Moves, World
<1>2. \A y \in S : L[Rebase(p, q, y)] = M[y]
  BY DEF Moves
<1>3. \A y \in S : y # <<>> => Front(y) \in S
  BY <1>1, PrefixOfNamed, PrefixReflexive DEF ClosedSet
<1>4. \A y \in S : y # <<>> =>
        /\ Front(Rebase(p, q, y)) = Rebase(p, q, Front(y))
        /\ y # p => Last(Rebase(p, q, y)) = Last(y)
  BY <1>1, MovedChild
<1>5. Rebase(p, q, <<>>) = <<>>
  BY OnlyRootAboveRoot, RebaseElsewhere, <1>1 DEF Sibling
<1> SUFFICES ASSUME NEW z \in DOMAIN L, z # <<>>, L[z] \notin K
             PROVE  L[z].full = Child(L[Front(z)].full, Last(z))
  BY DEF Plain
<1>6. PICK y \in S : z = Rebase(p, q, y)
  BY <1>1 DEF Moved
<1>7. L[z] = M[y] /\ y # p /\ y # <<>>
  BY <1>2, <1>5, <1>6
<1>8. Front(z) = Rebase(p, q, Front(y)) /\ Last(z) = Last(y) /\ L[Front(z)] = M[Front(y)]
  BY <1>2, <1>3, <1>4, <1>6, <1>7
<1> QED
  BY <1>7, <1>8 DEF Plain

-----------------------------------------------------------------------------
(* Children as paths, for trees and registries that are sets of paths.     *)

LEMMA KidsAsPaths ==
  ASSUME NEW t, DOMAIN t \in SUBSET Path, NEW p \in Path
  PROVE  /\ \A s : s \in KidPaths(t, p) <=> s \in DOMAIN t /\ s # <<>> /\ Front(s) = p
         /\ Kids(t, p) # {} <=> \E s \in DOMAIN t : s # <<>> /\ Front(s) = p
<1>1. ASSUME NEW x \in Name, Append(p, x) \in DOMAIN t
      PROVE  Append(p, x) # <<>> /\ Front(Append(p, x)) = p
  BY ChildPath
<1>2. ASSUME NEW s \in DOMAIN t, s # <<>>, Front(s) = p
      PROVE  \E x \in Name : s = Append(p, x)
  BY <1>2, ParentPath
<1>3. ASSUME NEW s
      PROVE  s \in KidPaths(t, p) <=> s \in DOMAIN t /\ s # <<>> /\ Front(s) = p
  <2>1. s \in KidPaths(t, p) <=> \E x \in Name : Append(p, x) \in DOMAIN t /\ s = Append(p, x)
    BY DEF KidPaths, Kids
  <2> QED
    BY <1>1, <1>2, <2>1
<1>4. Kids(t, p) # {} <=> \E s : s \in KidPaths(t, p)
  BY DEF KidPaths
<1> QED
  BY <1>3, <1>4

LEMMA ListedAsPaths ==
  ASSUME NEW r \in SUBSET Path, NEW t, NEW p \in Path
  PROVE  Listed(r, t, p) <=>
           \A s \in r : s # <<>> /\ Front(s) = p /\ Last(s) # DeletedKey => s \in DOMAIN t
<1>1. ASSUME NEW x \in Name, Append(p, x) \in r
      PROVE  Append(p, x) # <<>> /\ Front(Append(p, x)) = p /\ Last(Append(p, x)) = x
  BY ChildPath
<1>2. ASSUME NEW s \in r, s # <<>>, Front(s) = p
      PROVE  \E x \in Name : s = Append(p, x) /\ x = Last(s)
  BY <1>2, ParentPath
<1> QED
  BY <1>1, <1>2 DEF Listed, SubKeys, Kids

LEMMA NoSubKeysAsPaths ==
  ASSUME NEW r \in SUBSET Path, NEW p \in Path
  PROVE  SubKeys(r, p) = {} <=> \A s \in r : s # <<>> => Front(s) # p
<1>1. ASSUME NEW x \in Name, Append(p, x) \in r
      PROVE  Append(p, x) # <<>> /\ Front(Append(p, x)) = p
  BY ChildPath
<1>2. ASSUME NEW s \in r, s # <<>>, Front(s) = p
      PROVE  \E x \in Name : s = Append(p, x)
  BY <1>2, ParentPath
<1> QED
  BY <1>1, <1>2 DEF SubKeys

-----------------------------------------------------------------------------
(* A registry and a tree that fit a world.  The keys that a command has    *)
(* named have their nodes, and these list what their keys have.            *)

With(r, q)    == r \union {q}
Without(r, q) == r \ {q}

(* Lists stay complete, and only those below p change.                     *)
Follows(r, t, p, s, v) ==
  \A y \in Path : /\ Listed(r, t, y) => Listed(s, v, y)
                  /\ y # p => KidPaths(v, y) = KidPaths(t, y)

Fits(r, t, M, K) ==
  /\ r = DOMAIN M /\ AtHome(r, t) /\ Complete(r, t)
  /\ \A y \in DOMAIN t : t[y].full = M[y].full
  /\ \A y \in DOMAIN M : M[y] \in K => y \in DOMAIN t /\ Listed(r, t, y)

(* The nodes that are left when the node of a deleted key has gone.        *)
LEMMA PrunedHome ==
  ASSUME NEW r, NEW t, IsTree(t), AtHome(r, t), NEW q \in DOMAIN t,
         NEW k, k = Pruned(KillHandles(t, q), q)
  PROVE  /\ AtHome(r \ {q}, k)
         /\ \A x : x \in DOMAIN k <=> x \in DOMAIN t /\ ~IsPrefix(q, x)
         /\ \A x \in DOMAIN k : k[x] = t[x]
<1>1. q \in Path /\ IsPrefix(q, q)
  BY PrefixReflexive DEF IsTree
<1>2. DOMAIN k = {x \in DOMAIN t : ~IsPrefix(q, x)}
  BY DEF Pruned, KillHandles
<1>3. ASSUME NEW x \in DOMAIN k PROVE k[x] = t[x] /\ x # q /\ x \in DOMAIN t
  BY <1>1, <1>2 DEF Pruned, KillHandles, AtHome
<1> QED
  BY <1>2, <1>3 DEF AtHome

LEMMA FitsGrow ==
  ASSUME NEW r, NEW t, NEW M, NEW K, World(M), Plain(M, K), Fits(r, t, M, K),
         NEW v, Grows(r, t, v)
  PROVE  Fits(r, v, M, K)
<1> DEFINE o == [y \in DOMAIN M |-> M[y].full]
<1>1. AtHome(r, v) /\ Complete(r, v) /\ r = DOMAIN M /\ DOMAIN t \subseteq DOMAIN v
  BY DEF Fits, Grows
<1>2. Named(r, o, t)
  <2>1. \A y \in DOMAIN t : t[y].full = o[y]
    BY DEF Fits, AtHome
  <2>2. ASSUME NEW p \in Path, NEW x \in Name, Append(p, x) \in r \ DOMAIN t
        PROVE  o[Append(p, x)] = Append(o[p], x)
    <3>1. PICK q : q = Child(p, x)
      OBVIOUS
    <3>2. q \in DOMAIN M /\ q \notin DOMAIN t
      BY <1>1, <2>2, <3>1 DEF Child
    <3>3. /\ q # <<>> /\ Front(q) = p /\ Last(q) = x /\ IsPrefix(p, q)
      BY <3>1, ChildFacts, PrefixReflexive
    <3>4. p \in DOMAIN M
      BY <3>2, <3>3 DEF World, ClosedSet
    <3>5. M[q].full = Child(M[p].full, x)
      BY <3>2, <3>3 DEF Fits, Plain
    <3> QED
      BY <3>1, <3>2, <3>4, <3>5 DEF Child
  <2> QED
    BY <2>1, <2>2 DEF Named
<1>3. \A y \in DOMAIN v : v[y].full = M[y].full
  <2>1. Named(r, o, v)
    BY <1>2 DEF Grows, Fits
  <2> QED
    BY <1>1, <2>1 DEF Named, AtHome
<1>4. \A y : Listed(r, t, y) => Listed(r, v, y)
  BY <1>1 DEF Listed, Kids
<1> QED
  BY <1>1, <1>3, <1>4 DEF Fits

LEMMA FitsAdd ==
  ASSUME NEW p, NEW x, NEW q, NEW i, NEW M, NEW L, Adds(p, x, q, i, M, L), World(M), World(L),
         NEW r, NEW t, NEW K, Fits(r, t, M, K), IsTree(t), Closed(t),
         p \in DOMAIN t, Listed(r, t, p),
         NEW n, n.at = q, n.full = Child(t[p].full, x), NEW v, v = AddChild(t, q, n),
         NEW J, J \subseteq K \union {M[p], L[q]}
  PROVE  Fits(With(r, q), v, L, J) /\ Follows(r, t, p, With(r, q), v)
<1> DEFINE s == r \union {q}
<1>1. /\ p \in Path /\ q \in Path /\ q # <<>> /\ Front(q) = p /\ p # q
      /\ r = DOMAIN M /\ s = DOMAIN L /\ r \in SUBSET Path /\ s \in SUBSET Path
      /\ q \notin r /\ \A y \in r : L[y] = M[y]
      /\ L[q].full = Child(M[p].full, x)
  BY ChildFacts DEF Adds, World, Fits
<1>2. DOMAIN t \subseteq r /\ DOMAIN v = DOMAIN t \union {q}
  BY DEF Fits, AtHome, AddChild
<1>3. v[q] = n /\ \A y \in DOMAIN t : v[y] = t[y] /\ y # q
  BY <1>1, <1>2 DEF AddChild
<1>4. \A y \in Path : Listed(r, t, y) => Listed(s, v, y)
  BY <1>1, <1>2, ListedAsPaths
<1>5. \A y \in Path : y # p => KidPaths(v, y) = KidPaths(t, y)
  <2>1. DOMAIN t \in SUBSET Path /\ DOMAIN v \in SUBSET Path
    BY <1>1, <1>2
  <2>2. ASSUME NEW y \in Path, y # p PROVE KidPaths(v, y) = KidPaths(t, y)
    <3>1. \A z : z \in KidPaths(v, y) <=> z \in KidPaths(t, y)
      BY <1>1, <1>2, <2>1, <2>2, KidsAsPaths
    <3> QED
      BY <3>1
  <2> QED
    BY <2>2
<1>6. AtHome(s, v) /\ \A y \in DOMAIN v : v[y].full = L[y].full
  BY <1>1, <1>2, <1>3 DEF Fits, AtHome
<1>7. \A y \in s : y # <<>> => Front(y) # q
  <2>1. \A y \in r : y # <<>> => Front(y) \in r
    BY <1>1, PrefixOfNamed, PrefixReflexive DEF World, ClosedSet
  <2> QED
    BY <1>1, <2>1
<1>8. Listed(s, v, q)
  BY <1>1, <1>7, ListedAsPaths
<1>9. Complete(s, v)
  <2> SUFFICES ASSUME NEW y \in DOMAIN v, Kids(v, y) # {} PROVE Listed(s, v, y)
    BY DEF Complete
  <2>1. CASE y = q \/ y = p
    BY <1>1, <1>4, <1>8, <2>1
  <2>2. CASE y # q /\ y # p
    <3>1. y \in DOMAIN t /\ y \in Path
      BY <1>1, <1>2, <2>2
    <3>2. DOMAIN t \in SUBSET Path /\ DOMAIN v \in SUBSET Path
      BY <1>1, <1>2
    <3>3. Kids(t, y) # {}
      BY <1>1, <1>2, <2>2, <3>1, <3>2, KidsAsPaths
    <3> QED
      BY <1>4, <3>1, <3>3 DEF Fits, Complete
  <2> QED
    BY <2>1, <2>2
<1>10. ASSUME NEW y \in DOMAIN L, L[y] \in J PROVE y \in DOMAIN v /\ Listed(s, v, y)
  <2>1. CASE y = q \/ y = p
    BY <1>1, <1>2, <1>4, <1>8, <2>1
  <2>2. CASE y # q /\ y # p
    <3>1. y \in DOMAIN M /\ L[y] = M[y] /\ M[y] # M[p] /\ L[y] # L[q] /\ y \in Path
      BY <1>1, <2>2 DEF World, Adds
    <3> QED
      BY <1>2, <1>4, <1>10, <3>1 DEF Fits
  <2> QED
    BY <2>1, <2>2
<1> QED
  BY <1>1, <1>4, <1>5, <1>6, <1>9, <1>10 DEF Fits, Follows, With

LEMMA FitsDrop ==
  ASSUME NEW p, NEW x, NEW q, NEW i, NEW M, NEW L, Adds(p, x, q, i, M, L), World(M), World(L),
         NEW r, NEW t, NEW K, Fits(r, t, L, K), IsTree(t), Closed(t), q \in DOMAIN t,
         NEW v, v = Pruned(KillHandles(t, q), q)
  PROVE  Fits(Without(r, q), v, M, K) /\ Follows(r, t, p, Without(r, q), v)
<1> DEFINE s == r \ {q}
<1>1. /\ p \in Path /\ q \in Path /\ q # <<>> /\ Front(q) = p /\ p # q
      /\ s = DOMAIN M /\ r = DOMAIN L /\ r \in SUBSET Path /\ s \in SUBSET Path
      /\ q \notin s /\ \A y \in s : L[y] = M[y]
  <2>1. /\ p \in Path /\ x \in Name /\ q = Child(p, x) /\ q \notin DOMAIN M /\ r = DOMAIN L
        /\ DOMAIN L = DOMAIN M \union {q} /\ \A y \in DOMAIN M : L[y] = M[y]
        /\ r \in SUBSET Path
    BY DEF Adds, World, Fits
  <2>2. s = DOMAIN M
    BY <2>1
  <2> QED
    BY <2>1, <2>2, ChildFacts
<1>2. /\ AtHome(s, v) /\ \A y : y \in DOMAIN v <=> y \in DOMAIN t /\ ~IsPrefix(q, y)
      /\ \A y \in DOMAIN v : v[y] = t[y]
  <2>1. AtHome(r, t)
    BY DEF Fits
  <2> QED
    BY <2>1, PrunedHome
<1>3. DOMAIN v = DOMAIN t \ {q} /\ DOMAIN t \subseteq r
  <2>1. DOMAIN t \subseteq r
    BY DEF Fits, AtHome
  <2>2. ASSUME NEW y \in s PROVE ~IsPrefix(q, y)
    BY <1>1 DEF World, ClosedSet
  <2> QED
    BY <1>1, <1>2, <2>1, <2>2, PrefixReflexive
<1>4. \A y \in Path : Listed(r, t, y) => Listed(s, v, y)
  BY <1>1, <1>3, ListedAsPaths
<1>5. \A y \in Path : y # p => KidPaths(v, y) = KidPaths(t, y)
  <2>1. DOMAIN t \in SUBSET Path /\ DOMAIN v \in SUBSET Path
    BY <1>1, <1>3
  <2>2. ASSUME NEW y \in Path, y # p PROVE KidPaths(v, y) = KidPaths(t, y)
    <3>1. \A z : z \in KidPaths(v, y) <=> z \in KidPaths(t, y)
      BY <1>1, <1>3, <2>1, <2>2, KidsAsPaths
    <3> QED
      BY <3>1
  <2> QED
    BY <2>2
<1>6. \A y \in DOMAIN v : v[y].full = M[y].full
  BY <1>1, <1>2, <1>3 DEF Fits
<1>7. Complete(s, v)
  <2> SUFFICES ASSUME NEW y \in DOMAIN v, Kids(v, y) # {} PROVE Listed(s, v, y)
    BY DEF Complete
  <2>1. y \in DOMAIN t /\ y \in Path /\ DOMAIN v \in SUBSET Path /\ DOMAIN t \in SUBSET Path
    BY <1>1, <1>3
  <2>2. Kids(t, y) # {}
    BY <1>3, <2>1, KidsAsPaths
  <2> QED
    BY <1>4, <2>1, <2>2 DEF Fits, Complete
<1>8. ASSUME NEW y \in DOMAIN M, M[y] \in K PROVE y \in DOMAIN v /\ Listed(s, v, y)
  BY <1>1, <1>3, <1>4, <1>8 DEF Fits
<1> QED
  BY <1>1, <1>2, <1>4, <1>5, <1>6, <1>7, <1>8 DEF Fits, Follows, Without

LEMMA FitsMove ==
  ASSUME NEW p, NEW q, NEW M, NEW L, Moves(p, q, M, L), World(M),
         NEW r, NEW t, NEW K, Fits(r, t, M, K), IsTree(t), Closed(t),
         p \in DOMAIN t, NEW v, MovedTree(p, q, t, v), AtHome(Moved(p, q, r), v)
  PROVE  /\ Fits(Moved(p, q, r), v, L, K)
         /\ \A y \in r : /\ Listed(r, t, y) => Listed(Moved(p, q, r), v, Rebase(p, q, y))
                         /\ KidPaths(v, Rebase(p, q, y)) = Moved(p, q, KidPaths(t, y))
<1> DEFINE s == Moved(p, q, r)
<1>1. /\ Sibling(p, q) /\ Sibling(q, p) /\ r \in SUBSET Path /\ ClosedSet(r) /\ p \in r /\ q \notin r
      /\ r = DOMAIN M /\ s = DOMAIN L /\ q # <<>> /\ p # <<>> /\ p \in Path /\ q \in Path
  BY SiblingFacts DEF Moves, World, Fits, Sibling
<1>2. /\ s \in SUBSET Path /\ ClosedSet(s)
      /\ \A y \in r : Rebase(p, q, y) \in s /\ Rebase(q, p, Rebase(p, q, y)) = y
      /\ \A z \in s : Rebase(q, p, z) \in r /\ Rebase(p, q, Rebase(q, p, z)) = z
  <2>1. /\ s \in SUBSET Path /\ ClosedSet(s)
        /\ \A y \in r : Rebase(q, p, Rebase(p, q, y)) = y
        /\ \A z \in s : Rebase(q, p, z) \in r /\ Rebase(p, q, Rebase(q, p, z)) = z
    BY <1>1, MovedSet
  <2>2. \A y \in r : Rebase(p, q, y) \in s
    BY DEF Moved
  <2> QED
    BY <2>1, <2>2
<1>3. /\ DOMAIN t \subseteq r /\ DOMAIN v = Moved(p, q, DOMAIN t)
      /\ \A y \in DOMAIN t : v[Rebase(p, q, y)].full = t[y].full
      /\ \A y \in r : L[Rebase(p, q, y)] = M[y]
  BY <1>1 DEF Fits, AtHome, MovedTree, Moves
<1>4. /\ Rebase(p, q, p) = q /\ Rebase(q, p, q) = p
      /\ Rebase(p, q, <<>>) = <<>> /\ Rebase(q, p, <<>>) = <<>>
      /\ q \in DOMAIN v
  <2>1. /\ Rebase(p, q, p) = q /\ Rebase(q, p, q) = p
        /\ Rebase(p, q, <<>>) = <<>> /\ Rebase(q, p, <<>>) = <<>>
    BY <1>1, SiblingFacts, OnlyRootAboveRoot, RebaseElsewhere
  <2> QED
    BY <1>3, <2>1 DEF Moved
<1>5. \A y \in r : y # <<>> =>
        /\ Front(Rebase(p, q, y)) = Rebase(p, q, Front(y)) /\ Rebase(p, q, y) # <<>>
        /\ y # p => Last(Rebase(p, q, y)) = Last(y)
        /\ Front(y) \in r
  <2>1. \A y \in r : y # <<>> => Front(y) \in r
    BY <1>1, PrefixOfNamed, PrefixReflexive DEF ClosedSet
  <2> QED
    BY <1>1, <2>1, MovedChild
<1> HIDE DEF s
<1>6. ASSUME NEW y \in r, Listed(r, t, y) PROVE Listed(s, v, Rebase(p, q, y))
  <2> SUFFICES ASSUME NEW z \in s, z # <<>>, Front(z) = Rebase(p, q, y), Last(z) # DeletedKey
               PROVE  z \in DOMAIN v
    BY <1>2, ListedAsPaths
  <2>1. PICK k \in r : k = Rebase(q, p, z) /\ z = Rebase(p, q, k) /\ k # <<>>
    BY <1>2, <1>4
  <2>2. CASE k = p
    BY <1>4, <2>1, <2>2
  <2>3. CASE k # p
    <3>1. Front(k) \in r /\ Rebase(p, q, Front(k)) = Rebase(p, q, y) /\ Last(k) = Last(z)
      BY <1>5, <2>1, <2>3
    <3>2. Front(k) = y
      BY <1>2, <3>1
    <3>3. k \in DOMAIN t
      BY <1>1, <1>6, <2>1, <3>1, <3>2, ListedAsPaths
    <3> QED
      BY <1>3, <2>1, <3>3 DEF Moved
  <2> QED
    BY <2>2, <2>3
<1>7. ASSUME NEW y \in r PROVE KidPaths(v, Rebase(p, q, y)) = Moved(p, q, KidPaths(t, y))
  <2>1. /\ \A k : k \in KidPaths(t, y) <=> k \in DOMAIN t /\ k # <<>> /\ Front(k) = y
        /\ \A z : z \in KidPaths(v, Rebase(p, q, y))
                    <=> z \in DOMAIN v /\ z # <<>> /\ Front(z) = Rebase(p, q, y)
    <3>1. DOMAIN t \in SUBSET Path /\ DOMAIN v \in SUBSET Path
      BY <1>1, <1>2, <1>3 DEF Moved
    <3> QED
      BY <1>1, <1>2, <3>1, KidsAsPaths
  <2>2. ASSUME NEW k \in KidPaths(t, y) PROVE Rebase(p, q, k) \in KidPaths(v, Rebase(p, q, y))
    BY <1>3, <1>5, <2>1, <2>2 DEF Moved
  <2>3. ASSUME NEW z \in KidPaths(v, Rebase(p, q, y)) PROVE z \in Moved(p, q, KidPaths(t, y))
    <3>1. PICK k \in DOMAIN t : z = Rebase(p, q, k)
      BY <1>3, <2>1 DEF Moved
    <3>2. k \in r /\ k # <<>>
      BY <1>3, <1>4, <2>1, <2>3, <3>1
    <3>3. Front(k) \in r /\ Rebase(p, q, Front(k)) = Rebase(p, q, y)
      BY <1>5, <2>1, <2>3, <3>1, <3>2
    <3>4. Front(k) = y
      BY <1>2, <3>3
    <3> QED
      BY <2>1, <3>1, <3>2, <3>4 DEF Moved
  <2> QED
    <3>1. ASSUME NEW z \in Moved(p, q, KidPaths(t, y)) PROVE z \in KidPaths(v, Rebase(p, q, y))
      BY <2>2 DEF Moved
    <3> QED
      BY <2>3, <3>1
<1>8. Complete(s, v)
  <2> SUFFICES ASSUME NEW z \in DOMAIN v, KidPaths(v, z) # {} PROVE Listed(s, v, z)
    BY DEF Complete, KidPaths
  <2>1. PICK y \in DOMAIN t : z = Rebase(p, q, y)
    BY <1>3 DEF Moved
  <2>2. KidPaths(t, y) # {}
    BY <1>3, <1>7, <2>1 DEF Moved
  <2>3. Listed(r, t, y)
    BY <2>2 DEF Fits, Complete, KidPaths
  <2> QED
    BY <1>3, <1>6, <2>1, <2>3
<1>9. \A z \in DOMAIN v : v[z].full = L[z].full
  BY <1>3 DEF Moved, Fits
<1>10. ASSUME NEW z \in DOMAIN L, L[z] \in K PROVE z \in DOMAIN v /\ Listed(s, v, z)
  <2>1. PICK y \in r : z = Rebase(p, q, y)
    BY <1>1 DEF Moved, s
  <2>2. y \in DOMAIN t /\ Listed(r, t, y)
    BY <1>1, <1>3, <1>10, <2>1 DEF Fits
  <2> QED
    BY <1>3, <1>6, <2>1, <2>2 DEF Moved
<1> QED
  BY <1>1, <1>6, <1>7, <1>8, <1>9, <1>10 DEF Fits, s

-----------------------------------------------------------------------------
(* What the key operations make of a state that fits.                      *)

Good(r, u, M, K) == World(M) /\ Plain(M, K) /\ Fits(r, u.tree, M, K) /\ Shows(r, u)

(* A path is a prefix of its own: CreateKey makes the key it is asked for. *)
LEMMA PathItself ==
  ASSUME NEW q \in Path
  PROVE  Len(q) \in Nat /\ SubSeq(q, 1, Len(q)) = q /\ q \in Prefixes(q)
<1>1. q \in Seq(Name)
  BY DEF Path
<1>2. Len(q) \in Nat
  BY <1>1, LenProperties
<1>3. SubSeq(q, 1, Len(q)) = q
  BY <1>1, SubSeqFull, Zenon
<1>4. PICK n : n = Len(q)
  OBVIOUS
<1>5. n \in 0 .. n
  BY <1>2, <1>4
<1>6. SubSeq(q, 1, n) \in Prefixes(q)
  BY <1>4, <1>5, Zenon DEF Prefixes
<1> QED
  BY <1>2, <1>3, <1>4, <1>6, Zenon

LEMMA PrefixesAreThere ==
  ASSUME NEW r \in SUBSET Path, ClosedSet(r), NEW p \in r, NEW x \in Name, NEW q, q = Child(p, x)
  PROVE  r \union Prefixes(q) = r \union {q}
<1>1. q \in Path /\ \A z \in Path : IsPrefix(z, q) <=> IsPrefix(z, p) \/ z = q
  BY ChildFacts
<1>2. Len(q) \in Nat
  BY <1>1, PathItself, Zenon
<1>3. q \in Prefixes(q)
  BY <1>1, PathItself, Zenon
<1>4. ASSUME NEW n \in 0 .. Len(q) PROVE SubSeq(q, 1, n) \in r \union {q}
  <2>1. \A i \in 1 .. n : q[i] \in Name
    BY <1>1, <1>2, ElementOfSeq DEF Path
  <2>2. PICK z : z = SubSeq(q, 1, n)
    OBVIOUS
  <2>3. z \in Path /\ Len(z) = n /\ \A i \in 1 .. n : z[i] = q[i]
    BY <1>2, <2>1, <2>2, SubSeqProperties DEF Path
  <2>4. IsPrefix(z, q)
    BY <1>1, <1>2, <2>3, PrefixByElement
  <2> QED
    BY <1>1, <2>2, <2>3, <2>4 DEF ClosedSet
<1>5. \A z \in Prefixes(q) : z \in r \union {q}
  BY <1>4 DEF Prefixes
<1> QED
  BY <1>3, <1>5

LEMMA CreateFits ==
  ASSUME NEW r \in SUBSET Path, NEW u, Sound(u), u.status = "running",
         NEW path \in Path, NEW name \in Name, NEW o \in CreateKey(r, u, path, name),
         ~Refused(r, u, o), ~Stopped(o), NEW q, q = Child(path, name),
         NEW M, NEW K, Good(r, u, M, K), path \in DOMAIN u.tree, Listed(r, u.tree, path),
         NEW i, NEW L, Adds(path, name, q, i, M, L), World(L),
         L[q] \in K
  PROVE  Good(o.reg, o.ui, L, K)
<1>1. Created(r, u, path, name, q, o)
  BY CreateShape
<1>2. World(M) /\ Plain(M, K) /\ Fits(r, u.tree, M, K) /\ Shows(r, u)
  BY DEF Good
<1>3. r = DOMAIN M /\ path \in r
  BY <1>2 DEF Fits, AtHome
<1>4. o.reg = r \union {q}
  <2>1. ClosedSet(r)
    BY <1>2, <1>3 DEF World
  <2>2. r \union Prefixes(q) = r \union {q}
    BY <1>3, <2>1, PrefixesAreThere
  <2> QED
    BY <1>1, <2>2 DEF Created
<1>5. PICK w, n :
        /\ Sound(w) /\ w.status = "running" /\ w.cur = u.cur /\ w.rows = u.rows
        /\ w.tree = AddChild(u.tree, q, n)
        /\ n.at = q /\ n.full = Child(u.tree[path].full, name)
        /\ o.ui = UpdateIfSame(o.reg, w, path)
  BY <1>1 DEF Created
<1>6. /\ IsTree(u.tree) /\ Closed(u.tree) /\ u.cur \in DOMAIN u.tree /\ u.cur \in Path
  BY UIFields DEF Sound
<1>7. K \subseteq K \union {M[path], L[q]}
  OBVIOUS
<1>8. Fits(o.reg, w.tree, L, K) /\ Follows(r, u.tree, path, o.reg, w.tree)
  <2>1. o.reg = With(r, q)
    BY <1>4 DEF With
  <2>2. Fits(With(r, q), w.tree, L, K) /\ Follows(r, u.tree, path, With(r, q), w.tree)
    BY <1>2, <1>5, <1>6, <1>7, FitsAdd
  <2> QED
    BY <2>1, <2>2
<1>9. Plain(L, K)
  BY <1>2, AddsPlain
<1>10. Grows(o.reg, w.tree, o.ui.tree)
  BY <1>5, UpdateIfSameGrows
<1>11. Fits(o.reg, o.ui.tree, L, K)
  BY <1>8, <1>9, <1>10, FitsGrow
<1>12. Shows(o.reg, o.ui)
  <2>1. Shows(o.reg, w) \/ path = w.cur
    <3>1. u.rows = KidPaths(u.tree, u.cur) /\ Listed(r, u.tree, u.cur)
      BY <1>2 DEF Shows
    <3> QED
      BY <1>5, <1>6, <1>8, <3>1 DEF Shows, Follows
  <2>2. Trees(o.reg, w)
    BY <1>8 DEF Fits, Trees
  <2> QED
    BY <1>5, <2>1, <2>2, UpdateIfSameGrows
<1> QED
  BY <1>9, <1>11, <1>12 DEF Good

LEMMA DeleteFits ==
  ASSUME NEW r \in SUBSET Path, NEW u, Sound(u), u.status = "running",
         NEW path \in Path, NEW name \in Name, NEW o \in DeleteKey(r, u, path, name),
         ~Refused(r, u, o), ~Stopped(o), NEW q, q = Child(path, name),
         NEW L, NEW K, Good(r, u, L, K),
         NEW i, NEW M, Adds(path, name, q, i, M, L), World(M), Plain(M, K)
  PROVE  Good(o.reg, o.ui, M, K)
<1>1. PICK dead : dead = [u EXCEPT !.tree = KillHandles(u.tree, q)]
  OBVIOUS
<1>2. Deleted(r, u, path, q, dead, o)
  BY <1>1, DeleteShape
<1>3. World(L) /\ Fits(r, u.tree, L, K) /\ Shows(r, u)
  BY DEF Good
<1>4. /\ q \in DOMAIN u.tree /\ o.reg = r \ {q} /\ Sound(dead) /\ dead.status = "running"
      /\ dead.cur = u.cur /\ dead.rows = u.rows /\ dead.tree = KillHandles(u.tree, q)
  BY <1>2 DEF Deleted
<1>5. PICK v \in DeleteItem(o.reg, dead, q) :
        v.status = "running" /\ Sound(v) /\ o.ui = UpdateIfSame(o.reg, v, path)
  BY <1>2 DEF Deleted
<1>6. /\ IsTree(u.tree) /\ Closed(u.tree) /\ u.cur \in DOMAIN u.tree /\ u.cur \in Path
      /\ q # <<>> /\ q \in DOMAIN dead.tree
  BY <1>4, UIFields, ChildFacts DEF Sound, KillHandles
<1>7. PICK k : k = Pruned(KillHandles(u.tree, q), q)
  OBVIOUS
<1>8. /\ k = Pruned(dead.tree, q)
      /\ Fits(o.reg, k, M, K) /\ Follows(r, u.tree, path, o.reg, k)
  <2>1. o.reg = Without(r, q)
    BY <1>4 DEF Without
  <2>2. Fits(Without(r, q), k, M, K) /\ Follows(r, u.tree, path, Without(r, q), k)
    BY <1>3, <1>4, <1>6, <1>7, FitsDrop
  <2> QED
    BY <1>4, <1>7, <2>1, <2>2
<1>9. PICK s : s = o.reg
  OBVIOUS
<1>10. /\ Grows(o.reg, k, v.tree)
       /\ AtHome(o.reg, k) /\ Complete(o.reg, k) =>
            Shows(o.reg, v) \/ (v.tree = k /\ v.cur = dead.cur /\ v.rows = dead.rows)
  <2>1. /\ Grows(s, Pruned(dead.tree, q), v.tree)
        /\ AtHome(s, Pruned(dead.tree, q)) /\ Complete(s, Pruned(dead.tree, q)) =>
             \/ Shows(s, v)
             \/ /\ ~IsPrefix(q, dead.cur)
                /\ v.tree = Pruned(dead.tree, q) /\ v.cur = dead.cur /\ v.rows = dead.rows
    BY <1>4, <1>5, <1>6, <1>9, DeleteItemShape
  <2> QED
    BY <1>8, <1>9, <2>1
<1>11. Fits(o.reg, v.tree, M, K)
  BY <1>8, <1>10, FitsGrow
<1>12. Fits(o.reg, o.ui.tree, M, K)
  BY <1>5, <1>11, UpdateIfSameGrows, FitsGrow
<1>13. Shows(o.reg, o.ui)
  <2>1. Shows(o.reg, v) \/ path = v.cur
    <3>1. u.rows = KidPaths(u.tree, u.cur) /\ Listed(r, u.tree, u.cur)
      BY <1>3 DEF Shows
    <3>2. AtHome(o.reg, k) /\ Complete(o.reg, k)
      BY <1>8 DEF Fits
    <3> QED
      BY <1>4, <1>6, <1>8, <1>10, <3>1, <3>2 DEF Shows, Follows
  <2>2. Trees(o.reg, v)
    BY <1>11 DEF Fits, Trees
  <2> QED
    BY <1>5, <2>1, <2>2, UpdateIfSameGrows
<1> QED
  BY <1>12, <1>13 DEF Good

LEMMA RenameFits ==
  ASSUME NEW r \in SUBSET Path, NEW u, Sound(u), u.status = "running",
         NEW path \in Path, NEW name \in Name, NEW o \in RenameKey(r, u, path, name),
         ~Refused(r, u, o), ~Stopped(o), NEW q, q = Child(Front(path), name),
         NEW M, NEW K, Good(r, u, M, K), path \in DOMAIN u.tree, M[path] \in K,
         AtHome(o.reg, o.ui.tree), NEW L, Moves(path, q, M, L)
  PROVE  Good(o.reg, o.ui, L, K)
<1>1. KeyRenamed(r, u, path, q, o)
  BY RenameShape
<1>2. World(M) /\ Plain(M, K) /\ Fits(r, u.tree, M, K) /\ Shows(r, u)
  BY DEF Good
<1>3. /\ o.reg = Moved(path, q, r) /\ MovedTree(path, q, u.tree, o.ui.tree)
      /\ o.ui.cur = Rebase(path, q, u.cur) /\ o.ui.rows = Moved(path, q, u.rows)
  BY <1>1 DEF KeyRenamed
<1>4. IsTree(u.tree) /\ Closed(u.tree) /\ u.cur \in DOMAIN u.tree
  BY UIFields DEF Sound
<1>5. /\ Fits(o.reg, o.ui.tree, L, K)
      /\ \A y \in r : /\ Listed(r, u.tree, y) => Listed(o.reg, o.ui.tree, Rebase(path, q, y))
                      /\ KidPaths(o.ui.tree, Rebase(path, q, y)) = Moved(path, q, KidPaths(u.tree, y))
  BY <1>2, <1>3, <1>4, FitsMove
<1>6. World(L) /\ Plain(L, K)
  BY <1>2, MovesWorld, MovesPlain
<1>7. Shows(o.reg, o.ui)
  <2>1. u.rows = KidPaths(u.tree, u.cur) /\ Listed(r, u.tree, u.cur) /\ u.cur \in r
    BY <1>2, <1>4 DEF Shows, Fits, AtHome
  <2> QED
    BY <1>3, <1>5, <2>1 DEF Shows
<1> QED
  BY <1>5, <1>6, <1>7 DEF Good

-----------------------------------------------------------------------------
(* Steps that leave the registry and the command stacks alone.             *)

LEMMA UpdateUIFields ==
  ASSUME NEW allow, NEW u, IsUI(u), UpdateUI(allow, u).status = "running"
  PROVE  UpdateUI(allow, u) = u
  BY StopFields DEF UpdateUI

LEMMA LookKeeps ==
  ASSUME Rest, Look
  PROVE  /\ AtRest /\ Keeps(reg, ui, ui')
         /\ UNCHANGED <<reg, undoList, redoList, refreshing>>
<1>0. ASSUME NEW u, Browse(u), AtRest => Sound(u) /\ Keeps(reg, ui, u)
      PROVE  AtRest /\ Keeps(reg, ui, ui') /\ UNCHANGED <<reg, undoList, redoList, refreshing>>
  <2>1. Keeps(reg, u, UpdateUI(allowModify, u))
    BY <1>0, UpdateUIKeeps DEF Browse
  <2> QED
    BY <1>0, <2>1, KeepsTransitive DEF Browse, lists, refresh
<1>1. ASSUME NEW p \in DOMAIN ui.tree, AtRest
      PROVE  Sound(Select(reg, ui, p)) /\ Keeps(reg, ui, Select(reg, ui, p))
  <2>1. Sound(Select(reg, ui, p))
    BY <1>1, RestFacts, SelectSound
  <2>2. /\ Grows(reg, ui.tree, Select(reg, ui, p).tree)
        /\ Trees(reg, ui) /\ Shows(reg, ui) => Shows(reg, Select(reg, ui, p))
    BY <1>1, RestFacts, SelectGrows
  <2> QED
    BY <2>1, <2>2 DEF Keeps
<1>2. ASSUME NEW p \in DOMAIN ui.tree, OnTreeSelectionChanged(p) PROVE Browse(Select(reg, ui, p))
  BY <1>2 DEF OnTreeSelectionChanged
<1>3. ASSUME NEW p \in DOMAIN ui.tree, SelectPlaceholder(p)
      PROVE  /\ Browse(SelectMark(reg, ui, p))
             /\ AtRest => Sound(SelectMark(reg, ui, p)) /\ Keeps(reg, ui, SelectMark(reg, ui, p))
  <2>1. p \in Path /\ Browse(SelectMark(reg, ui, p))
    BY <1>3, RestFacts, NodeFields DEF SelectPlaceholder, Browse
  <2>2. AtRest => Sound(SelectMark(reg, ui, p))
    BY <2>1, RestFacts, SelectMarkSound
  <2>3. AtRest => /\ Grows(reg, ui.tree, SelectMark(reg, ui, p).tree)
                  /\ Trees(reg, ui) /\ Shows(reg, ui) => Shows(reg, SelectMark(reg, ui, p))
    BY <2>1, RestFacts, SelectMarkGrows
  <2> QED
    BY <2>1, <2>2, <2>3 DEF Keeps
<1>4. ASSUME NEW p \in DOMAIN ui.tree, OnTreeItemExpanding(p)
      PROVE  /\ Browse(OpenItem(reg, ui, p))
             /\ AtRest => Sound(OpenItem(reg, ui, p)) /\ Keeps(reg, ui, OpenItem(reg, ui, p))
  BY <1>4, RestFacts, OpenItemSound, OpenItemKeeps DEF OnTreeItemExpanding
<1>5. ASSUME NEW q \in ui.rows, OnDoubleClick(q)
      PROVE  /\ Browse(SelectNode(reg, ui, q))
             /\ AtRest => Sound(SelectNode(reg, ui, q)) /\ Keeps(reg, ui, SelectNode(reg, ui, q))
  <2>1. Browse(SelectNode(reg, ui, q))
    BY <1>5 DEF OnDoubleClick
  <2>2. ASSUME AtRest
        PROVE  Sound(SelectNode(reg, ui, q)) /\ Keeps(reg, ui, SelectNode(reg, ui, q))
    <3>1. q \in KidPaths(ui.tree, ui.cur)
      BY <1>5, <2>2, RestFacts DEF RowsLive
    <3>2. q \in DOMAIN ui.tree /\ Front(q) \in DOMAIN ui.tree
      BY <2>2, <3>1, RestFacts, KidFacts
    <3> QED
      BY <2>2, <3>2, RestFacts, SelectNodeSound, SelectNodeKeeps
  <2> QED
    BY <2>1, <2>2
<1>6. ASSUME UpDir
      PROVE  Browse(Select(reg, ui, Front(ui.cur))) /\ (AtRest => Front(ui.cur) \in DOMAIN ui.tree)
  BY <1>6, RestFacts, ParentInTree DEF UpDir
<1>7. CASE OnEditModify
  <2>1. Keeps(reg, ui, UpdateUI(allowModify', ui))
    BY <1>7, RestFacts, UpdateUIKeeps DEF OnEditModify
  <2> QED
    BY <1>7, <2>1 DEF OnEditModify, lists, refresh
<1> QED
  BY <1>0, <1>1, <1>2, <1>3, <1>4, <1>5, <1>6, <1>7 DEF Look

LEMMA AddNewKeysGrows ==
  ASSUME NEW r, NEW u, Sound(u), u.status = "running", NEW p \in DOMAIN u.tree, r \in SUBSET Path
  PROVE  Grows(r, u.tree, AddNewKeys(r, u, p).tree)
<1> DEFINE t     == u.tree
           found == IF t[p].at = Gone THEN {} ELSE SubKeys(r, t[p].at)
           fresh == IF Cardinality(found) = Cardinality(Kids(t, p)) THEN {} ELSE found \ Kids(t, p)
           full  == AddChildren(t, p, fresh)
           listed == [q \in DOMAIN full |->
                        IF q \in {Append(p, x) : x \in fresh} THEN AddItem(r, full[q]) ELSE full[q]]
           w == [u EXCEPT !.tree = listed]
<1>1. IsTree(t) /\ Closed(t) /\ IsUI(u) /\ p \in Path /\ p # Gone
  BY UIFields, DistinctAssumption DEF Sound, IsTree
<1>2. AddNewKeys(r, u, p).tree = listed
  BY <1>1 DEF AddNewKeys, IsUI
<1>3. /\ fresh \in SUBSET Name /\ (fresh = {} \/ fresh = found \ Kids(t, p))
      /\ t[p].at = p => found = SubKeys(r, p)
      /\ fresh = {} \/ t[p].at # Gone
  BY <1>1 DEF SubKeys
<1> HIDE DEF fresh, found
<1>4. Grows(r, t, full)
  <2>1. CASE fresh = {}
    <3>1. DOMAIN full = DOMAIN t /\ \A q \in DOMAIN t : full[q] = t[q]
      BY <2>1 DEF AddChildren
    <3> HIDE DEF full
    <3> QED
      BY <3>1, SameGrows
  <2>2. CASE fresh = found \ Kids(t, p)
    <3>1. /\ t[p].at = p => fresh \subseteq SubKeys(r, p)
          /\ t[p].at = p => SubKeys(r, p) \ {DeletedKey} \subseteq Kids(t, p) \union fresh
      BY <1>3, <2>2
    <3> QED
      BY <1>1, <1>3, <3>1, AddChildrenGrows
  <2> QED
    BY <1>3, <2>1, <2>2
<1>5. IsTree(full)
  BY <1>1, <1>3, AddChildrenTree
<1> HIDE DEF full
<1>6. \A q \in DOMAIN full :
        AddItem(r, full[q]).at = full[q].at /\ AddItem(r, full[q]).full = full[q].full
  BY <1>5, NodeFields DEF AddItem, Node
<1>7. /\ DOMAIN listed = DOMAIN full
      /\ \A q \in DOMAIN full : listed[q].at = full[q].at /\ listed[q].full = full[q].full
  BY <1>6
<1> HIDE DEF listed
<1>8. Grows(r, full, listed)
  BY <1>7, SameGrows
<1> QED
  BY <1>2, <1>4, <1>8, GrowsTransitive

(* The registry a Refresh finds has not lost a key that the tree shows.    *)
LEMMA NothingMissing ==
  ASSUME NEW r, NEW t, IsTree(t), AtHome(r, t), NEW p \in DOMAIN t
  PROVE  Missing(r, t, p) = {}
<1> SUFFICES ASSUME NEW q \in KidPaths(t, p), t[p].at # Gone, Append(t[p].at, Last(q)) \notin r
             PROVE  FALSE
  BY DEF Missing
<1>1. PICK x \in Name : q = Append(p, x) /\ q \in DOMAIN t
  BY DEF KidPaths, Kids
<1>2. p \in Path /\ Last(q) = x
  BY <1>1, ChildPath DEF IsTree
<1> QED
  BY <1>1, <1>2 DEF AtHome

(* A Refresh of a tree that is right only adds nodes.                      *)
LEMMA RefreshKeeps ==
  ASSUME IInv, AtHome(reg, ui.tree), RefreshStep
  PROVE  /\ Running /\ UNCHANGED <<reg, undoList, redoList>>
         /\ Grows(reg, ui.tree, ui'.tree)
         /\ Trees(reg, ui) /\ ~refreshing' => Shows(reg, ui')
<1>1. ASSUME NEW p \in todo, RefreshRemove(p) PROVE FALSE
  <2>1. /\ Running /\ p \in DOMAIN ui.tree /\ IsTree(ui.tree)
        /\ \E q \in Missing(reg, ui.tree, p) : ui' \in DeleteItem(reg, ui, q)
    BY <1>1, UIFields DEF RefreshRemove, IInv, Sound
  <2> QED
    BY <2>1, NothingMissing
<1>2. ASSUME NEW p \in todo, RefreshAdd(p)
      PROVE  /\ Running /\ UNCHANGED <<reg, undoList, redoList>> /\ refreshing'
             /\ Grows(reg, ui.tree, ui'.tree)
  <2>1. /\ Running /\ refreshing /\ p \in DOMAIN ui.tree /\ Sound(ui) /\ reg \in SUBSET Path
        /\ ui' = AddNewKeys(reg, ui, p)
        /\ UNCHANGED <<reg, undoList, redoList, refreshing>>
    BY <1>2 DEF RefreshAdd, IInv, TypeOK, lists
  <2> QED
    BY <2>1, AddNewKeysGrows DEF Running
<1>3. CASE RefreshEnd
  <2> DEFINE u == UpdateIfSame(reg, ui, ui.sel)
  <2>1. /\ ui' = UpdateUI(allowModify, u) /\ Running /\ Sound(ui)
        /\ UNCHANGED <<reg, undoList, redoList>>
    BY <1>3 DEF RefreshEnd, IInv, lists
  <2>2. /\ Sound(u) /\ Grows(reg, ui.tree, u.tree)
        /\ Trees(reg, ui) => Shows(reg, u)
    <3>1. ui.sel \in {NoNode, ui.cur}
      BY <2>1 DEF Sound, Running
    <3> QED
      BY <2>1, <3>1, UpdateIfSameSound, UpdateIfSameGrows
  <2> HIDE DEF u
  <2>3. Keeps(reg, u, UpdateUI(allowModify, u))
    BY <2>2, UpdateUIKeeps
  <2>4. Trees(reg, ui) => Trees(reg, u)
    BY <2>2 DEF Trees, Grows
  <2> QED
    BY <2>1, <2>2, <2>3, <2>4, GrowsTransitive DEF Keeps
<1> QED
  BY <1>1, <1>2, <1>3 DEF RefreshStep

-----------------------------------------------------------------------------
(* Alone: every node stands where its key is.                              *)

LEMMA CreateAtHome ==
  ASSUME NEW r \in SUBSET Path, NEW u, Sound(u), u.status = "running", AtHome(r, u.tree),
         NEW path \in Path, NEW name \in Name, NEW o \in CreateKey(r, u, path, name),
         ~Refused(r, u, o), ~Stopped(o)
  PROVE  AtHome(o.reg, o.ui.tree)
<1>0. PICK q : q = Child(path, name)
  OBVIOUS
<1>10. Created(r, u, path, name, q, o)
  BY <1>0, CreateShape
<1>1. PICK w, n :
        /\ Sound(w) /\ w.tree = AddChild(u.tree, q, n) /\ n.at = q
        /\ o.ui = UpdateIfSame(o.reg, w, path)
  BY <1>10 DEF Created
<1>2. o.reg = r \union Prefixes(q) /\ q \notin DOMAIN u.tree
  BY <1>10 DEF Created
<1>3. q \in o.reg
  <2>1. q \in Path
    BY <1>0, ChildPath DEF Path, Child
  <2> QED
    BY <1>2, <2>1, PathItself, Zenon
<1>4. AtHome(o.reg, w.tree)
  BY <1>1, <1>2, <1>3 DEF AtHome, AddChild
<1> QED
  BY <1>1, <1>4, UpdateIfSameGrows DEF Grows

LEMMA DeleteAtHome ==
  ASSUME NEW r \in SUBSET Path, NEW u, Sound(u), u.status = "running", AtHome(r, u.tree),
         NEW path \in Path, NEW name \in Name, NEW o \in DeleteKey(r, u, path, name),
         ~Refused(r, u, o), ~Stopped(o)
  PROVE  AtHome(o.reg, o.ui.tree)
<1>0. PICK q, dead : q = Child(path, name) /\ dead = [u EXCEPT !.tree = KillHandles(u.tree, q)]
  OBVIOUS
<1>10. Deleted(r, u, path, q, dead, o)
  BY <1>0, DeleteShape
<1>1. /\ q \in DOMAIN u.tree /\ o.reg = r \ {q} /\ dead.tree = KillHandles(u.tree, q)
      /\ Sound(dead) /\ dead.status = "running"
      /\ \E v \in DeleteItem(o.reg, dead, q) :
           v.status = "running" /\ Sound(v) /\ o.ui = UpdateIfSame(o.reg, v, path)
  BY <1>10 DEF Deleted
<1>2. q # <<>>
  BY <1>0, ChildPath DEF Child
<1>3. PICK v \in DeleteItem(o.reg, dead, q) :
        v.status = "running" /\ Sound(v) /\ o.ui = UpdateIfSame(o.reg, v, path)
  BY <1>1
<1>4. q \in DOMAIN dead.tree
  BY <1>1 DEF KillHandles
<1>5. AtHome(o.reg, Pruned(dead.tree, q))
  <2>1. IsTree(u.tree)
    BY UIFields DEF Sound
  <2>2. PICK k : k = Pruned(KillHandles(u.tree, q), q)
    OBVIOUS
  <2>3. AtHome(r \ {q}, k)
    BY <1>1, <2>1, <2>2, PrunedHome
  <2> QED
    BY <1>1, <2>2, <2>3
<1>6. Grows(o.reg, Pruned(dead.tree, q), v.tree)
  BY <1>1, <1>2, <1>3, <1>4, DeleteItemShape
<1> QED
  BY <1>3, <1>5, <1>6, UpdateIfSameGrows DEF Grows

LEMMA RenameAtHome ==
  ASSUME NEW r \in SUBSET Path, NEW u, Sound(u), u.status = "running", AtHome(r, u.tree),
         NEW path \in Path, NEW name \in Name, NEW o \in RenameKey(r, u, path, name),
         ~Refused(r, u, o), ~Stopped(o)
  PROVE  AtHome(o.reg, o.ui.tree)
<1>0. PICK q : q = Child(Front(path), name)
  OBVIOUS
<1>10. KeyRenamed(r, u, path, q, o)
  BY <1>0, RenameShape
<1>1. /\ o.reg = Moved(path, q, r) /\ Sibling(path, q)
      /\ path \in DOMAIN u.tree => MovedTree(path, q, u.tree, o.ui.tree)
      /\ path \notin DOMAIN u.tree => o.ui.tree = MoveHandles(u.tree, path, q)
  BY <1>10 DEF KeyRenamed
<1>2. IsTree(u.tree) /\ Closed(u.tree) /\ DOMAIN u.tree \subseteq Path
  BY UIFields DEF Sound, IsTree
<1>3. ASSUME NEW y \in DOMAIN u.tree
      PROVE  RebaseHandle(path, q, u.tree[y].at) = Rebase(path, q, y) /\ y \in r
  BY <1>2, DistinctAssumption DEF AtHome, RebaseHandle
<1>4. CASE path \in DOMAIN u.tree
  BY <1>1, <1>3, <1>4 DEF MovedTree, Moved, AtHome
<1>5. CASE path \notin DOMAIN u.tree
  <2>1. ASSUME NEW y \in DOMAIN u.tree PROVE Rebase(path, q, y) = y /\ y \in o.reg
    <3>1. ~IsPrefix(path, y)
      BY <1>2, <1>5 DEF Closed
    <3>2. Rebase(path, q, y) = y
      BY <3>1 DEF Rebase
    <3> QED
      BY <1>1, <1>3, <3>2 DEF Moved
  <2>2. ASSUME NEW y \in DOMAIN u.tree PROVE o.ui.tree[y].at = y
    <3>1. o.ui.tree[y] = [u.tree[y] EXCEPT !.at = RebaseHandle(path, q, u.tree[y].at)]
      BY <1>1, <1>5 DEF MoveHandles
    <3>2. u.tree[y] \in Node
      BY <1>2, NodeFields
    <3>3. o.ui.tree[y].at = RebaseHandle(path, q, u.tree[y].at)
      BY <3>1, <3>2 DEF Node
    <3> QED
      BY <1>3, <2>1, <3>3
  <2>3. DOMAIN o.ui.tree = DOMAIN u.tree
    BY <1>1, <1>5 DEF MoveHandles
  <2> QED
    BY <2>1, <2>2, <2>3 DEF AtHome
<1> QED
  BY <1>4, <1>5

LEMMA CommandAtHome ==
  ASSUME NEW r \in SUBSET Path, NEW u, Sound(u), u.status = "running", AtHome(r, u.tree),
         NEW c \in Command, NEW o \in Execute(r, u, c) \union UndoCommand(r, u, c),
         o.ui.status = "running"
  PROVE  AtHome(o.reg, o.ui.tree)
<1>1. c.path \in Path /\ c.name \in Name /\ ~Stopped(o)
  BY DEF Command, Stopped
<1>2. CASE Refused(r, u, o)
  BY <1>2 DEF Refused
<1>3. CASE ~Refused(r, u, o)
  BY <1>1, <1>3, CreateAtHome, DeleteAtHome, RenameAtHome DEF Execute, UndoCommand
<1> QED
  BY <1>2, <1>3

(* A command, an undo or a redo ends in one of its outcomes, and the view  *)
(* may be updated once more.                                               *)
Ends(outcomes, o) ==
  /\ o \in outcomes /\ reg' = o.reg
  /\ \E u \in {o.ui, UpdateIfSame(o.reg, o.ui, o.ui.sel)} : ui' = UpdateUI(allowModify, u)

LEMMA EndsGrows ==
  ASSUME Rest, AtRest, NEW c \in Command, NEW outcomes,
         outcomes \in {Execute(reg, ui, c), UndoCommand(reg, ui, c)},
         NEW o, Ends(outcomes, o), Running'
  PROVE  /\ o.ui.status = "running" /\ Sound(o.ui) /\ o.reg \in SUBSET Path
         /\ Grows(reg', o.ui.tree, ui'.tree)
         /\ Trees(reg', o.ui) /\ Shows(reg', o.ui) => Shows(reg', ui')
         /\ ui'.status = "running"
<1>1. GoodOutcome(ui, c.path, o)
  BY RestFacts, CommandGood DEF Ends
<1>2. o.reg \in SUBSET Path /\ Sound(o.ui) /\ reg' = o.reg
  BY <1>1 DEF GoodOutcome, Ends
<1>3. PICK u \in {o.ui, UpdateIfSame(o.reg, o.ui, o.ui.sel)} : ui' = UpdateUI(allowModify, u)
  BY DEF Ends
<1>4. Sound(u) /\ Keeps(o.reg, o.ui, u)
  BY <1>2, <1>3, UpdateIfSameSound, UpdateIfSameGrows, GrowsReflexive DEF Keeps
<1>5. ui'.status = "running" /\ ui' = u
  BY <1>3, <1>4, UpdateUIFields DEF Running, Sound
<1>6. o.ui.status = "running"
  BY <1>3, <1>5 DEF UpdateIfSame, Update
<1> QED
  BY <1>2, <1>4, <1>5, <1>6 DEF Keeps

LEMMA CommandEnds ==
  ASSUME IInv, AtRest
  PROVE  /\ \A c : AddCommand(c) => \E o : Ends(Execute(reg, ui, c), o)
         /\ \A outcomes, l1, l2 : Rerun(outcomes, l1, l2) => \E o : Ends(outcomes, o)
<1>1. ASSUME NEW c, AddCommand(c) PROVE \E o : Ends(Execute(reg, ui, c), o)
  BY <1>1 DEF AddCommand, Ends
<1>2. ASSUME NEW outcomes, NEW l1, NEW l2, Rerun(outcomes, l1, l2)
      PROVE  \E o : Ends(outcomes, o)
  BY <1>2 DEF Rerun, Ends
<1> QED
  BY <1>1, <1>2

(* The strengthened invariant.                                             *)
AInv == IInv /\ (Running => AtHome(reg, ui.tree))

LEMMA EndsAtHome ==
  ASSUME AInv, AtRest, NEW c \in Command, NEW outcomes,
         outcomes \in {Execute(reg, ui, c), UndoCommand(reg, ui, c)},
         NEW o, Ends(outcomes, o), Running'
  PROVE  AtHome(reg', ui'.tree)
<1>1. IInv /\ AtHome(reg, ui.tree)
  BY DEF AInv, AtRest
<1>2. o.ui.status = "running" /\ Grows(reg', o.ui.tree, ui'.tree) /\ reg' = o.reg
  BY <1>1, EndsGrows, RestInv DEF Ends
<1>3. /\ reg \in SUBSET Path /\ Sound(ui) /\ ui.status = "running"
      /\ o \in Execute(reg, ui, c) \union UndoCommand(reg, ui, c)
  BY <1>1, AtRestInv DEF Ends
<1>4. AtHome(o.reg, o.ui.tree)
  BY <1>1, <1>2, <1>3, CommandAtHome
<1> QED
  BY <1>2, <1>4 DEF Grows

LEMMA InitialTreeHome ==
  /\ AtHome(InitialKeys, InitialTree)
  /\ Complete(InitialKeys, InitialTree) /\ Listed(InitialKeys, InitialTree, <<>>)
  /\ \A o : o[<<>>] = <<>> /\ (\A p \in Path, x \in Name :
               Append(p, x) \in InitialKeys => o[Append(p, x)] = Append(o[p], x))
            => Named(InitialKeys, o, InitialTree)
<1> DEFINE n == AddItem(InitialKeys, BareNode(<<>>, <<>>))
           t == [p \in {<<>>} |-> n]
<1>1. <<>> \in Path /\ <<>> \in InitialKeys
  BY EmptySeq, KeysAssumption DEF Path
<1>2. n \in Node /\ n.at = <<>> /\ n.full = <<>>
  BY <1>1, BareNodeType, AddItemType DEF AddItem, BareNode
<1> HIDE DEF n
<1>3. IsTree(t) /\ DOMAIN t = {<<>>} /\ t[<<>>] = n
  BY <1>1, <1>2 DEF IsTree
<1>4. ASSUME NEW q \in Path, IsPrefix(q, <<>>) PROVE q = <<>>
  <2>1. Len(q) <= Len(<<>>)
    BY <1>1, <1>4, PrefixByElement
  <2> QED
    BY <2>1, EmptySeq DEF Path
<1> HIDE DEF t
<1>5. Closed(t)
  BY <1>3, <1>4 DEF Closed
<1>6. Kids(t, <<>>) = {}
  BY <1>1, <1>3, ChildPath DEF Kids
<1>7. AtHome(InitialKeys, t) /\ Complete(InitialKeys, t)
  BY <1>1, <1>2, <1>3, <1>6 DEF AtHome, Complete
<1>8. InitialTree = Expand(InitialKeys, t, <<>>)
  BY DEF InitialTree, t, n
<1>9. Grows(InitialKeys, t, InitialTree) /\ Listed(InitialKeys, InitialTree, <<>>)
  BY <1>3, <1>5, <1>7, <1>8, ExpandGrows
<1>10. \A o : o[<<>>] = <<>> /\ (\A p \in Path, x \in Name :
               Append(p, x) \in InitialKeys => o[Append(p, x)] = Append(o[p], x))
            => Named(InitialKeys, o, t)
  BY <1>2, <1>3 DEF Named
<1> QED
  BY <1>7, <1>9, <1>10 DEF Grows

LEMMA AInitInv == Init => AInv
  BY InitInv, InitialTreeHome DEF AInv, Init

LEMMA AEditInv ==
  ASSUME AInv, EditKeys \/ \E x \in Name : OnEndRename(x)
  PROVE  AInv'
<1>1. IInv /\ IInv'
  BY EditInv DEF AInv
<1>2. \E c \in Command : \E outcomes \in {Execute(reg, ui, c), UndoCommand(reg, ui, c)} :
        AtRest /\ \E o : Ends(outcomes, o)
  <2> USE DEF Command
  <2>1. ASSUME NEW x \in Name, OnNewKey(x) \/ OnEndRename(x)
        PROVE  \E c \in Command : AtRest /\ AddCommand(c)
    <3>1. AtRest /\ ui.sel # NoNode
      BY <2>1 DEF OnNewKey, OnEndRename
    <3>2. ui.tree[ui.sel].full \in Path
      BY <1>1, <3>1, AtRestInv, NodeFields
    <3> QED
      BY <2>1, <3>1, <3>2 DEF OnNewKey, OnEndRename
  <2> HIDE DEF Command
  <2>2. undoList \in Seq(Command) /\ redoList \in Seq(Command)
    BY <1>1 DEF IInv, TypeOK
  <2>3. ASSUME OnEditUndo \/ OnEditRedo
        PROVE  \E c \in Command : \E outcomes \in {Execute(reg, ui, c), UndoCommand(reg, ui, c)} :
                 AtRest /\ \E l1, l2 : Rerun(outcomes, l1, l2)
    BY <2>2, <2>3, FrontLastType DEF OnEditUndo, OnEditRedo
  <2> QED
    BY <1>1, <2>1, <2>3, CommandEnds DEF EditKeys
<1>3. Running' => AtHome(reg', ui'.tree)
  BY <1>2, EndsAtHome
<1> QED
  BY <1>1, <1>3 DEF AInv

LEMMA ANextInv ==
  ASSUME AInv, [NextAlone]_vars
  PROVE  AInv'
<1>1. CASE Look
  <2>1. IInv /\ IInv' /\ Running /\ AtHome(reg, ui.tree)
    BY <1>1, LookInv, LookAtRest DEF AInv, AtRest
  <2>2. AtRest /\ Rest
    BY <1>1, <2>1, LookAtRest, RestInv
  <2>3. Grows(reg, ui.tree, ui'.tree) /\ reg' = reg
    BY <1>1, <2>2, LookKeeps DEF Keeps
  <2> QED
    BY <2>1, <2>3 DEF AInv, Grows
<1>2. CASE OnRefresh
  <2>1. IInv' /\ ui' = ui /\ reg' = reg
    BY <1>2, RefreshInv DEF AInv, OnRefresh
  <2> QED
    BY <2>1 DEF AInv, Running
<1>3. CASE RefreshStep
  <2>1. IInv /\ IInv' /\ AtHome(reg, ui.tree)
    BY <1>3, RefreshInv DEF AInv, RefreshStep, RefreshRemove, RefreshAdd, RefreshEnd
  <2>2. Grows(reg, ui.tree, ui'.tree) /\ reg' = reg
    BY <1>3, <2>1, RefreshKeeps
  <2> QED
    BY <2>1, <2>2 DEF AInv, Grows
<1>4. CASE EditKeys \/ \E x \in Name : OnEndRename(x)
  BY <1>4, AEditInv
<1>5. CASE UNCHANGED vars
  BY <1>5 DEF AInv, IInv, vars, lists, refresh, TypeOK, Running
<1> QED
  BY <1>1, <1>2, <1>3, <1>4, <1>5 DEF NextAlone, NextNoRename

(* Whatever is created, renamed, taken back, redone, expanded and          *)
(* refreshed with no other process on the registry, every node stands      *)
(* where the key is that its handle is open on, and that key exists.       *)
THEOREM AloneNodesAreKeys == SpecAlone => []NodesAreKeys
<1>1. AInv => NodesAreKeys
  BY DEF AInv, NodesAreKeys, AtHome
<1> QED
  BY <1>1, AInitInv, ANextInv, PTL DEF SpecAlone
=============================================================================
