------------------------------ MODULE KeyTree -------------------------------
(***************************************************************************)
(* The key side of the editor as a state machine: the handlers of          *)
(* CMainFrame and CView that create, rename, show and refresh keys, the    *)
(* two command stacks, and other processes that change the registry.       *)
(* Each handler is one step; only Refresh, which can start further         *)
(* handlers through the tree control, is a step per node.                  *)
(***************************************************************************)
EXTENDS KeyNodes

CONSTANTS InitialKeys,  \* the keys below the hive when the program starts
          MaxDepth,     \* bound: the depth of keys that are created
          MaxCommands,  \* bound: the most commands on the undo stack
          MaxChanges    \* bound: how often another process changes the registry

ASSUME KeysAssumption ==
  /\ InitialKeys \subseteq Path
  /\ <<>> \in InitialKeys
  /\ \A p \in InitialKeys : p # <<>> => Front(p) \in InitialKeys
ASSUME BoundsAssumption == MaxDepth \in Nat /\ MaxCommands \in Nat /\ MaxChanges \in Nat

VARIABLES reg,          \* the paths that are keys in the registry
          ui,           \* the tree, the selection and the list view: see UI
          undoList,     \* CommandManager::_undoList
          redoList,     \* CommandManager::_redoList
          allowModify,  \* CMainFrame::m_AllowModify
          refreshing,   \* a Refresh() call is in progress
          todo,         \* the nodes it has still to bring up to date
          changes       \* how often another process has changed the registry

vars == <<reg, ui, undoList, redoList, allowModify, refreshing, todo, changes>>
lists == <<undoList, redoList>>
refresh == <<refreshing, todo>>

Running == ui.status = "running"
AtRest == Running /\ ~refreshing

-----------------------------------------------------------------------------
(* The start: the hive's item has been clicked.                            *)

InitialTree == Expand(InitialKeys, [p \in {<<>>} |-> AddItem(InitialKeys, BareNode(<<>>, <<>>))], <<>>)

Init ==
  /\ reg = InitialKeys
  /\ ui = [tree |-> InitialTree, sel |-> <<>>, under |-> <<>>, cur |-> <<>>,
           rows |-> KidPaths(InitialTree, <<>>), status |-> "running"]
  /\ undoList = <<>> /\ redoList = <<>>
  /\ allowModify = FALSE
  /\ refreshing = FALSE /\ todo = {} /\ changes = 0

(* CommandManager::AddCommand(c).                                          *)
AddCommand_KeepsRedo(c) ==              \* variant: a new command leaves the redo stack alone
  /\ Len(undoList) < MaxCommands
  /\ \E o \in Execute(reg, ui, c) :
       /\ reg' = o.reg
       /\ ui' = UpdateUI(allowModify, o.ui)
       /\ undoList' = IF o.ok THEN Append(undoList, Done(c)) ELSE undoList
  /\ UNCHANGED <<redoList, allowModify, refresh, changes>>

AddCommand(c) ==
  /\ Len(undoList) < MaxCommands
  /\ \E o \in Execute(reg, ui, c) :
       /\ reg' = o.reg
       /\ ui' = UpdateUI(allowModify, o.ui)
       /\ IF o.ok THEN undoList' = Append(undoList, Done(c)) /\ redoList' = <<>>
                  ELSE UNCHANGED lists
  /\ UNCHANGED <<allowModify, refresh, changes>>

(* OnNewKey: the new key's parent is named by the selected node's _full.   *)
OnNewKey(x) ==
  /\ AtRest /\ allowModify /\ ui.sel # NoNode
  /\ Len(ui.tree[ui.sel].full) < MaxDepth
  /\ x \notin Kids(ui.tree, ui.sel)
  /\ AddCommand([op |-> "create", path |-> ui.tree[ui.sel].full, name |-> x])

(* OnEndRename; OnBeginRename refuses it in read-only mode.                *)
OnEndRename(x) ==
  /\ AtRest /\ allowModify /\ ui.sel # NoNode
  /\ ui.sel # <<>> => x # Last(ui.sel)
  /\ AddCommand([op |-> "rename", path |-> ui.tree[ui.sel].full, name |-> x])

(* OnEditUndo and OnEditRedo, enabled in read-only mode too; the view is   *)
(* refreshed whether or not the command worked.                            *)
Rerun(outcomes, undoLater, redoLater) ==
  /\ \E o \in outcomes :
       /\ reg' = o.reg
       /\ ui' = UpdateUI(allowModify, UpdateIfSame(o.reg, o.ui, o.ui.sel))
       /\ IF o.ok THEN undoList' = undoLater /\ redoList' = redoLater
                  ELSE UNCHANGED lists
  /\ UNCHANGED <<allowModify, refresh, changes>>

OnEditUndo ==
  /\ AtRest /\ undoList # <<>>
  /\ LET c == Last(undoList)
     IN  Rerun(UndoCommand(reg, ui, c), Front(undoList), Append(redoList, Done(c)))

OnEditRedo_NoPop ==                     \* variant: the command stays on the redo stack
  /\ AtRest /\ redoList # <<>>
  /\ LET c == Last(redoList)
     IN  Rerun(Execute(reg, ui, c), Append(undoList, Done(c)), redoList)

OnEditRedo ==
  /\ AtRest /\ redoList # <<>>
  /\ LET c == Last(redoList)
     IN  Rerun(Execute(reg, ui, c), Append(undoList, Done(c)), Front(redoList))

OnEditModify ==
  /\ AtRest
  /\ allowModify' = ~allowModify
  /\ ui' = UpdateUI(allowModify', ui)
  /\ UNCHANGED <<reg, lists, refresh, changes>>

-----------------------------------------------------------------------------
(* Looking around: only the tree, the selection and the view change.       *)

Browse(u) == AtRest /\ ui' = UpdateUI(allowModify, u)
                    /\ UNCHANGED <<reg, lists, allowModify, refresh, changes>>

OnTreeSelectionChanged(p) == Visible(ui.tree, p) /\ Browse(Select(reg, ui, p))

SelectPlaceholder(p) ==
  /\ Visible(ui.tree, p) /\ ui.tree[p].mark = "shown"
  /\ Browse(SelectMark(reg, ui, p))

(* Collapsing an item first takes the selection off its placeholder.       *)
OnTreeItemExpanding(p) ==
  /\ Visible(ui.tree, p) /\ ui.tree[p].mark # "none"
  /\ ~(ui.sel = NoNode /\ ui.under = p)
  /\ Browse(OpenItem(reg, ui, p))

(* OnDoubleClick, or Return, on a key of the list view.                    *)
OnDoubleClick(q) == q \in ui.rows /\ Browse(SelectNode(reg, ui, q))

(* OnDoubleClick on the ".." row.                                          *)
UpDir == ui.cur # <<>> /\ Browse(Select(reg, ui, Front(ui.cur)))

-----------------------------------------------------------------------------
(* Refresh: depth first over the expanded nodes; each drops the children   *)
(* that are no longer keys and then adds the keys it does not know.        *)

Reached_Hive(t) == {<<>>}               \* variant: no recursion into the children

Reached(t) == {p \in DOMAIN t : \A q \in DOMAIN t : IsPrefix(q, p) => t[q].expanded}

(* A child whose name no longer opens; a dead handle says KEY_DELETED, not *)
(* FILE_NOT_FOUND, and its children stay.                                  *)
Missing(r, t, p) ==
  {q \in KidPaths(t, p) : t[p].at # Gone /\ Append(t[p].at, Last(q)) \notin r}

(* AddNewKeys, when the counts differ; DeletedKey is not skipped.          *)
AddNewKeys(r, u, p) ==
  LET t     == u.tree
      found == IF t[p].at = Gone THEN {} ELSE SubKeys(r, t[p].at)
      fresh == IF Cardinality(found) = Cardinality(Kids(t, p)) THEN {} ELSE found \ Kids(t, p)
      full  == AddChildren(t, p, fresh)
  IN  [u EXCEPT !.tree = [q \in DOMAIN full |->
         IF q \in {Append(p, x) : x \in fresh} THEN AddItem(r, full[q]) ELSE full[q]]]

Deepest(p) == p \in todo /\ \A q \in todo : ~IsStrictPrefix(p, q)

OnRefresh ==
  /\ AtRest
  /\ refreshing' = TRUE
  /\ todo' = Reached(ui.tree)
  /\ UNCHANGED <<reg, ui, lists, allowModify, changes>>

RefreshRemove(p) ==
  /\ Running /\ refreshing /\ Deepest(p)
  /\ \E q \in Missing(reg, ui.tree, p) : ui' \in DeleteItem(reg, ui, q)
  /\ UNCHANGED <<reg, lists, allowModify, refresh, changes>>

RefreshAdd_Again(p) ==                  \* variant: the node is never done
  /\ Running /\ refreshing /\ Deepest(p)
  /\ Missing(reg, ui.tree, p) = {}
  /\ ui' = AddNewKeys(reg, ui, p)
  /\ UNCHANGED <<reg, lists, allowModify, refresh, changes>>

RefreshAdd(p) ==
  /\ Running /\ refreshing /\ Deepest(p)
  /\ Missing(reg, ui.tree, p) = {}
  /\ ui' = AddNewKeys(reg, ui, p)
  /\ todo' = todo \ {p}
  /\ UNCHANGED <<reg, lists, allowModify, refreshing, changes>>

(* The end of OnRefresh: m_view.Update(m_SelectedNode, true).              *)
RefreshEnd_NoUpdate ==                  \* variant: the list view is not refreshed
  /\ Running /\ refreshing /\ todo = {}
  /\ refreshing' = FALSE
  /\ UNCHANGED <<reg, ui, lists, allowModify, todo, changes>>

RefreshEnd ==
  /\ Running /\ refreshing /\ todo = {}
  /\ refreshing' = FALSE
  /\ ui' = UpdateUI(allowModify, UpdateIfSame(reg, ui, ui.sel))
  /\ UNCHANGED <<reg, lists, allowModify, todo, changes>>

-----------------------------------------------------------------------------
(* Another process creates or deletes a key between two of our messages.   *)

ExternalCreate(p, x) ==
  /\ AtRest /\ changes < MaxChanges
  /\ Append(p, x) \notin reg /\ Len(p) < MaxDepth
  /\ reg' = reg \union {Append(p, x)}
  /\ changes' = changes + 1
  /\ UNCHANGED <<ui, lists, allowModify, refresh>>

ExternalDelete(p) ==
  /\ AtRest /\ changes < MaxChanges
  /\ p # <<>> /\ SubKeys(reg, p) = {}
  /\ reg' = reg \ {p}
  /\ changes' = changes + 1
  /\ ui' = [ui EXCEPT !.tree = KillHandles(@, p)]
  /\ UNCHANGED <<lists, allowModify, refresh>>

-----------------------------------------------------------------------------
Look == \/ \E p \in DOMAIN ui.tree : \/ OnTreeSelectionChanged(p)
                                     \/ SelectPlaceholder(p)
                                     \/ OnTreeItemExpanding(p)
        \/ \E q \in ui.rows : OnDoubleClick(q)
        \/ UpDir
        \/ OnEditModify

RefreshStep == RefreshEnd \/ \E p \in todo : RefreshAdd(p) \/ RefreshRemove(p)

Others == \/ \E p \in reg, x \in Name : ExternalCreate(p, x)
          \/ \E p \in reg : ExternalDelete(p)

EditKeys == (\E x \in Name : OnNewKey(x)) \/ OnEditUndo \/ OnEditRedo

(* The selected node's _full names the node itself: neither it nor a node  *)
(* above it has a new name since.                                          *)
NamesItself == ui.sel # NoNode /\ ui.tree[ui.sel].full = ui.sel

(* Alone on the registry and never renaming; alone, editing only keys      *)
(* whose _full is true and never typing the name of the backup key; alone; *)
(* with other processes.                                                   *)
NextNoRename == Look \/ OnRefresh \/ RefreshStep \/ EditKeys
NextInPlace  == \/ Look \/ OnRefresh \/ RefreshStep \/ OnEditUndo \/ OnEditRedo
                \/ NamesItself /\ \E x \in Name \ {DeletedKey} : OnNewKey(x) \/ OnEndRename(x)
NextAlone    == NextNoRename \/ \E x \in Name : OnEndRename(x)
Next         == NextAlone \/ Others

SpecNoRename == Init /\ [][NextNoRename]_vars
SpecInPlace  == Init /\ [][NextInPlace]_vars
SpecAlone    == Init /\ [][NextAlone]_vars
Spec         == Init /\ [][Next]_vars /\ WF_vars(RefreshStep)
=============================================================================
