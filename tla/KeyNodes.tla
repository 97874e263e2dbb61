------------------------------ MODULE KeyNodes ------------------------------
(***************************************************************************)
(* The key tree of the editor under one hive of "Standard Registry" as     *)
(* data: the registry, the RegKeyTreeNode objects with their items in the  *)
(* tree control, the selection and the list view, and what the functions   *)
(* of RegistryManager, RegKeyTreeNode and CView do to them.  KeyTree.tla   *)
(* is the state machine over it.                                           *)
(*                                                                         *)
(* A path is the sequence of key names below the hive, <<>> the hive.      *)
(* A node object is identified by its place in the tree, which is where    *)
(* FindNode looks for it; the tree is a partial function from places to    *)
(* nodes.  The registry is the set of paths that are keys.                 *)
(***************************************************************************)
EXTENDS Naturals, Sequences, FiniteSets, SequencesExt

CONSTANTS Name,         \* key names
          DeletedKey,   \* the name of the backup key; need not be in Name
          NoNode,       \* a null TreeNodeBase*
          Gone          \* the registry path of a key object that was deleted

Path == Seq(Name)

ASSUME DistinctAssumption == NoNode \notin Path /\ Gone \notin Path

(***************************************************************************)
(* A node: the registry path of the key its handle is open on (handles     *)
(* follow a rename and outlive a deletion), its _full text, its _expanded  *)
(* flag, whether it has a tree item, and the "***" placeholder below that  *)
(* item: none, not yet expanded by the user, or shown because the key had  *)
(* no subkeys left when it was.                                            *)
(***************************************************************************)
Node == [at       : Path \union {Gone},
         full     : Path,
         expanded : BOOLEAN,
         item     : BOOLEAN,
         mark     : {"none", "closed", "shown"}]

(* Why the program stopped.  running: it did not.  noRoot, noParentNode,   *)
(* noChildNode, noItem: a null pointer that an ATLASSERT of RegistryManager *)
(* guards.  wiped: DeleteItem(NULL) emptied the tree control.  torn: the   *)
(* tree shows a key or an item twice.  hung: the view enumerates values of *)
(* a deleted key for ever.  noSelection: UpdateUI dereferences a null      *)
(* m_SelectedNode.  dangling: the view shows a node that was freed.        *)
Status == {"running", "noRoot", "noParentNode", "noChildNode", "noItem",
           "wiped", "torn", "hung", "noSelection", "dangling"}

Command == [op : {"create", "rename"}, path : Path, name : Name]

(* What the handlers pass round: the tree, m_SelectedNode, the node whose  *)
(* placeholder is the selected item while that is null (<<>> otherwise),   *)
(* the view's m_CurrentNode, the keys among its rows m_Items, the status.  *)
IsTree(t) == DOMAIN t \subseteq Path /\ t \in [DOMAIN t -> Node]

IsUI(u) == /\ IsTree(u.tree)
           /\ u \in [tree : {u.tree}, sel : Path \union {NoNode}, under : Path,
                     cur : Path, rows : SUBSET Path, status : Status]

-----------------------------------------------------------------------------
(* Reading the registry and the tree.                                      *)

SubKeys(r, p) == {x \in Name : Append(p, x) \in r}

HasChildren(r, p) == p # Gone /\ SubKeys(r, p) # {}

Kids(t, p) == {x \in Name : Append(p, x) \in DOMAIN t}

KidPaths(t, p) == {Append(p, x) : x \in Kids(t, p)}

(* RegistryManager::IsExpanded: no placeholder, and something is listed.   *)
IsExpanded_AnyItem(t, p) == Kids(t, p) # {}     \* variant: the placeholder counts as a key

IsExpanded(t, p) == t[p].mark = "none" /\ Kids(t, p) # {}

(* A user can reach an item whose ancestors have been expanded.            *)
Visible(t, p) ==
  /\ t[p].item
  /\ \A q \in DOMAIN t : IsStrictPrefix(q, p) => t[q].mark # "closed"

-----------------------------------------------------------------------------
(* Building the tree.  r is the registry, t a tree, u a UI record.         *)

Stop(u, why) == [u EXCEPT !.status = why]

BareNode(at, full) ==
  [at |-> at, full |-> full, expanded |-> FALSE, item |-> FALSE, mark |-> "none"]

(* AddItem: an item, and a placeholder under it when the key has subkeys.  *)
AddItem(r, n) ==
  [n EXCEPT !.item = TRUE, !.mark = IF HasChildren(r, n.at) THEN "closed" ELSE "none"]

(* AddChild of a new node n at q.                                          *)
AddChild(t, q, n) == [x \in DOMAIN t \union {q} |-> IF x = q THEN n ELSE t[x]]

(* The children of node p as its own handle lists them; SetParent builds   *)
(* _full from the parent's _full.                                          *)
AddChildren_TextOnly(t, p, names) ==    \* variant: _full is the bare text
  [q \in DOMAIN t \union {Append(p, x) : x \in names} |->
     IF q \in DOMAIN t THEN t[q] ELSE BareNode(Append(t[p].at, Last(q)), <<Last(q)>>)]

AddChildren(t, p, names) ==
  [q \in DOMAIN t \union {Append(p, x) : x \in names} |->
     IF q \in DOMAIN t THEN t[q]
     ELSE BareNode(Append(t[p].at, Last(q)), Append(t[p].full, Last(q)))]

(* RegKeyTreeNode::Expand: enumerates only while the node has no children. *)
Expand_FromOne(r, t, p) ==              \* variant: the enumeration starts at index 1
  LET listed == IF t[p].at = Gone THEN {} ELSE SubKeys(r, t[p].at) \ {DeletedKey}
      first  == IF listed = {} THEN {} ELSE {CHOOSE x \in listed : TRUE}
  IN  IF Kids(t, p) # {} THEN t
      ELSE [AddChildren(t, p, listed \ first) EXCEPT ![p].expanded = TRUE]

Expand(r, t, p) ==
  LET listed == IF t[p].at = Gone THEN {} ELSE SubKeys(r, t[p].at) \ {DeletedKey}
  IN  IF Kids(t, p) # {} THEN t
      ELSE [AddChildren(t, p, listed) EXCEPT ![p].expanded = TRUE]

(* RegistryManager::ExpandItem: the placeholder goes, every child gets an  *)
(* item, one that already has an item a second one.                        *)
ExpandItem(r, u, p) ==
  LET t == Expand(r, u.tree, p)
  IN  IF \E q \in KidPaths(t, p) : t[q].item
        THEN Stop(u, "torn")
        ELSE [u EXCEPT !.tree = [q \in DOMAIN t |->
                 IF q \in KidPaths(t, p) THEN AddItem(r, t[q])
                 ELSE IF q = p THEN [t[q] EXCEPT !.mark = "none"]
                 ELSE t[q]]]

(* TVN_ITEMEXPANDING: HandleNotification leaves a childless key alone, and *)
(* the control shows the placeholder.                                      *)
OpenItem(r, u, p) ==
  IF HasChildren(r, u.tree[p].at) THEN ExpandItem(r, u, p)
  ELSE [u EXCEPT !.tree[p].mark = "shown"]

(* CView::Update(p): the rows are the node's children; the loop over the   *)
(* values of a deleted key never sees ERROR_NO_MORE_ITEMS.                 *)
Update(r, u, p) ==
  LET t == Expand(r, u.tree, p)
  IN  IF u.status # "running" THEN u
      ELSE IF t[p].at = Gone THEN Stop(u, "hung")
      ELSE [u EXCEPT !.tree = t, !.cur = p, !.rows = KidPaths(t, p)]

(* CView::Update(p, true): only when the view shows p; null means the      *)
(* node it shows.                                                          *)
UpdateIfSame_Never(r, u, p) == u        \* variant: the view is not told

UpdateIfSame_Null(r, u, p) ==           \* variant: null is stored before it is replaced
  IF p = NoNode THEN [u EXCEPT !.cur = NoNode]
  ELSE IF p = u.cur THEN Update(r, u, u.cur) ELSE u

UpdateIfSame(r, u, p) ==
  IF p \in {NoNode, u.cur} THEN Update(r, u, u.cur) ELSE u

(* TVM_SELECTITEM and OnTreeSelectionChanged: node p, or the placeholder   *)
(* below node p, whose item data is null; the view then updates the node   *)
(* it shows.                                                               *)
Select_NoUpdate(r, u, p) ==             \* variant: the view stays behind
  [u EXCEPT !.sel = p, !.under = <<>>]

Select(r, u, p) ==
  IF p = u.sel THEN u ELSE Update(r, [u EXCEPT !.sel = p, !.under = <<>>], p)

SelectMark(r, u, p) ==
  IF u.sel = NoNode /\ u.under = p THEN u
  ELSE Update(r, [u EXCEPT !.sel = NoNode, !.under = p], u.cur)

(* RegistryManager::SelectNode of the child q of the shown node: its       *)
(* parent is expanded, then it is selected and expanded itself.            *)
SelectNode(r, u, q) ==
  LET p      == Front(q)
      opened == IF u.tree[p].mark = "closed" THEN OpenItem(r, u, p) ELSE u
      chosen == Select(r, opened, q)
  IN  IF opened.status # "running" THEN opened
      ELSE IF ~opened.tree[q].item THEN Stop(opened, "noItem")
      ELSE IF chosen.status = "running" /\ chosen.tree[q].mark # "none"
        THEN ExpandItem(r, chosen, q)
      ELSE chosen

(* UpdateUI, run by OnIdle after every message.                            *)
UpdateUI(allow, u) ==
  IF u.status = "running" /\ allow /\ u.sel = NoNode THEN Stop(u, "noSelection") ELSE u

-----------------------------------------------------------------------------
(* Taking nodes away.                                                      *)

(* The items the control may select when p's item goes: a sibling, the     *)
(* parent, or the parent's placeholder.                                    *)
Successors(t, p) ==
  {q \in KidPaths(t, Front(p)) \union {Front(p)} : t[q].item}
    \union (IF t[Front(p)].mark = "none" THEN {} ELSE {NoNode})

(* RemoveChild and TreeView DeleteItem of p: the nodes of the subtree are  *)
(* freed through OnTreeDeleteItem.  The control selects another item when  *)
(* the selected one, a placeholder too, goes; the view follows a node, but *)
(* stays on the one it shows, freed or not, while a placeholder is         *)
(* selected.  TVM_DELETEITEM with a null handle deletes every item of the  *)
(* control.                                                                *)
DeleteItem_Follows(r, u, p) ==          \* variant: the next item is always selected
  LET kept == {q \in DOMAIN u.tree : ~IsPrefix(p, q)}
      left == [u EXCEPT !.tree = [q \in kept |-> u.tree[q]]]
  IN  IF ~u.tree[p].item THEN {Stop(u, "wiped")}
      ELSE {Select(r, left, q) : q \in Successors(left.tree, p) \ {NoNode}}

DeleteItem(r, u, p) ==
  LET kept  == {q \in DOMAIN u.tree : ~IsPrefix(p, q)}
      left  == [u EXCEPT !.tree = [q \in kept |-> u.tree[q]]]
      moved == IsPrefix(p, IF u.sel = NoNode THEN u.under ELSE u.sel)
      freed == IsPrefix(p, u.cur)
  IN  IF ~u.tree[p].item THEN {Stop(u, "wiped")}
      ELSE IF ~moved THEN {IF freed THEN Stop(left, "dangling") ELSE left}
      ELSE {IF q # NoNode THEN Select(r, left, q)
            ELSE IF freed THEN Stop([left EXCEPT !.sel = NoNode], "dangling")
            ELSE SelectMark(r, left, Front(p)) : q \in Successors(left.tree, p)}

-----------------------------------------------------------------------------
(* Moving nodes and keys.                                                  *)

(* The path x after the key at p became the key at q.                      *)
Rebase(p, q, x) ==
  IF IsPrefix(p, x) THEN q \o SubSeq(x, Len(p) + 1, Len(x)) ELSE x

(* What a handle on path x is open on after that; Gone stays Gone.         *)
RebaseHandle(p, q, x) == IF x = Gone THEN Gone ELSE Rebase(p, q, x)

(* NtRenameKey as the open handles see it.                                 *)
MoveHandles(t, p, q) == [x \in DOMAIN t |-> [t[x] EXCEPT !.at = RebaseHandle(p, q, @)]]

(* SetText on node p: its place changes and so do those below it; _full    *)
(* does not.                                                               *)
MoveNode_Item(u, p, q) == u             \* variant: only the item's text changes

MoveNode(u, p, q) ==
  [u EXCEPT !.tree = [x \in {Rebase(p, q, y) : y \in DOMAIN u.tree} |->
                        u.tree[Rebase(q, p, x)]],
            !.sel   = IF @ = NoNode THEN NoNode ELSE Rebase(p, q, @),
            !.under = Rebase(p, q, @),
            !.cur   = Rebase(p, q, @),
            !.rows  = {Rebase(p, q, x) : x \in @}]

(* A key was deleted: the handles open on it are dead.                     *)
KillHandles(t, p) == [x \in DOMAIN t |-> IF t[x].at = p THEN [t[x] EXCEPT !.at = Gone] ELSE t[x]]

-----------------------------------------------------------------------------
(* The key operations of RegistryManager: the set of their outcomes.  The  *)
(* registry may refuse any of them.                                        *)

Outcome(r, u, ok) == [reg |-> r, ui |-> u, ok |-> ok]

(* RegCreateKeyEx opens the key if it is there and creates what is missing *)
(* above it; then the new node goes under the node FindNode finds.         *)
CreateKey(r, u, path, name) ==
  LET q       == Append(path, name)
      made    == r \union {SubSeq(q, 1, n) : n \in 0 .. Len(q)}
      node    == BareNode(q, Append(u.tree[path].full, name))
      shown   == IsExpanded(AddChild(u.tree, q, node), path)
      added   == AddChild(u.tree, q, IF shown THEN AddItem(made, node) ELSE node)
      created == IF path \notin DOMAIN u.tree THEN Stop(u, "noParentNode")
                 ELSE IF q \in DOMAIN u.tree \/ (shown /\ ~u.tree[path].item) THEN Stop(u, "torn")
                 ELSE UpdateIfSame(made, [u EXCEPT !.tree = added], path)
  IN  IF path = <<>> THEN {Outcome(r, Stop(u, "noRoot"), FALSE)}
      ELSE {Outcome(r, u, FALSE), Outcome(made, created, created.status = "running")}

(* RegDeleteKey takes leaves only; then the child node found by name goes. *)
DeleteKey(r, u, path, name) ==
  LET q       == Append(path, name)
      left    == r \ {q}
      dead    == [u EXCEPT !.tree = KillHandles(u.tree, q)]
      deleted == IF path \notin DOMAIN u.tree THEN {Stop(dead, "noParentNode")}
                 ELSE IF q \notin DOMAIN u.tree THEN {Stop(dead, "noChildNode")}
                 ELSE {UpdateIfSame(left, v, path) : v \in DeleteItem(left, dead, q)}
  IN  IF path = <<>> THEN {Outcome(r, Stop(u, "noRoot"), FALSE)}
      ELSE {Outcome(r, u, FALSE)} \union
           (IF q \in r /\ SubKeys(r, q) = {}
              THEN {Outcome(left, v, v.status = "running") : v \in deleted} ELSE {})

(* NtRenameKey refuses a name that is taken; the node, when FindNode finds *)
(* one at the old path, gets the new text.                                 *)
RenameKey(r, u, path, name) ==
  LET q       == Append(Front(path), name)
      moved   == {Rebase(path, q, x) : x \in r}
      handles == [u EXCEPT !.tree = MoveHandles(u.tree, path, q)]
      renamed == IF path \notin DOMAIN u.tree THEN handles
                 ELSE IF q \in DOMAIN u.tree THEN Stop(handles, "torn")
                 ELSE MoveNode(handles, path, q)
  IN  IF path = <<>> THEN {Outcome(r, Stop(u, "noRoot"), FALSE)}
      ELSE {Outcome(r, u, FALSE)} \union
           (IF path \in r /\ q \notin r
              THEN {Outcome(moved, renamed, renamed.status = "running")} ELSE {})

(* The commands.  A rename that worked holds its own inverse afterwards.   *)
Execute(r, u, c) == IF c.op = "create" THEN CreateKey(r, u, c.path, c.name)
                    ELSE RenameKey(r, u, c.path, c.name)

UndoCommand(r, u, c) == IF c.op = "create" THEN DeleteKey(r, u, c.path, c.name)
                        ELSE RenameKey(r, u, c.path, c.name)

Done_NoSwap(c) == c                     \* variant: the rename is not turned round

Done(c) == IF c.op = "create" THEN c
           ELSE [c EXCEPT !.path = Append(Front(c.path), c.name), !.name = Last(c.path)]
=============================================================================
