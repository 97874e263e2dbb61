---------------------------- MODULE KeyTreeProps ----------------------------
(***************************************************************************)
(* What is checked of KeyTree.tla.                                         *)
(***************************************************************************)
EXTENDS KeyTree

(* Every variable keeps its type.                                          *)
TypeOK ==
  /\ reg \subseteq Path
  /\ IsUI(ui)
  /\ undoList \in Seq(Command) /\ redoList \in Seq(Command)
  /\ allowModify \in BOOLEAN /\ refreshing \in BOOLEAN
  /\ todo \subseteq Path /\ changes \in Nat

-----------------------------------------------------------------------------
(* Whatever other processes do.                                            *)

(* While the program runs the view shows a node of the tree, and the       *)
(* selected node is that node: whatever undo, redo and Refresh delete,     *)
(* m_SelectedNode never outlives its node, and m_CurrentNode does so in    *)
(* one case only.  The view comes to show a freed node (dangling) only     *)
(* while a "***" placeholder is selected, m_SelectedNode being null.       *)
SelectionIsLive ==
  /\ Running => ui.cur \in DOMAIN ui.tree /\ ui.sel \in {NoNode, ui.cur}
  /\ ui.status = "dangling" => ui.sel = NoNode

(* Between two messages every key row of the list view (m_Items) holds a   *)
(* pointer to a child the shown node still has: no handler frees a node    *)
(* and leaves its row behind for OnGetDispInfo or OnDoubleClick.           *)
RowsAreNodes == AtRest => ui.rows \subseteq KidPaths(ui.tree, ui.cur)

(* After OnRefresh every node that is expanded down from the hive and      *)
(* whose key still exists lists exactly the subkeys the key has, however   *)
(* many keys came and went and although only the counts are compared.      *)
RefreshSyncs ==
  [][RefreshEnd => LET t == ui'.tree IN
       \A p \in DOMAIN t :
         /\ t[p].at # Gone
         /\ \A q \in DOMAIN t : IsPrefix(q, p) => t[q].expanded
         => Kids(t, p) = SubKeys(reg', t[p].at)]_vars

(* The recursion of RegistryManager::Refresh returns, or ends the program  *)
(* in one of three ways: it empties the tree (wiped), the selection it     *)
(* moves makes CView::Update run for ever (hung), or the view is left with *)
(* a freed node (dangling).                                                *)
RefreshReturns == refreshing ~> (~refreshing \/ ui.status \in {"wiped", "hung", "dangling"})

(* The shown node is selected, and neither it nor a node above it is one   *)
(* whose key another process deleted.                                      *)
ShownStays ==
  /\ ui.sel # NoNode
  /\ \A q \in DOMAIN ui.tree : IsPrefix(q, ui.cur) =>
       /\ ui.tree[q].at # Gone
       /\ q # <<>> => q \notin Missing(reg, ui.tree, Front(q))

(* Keys that others deleted elsewhere never make OnRefresh hang or leave   *)
(* the view with a freed node: as long as the shown key stays, every step, *)
(* up to the update of the view at the end, leaves the program running, or *)
(* the removal of a node without an item empties the tree.                 *)
RefreshSparesShown ==
  [][Running /\ refreshing /\ ShownStays =>
       \/ ui'.status = "wiped"
       \/ Running' /\ (refreshing' => ShownStays')]_vars

(* A rename command is the same object before and after it swaps its two   *)
(* texts: the pair of paths identifies it.                                 *)
Identity(c) ==
  IF c.op = "create" THEN c
  ELSE [op |-> "rename", paths |-> {c.path, Append(Front(c.path), c.name)}]

IdentityOf(s) == [i \in DOMAIN s |-> Identity(s[i])]

Identities == {Identity(c) : c \in [op : {"create", "rename"},
                                   path : BoundedSeq(Name, MaxDepth) \ {<<>>}, name : Name]}

Stacks == INSTANCE CommandManager
  WITH Command <- Identities, undoList <- IdentityOf(undoList), redoList <- IdentityOf(redoList)

(* The handlers use the command stacks as CommandManager.tla says: a       *)
(* command that failed, crashed or was swapped by its rename never leaves  *)
(* a stack with a command lost, doubled or out of order.                   *)
UsesCommandManager == Stacks!Spec

-----------------------------------------------------------------------------
(* With no other process on the registry, and New Key and Rename only on   *)
(* keys whose _full is true (SpecInPlace).                                 *)

(* Every node stands where its key is, and its key exists: no rename, undo *)
(* or redo makes the tree disagree with its own handles or the registry.   *)
NodesAreKeys ==
  Running => \A p \in DOMAIN ui.tree : ui.tree[p].at = p /\ p \in reg

(* A node that lists any child lists all subkeys (the backup key aside):   *)
(* no key is hidden by the order in which nodes were made and expanded.    *)
TreeIsComplete ==
  Running => \A p \in DOMAIN ui.tree :
    Kids(ui.tree, p) # {} => SubKeys(reg, p) \ {DeletedKey} \subseteq Kids(ui.tree, p)

(* The list view shows exactly the children of its node, without Refresh.  *)
ListShowsKids == AtRest => ui.rows = KidPaths(ui.tree, ui.cur)

(* An item hangs below an item that has no placeholder, so that expanding  *)
(* a node can never insert an item a second time.                          *)
ItemsNest ==
  Running => \A p \in DOMAIN ui.tree :
    p # <<>> /\ ui.tree[p].item => LET up == ui.tree[Front(p)] IN up.item /\ up.mark = "none"

Effect(r, c) ==
  IF c.op = "create" THEN r \union {Append(c.path, c.name)}
  ELSE {Rebase(Append(Front(c.path), c.name), c.path, x) : x \in r}

(* The registry is what the commands on the undo stack made of it, in      *)
(* their order: undo takes back exactly what was done, redo does exactly   *)
(* what was undone, across renames of the keys the commands name.          *)
RegistryAfter(commands) ==
  LET after[n \in 0 .. Len(commands)] ==
        IF n = 0 THEN InitialKeys ELSE Effect(after[n - 1], commands[n])
  IN  after[Len(commands)]

HistoryExplainsRegistry == Running => reg = RegistryAfter(undoList)

(* The next undo and the next redo are always applicable: the key to       *)
(* delete is there and has no subkeys, the name to create or rename to is  *)
(* free.  Only the registry's own refusal can make Undo or Redo fail.      *)
Target(c) == IF c.op = "create" THEN Append(c.path, c.name) ELSE Append(Front(c.path), c.name)

UndoApplies(c) == IF c.op = "create" THEN Target(c) \in reg /\ SubKeys(reg, Target(c)) = {}
                  ELSE c.path \in reg /\ Target(c) \notin reg

RedoApplies(c) == c.path \in reg /\ Target(c) \notin reg

NextUndoRedoApply ==
  Running => /\ undoList # <<>> => UndoApplies(Last(undoList))
             /\ redoList # <<>> => RedoApplies(Last(redoList))

(* A rename is in effect: Undo would take it back.                         *)
Renamed == \E i \in DOMAIN undoList : undoList[i].op = "rename"

(* _full, which SetText leaves alone, names the place of its node again as *)
(* soon as every rename has been undone, for the nodes too that were made, *)
(* expanded or refreshed while the renames were in effect.                 *)
FullPathsAreTrue ==
  Running /\ ~Renamed => \A p \in DOMAIN ui.tree : ui.tree[p].full = p

(* A New Key that is recorded has made one key, which was not there, below *)
(* the key the selected node has open: RegCreateKeyEx, which also opens    *)
(* what exists, is never asked for a key the tree does not list, and the   *)
(* Undo of the command deletes what the command made.                      *)
NewKeyGoesUnderSelection ==
  [][\A x \in Name \ {DeletedKey} : NamesItself /\ OnNewKey(x) /\ undoList' # undoList =>
       LET q == Append(ui.tree[ui.sel].at, x)
       IN  q \notin reg /\ reg' = reg \union {q}]_vars

(* The program stops only in the ways the findings describe: it never      *)
(* hangs in CView::Update, loses its selection, shows a freed node, misses *)
(* a parent (the ATLASSERT of RegistryManager.cpp:123), a child or an      *)
(* item, or lists a key twice, after any undo and redo.                    *)
StopsAlone == ui.status \in {"running", "noRoot", "wiped"}

-----------------------------------------------------------------------------
(* What the repository says of itself and the code does not do.            *)

(* README.md:5, "Undo / redo support": taking back a New Key empties no    *)
(* tree.                                                                   *)
UndoKeepsTree == ui.status # "wiped"

(* README.md:5 again: undo takes back what was done, and New Key is the    *)
(* only thing done that Undo takes back by deleting a key, so that alone   *)
(* there are never fewer keys than at the start.                           *)
UndoKeepsOldKeys == Running => Cardinality(reg) >= Cardinality(InitialKeys)

(* README.md:6, "Read only mode to prevent accidental changes": while      *)
(* m_AllowModify is off the program does not change the registry.          *)
ReadOnlyKeepsRegistry == [][~allowModify => reg' = reg]_vars
=============================================================================
