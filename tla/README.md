# RegEditX in TLA+

Specifications, model-checking runs and machine-checked proofs about RegEditX,
a registry editor for Windows written with WTL. Line numbers refer to the files
under `src/RegEditX/`.

## 1. The system

One process, one UI thread. Every state change of the program happens inside a
window-message handler that runs to completion before the next one starts; the
tree control calls back into the program (selection changed, item deleted)
while a handler is still running. The registry is shared with every other
process of the machine, which may change it between any two messages.

| Part | State it keeps | Operations | Talks to |
|---|---|---|---|
| `CommandManager` | `_undoList`, `_redoList` | `AddCommand`, `Undo`, `Redo`, `Clear` | `Execute`/`Undo` of the commands |
| Key tree: `TreeNodeBase`, `RegKeyTreeNode` | per node: `_text`, `_full`, children, open handle, `_expanded`, tree item | `AddChild`, `RemoveChild`, `SetText`, `Expand`, `HasChildren` | the registry |
| `RegistryManager` | the roots, the tree control | `CreateKey`, `DeleteKey`, `RenameKey`, `ExpandItem`, `SelectNode`, `Refresh`; values: `RenameValue`, `DeleteValue`, `CreateValue` | tree, view, registry |
| `CMainFrame` | `m_SelectedNode`, `m_AllowModify`, the command manager | menu commands, tree notifications, `UpdateUI` on idle | everything |
| `CView` | `m_CurrentNode`, `m_Items`, `m_ViewKeys` | `Update`, double click, editing of values | tree nodes, `CMainFrame` through `IMainApp` |
| Key commands | path and name | `Execute`, `Undo`; a rename turns itself round when it worked | `RegistryManager` |
| Value commands | path, name, old and new value | `Execute`, `Undo` | `RegHelper`, `RegistryManager` |
| `DeleteKeyCommand` | path, the backup key below `__deleted__` | `Execute`; `Undo` returns false | `RegistryManager`; no handler creates it |
| `AppCommandList` | commands that run as one | `Execute`, `Undo` | the stacks; no caller builds one |
| `RegHelper::OpenKey`, `GetRoot` | - | a key from a path | the value commands; everything else |
| `CIntValueDlg` and the other dialogs | a text and, for integers, a radix that is static and outlives the dialog | radio buttons, OK, Cancel | `CView` |
| Formatting, details providers | local | | |

What is hard here:

- **Five pictures of the same keys** - the registry, the node objects with
  their open handles, the items of the tree control, the rows of the list view
  and the paths kept in the commands. Each handler updates some of them, each
  by its own search (by handle, by `_full`, by text, by item). Correctness is
  that they agree.
- **Lazy expansion.** A node's children are enumerated when it is first shown
  or expanded; tree items are made when the item is expanded, and a `***`
  placeholder stands for those that are not. Nodes exist without items.
- **Undo and redo by path.** Commands hold paths, and renames change paths.
- **Values in pieces.** A rename of a value is a read, a write and a delete; a
  change keeps the data it replaced; the list is patched row by row; modal
  dialogs stay open while other processes write.
- **Re-entrance.** Deleting an item moves the selection, which updates the list
  view in the middle of `Undo` or `Refresh`.
- **Other processes** create and delete keys at any time; handles that are open
  on a deleted key stay open and fail. Other instances of the editor share one
  backup key, `__deleted__`, and may exit or crash inside a deletion.
- **Keys and values in one history.** The dialogs read through a node's handle,
  the commands write by its path, and both kinds of command are undone in turn.

What makes each part correct: the command stacks are one linear history; no
freed node stays selected or listed, nor shown while any node is selected; tree, list view and registry agree, after
`Refresh` at the latest; what the undo stack says is what was done to the
registry, for keys and for values; a node's path is where it is; a value that
is renamed is never lost; a dialog gives back the value it was opened on; a key
is deleted only after it was copied, and what was copied stays.

## 2. Modules

| Module | Models | Role |
|---|---|---|
| `UndoHistory` | - | abstract: a history of commands and a cursor |
| `CommandManager` | `CommandManager.cpp` | the two stacks; implements `UndoHistory` |
| `CommandManagerProofs` | - | proofs about `CommandManager` and `CommandLists` |
| `CommandLists`, `MCCommandLists` | `AppCommandBase.cpp` on the stacks | `CommandManager` with lists of commands, and what they do to the registry as a sequence of edits |
| `KeyNodes` | `TreeNode*`, the key functions of `RegistryManager`, `CView::Update`, both key commands | the data and what each function does to it, as operators |
| `KeyTree` | the handlers of `CMainFrame` and `CView` about keys, `Refresh`, other processes | state machine over `KeyNodes` and the stacks |
| `KeyTreeProps` | - | every property of `KeyTree`; instantiates `CommandManager` |
| `KeyNodesProofs` | - | lemmas about the operators of `KeyNodes` |
| `KeyTreeProofs` | - | what holds of `KeyTree` whatever other processes do, and of its nodes without other processes |
| `KeyHistoryProofs` | - | what holds of an editor alone that edits in place: list view, tree items, undo history |
| `MCKeyTree` | - | names and hives for TLC |
| `IntText` | `CIntValueDlg::SetValue`/`GetRealValue`, `FormatHelper::ToBinary`, the cast to DWORD | numbers of a fixed width and their texts in three radices, as operators |
| `IntValueDlg`, `MCIntValueDlg` | `CIntValueDlg` | one integer dialog after another |
| `IntValueDlgProofs` | - | the texts read back; invariants of `IntValueDlg` |
| `ValueEditor` | the value half of `CView` and `RegistryManager`, the three value commands, their use of the stacks | state machine over the values of one key |
| `ValueEditorProps` | - | every property of `ValueEditor`; instantiates `CommandManager` |
| `ValueEditorProofs` | - | invariants of `ValueEditor`, its undo history, its use of the stacks |
| `MCValueEditor` | - | names and values for TLC |
| `KeysAndValues`, `MCKeysAndValues` | the key and the value commands on the same two stacks | `KeyTree` with one value per key |
| `KeysAndValuesProofs` | - | the past of keys and values; undo and redo of both |
| `RegistryPaths` | `GetRoot`, `GetHiveAndPath`, `GetHiveNode`, the reading of a path by `FindNode`, `RegHelper::OpenKey` | paths as sequences of components, as operators |
| `DeletedKeys`, `MCDeletedKeys` | `DeleteKeyCommand::Execute`, the constructor's and `Destroy`'s part in `__deleted__` | several editors, one step per registry call |
| `DeletedKeysProofs` | - | which key each form of path of `RegistryPaths` leads to; invariants of `DeletedKeys` |

### State of `KeyTree` and what it stands for

| Variable | In the program |
|---|---|
| `reg` | the keys of one hive: the set of paths below it (`<<>>` is the hive) |
| `ui.tree` | the `RegKeyTreeNode` objects, by their place (the texts from the hive down, which is how `FindNode` looks for them) |
| `ui.tree[p].at` | the key that the node's handle `_key` is open on; `Gone` after that key was deleted |
| `.full`, `.expanded` | `_full`, `_expanded` |
| `.item`, `.mark` | `_hItem` is set; the `***` child of that item: `closed` (never expanded by the user), `shown` (expanded when the key had no subkeys), `none` |
| `ui.sel`, `ui.cur`, `ui.rows` | `m_SelectedNode`; `m_CurrentNode`; the nodes in `m_Items` |
| `ui.under` | the selected item when `m_SelectedNode` is null: the placeholder below this node |
| `ui.status` | why the program stopped, if it did (below) |
| `undoList`, `redoList` | the stacks of the `CommandManager` |
| `allowModify` | `m_AllowModify` |
| `refreshing`, `todo` | a `Refresh()` in progress: the nodes its recursion has still to process |
| `changes` | how many changes other processes have made (bound) |

A null pointer that the code dereferences, an emptied tree control, a key shown
twice or an endless loop ends the behaviour: `ui.status` names which, and no
handler is enabled afterwards. This is how the model keeps such steps instead
of excluding them; the properties that hold say which of these ends cannot
occur in which setting, and the violation runs show those that do.

The list of ends is: `noRoot`, `noParentNode`, `noChildNode`, `noItem` (the
`ATLASSERT`s of `RegistryManager.cpp` 115, 123, 150, 415), `wiped`
(`DeleteItem(NULL)`, line 151 or 322), `torn` (two nodes of one name below one
parent, or two items for one node), `hung` (`View.cpp` 220-225: `RegEnumValue`
on a deleted key never answers `ERROR_NO_MORE_ITEMS`), `noSelection`
(`MainFrm.cpp` 41) and `dangling` (the view shows a node that was freed).

The last has one way in. While a `***` placeholder is selected `m_SelectedNode`
is null and the view stays on the node it showed; when that node goes, nothing
moves the view, or it moves from one placeholder to another and `Update` is
called on the freed node (`MainFrm.cpp` 75-82). When the control selects a node
instead, the view follows it and the program goes on.

### Steps

Each handler is one action, with everything it calls: `OnNewKey` includes the
command's `Execute`, `CreateKey`, the list view's `Update` and the `UpdateUI`
that `OnIdle` runs afterwards. The key functions of `KeyNodes` return the set
of their outcomes: the registry may refuse any operation (then nothing changes
and the command is not recorded), and the tree control chooses which neighbour
it selects when the selected item, a node's or a placeholder, goes: a sibling,
the parent, or the parent's placeholder. `Refresh` alone is split into steps,
one per removed child (`RefreshRemove`), one per node brought up to date
(`RefreshAdd`) and `RefreshEnd`, because removing items calls
`OnTreeSelectionChanged` in between. Other processes act between messages
(`ExternalCreate`, `ExternalDelete`).

Four specifications share the actions. `SpecNoRename` has one editor and no
renames; two of the disagreements below need no more. `SpecInPlace` has renames
too, but New Key and Rename are given only on a node whose `_full` names the
node itself (`NamesItself`): neither it nor a key above it has a new name since.
Undo and Redo are not restricted. `SpecAlone` drops that restriction, and `Spec`
has other processes too. What holds grows weaker from one to the next, and the
property list says exactly where each guarantee is lost. That `SpecAlone` is too
weak for the history is not obvious: below a renamed branch the stale path may
name another key, which is there, and New Key then records as its own a key it
only opened. TLC's small hives did not reach that, the attempt to prove the
history for `SpecAlone` did; the run `undo_deletes_old_key` keeps it.

### `ValueEditor` and `IntValueDlg`

| Variable of `ValueEditor` | In the program |
|---|---|
| `vals` | the values of the shown key, name to type and data |
| `rows` | `m_Items`: one key row (its `ValueName` is empty) and the value rows with the type and size `Update` found |
| `undoList`, `redoList` | the stacks; a change command holds the data to write next, a rename command its two names |
| `dialog` | the modal dialog that `OnModifyValue` has open, with the row and the value it was given |
| `call` | `RegistryManager::RenameValue` between its calls: what was read, whether it was written |
| `changes` | how often another process has written or deleted a value (bound) |

A handler is one step except at the two places where other processes come
between: while a modal dialog is open (`OnModifyValue`, then `CloseDialog` or
`CancelDialog`) and inside `RenameValue` (`StartRename`, `RenameStep` for the
write and for the delete). Each registry call may fail. `Listings` is what
`CView::Update` may make of the values: the enumeration has no fixed order, the
loop starts at -1 to add a row for the default value when that does not come
first, and for a key without values the type of the row is an uninitialised
variable (`View.cpp` 219), so any type. `Other` is a write or a delete by
another process.

`SpecAlone` has no other process; `SpecCareful` moreover has a user who gives no
name that is in the list and renames named values only, and a registry that
deletes the old value of a rename once it has accepted the new one (the handle
is the same, so only a failure of the registry itself is excluded); `Spec` has
neither restriction and other processes.

In `IntValueDlg` a text is a sequence of digit values, so that a letter that is
no digit of the radix ends a number as in `_wcstoui64`, and a number that does
not fit is cut to the largest. `m_Value` (the dialog object) and `edit` (the
control) are separate because `OnRadioButtonClicked` reads the number from the
first before it reads the second. `ValueEditor` does not repeat the dialog: it
takes from `IntText` what a read-only integer dialog can deliver
(`Rereadings`), which `UntouchedOkDelivers` checks of `IntValueDlg`, and lets
any other dialog deliver any entered value.

### `KeysAndValues`

`KeyTree` without `Refresh`, with `data`, one value per key (or `NoValue`), and
two more kinds of command. `NewValue` and `ModifyValue` take what the user sees
from the key the shown node's handle is open on (`Shown`) and name the key by
that node's `_full`; since no other process acts here, a dialog and its command
are one step. A rename takes the values of a key along (`Renaming`).
`overwrote` is a history variable: New Value has written over a value that was
there. Nobody who looks at the list would do that, but under a stale path it
happens to another key than the one shown.

### `CommandLists`

A command is a sequence of edits and says whether it is a list. `applied` is
the sequence of edits in effect, `torn` that a list has stopped in the middle,
`overrun` that `AppCommandList::Undo` has read `_commands[SIZE_MAX]`, after
which nothing is enabled.

### `RegistryPaths` and `DeletedKeys`

A path is the sequence of what its backslashes separate; the component `Empty`
stands for what follows a backslash at the end. A key is its path below
`\REGISTRY`, so that both roots name the same keys.

| Variable of `DeletedKeys` | In the program |
|---|---|
| `reg` | the keys with all their values as one datum |
| `bin`, `backups` | `__deleted__` exists; the keys below it, each with the keys copied so far and (for the properties only) where they came from: the program does not record it |
| `editors[e]` | one process: how far it is in `Execute`, `_path`, `_deletedKey`, and whether `GetDeletedKey()` is open on a key that exists |
| `last`, `raced` | history: the data last written to each key; the keys another process wrote to while a command was between copying and deleting them |
| `writes` | how often another process has written (bound) |

Every registry call of `Execute` is a step of its own, `RegCopyTree` one per
key; between any two, editors start, exit and crash and other processes write.
Any call may fail (`Fail`). What `DeleteKey` does to nodes and items after the
key is gone is in `KeyNodes`, where Undo of New Key uses it.

### What is abstracted

Names are model values, so case folding and characters that are not allowed in
a name are out. Of the two roots only *Standard Registry* and of it one hive is
modelled: the functions treat hives alike and no operation moves between them.
A node whose subkey could not be opened (a null handle) is not modelled; nor
are the hive flag, icons, sorting, and redrawing. `m_SelectedNode` is
uninitialised until the first click (`MainFrm.h` 29; the selection made by
`BuildTreeView` sets it during `OnCreate`), so `Init` is the state after the
hive was clicked. Keys are shown in the list view (`m_ViewKeys` on, the
default). `CreateKey` may make intermediate keys, `DeleteKey` takes leaves
only, `RenameKey` refuses a taken name: that is the registry's behaviour as the
code relies on it (marked external in the map).

On the value side, texts and binary data are sequences of units whose length is
the row's size; a number counts as size 1. A multi-string is a sequence in
which 0 ends a string; in the text of its dialog 0 is the end of a line. ATL's
`SetMultiStringValue` looks for an empty string to find the end: for a text of
one line without its end it reads what lies behind the buffer, which is any
member of `Beyond`. The rare registry types are left out, as are the limit of
2048 characters on strings, of 255 on names in the registry and of 64 on the
names in the dialogs (`DDX_TEXT_LEN(IDC_NAME, 64)`), name case, and names that
are not unique only by case. The type shown
in the string dialog cannot be changed there with effect (`OnModifyValue` uses
the row's type), so it is not an input.

## 3. Runs

The longest runs, `keys_shared` and `values_shared`, take about three minutes,
`values_alone` and `keys_and_values` about two, the others less. Key names: `a`, `b`; with two names
a key has a sibling to be confused with, and the same name occurs at several
depths.

| Run | Specification, bounds | Shows |
|---|---|---|
| `command_manager` | two edits, two single commands and three lists (one of them empty), 4 commands on the stacks, 6 edits in effect | the stacks refine `UndoHistory`: undo only steps back, redo re-executes the command last undone, a new command drops the redo part, a failed command changes nothing; what is on the undo stack is in effect, in its order, until a list stops in the middle; a recorded list never leaves the undo stack |
| `keys_alone` | `SpecInPlace`; a key with a subkey beside one without, a free name, depth 2, 3 commands | tree, handles and registry agree after any sequence; list view follows without refresh; items nest; the undo stack explains the registry; the next undo and redo apply; with no rename in effect `_full` is the node's place; a recorded New Key has made one key, where the selection's handle is; the program ends only in `noRoot` and `wiped` |
| `keys_shared` | `Spec`; `<<>>, a, a\b`, depth 2, 2 commands, 2 outside changes | no freed node is selected or listed, and the view shows one only while a placeholder is selected; a `Refresh` that comes to its end leaves every reached node with exactly the key's subkeys; it returns, wipes the tree, hangs in `Update` or leaves the view dangling, but neither hangs nor dangles while the shown key is there; the handlers use the stacks as `CommandManager` says |
| `keys_and_values` | `SpecBoth`; a key with three keys below it, two of them with a value, four names, two data, 3 commands | undoing everything gives back the first keys and values, editing keys in place, with success at every step, and redoing works to the end, unless New Value has overwritten; with no rename in effect an entry goes to the shown key |
| `deleted_keys` | two editors (symmetric), six keys in two hives, five paths among which two name the same key, 3 backups, 2 outside writes | what was last written is in the registry or in a backup; backups stay; only the copied key goes; a handle in use is alive |
| `int_value_dlg` | 6-bit numbers, six of them; eight typed texts | the radix left behind by earlier dialogs and any number of switches change neither the value shown nor the one OK delivers, if nothing was typed and the dialog may modify; a read-only dialog goes on to show a text of its value, and OK delivers that text read in whichever radix is chosen |
| `values_alone` | `SpecCareful`; four names; a text as default value, a multi-string of two lines and a binary value at first; five entered values (a number of either width, binary data, two multi-strings), 3 commands | undoing the whole stack gives the first values back; the next undo and redo apply; the list agrees with the registry though rows are only patched; a rename never loses the value; OK on an untouched dialog changes no value, whatever its type and however the row's size came about |
| `values_shared` | `Spec`; two names, 2 commands, 1 outside change | types, with numbers wider than a REG_DWORD; the stacks obey `CommandManager` also when another process acts in the middle of a rename |

Why these bounds are enough to be interesting: depth 2 lets a command name a
key whose parent is renamed and a subtree move with handles in it, and three
names a key be renamed beside a sibling; three
commands let a history hold create, rename, create, and an undo/redo pair with
a new command in the middle; two outside changes let one creation and one
deletion cancel in the counts that `Refresh` compares. For values, three
commands let a value be created, renamed and changed, and undone in between;
five bits with a four-bit REG_DWORD make 19 a number that the cast changes. In
the dialog six bits against texts of three characters keep the proportion of 64
bits to `DDX_TEXT_LEN`'s 32: 40 has a binary text that is too long. All cfgs of
`KeyTree` switch the deadlock check off because a stopped program is a state
without successor, by design; the other modules are checked for deadlock.

In `keys_and_values` two keys with a value, one without and a free name let
two renames exchange keys, so that New Value and Modify under a stale path hit
another key's value (both happen, also the overwriting that `overwrote` notes).
In `deleted_keys` two writes let a key be written to once while it is copied
and once more after it was deleted, and three backups let both editors fail
once and one succeed. `values_alone` keeps the initial types apart (a text, a
multi-string, binary data) and lets the user type a line without end and one
with an empty line in it.

Symmetry is used for the editors of `deleted_keys` only, whose properties are
all safety; elsewhere the hives distinguish the names.

### Fairness

Only `Spec` states any: weak fairness of `RefreshStep`. `Refresh()` is a
synchronous call on the UI thread; once entered, its next step is always
executed. Nothing obliges the user or other processes to act. `RefreshReturns`
is the only liveness property. It is about the recursion of `Refresh`: that the
steps come to an end. It does not say that the program then runs on; a step may
end it (`wiped`, `hung`, `dangling`), and the property names these ends. The
property that limits them is `RefreshSparesShown`, a safety property and proved:
while a node is selected, and neither its key nor one above it is gone
(`ShownStays`), no step of `Refresh` hangs, moves the selection or leaves the
view with a freed node.

### Disagreements with what the repository says

Each of these runs checks one property and TLC finds a behaviour that breaks it.

| Run | The repository says | What happens |
|---|---|---|
| `undo_empties_tree` | `README.md:5` "Undo / redo support" | New Key under a key that was selected but never expanded makes a node without an item; Undo calls `DeleteItem` with null, which empties the tree |
| `read_only_undo` | `README.md:6` "Read only mode to prevent accidental changes" | Undo and Redo stay enabled and change the registry with Allow Modify off |
| `undo_deletes_old_key` | `README.md:5` "Undo / redo support" | `SetText` leaves `_full` stale; New Key below a branch that was renamed into another's place opens a key that exists, is recorded as if it had made it, and Undo deletes that key with its values |
| `new_value_over_old` | `View.cpp:601` "Value name already exists" | `HandleNewIntValue` asks `FindChild`, which knows subkeys only; the existing value is overwritten and Undo deletes it |

Other places where the models part from a comment or an assertion of the code.
They are behaviours of the modules above, each found with the invariant or
action property in the last column; no run keeps them.

| The repository says | What happens | Found with |
|---|---|---|
| `RegistryManager.cpp:115` `ATLASSERT(root)` | the path of a hive has no second backslash, so New Key on a hive gets no root | `ui.status # "noRoot"` |
| `RegistryManager.cpp:123` `ATLASSERT(parentNode)` | New Key under a renamed key whose old place nothing took recreates the old path and finds no node | `ui.status # "noParentNode"` under `SpecAlone` |
| `RegistryManager.cpp:150` `ATLASSERT(node)` | Undo deletes a key that was recreated by someone else and has no node | `ui.status # "noChildNode"` |
| `RegistryManager.cpp:415` `ATLASSERT(node->GetHItem())` | a key that got its first subkey from outside lists it without an item | `ui.status # "noItem"` |
| `TreeNodes.cpp:16` "skip deleted key root" | `Refresh` adds `__deleted__`, which `Expand` skips | `<<DeletedKey>> \notin DOMAIN ui.tree` |
| `README.md:6` read only mode | the radix buttons of a read-only integer dialog still work: OK then reads the text of one radix in another, and `OnModifyValue` writes what it read; `UntouchedOkDelivers` states which values these are | in `IntValueDlg`: OK in an untouched dialog gives `result' = given`, read-only or not |
| `View.cpp:553` "Failed to rename value" | when the delete fails, the copy that was written stays | in `ValueEditor`: `call.wrote` at a rename's end that records nothing |
| `README.md:5` "Undo / redo support" | a rename onto a name that exists overwrites that value for good | `UndoGivesValuesBack` under `SpecAlone` |
| `View.cpp:463` "Failed to read value. Try Refreshing" | a multi-string that was emptied has a size of one character, which no refresh changes, and is too small a buffer for the two that `QueryMultiStringValue` wants | `ValueEditor`: `FitsRow` is false for every row of an empty multi-string |
| `README.md:5` "Undo / redo support" | a command list that was recorded can never be undone, nor anything below it | `ListsBlockUndo` |
| `RegistryManager.cpp:34` `ATLASSERT(_deletedKey)` | the handle is tested once; when another instance exits, its `Destroy` deletes the key and the handle stays dead | `DeletedKeys`: `editors[e].pc = "idle" => editors[e].handle` |
| `View.cpp:228` "add a default value" | a default value that is not enumerated first gets two rows | two rows named `Default` that are not key rows |

Seen in the models too, but nothing in the repository says otherwise: what was
typed in an integer dialog is lost when the radix is switched (the number is
read from `m_Value` first); a number above 32 bits, shown in binary, cannot be
confirmed with OK; the default value cannot be changed in the integer and string
dialogs, whose OK wants a name; renaming the label of a key row renames the
default value; a binary value that another process shrank is shown padded to its
old size. `RegistryManager.cpp:29` names a hive `HKEY_CURENT_CONFIG`, line 256
`HKEY_CURRENT_CONFIG`, so that commands below it have no root. For the path of
a key below `\REGISTRY`, `RegHelper::OpenKey` tests for a backslash that
`GetFullPath` never gives and dereferences a null node
(`OpenKeyKnowsHivesOnly`). `Refresh` may not come back (`hung`): the selected
key and a sibling were deleted by others, the control moves the selection to the
sibling when the first goes, and `Update` reads its dead handle. And it, or an
Undo of New Key, may leave the view with freed memory (`dangling`): a key lost its last subkey, its
placeholder is selected while the view shows the key, the key is deleted too,
and the control moves on to the placeholder of the parent, or a key that the
view shows is deleted while a placeholder elsewhere is selected. A double click into the empty part of the list asks
for row -1 (`View.cpp:344`; not modelled). `Refresh` of a hive that is selected
but was never expanded adds `__deleted__` beside the placeholder, and expanding
then gives it a second item (`torn`).

## 4. Proofs

Everything below is checked by TLAPS for every value of the constants that
satisfies the named assumptions.

* `CommandManagerProofs` (from `MaxCommandsAssumption`; the last three also from
  `CommandAssumption`, `MaxAppliedAssumption`)
  - `StacksHoldCommands`: `Spec => []TypeOK`, including that both stacks
    together never outgrow what was added.
  - `ImplementsUndoHistory`: `Spec => IsLinearHistory`, the refinement
  - `ListsUseTheStacks`: `ListSpec => Spec`, `CommandLists` implements
    `CommandManager`
  - `ListsStay`: `ListSpec => ListsBlockUndo`
  - `StackIsInEffect`: `ListSpec => []RecordedIsInEffect`
* `KeyTreeProofs` (from `DistinctAssumption`, `KeysAssumption`,
  `BoundsAssumption`)
  - `KeysKeepTheirTypes`: `Spec => []TypeOK`
  - `SelectionStaysLive`: `Spec => []SelectionIsLive`
  - `RowsStayLive`: `Spec => []RowsAreNodes`
  - `RefreshSparesTheShownKey`: `Spec => RefreshSparesShown`
  - `RefreshBringsUpToDate`: `Spec => RefreshSyncs`, if `Name` is finite and
    `DeletedKey \notin Name`
  - `KeysUseTheStacks`: `Spec => UsesCommandManager`, a refinement, if no key of
    `InitialKeys` is deeper than `MaxDepth`
  - `AloneNodesAreKeys`: `SpecAlone => []NodesAreKeys`
* `KeyHistoryProofs` (from the same)
  - `InPlaceTreeIsComplete`, `InPlaceListShowsKids`, `InPlaceFullPathsAreTrue`,
    `InPlaceUndoRedoApply`, `InPlaceHistoryExplainsRegistry`: `SpecInPlace`
    implies that `TreeIsComplete`, `ListShowsKids`, `FullPathsAreTrue`,
    `NextUndoRedoApply`, `HistoryExplainsRegistry` always hold
  - `InPlaceNewKeyGoesUnderSelection`: `SpecInPlace => NewKeyGoesUnderSelection`
  - `InPlaceItemsNest`, `InPlaceStopsAlone`: `SpecInPlace` implies that
    `ItemsNest`, `StopsAlone` always hold, if `DeletedKey \notin Name`
* `IntValueDlgProofs` (from `BitsAssumption`, `DialogAssumption`)
  - `TextsReadBack`: the text of a number in any radix is read back as that
    number
  - `DialogType`, `RadixNeverLosesValue`: `Spec => []TypeOK`,
    `Spec => []RadixKeepsValue`
  - `WhatUntouchedOkDelivers`: `Spec => UntouchedOkDelivers`
* `ValueEditorProofs` (from `BitsAssumption`, `ValuesAssumption`,
  `BoundsAssumption`, `NoneAssumption`; those of `SpecCareful` also from
  `InitialAssumption`)
  - `ValuesKeepTheirTypes`: `Spec => []TypeOK`
  - `ValuesUseTheStacks`: `Spec => UsesCommandManager`, a refinement
  - `RenameNeverLosesValue`: `SpecAlone => RenameKeepsValue`
  - `ListShowsValues`, `ValueUndoRedoApply`, `UndoReturnsValues`: `SpecCareful`
    implies that `RowsShowValues`, `NextUndoRedoApply`, `UndoGivesValuesBack`
    always hold
  - `UntouchedOkWritesBack`: `SpecCareful => UntouchedOkKeepsValues`
* `KeysAndValuesProofs` (from `KeyTree`'s three and `DataAssumption`)
  - `BothTypesOK`, `BothUndoReachesStart`, `BothRedoReachesEnd`: `SpecBoth`
    implies that `TypesOK`, `UndoReachesStart`, `RedoReachesEnd` always hold
  - `BothEntryGoesToShownKey`: `SpecBoth => EntryGoesToShownKey`
* `DeletedKeysProofs`: about every path `GetFullPath` gives (from
  `TextsAssumption`, `HivesAssumption`, `RootsAssumption`)
  - `ParentAndNameFindTheKey`: parent and name lead `DeleteKey` to the key that
    the whole path leads `RegCopyTree` to
  - `StandardPathsFindTheirKey`: below a hive the path leads to the node's key,
    where the two tables agree on the hive's name
  - `OpenKeyKnowsHivesOnly`: `OpenKey` agrees with `GetRoot` below hives and
    fails below `\REGISTRY`

  and about the editors (also from `DeletableAssumption`,
  `InitialKeysAssumption`, `BoundsAssumption`)
  - `KeysAndBackupsKeepTheirTypes`: `Spec => []TypeOK`
  - `DataIsNeverLost`: `Spec => []NothingIsLost`
  - `BackupsAlwaysSurvive`: `Spec => BackupsSurvive`
  - `OnlyCopiedKeysGo`: `Spec => DeletesWhatItCopied`

### The command stacks

The abstract history is `undoList \o Reverse(redoList)`, its cursor
`Len(undoList)`. The lemma `MoveAcross` says that moving a command from the end
of one stack to the end of the other leaves that history as it is; the step
theorem then has one case per action.

For the lists the invariant is `ListInv == TypeOK /\ EffectFits`, where
`EffectFits` says `InEffect(applied, undoList)`: there are partial results `f`,
`f[0]` empty and `f[i]` the edits of the i-th command after `f[i - 1]`, of which
`applied` is the last. This is `RecordedIsInEffect` without the fold: a step
extends `f` by one or drops its last. What `FoldRight` does to the edits taken
back (`TakeBackLast`) and what `FlattenSeq` makes of the stack (`FlattenIs`)
are lemmas about the definitions of the community modules.

### Keys, whatever other processes do

The first four about `KeyTree` rest on one inductive invariant,

    IInv == /\ TypeOK
            /\ Sound(ui)
            /\ ~refreshing => RowsLive(ui)
            /\ Running /\ refreshing => todo \subseteq DOMAIN ui.tree

`SelectionIsLive` alone is not inductive: removing an item needs the tree to be
closed under ancestors (else the parent that the control selects next may not
exist), and the rows need the shown node to be in the tree. `Sound` adds both
while the program runs: the tree contains the hive and every ancestor of its
nodes, and the selection is the shown node or the placeholder. It also says that
no node is selected when the view is left `dangling`, which `ItemDeleted`, the
cases of `DeleteItem`, is there for: a selection inside the freed subtree moves. The last
conjunct is what keeps `RefreshAdd` and `RefreshRemove` on nodes that exist,
because the deepest node is processed first and removals only free nodes below
it. `KeyNodesProofs` has one lemma per operator of `KeyNodes` (what it
preserves of `IsTree`, `Sound`, `RowsLive`), on top of lemmas about sequences:
prefixes, `Front`, and that `Rebase` is a bijection between the places before
and after a rename when the new name is free. A second set of lemmas there says
what an operator that only looks leaves true (`Grows`, `Keeps`): nodes are only
added, each at its key, and a node that lists anything goes on to list all.

`RefreshSparesTheShownKey` needs no more than `IInv`. A child that Refresh
removes is neither the shown node nor above it, or `ShownStays` would not hold
(`DeleteItemElsewhere`); new nodes change no old one; so the handles from the
hive down to the shown node stay (`ShownStaysOn`), and the last `Update` reads a
key that exists.

`RefreshBringsUpToDate` needs `RInv`: while `Refresh` runs, every node that it
reaches and that is not in `todo` any more lists what its key has. A step changes
the children of its own node only, except that removing an item may call
`CView::Update` through the selection, which expands nodes that `Refresh` has
passed or never saw. `Leaves` says what such a call does: each node it leaves
expanded has just got all its subkeys, or was expanded before and keeps its
children. That names are finitely many makes the two counts that `Refresh`
compares numbers: equal counts of two sets, one inside the other, mean equal
sets. The theorem is about hives without a backup key: `Expand` leaves
`__deleted__` out and `Refresh` takes it in (section 3), so that a hive expanded
on the way need not list what it has.

`KeysUseTheStacks` maps both stacks to the commands' identities, because a
rename command swaps its two paths when it is done. Its invariant `DInv` bounds
the depth: `CommandManager`'s commands are those of paths up to `MaxDepth`, so
no key may get deeper, which a redo of a New Key could do if the command were
longer. That the hive starts no deeper is a matter of the bound, not of the code.

### Keys, one editor alone

`AloneNodesAreKeys` needs `AInv == IInv /\ (Running => AtHome(reg, ui.tree))`:
every node is where its handle is, on a key that exists.

The others need to know what the commands on the stacks did, under names that
may have changed since. Their invariant `HInv` says that there is a past. A
*world* is a function from places to key objects; an object does not change
when its key is renamed: it is the `_full` its node has or would get, and the
number of the command that made it. `Past` is a sequence of worlds from
`InitialKeys` on, each made of the one before by one command (`StepAt`: a key
object more at a free place, or the objects below one place moved to a free
one); `Lists` says that the first `m` commands are the undo stack, a rename
turned round, and the others, backwards, the redo stack; `Fits` and `Shows` say
that registry, tree, list and `_full` are those of world `m`. `K` is the set of
objects that some command names: their nodes have been made and are complete,
so that `FindNode` finds them again after any undo and redo. Undo and Redo move
`m`, a new command cuts the past off behind `m` and adds a world, looking
around changes neither. A new command is where `NamesItself` comes in: its path
is then the shown node's, whose list is complete, so that the new name is free.

`HistoryExplainsRegistry` follows because `Effect` applied to one world's
domain is the next's (an induction over the stack: the least number for which it
fails). The invariant was checked with TLC through its consequences before; the
proof is what found that `SpecAlone` does not have it (section 2).

`ItemsNest` and `StopsAlone` are one argument, as the ways to stop are all found
missing on the way: `DeleteItem` wants an item, `AddItem` a place for one.
`Items` strengthens `ItemsNest` to an equivalence, a node has an item just if
its parent's is there without a placeholder (`Open`), and adds that what is open
lists all subkeys and that a placeholder is the unseen one (`closed`), over a
key that has subkeys. With it (`Ready`) and the shown node having an item, every
step that looks around or refreshes leaves a tree where nothing open was closed
(`Steady`); `Pending` says that the nodes a Refresh has still to look at list
their subkeys, so that its counts agree and it adds nothing.
Undo and Redo act on nodes the user may not have seen for long; that these have
items is not in the state before the step but in the history. `Tracked`
therefore adds to the past two sets of key objects: `I`, those that have an item
whenever they are there, and `E`, those among them that are open whenever they
are there (`Holds`). They are the keys that had an item, or were open, when some
new command was given (`KeptMore`): what has been opened stays open until
its key goes, and a key that comes back comes back open where its parent is, in
every world the same one (`KinTo`). `GivenAt` says that each command was given
at a key of `I`, and a New Key at one of `E`, so that its undo finds the item to
delete, or at one that had subkeys already, so that the placeholder does not
stand for nothing when the new key goes again. In the second case the new node
has no item until the user opens the parent, and an undo before that empties the
tree (section 3, `undo_empties_tree`): the `wiped` of `StopsAlone`. The other way
to stop, `noRoot`, is a command on the hive itself.
The two theorems are, as `RefreshBringsUpToDate`, about hives without a backup
key: `Refresh` gives `__deleted__` an item beside a placeholder (section 3).

### Keys and values

`VInv == Base /\ (Running => \E N, F, K, D, m, n : Stands(N, F, K, D, m, n))`.
`Stands` says that there is a past of `n` commands, `m` of them in effect: the
worlds `N` of the key commands as in `HInv`, in which a value command leaves
the world as it is (`StepBoth`), with both kinds on the stacks (`Undoable`,
`Redoable`), and beside them a second past `D`, the values after each command,
each made of the one before (`DataStep`). Keys and values need separate pasts
because New Value can write over a value that is there, under a stale path:
from then on (`overwrote`) `D` is given up, only kind and path of the stacked
value commands are known, and the keys still have their past, on which all
later steps rest.

That a command and its inverse cancel on the values is `DataBack`; for a rename
it is that `Rebase` there and back is the identity below the place. A command
being swapped on every move between the stacks, what is stacked is each time
the one that leads from one entry of `D` to the next or back (`EntryRuns`).
`TraceEnds` then unfolds the `FoldLeft` of `RunsAll` along the stack, so that
its end is `D[0]`, the values of the start, or `D[n]`. `EntryGoesToShownKey`
holds because without a rename in effect each object of the world is where its
`_full` says (`TrueNames`), which is then the place of the shown node and the key
its handle is open on.

### The integer dialog

`Format` and `ToBinary` are recursive functions over the numbers, `_wcstoui64`
one over the text. `Spells(text, radix, v)` says that the text has digits of the
radix only and that its reading ends in `v`. Appending a digit extends that
(`SpellsAppend`), and both writers take the digits of `v \div radix` and append
one more, or begin with a single digit (`WriterSpells`). The
dialog's invariant adds `InStep` to type and value: until something is typed,
`m_Value` and the control agree, which is why reading the number from the one
and the text from the other does no harm where the dialog may modify. Where it
may not, the text stays one of the three the value has, which is all that OK
needs to deliver one of `Rereadings`. `BitsAssumption` says of the powers of
two that they are numbers and in order, which is true of every width: the prover
has no induction for the power.

### Values

For `Spec` the invariant is `TypeOK` with three facts: the key has
finitely many values (so that `Update`'s enumeration is a sequence), a dialog
and a rename are never in progress together, and a rename started by Undo or
Redo still finds a command on its stack when it ends. `TypeOK` carries the
rest because the sets are exact: a `KeyValue` of type REG_DWORD has `DwordBits`
bits, and the two names of a rename command differ. `RenameKeepsValue` needs
`Held` on top: what was read is under the old name until the delete, and under
the new name once it was written; the two names being different is what keeps
the delete from taking both. `ValuesUseTheStacks` needs `CallReady`: the command
a rename in progress will move is still the last of its stack, or there is room
for it.

For `SpecCareful` the invariant is `HInv == IInv /\ \E w : Explains(w)`. The
values `w` are those of the key, but that a rename in progress may have written
its new value already (`CallFits`). From `w` both stacks lead on (`History`:
each command finds the value it names, of its type, and leaves values from
which the rest leads on), the rows could have been made from `w` (`RowsFit`),
and an open dialog shows the value of its row (`DialogFits`). The values are
`Neat`: writing what was read gives it back, which for a multi-string takes
`InitialAssumption`. Another program may have stored one that does not end; undo
of a change then would not give back the very same bytes.

### Backups

For `DeletedKeys` the invariant `IInv` adds two facts to types and
`NothingIsLost`. `Commands`: a command in progress has the backup key made for
the key its path names, and once the top key was copied the copy is as the key
is, unless a write in between put the key into `raced`. `Current`: `last` is
what the registry holds. With them the only step that takes a key is safe: by
`ParentAndNameFindTheKey` it is the key of `Commands`, whose copy is its last
data. Every lemma about an action also concludes `Grows` (no copy changes), of
which `BackupsSurvive` is a consequence and from which `NothingIsLost` follows
for all the steps that take no key.

### Folds and recursive functions

The library's induction theorems cannot be instantiated here, but what a
recursion computes along a sequence can be proved all the same: the definition
is expanded once, that it has a value comes from a witness which the invariant
carries (the partial results above), and that the value is unique from the
least number at which two would differ.

### Only model-checked

Only `RefreshReturns`, because liveness is out of the prover's reach. Each of the
other properties of the passing runs is stated by one of the theorems above; the
properties of the four runs that find a violation do not hold.

## 5. Not modelled, and what is left to do

Next, in this order:

1. The selected row of the list: `Update` selects the same index again,
   `FindItem` a prefix of the new name, and the commands act on that row.
2. `OnViewKeys` on the key rows of `KeyTree`, and the tree of the real
   `\REGISTRY` root.

Left out for good: the vendored hex control, icons and window layout, text
formatting for display, the details providers and `DynamicDataSource` (no code
uses them), and the message loop, whose only contribution is that handlers do
not overlap.

Of the lines of C++ in the repository nine tenths are declarations of the
native API (`phnt/*.h`, over 32,000 lines), vendored headers without any code
to model; of their functions the program calls `NtOpenKey`, `NtQueryKey` and
`NtRenameKey`, which appear here as external. The program itself has about
3,400 lines, a large part of them message maps, menus, layout and display
text. The share of the repository that the models cover is therefore small by
count and cannot grow much: what keeps state and is not modelled is the list
above.
