--------------------------- MODULE KeysAndValues ----------------------------
(***************************************************************************)
(* Keys and values in one editor: the commands that create and rename keys *)
(* and those that create and change values share the two stacks, and all   *)
(* of them name a key by the _full of its node, while the dialogs read     *)
(* through the node's handle.  Every key has at most one value here;       *)
(* ValueEditor.tla has the values of one key in full, and KeyTree.tla has  *)
(* Refresh, which changes neither keys nor values.                         *)
(***************************************************************************)
EXTENDS KeyTree

CONSTANTS Data,         \* what the user types into a value
          NoValue,      \* the data of a key that has no value
          InitialData   \* the value of each key at first

ASSUME DataAssumption ==
  /\ NoValue \notin Data
  /\ InitialData \in [InitialKeys -> Data \union {NoValue}]

VARIABLES data,         \* the value of each key
          overwrote     \* New Value has written over a value

both == <<vars, data, overwrote>>

ValueCommand == [op : {"new", "change"}, path : Path, value : Data]

IsValueCommand(c) == c.op \in {"new", "change"}

InitBoth == Init /\ data = InitialData /\ overwrote = FALSE

-----------------------------------------------------------------------------
(* Key commands: a new key has no value, a rename takes the values along.  *)

Renaming(p, q) == [x \in reg' |-> data[Rebase(q, p, x)]]

KeepData == data' = [x \in reg' |-> IF x \in reg THEN data[x] ELSE NoValue]

DataAfter(c) ==
  /\ IF c.op = "rename" /\ reg' # reg
       THEN data' = Renaming(c.path, Append(Front(c.path), c.name))
       ELSE KeepData
  /\ UNCHANGED overwrote

NewKey(x)    == OnNewKey(x) /\ KeepData /\ UNCHANGED overwrote
RenameKeyTo(x) ==
  OnEndRename(x) /\ DataAfter([op |-> "rename", path |-> ui.tree[ui.sel].full, name |-> x])

-----------------------------------------------------------------------------
(* Value commands: the data afterwards and the command afterwards.  A path *)
(* at which there is no key, or no value to change, and the registry can   *)
(* refuse; a command at the hive dereferences a null root.                 *)

Result(d, c, u, ok) == [data |-> d, cmd |-> c, ui |-> u, ok |-> ok]

Fails(c) == {Result(data, c, ui, FALSE)}

CreateValue(c) ==
  IF c.path \notin reg THEN Fails(c)
  ELSE Fails(c) \union {Result([data EXCEPT ![c.path] = c.value], c, UpdateIfSame(reg, ui, NoNode), TRUE)}

DeleteValue(c) ==
  IF c.path \notin reg \/ data[c.path] = NoValue THEN Fails(c)
  ELSE Fails(c) \union {Result([data EXCEPT ![c.path] = NoValue], c, UpdateIfSame(reg, ui, NoNode), TRUE)}

ChangeValue_NoSwap(c) ==                \* variant: the old data is not kept
  IF c.path \notin reg \/ data[c.path] = NoValue THEN Fails(c)
  ELSE Fails(c) \union {Result([data EXCEPT ![c.path] = c.value], c, ui, TRUE)}

ChangeValue_Unread(c) ==                \* variant: that the old data was read is not checked
  IF c.path \notin reg THEN Fails(c)
  ELSE Fails(c) \union {Result([data EXCEPT ![c.path] = c.value],
                               [c EXCEPT !.value = data[c.path]], ui, TRUE)}

ChangeValue(c) ==
  IF c.path \notin reg \/ data[c.path] = NoValue THEN Fails(c)
  ELSE Fails(c) \union {Result([data EXCEPT ![c.path] = c.value],
                               [c EXCEPT !.value = data[c.path]], ui, TRUE)}

AtKey(c, results) == IF c.path = <<>> THEN {Result(data, c, Stop(ui, "noRoot"), FALSE)} ELSE results

ExecuteValue(c) == AtKey(c, IF c.op = "new" THEN CreateValue(c) ELSE ChangeValue(c))
UndoValue(c)    == AtKey(c, IF c.op = "new" THEN DeleteValue(c) ELSE ChangeValue(c))

AddValueCommand_KeepsRedo(c) ==         \* variant: a new command leaves the redo stack alone
  /\ Len(undoList) < MaxCommands
  /\ \E o \in ExecuteValue(c) :
       /\ data' = o.data /\ ui' = UpdateUI(allowModify, o.ui)
       /\ overwrote' = (overwrote \/ (o.ok /\ c.op = "new" /\ data[c.path] # NoValue))
       /\ undoList' = IF o.ok THEN Append(undoList, o.cmd) ELSE undoList
  /\ UNCHANGED <<reg, redoList, allowModify, refresh, changes>>

AddValueCommand(c) ==
  /\ Len(undoList) < MaxCommands
  /\ \E o \in ExecuteValue(c) :
       /\ data' = o.data /\ ui' = UpdateUI(allowModify, o.ui)
       /\ overwrote' = (overwrote \/ (o.ok /\ c.op = "new" /\ data[c.path] # NoValue))
       /\ IF o.ok THEN undoList' = Append(undoList, o.cmd) /\ redoList' = <<>>
                  ELSE UNCHANGED lists
  /\ UNCHANGED <<reg, allowModify, refresh, changes>>

(* The key whose values the list shows.                                    *)
Shown == ui.tree[ui.cur].at

(* HandleNewIntValue, by a user who sees no value of the name.             *)
NewValue(d) ==
  /\ AtRest /\ allowModify /\ data[Shown] = NoValue
  /\ AddValueCommand([op |-> "new", path |-> ui.tree[ui.cur].full, value |-> d])

(* OnModifyValue: the value is read through the handle of the shown node,  *)
(* and written, if the user changed it, by the node's _full.               *)
ModifyValue(d) ==
  /\ AtRest /\ allowModify /\ data[Shown] \notin {NoValue, d}
  /\ AddValueCommand([op |-> "change", path |-> ui.tree[ui.cur].full, value |-> d])

-----------------------------------------------------------------------------
(* Undo and Redo, whichever kind of command comes next.                    *)

RerunValue(by, results) ==
  /\ \E o \in results :
       /\ data' = o.data
       /\ ui' = UpdateUI(allowModify, UpdateIfSame(reg, o.ui, o.ui.sel))
       /\ \/ ~o.ok /\ UNCHANGED lists
          \/ o.ok /\ by = "undo" /\ undoList' = Front(undoList) /\ redoList' = Append(redoList, o.cmd)
          \/ o.ok /\ by = "redo" /\ undoList' = Append(undoList, o.cmd) /\ redoList' = Front(redoList)
  /\ UNCHANGED <<reg, allowModify, refresh, changes, overwrote>>

UndoAny ==
  /\ AtRest /\ undoList # <<>>
  /\ LET c == Last(undoList)
     IN  IF IsValueCommand(c)
           THEN RerunValue("undo", UndoValue(c))
           ELSE OnEditUndo /\ DataAfter(c)

RedoAny ==
  /\ AtRest /\ redoList # <<>>
  /\ LET c == Last(redoList)
     IN  IF IsValueCommand(c)
           THEN RerunValue("redo", ExecuteValue(c))
           ELSE OnEditRedo /\ DataAfter(c)

(* Keys are edited in place (NextInPlace of KeyTree.tla).                  *)
NextBoth ==
  \/ Look /\ UNCHANGED <<data, overwrote>>
  \/ NamesItself /\ \E x \in Name \ {DeletedKey} : NewKey(x) \/ RenameKeyTo(x)
  \/ \E d \in Data : NewValue(d) \/ ModifyValue(d)
  \/ UndoAny
  \/ RedoAny

SpecBoth == InitBoth /\ [][NextBoth]_both

-----------------------------------------------------------------------------
(* Every variable keeps its type; a command to undo or redo has data.      *)
TypesOK ==
  /\ reg \subseteq Path /\ IsUI(ui)
  /\ data \in [reg -> Data \union {NoValue}]
  /\ overwrote \in BOOLEAN
  /\ Range(undoList) \union Range(redoList) \subseteq Command \union ValueCommand

(* The values d once the key p is called q.                                *)
DataMoved(p, q, d) == [x \in {Rebase(p, q, y) : y \in DOMAIN d} |-> d[Rebase(q, p, x)]]

(* What one command makes of keys and values s, by its names alone; ok is  *)
(* FALSE once a command cannot be applied.                                 *)
Runs(s, c, undo) ==
  LET target == IF c.op = "rename" THEN Append(Front(c.path), c.name) ELSE Append(c.path, c.name)
  IN  CASE c.op = "rename" ->
             IF c.path \in DOMAIN s.data /\ target \notin DOMAIN s.data
               THEN [s EXCEPT !.data = DataMoved(c.path, target, @)]
               ELSE [s EXCEPT !.ok = FALSE]
        [] c.op = "create" /\ undo ->
             IF target \in DOMAIN s.data /\ SubKeys(DOMAIN s.data, target) = {}
               THEN [s EXCEPT !.data = [x \in DOMAIN @ \ {target} |-> s.data[x]]]
               ELSE [s EXCEPT !.ok = FALSE]
        [] c.op = "create" /\ ~undo ->
             IF c.path \in DOMAIN s.data /\ target \notin DOMAIN s.data
               THEN [s EXCEPT !.data = [x \in DOMAIN @ \union {target} |->
                                          IF x = target THEN NoValue ELSE s.data[x]]]
               ELSE [s EXCEPT !.ok = FALSE]
        [] IsValueCommand(c) ->
             IF c.path \in DOMAIN s.data /\ (s.data[c.path] = NoValue <=> c.op = "new" /\ ~undo)
               THEN [s EXCEPT !.data[c.path] = IF c.op = "new" /\ undo THEN NoValue ELSE c.value]
               ELSE [s EXCEPT !.ok = FALSE]

(* What the commands of a stack make of the keys and values there are, run *)
(* one after the other, the last one first, until one cannot be applied.   *)
RunNext(s, c, undo) == IF s.ok THEN Runs(s, c, undo) ELSE s

RunsAll(commands, undo) ==
  FoldLeft(LAMBDA s, c : RunNext(s, c, undo), [data |-> data, ok |-> TRUE], Reverse(commands))

(* Undo can be pressed until the stack is empty, each time with success if *)
(* the registry allows it, and then every key has its first name and every *)
(* value its first data: although keys were renamed under the paths that   *)
(* the commands hold, and values were written to other keys than the one   *)
(* shown.  Only New Value over a value that is there breaks it.            *)
UndoReachesStart ==
  Running /\ ~overwrote => RunsAll(undoList, TRUE) = [data |-> InitialData, ok |-> TRUE]

(* And Redo until everything undone is done again.                         *)
RedoReachesEnd == Running /\ ~overwrote => RunsAll(redoList, FALSE).ok

(* While no rename is in effect, what the user enters goes to the key the  *)
(* list shows and to no other, whatever was renamed and undone, created    *)
(* and expanded before: the handle that is read and the path that is       *)
(* written name the same key.                                              *)
InEffect == \E i \in DOMAIN undoList : undoList[i].op = "rename"

EntryGoesToShownKey ==
  [][\A d \in Data : ~InEffect /\ (NewValue(d) \/ ModifyValue(d)) /\ data' # data =>
       data' = [data EXCEPT ![Shown] = d]]_both
=============================================================================
