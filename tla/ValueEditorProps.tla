-------------------------- MODULE ValueEditorProps --------------------------
(***************************************************************************)
(* What is checked of ValueEditor.tla.                                     *)
(***************************************************************************)
EXTENDS ValueEditor

(* Every variable keeps its type, and a REG_DWORD in the registry its 32   *)
(* bits, although the commands carry ULONGLONGs.                           *)
TypeOK ==
  /\ IsKeyValues(vals)
  /\ rows \in Seq(Row)
  /\ undoList \in Seq(Command) /\ redoList \in Seq(Command)
  /\ allowModify \in BOOLEAN /\ changes \in Nat
  /\ dialog = None \/ dialog \in Dialog
  /\ call = None \/ call \in Call

-----------------------------------------------------------------------------
(* Whatever other processes do.                                            *)

(* A value command is the same object while its data or its two names are  *)
(* swapped: what never changes of it identifies it.                        *)
Identity(c) ==
  CASE c.op = "create" -> c
    [] c.op = "change" -> [op |-> "change", name |-> c.name, type |-> c.type]
    [] c.op = "rename" -> [op |-> "rename", names |-> {c.name, c.new}]

IdentityOf(s) == [i \in DOMAIN s |-> Identity(s[i])]

Identities ==
  {[op |-> "create", name |-> n, type |-> v.type, data |-> v.data] : n \in Name, v \in Entered}
    \union [op : {"change"}, name : Name, type : RegType]
    \union [op : {"rename"}, names : {{n, x} : n, x \in Name}]

Stacks == INSTANCE CommandManager
  WITH Command <- Identities, undoList <- IdentityOf(undoList), redoList <- IdentityOf(redoList)

(* The value commands use the stacks as CommandManager.tla says, also when *)
(* other processes come between the two halves of a rename.                *)
UsesCommandManager == Stacks!Spec

-----------------------------------------------------------------------------
(* With no other process on the key.                                       *)

(* The value that is being renamed is never lost: after every step of      *)
(* RenameValue, the last and a failed one included, it can be read under   *)
(* its old or its new name, as it was when the rename began.               *)
RenameKeepsValue ==
  [][call # None =>
       \E n \in {call.cmd.name, call.cmd.new} : n \in DOMAIN vals' /\ vals'[n] = call.read]_vars

-----------------------------------------------------------------------------
(* With no other process and a user who gives no name that is taken.       *)

Undone(w, c) ==
  CASE c.op = "create" -> [n \in DOMAIN w \ {c.name} |-> w[n]]
    [] c.op = "change" -> [n \in DOMAIN w \union {c.name} |->
                             IF n = c.name THEN [type |-> c.type, data |-> c.data] ELSE w[n]]
    [] c.op = "rename" -> [n \in (DOMAIN w \ {c.name}) \union {c.new} |->
                             IF n = c.new /\ c.name \in DOMAIN w THEN w[c.name] ELSE w[n]]

TakenBack(w, commands) ==
  LET before[n \in 0 .. Len(commands)] ==
        IF n = 0 THEN w ELSE Undone(before[n - 1], commands[Len(commands) + 1 - n])
  IN  before[Len(commands)]

(* Undoing every command on the stack gives back the values the key had at *)
(* first, whatever was undone and redone before: each change command holds *)
(* the data that undoing it must write, across renames of its value.       *)
UndoGivesValuesBack == call = None => TakenBack(vals, undoList) = InitialValues

(* The commands at the ends of the stacks can be applied: the value to     *)
(* delete, to change or to rename is there with the type the command says, *)
(* and the name to create or to rename to is free.                         *)
NextUndoRedoApply ==
  LET Applies(c, isUndo) ==
        CASE c.op = "create" -> (c.name \in DOMAIN vals) = isUndo
          [] c.op = "change" -> c.name \in DOMAIN vals /\ vals[c.name].type = c.type
          [] c.op = "rename" -> c.name \in DOMAIN vals /\ c.new \notin DOMAIN vals
  IN  call = None => /\ undoList # <<>> => Applies(Last(undoList), TRUE)
                     /\ redoList # <<>> => Applies(Last(redoList), FALSE)

(* The list agrees with the registry after every handler, although a       *)
(* change and a rename only patch one row: each value has one row with its *)
(* type and size (of a multi-string, its type), the default value besides  *)
(* the one Update may add for it.                                          *)
Describes(row, n) ==
  \/ row = RowOf(n, vals[n])
  \/ row.name = n /\ row.type = "multi" /\ vals[n].type = "multi"

RowsShowValues ==
  call = None =>
    /\ \A n \in DOMAIN vals : \E i \in DOMAIN rows : Describes(rows[i], n)
    /\ \A i, k \in DOMAIN rows : rows[i].name = rows[k].name /\ i # k => rows[i].name = Default
    /\ \A i \in DOMAIN rows : rows[i].name # Default => rows[i].name \in DOMAIN vals

(* OK on a dialog that was opened, perhaps edited, and put back as it was  *)
(* changes no value: the conversions of OnModifyValue (zeros to line ends  *)
(* and back, padding to the row's size, the way SetMultiStringValue finds  *)
(* the end) are inverse for every value the handlers can have written.     *)
UntouchedOkKeepsValues ==
  [][dialog # None /\ CloseDialog(dialog.shown) => vals' = vals]_vars

-----------------------------------------------------------------------------
(* What the repository says of itself and the code does not do.            *)

(* View.cpp:601, "Value name already exists": New Value creates no value   *)
(* under a name that is taken.                                             *)
NewValueIsNew ==
  [][\A n \in Name, v \in Entered : (HandleNewIntValue(n, v) /\ n \in DOMAIN vals) => vals' = vals]_vars
=============================================================================
