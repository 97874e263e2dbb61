---------------------------- MODULE ValueEditor ----------------------------
(***************************************************************************)
(* The value side of the editor for one key: its values in the registry,   *)
(* the rows of the list view, the dialogs of CView, the three value        *)
(* commands and the command stacks, and other processes that write and     *)
(* delete values of the key.                                               *)
(*                                                                         *)
(* A handler is one step, except where the program reads and writes the    *)
(* registry in separate calls that other processes can come between: a     *)
(* modal dialog, and RegistryManager::RenameValue.                         *)
(***************************************************************************)
EXTENDS IntText

CONSTANTS Name,           \* value names
          Default,        \* the empty name
          KeyName,        \* the names in Name that are subkeys too
          InitialValues,  \* the values the key starts with
          Entered,        \* the values the user types and other processes write
          Beyond,         \* what may lie in memory behind the text of a dialog
          None,           \* no dialog, no rename
          MaxCommands,    \* bound: the most commands on the undo stack
          MaxChanges      \* bound: how often another process writes or deletes

IntType  == {"dword", "qword"}
TextType == {"sz", "expand"}
RegType  == IntType \union TextType \union {"multi", "binary"}

(* The data of an integer is the sequence of that one number; the data of  *)
(* a text or of a binary value is the sequence of its units.  In a         *)
(* multi-string 0 is the character that ends each string and the list; in  *)
(* the text of its dialog it is the end of a line.                         *)
IsData(type, data) ==
  /\ data \in Seq(Nat)
  /\ type \in IntType => Len(data) = 1 /\ data[1] <= MaxInt

Value == {v \in [type : RegType, data : Seq(Nat)] : IsData(v.type, v.data)}

(* The values a key can have: a REG_DWORD has DwordBits bits.              *)
KeyValue == {v \in Value : v.type = "dword" => v.data[1] < 2 ^ DwordBits}

IsKeyValues(w) == DOMAIN w \subseteq Name /\ \A n \in DOMAIN w : w[n] \in KeyValue

ASSUME ValuesAssumption ==
  /\ Default \in Name /\ KeyName \subseteq Name
  /\ IsKeyValues(InitialValues) /\ IsFiniteSet(DOMAIN InitialValues)
  /\ Entered \subseteq Value
  /\ Beyond \subseteq Seq(Nat)
ASSUME BoundsAssumption == MaxCommands \in Nat /\ MaxChanges \in Nat

VARIABLES vals,         \* the values of the key: a function from their names
          rows,         \* CView::m_Items: key rows and value rows
          undoList, redoList,
          allowModify,  \* CMainFrame::m_AllowModify
          dialog,       \* the value dialog that is open, or None
          call,         \* the RenameValue that is in progress, or None
          changes       \* how often another process has changed the values

vars == <<vals, rows, undoList, redoList, allowModify, dialog, call, changes>>
lists == <<undoList, redoList>>

(* A row of the list: ValueName, ValueType and ValueSize.  The row of a    *)
(* key, such as "..", has an empty ValueName.                              *)
Row == [name : Name, type : RegType \union {"key"}, size : Nat]

Command ==
  {c \in [op : {"create", "change"}, name : Name, type : RegType, data : Seq(Nat)] :
     IsData(c.type, c.data)}
    \union {c \in [op : {"rename"}, name : Name, new : Name] : c.name # c.new}

Rename == {c \in Command : c.op = "rename"}

Dialog == {d \in [row : Nat, name : Name, type : RegType, shown : Seq(Nat)] :
             IsData(d.type, d.shown)}

Call == [by : {"edit", "undo", "redo"}, row : Nat, cmd : Rename,
         read : KeyValue, wrote : BOOLEAN]

ASSUME NoneAssumption == None \notin Dialog \union Call

AtRest == dialog = None /\ call = None

-----------------------------------------------------------------------------
(* Values.                                                                 *)

SizeOf(v) == IF v.type \in IntType THEN 1 ELSE Len(v.data)

(* SetMultiStringValue: the strings of s up to the first one that is empty. *)
EmptyAt(s, i) == s[i] = 0 /\ (i = 1 \/ s[i - 1] = 0)

MultiString(s) ==
  SubSeq(s, 1, Cardinality({k \in DOMAIN s : \A j \in 1 .. k - 1 : ~EmptyAt(s, j)}))

(* SetDWORDValue keeps 32 bits of a number; a list of strings is ended by  *)
(* the terminator of the CString and the character behind it.              *)
Stored_Untruncated(type, data) == [type |-> type, data |-> data]    \* variant: no cast

Stored(type, data) ==
  [type |-> type,
   data |-> CASE type = "dword" -> <<ToDword(data[1])>>
              [] type = "multi" -> MultiString(data \o <<0, 0>>)
              [] OTHER -> data]

(* Behind a text of one line that has never had an end of line, the loop   *)
(* of SetMultiStringValue reads what happens to be in memory.              *)
Writable(type, data) ==
  IF type = "multi" /\ data # <<>> /\ 0 \notin Range(data)
    THEN {[type |-> type, data |-> MultiString(data \o <<0>> \o m \o <<0, 0>>)] : m \in Beyond}
    ELSE {Stored(type, data)}

(* The key's values at first are as this program writes them, so that its  *)
(* multi-strings end where Windows says they do.                           *)
ASSUME InitialAssumption ==
  InitialValues = [n \in DOMAIN InitialValues |->
                     Stored(InitialValues[n].type, InitialValues[n].data)]

(* QueryDWORDValue, QueryQWORDValue, QueryBinaryValue and                  *)
(* QueryMultiStringValue want their type, QueryStringValue either kind of  *)
(* text.                                                                   *)
CanQuery(n, type) ==
  /\ n \in DOMAIN vals
  /\ vals[n].type \in (IF type \in TextType THEN TextType ELSE {type})

Written(n, v) == [x \in DOMAIN vals \union {n} |-> IF x = n THEN v ELSE vals[x]]

Without(n) == [x \in DOMAIN vals \ {n} |-> vals[x]]

-----------------------------------------------------------------------------
(* CView::Update.                                                          *)

KeyRow == [name |-> Default, type |-> "key", size |-> 0]

RowOf(n, v) == [name |-> n, type |-> v.type, size |-> SizeOf(v)]

(* The lists Update may make of values w: the registry enumerates in any   *)
(* order, and a row for the default value is added when it does not come   *)
(* first.  For a key without values the row's type is never set, or that   *)
(* of the added row.                                                       *)
Listings_FromOne(w) ==                  \* variant: the enumeration starts at index 1
  IF DOMAIN w = {} THEN {<<KeyRow, [name |-> Default, type |-> t, size |-> 0]>> : t \in RegType}
  ELSE {<<KeyRow, [name |-> Default, type |-> "sz", size |-> 0]>>
          \o [i \in 1 .. Len(e) - 1 |-> RowOf(e[i + 1], w[e[i + 1]])] :
        e \in SetToSeqs(DOMAIN w)}

Listings(w) ==
  IF DOMAIN w = {} THEN {<<KeyRow, [name |-> Default, type |-> t, size |-> 0]>> : t \in RegType}
  ELSE {<<KeyRow>>
          \o (IF e[1] = Default THEN <<>> ELSE <<[name |-> Default, type |-> "sz", size |-> 0]>>)
          \o [i \in DOMAIN e |-> RowOf(e[i], w[e[i]])] :
        e \in SetToSeqs(DOMAIN w)}

Init ==
  /\ vals = InitialValues
  /\ rows \in Listings(InitialValues)
  /\ undoList = <<>> /\ redoList = <<>>
  /\ allowModify = FALSE
  /\ dialog = None /\ call = None /\ changes = 0

-----------------------------------------------------------------------------
(* The commands.  What Execute and Undo may do: the values afterwards, the *)
(* command afterwards, and whether it worked; the registry may refuse.     *)

Outcome(w, c, ok) == [vals |-> w, cmd |-> c, ok |-> ok]

Refused(c) == Outcome(vals, c, FALSE)

(* RegistryManager::CreateValue writes whether or not the value exists.    *)
CreateValue(c) == {Refused(c), Outcome(Written(c.name, Stored(c.type, c.data)), c, TRUE)}

DeleteValue(c) ==
  {Refused(c)} \union
    (IF c.name \in DOMAIN vals THEN {Outcome(Without(c.name), c, TRUE)} ELSE {})

(* ChangeValueCommand::ChangeValue: the command keeps the data it replaced. *)
ChangeValue_NoSwap(c) ==                \* variant: the old data is not kept
  {Refused(c)} \union
    (IF CanQuery(c.name, c.type)
       THEN {Outcome(Written(c.name, v), c, TRUE) : v \in Writable(c.type, c.data)} ELSE {})

ChangeValue(c) ==
  {Refused(c)} \union
    (IF CanQuery(c.name, c.type)
       THEN {Outcome(Written(c.name, v), [c EXCEPT !.data = vals[c.name].data], TRUE) :
               v \in Writable(c.type, c.data)} ELSE {})

Execute(c) == IF c.op = "create" THEN CreateValue(c) ELSE ChangeValue(c)

UndoCommand(c) == IF c.op = "create" THEN DeleteValue(c) ELSE ChangeValue(c)

(* The stacks after a new command, an undo or a redo that worked.          *)
Recorded_KeepsRedo(by, c) ==            \* variant: a new command leaves the redo stack alone
  \/ by = "edit" /\ undoList' = Append(undoList, c) /\ UNCHANGED redoList
  \/ by = "undo" /\ undoList' = Front(undoList) /\ redoList' = Append(redoList, c)
  \/ by = "redo" /\ undoList' = Append(undoList, c) /\ redoList' = Front(redoList)

Recorded_NoPop(by, c) ==                \* variant: an undone command stays on the undo stack
  \/ by = "edit" /\ undoList' = Append(undoList, c) /\ redoList' = <<>>
  \/ by = "undo" /\ redoList' = Append(redoList, c) /\ UNCHANGED undoList
  \/ by = "redo" /\ undoList' = Append(undoList, c) /\ redoList' = Front(redoList)

Recorded(by, c) ==
  \/ by = "edit" /\ undoList' = Append(undoList, c) /\ redoList' = <<>>
  \/ by = "undo" /\ undoList' = Front(undoList) /\ redoList' = Append(redoList, c)
  \/ by = "redo" /\ undoList' = Append(undoList, c) /\ redoList' = Front(redoList)

-----------------------------------------------------------------------------
(* Creating and changing values.                                           *)

(* HandleNewIntValue: FindChild looks among the subkeys.                   *)
HandleNewIntValue(n, v) ==
  /\ AtRest /\ allowModify /\ Len(undoList) < MaxCommands
  /\ v.type \in IntType /\ n # Default /\ n \notin KeyName
  /\ \E o \in Execute([op |-> "create", name |-> n, type |-> v.type, data |-> v.data]) :
       /\ vals' = o.vals
       /\ IF o.ok THEN Recorded("edit", o.cmd) /\ rows' \in Listings(o.vals)
                  ELSE UNCHANGED <<lists, rows>>
  /\ UNCHANGED <<allowModify, dialog, call, changes>>

(* The values OnModifyValue can read into the buffer it sizes by the row;  *)
(* QueryMultiStringValue wants room for the two zeros of an empty list.    *)
FitsRow(row) ==
  LET size == SizeOf(vals[row.name])
  IN  /\ row.type \in {"binary", "multi"} => size <= row.size
      /\ row.type = "multi" => row.size >= 2

(* What a dialog shows: all but the last zero of a multi-string as ends of *)
(* lines, binary data filled up to the size the row remembers.             *)
Shown_FirstString(row, data) ==         \* variant: the zeros are not replaced
  CASE row.type = "multi"  ->
         SubSeq(data, 1, Cardinality({k \in DOMAIN data : \A j \in 1 .. k : data[j] # 0}))
    [] row.type = "binary" -> data \o [k \in 1 .. row.size - Len(data) |-> 0]
    [] OTHER               -> data

Shown(row, data) ==
  CASE row.type = "multi"  -> SubSeq(data, 1, Len(data) - 1)
    [] row.type = "binary" -> data \o [k \in 1 .. row.size - Len(data) |-> 0]
    [] OTHER               -> data

(* OnModifyValue up to DoModal: the value is read with the type and, if it *)
(* is binary or a multi-string, the size that the row remembers.           *)
OnModifyValue(i) ==
  LET row == rows[i]
  IN  /\ AtRest /\ row.type # "key" /\ CanQuery(row.name, row.type) /\ FitsRow(row)
      /\ dialog' = [row |-> i, name |-> row.name, type |-> row.type,
                     shown |-> Shown(row, vals[row.name].data)]
      /\ UNCHANGED <<vals, rows, lists, allowModify, call, changes>>

(* What the dialog may deliver.  In read-only mode the text cannot be      *)
(* edited, but the radix of an integer can be switched.                    *)
Delivered ==
  IF allowModify THEN {v.data : v \in {x \in Entered : x.type = dialog.type}} \union {dialog.shown}
  ELSE IF dialog.type \in IntType THEN {<<v>> : v \in Rereadings(dialog.shown[1])}
  ELSE {dialog.shown}

CancelDialog ==
  /\ dialog # None /\ dialog' = None
  /\ UNCHANGED <<vals, rows, lists, allowModify, call, changes>>

(* TrimLeft("\r\n"): the empty lines at the top go.                        *)
Trimmed(s) ==
  SubSeq(s, Cardinality({k \in DOMAIN s : \A j \in 1 .. k : s[j] = 0}) + 1, Len(s))

(* The size the row gets: of a multi-string that of the text, in which an  *)
(* end of line counts twice.                                               *)
NewSize(type, data) ==
  IF type = "multi" THEN 1 + Len(data) + Cardinality({k \in DOMAIN data : data[k] = 0})
  ELSE Len(data)

(* OnModifyValue after DoModal gave IDOK, which outside the binary dialog  *)
(* needs a name and a text; a number or a text that was not changed makes  *)
(* no command.                                                             *)
CloseDialog(data) ==
  /\ dialog # None /\ Len(undoList) < MaxCommands
  /\ dialog.type # "binary" => dialog.name # Default /\ data # <<>>
  /\ dialog.type \in IntType \union TextType => data # dialog.shown
  /\ \E o \in Execute([op |-> "change", name |-> dialog.name, type |-> dialog.type,
                        data |-> IF dialog.type = "multi" THEN Trimmed(data) ELSE data]) :
       /\ vals' = o.vals
       /\ IF o.ok
            THEN /\ Recorded("edit", o.cmd)
                 /\ rows' = IF dialog.type \in IntType THEN rows
                            ELSE [rows EXCEPT ![dialog.row].size = NewSize(dialog.type, data)]
            ELSE UNCHANGED <<lists, rows>>
  /\ dialog' = None
  /\ UNCHANGED <<allowModify, call, changes>>

-----------------------------------------------------------------------------
(* Renaming a value: RegistryManager::RenameValue reads the old value,     *)
(* writes the new one and deletes the old one.                             *)

(* The end of the command and of the handler that ran it: OnEndRename      *)
(* renames its row, Undo and Redo update the list.                         *)
FinishRename(k, ok) ==
  /\ call' = None
  /\ IF ok THEN Recorded(k.by, [k.cmd EXCEPT !.name = k.cmd.new, !.new = k.cmd.name])
           ELSE UNCHANGED lists
  /\ IF k.by # "edit" THEN rows' \in Listings(vals')
     ELSE rows' = IF ok THEN [rows EXCEPT ![k.row].name = k.cmd.new] ELSE rows

StartRename(by, row, c) ==
  LET k == [by |-> by, row |-> row, cmd |-> c, wrote |-> FALSE]
  IN  /\ UNCHANGED <<vals, allowModify, dialog, changes>>
      /\ \/ /\ c.name \in DOMAIN vals
            /\ call' = [by |-> by, row |-> row, cmd |-> c, read |-> vals[c.name], wrote |-> FALSE]
            /\ UNCHANGED <<rows, lists>>
         \/ FinishRename(k, FALSE)

(* OnEndRename, also on the row of a key: its ValueName is empty.          *)
OnEndRename(i, x) ==
  /\ AtRest /\ allowModify /\ Len(undoList) < MaxCommands
  /\ x # rows[i].name
  /\ StartRename("edit", i, [op |-> "rename", name |-> rows[i].name, new |-> x])

RenameStep_DeleteFirst ==               \* variant: the old value goes before the new one is there
  /\ call # None
  /\ \/ /\ ~call.wrote /\ call.cmd.name \in DOMAIN vals
        /\ vals' = Without(call.cmd.name)
        /\ call' = [call EXCEPT !.wrote = TRUE]
        /\ UNCHANGED <<rows, lists>>
     \/ /\ call.wrote
        /\ vals' = Written(call.cmd.new, call.read)
        /\ FinishRename(call, TRUE)
     \/ UNCHANGED vals /\ FinishRename(call, FALSE)
  /\ UNCHANGED <<allowModify, dialog, changes>>

RenameStep ==
  /\ call # None
  /\ \/ /\ ~call.wrote
        /\ vals' = Written(call.cmd.new, call.read)
        /\ call' = [call EXCEPT !.wrote = TRUE]
        /\ UNCHANGED <<rows, lists>>
     \/ /\ call.wrote /\ call.cmd.name \in DOMAIN vals
        /\ vals' = Without(call.cmd.name)
        /\ FinishRename(call, TRUE)
     \/ UNCHANGED vals /\ FinishRename(call, FALSE)
  /\ UNCHANGED <<allowModify, dialog, changes>>

-----------------------------------------------------------------------------
(* Undo, Redo, Refresh and the mode.                                       *)

Rerun(by, c, outcomes) ==
  IF c.op = "rename" THEN StartRename(by, 0, c)
  ELSE /\ \E o \in outcomes :
            /\ vals' = o.vals
            /\ IF o.ok THEN Recorded(by, o.cmd) ELSE UNCHANGED lists
       /\ rows' \in Listings(vals')
       /\ UNCHANGED <<allowModify, dialog, call, changes>>

OnEditUndo == /\ AtRest /\ undoList # <<>>
              /\ LET c == Last(undoList) IN Rerun("undo", c, UndoCommand(c))

OnEditRedo == /\ AtRest /\ redoList # <<>>
              /\ LET c == Last(redoList) IN Rerun("redo", c, Execute(c))

(* OnRefresh and OnViewKeys: the list is made anew.                        *)
OnRefresh == /\ AtRest /\ rows' \in Listings(vals)
             /\ UNCHANGED <<vals, lists, allowModify, dialog, call, changes>>

OnEditModify == /\ AtRest /\ allowModify' = ~allowModify
                /\ UNCHANGED <<vals, rows, lists, dialog, call, changes>>

(* Another process, between any two calls of this one.                     *)
Other(w) == /\ changes < MaxChanges /\ changes' = changes + 1
            /\ vals' = w /\ vals' # vals
            /\ UNCHANGED <<rows, lists, allowModify, dialog, call>>

-----------------------------------------------------------------------------
(* A careful user, who looks at the list, gives no name that is in it and  *)
(* renames named values only; and the registry deletes the old value after *)
(* it has written the new one.                                             *)
Fresh(x) == \A i \in DOMAIN rows : rows[i].name # x

Edit == \/ \E i \in DOMAIN rows : OnModifyValue(i)
        \/ CancelDialog
        \/ dialog # None /\ \E data \in Delivered : CloseDialog(data)
        \/ OnEditUndo
        \/ OnEditRedo
        \/ OnRefresh
        \/ OnEditModify

NextCareful ==
  \/ Edit
  \/ RenameStep /\ (call.wrote => vals' # vals)
  \/ \E n \in Name, v \in Entered : Fresh(n) /\ HandleNewIntValue(n, v)
  \/ \E i \in DOMAIN rows, x \in Name : rows[i].name # Default /\ Fresh(x) /\ OnEndRename(i, x)

NextAlone ==
  \/ Edit
  \/ RenameStep
  \/ \E n \in Name, v \in Entered : HandleNewIntValue(n, v)
  \/ \E i \in DOMAIN rows, x \in Name : OnEndRename(i, x)

Next ==
  \/ NextAlone
  \/ \E n \in Name, v \in Entered : Other(Written(n, Stored(v.type, v.data)))
  \/ \E n \in DOMAIN vals : Other(Without(n))

SpecCareful == Init /\ [][NextCareful]_vars
SpecAlone   == Init /\ [][NextAlone]_vars
Spec        == Init /\ [][Next]_vars
=============================================================================
